---------------------------- MODULE SpanDataProofs ----------------------------
(***************************************************************************)
(* Proofs about SpanData: types, nothing recorded is lost or made up, the  *)
(* order of tags, and which times are sent.  The inductive invariants say  *)
(* of every span what the properties say of those that are finished.       *)
(***************************************************************************)
EXTENDS SpanData, TLAPS

SpanRecord ==
  [ kind : Kinds, start : Times, end : Times, peer : Nat, error : BOOLEAN,
    componentId : Nat, tags : Seq(Tags), logs : Seq(Calls) ]

(* What the methods return.                                                *)
LEMMA MethodTypes ==
  ASSUME NEW span \in SpanRecord, NEW now \in Clock
  PROVE  /\ MillisOr(now, span.start) \in Times
         /\ Start(span, now) \in SpanRecord
         /\ End(span, now) \in SpanRecord
         /\ Start(span, now) = [span EXCEPT !.start = MillisOr(now, span.start)]
         /\ End(span, now) = [span EXCEPT !.end = MillisOr(now, span.start)]
<1>1. MillisOr(now, span.start) \in Times
  BY SpanDataAssumption DEF MillisOr, Times, SpanRecord
<1> QED
  BY <1>1 DEF Start, End, SpanRecord

LEMMA SealType ==
  ASSUME NEW span \in SpanRecord, NEW first \in Clock, NEW second \in Clock
  PROVE  Seal(span, first, second) \in SpanRecord
<1>1. End(span, first) \in SpanRecord
  BY MethodTypes
<1> QED
  BY <1>1, MethodTypes DEF Seal

LEMMA NewType ==
  ASSUME NEW kind \in Kinds, NEW peer \in Nat
  PROVE  NewSpan(kind, peer) \in SpanRecord
BY DEF NewSpan, SpanRecord, Times

LEMMA AppendType ==
  ASSUME NEW S, NEW s \in Seq(S), NEW e \in S
  PROVE  Append(s, e) \in Seq(S)
OBVIOUS

LEMMA ConcatType ==
  ASSUME NEW S, NEW s \in Seq(S), NEW t \in Seq(S)
  PROVE  s \o t \in Seq(S)
OBVIOUS

LEMMA InitTypeOK == Init => STypeOK
<1> SUFFICES ASSUME Init PROVE STypeOK
  OBVIOUS
<1>1. data \in [Spans -> SpanRecord]
  BY NewType DEF Init, Kinds
<1> QED
  BY <1>1, SpanDataAssumption DEF Init, STypeOK, Places, SpanRecord

LEMMA NextTypeOK == STypeOK /\ [Next]_vars => STypeOK'
<1> SUFFICES ASSUME STypeOK, [Next]_vars PROVE STypeOK'
  OBVIOUS
<1> DEFINE Rest ==
      /\ place \in [Spans -> Places] /\ calls \in 0..MaxCalls /\ clock \in Clock
      /\ knows \in [Spans -> SUBSET (0..MaxCalls)]
      /\ given \subseteq Spans /\ setBack \subseteq Spans
<1>t. data \in [Spans -> SpanRecord] /\ Rest
  BY DEF STypeOK, SpanRecord
<1> SUFFICES data' \in [Spans -> SpanRecord] /\ Rest'
  BY DEF STypeOK, SpanRecord
<1>0. In("owned") \subseteq Spans
  BY DEF In
<1>1. ASSUME NEW s \in Spans, NEW kind \in Kinds, New(s, kind)
      PROVE  data' \in [Spans -> SpanRecord] /\ Rest'
  <2>1. PICK now \in Clock :
          /\ data' = [data EXCEPT ![s] = Start(NewSpan(kind, IF kind = "exit" THEN 1 ELSE 0), now)]
          /\ Shows(now, now)
    BY <1>1 DEF New
  <2>2. Start(NewSpan(kind, IF kind = "exit" THEN 1 ELSE 0), now) \in SpanRecord
    BY NewType, MethodTypes
  <2>3. data' \in [Spans -> SpanRecord]
    BY <1>t, <2>1, <2>2
  <2> QED
    BY <1>t, <1>0, <1>1, <2>1, <2>3 DEF New, Shows, Goes, Places
<1>2. ASSUME NEW s \in Spans, NEW t \in Spans, CloneBox(s, t)
      PROVE  data' \in [Spans -> SpanRecord] /\ Rest'
  BY <1>t, <1>2 DEF CloneBox, Goes, Places
<1>3. ASSUME NEW s \in Spans, StartAgain(s) \/ EndEarly(s)
      PROVE  data' \in [Spans -> SpanRecord] /\ Rest'
  <2>1. PICK now \in Clock :
          /\ data' = [data EXCEPT ![s] = Start(@, now)] \/ data' = [data EXCEPT ![s] = End(@, now)]
          /\ Shows(now, now)
    BY <1>3 DEF StartAgain, EndEarly
  <2>2. data[s] \in SpanRecord
    BY <1>t
  <2>3. Start(data[s], now) \in SpanRecord /\ End(data[s], now) \in SpanRecord
    BY <2>2, MethodTypes
  <2>4. data' \in [Spans -> SpanRecord]
    BY <1>t, <2>1, <2>3
  <2> QED
    BY <1>t, <1>0, <1>3, <2>1, <2>4 DEF StartAgain, EndEarly, Shows
<1>4. ASSUME NEW s \in Spans, NEW timestamp \in Clock,
             StartWithTimestamp(s, timestamp) \/ EndWithTimestamp(s, timestamp)
      PROVE  data' \in [Spans -> SpanRecord] /\ Rest'
  <2>1. data[s] \in SpanRecord
    BY <1>t
  <2>2. Start(data[s], timestamp) \in SpanRecord /\ End(data[s], timestamp) \in SpanRecord
    BY <2>1, MethodTypes
  <2>3. data' \in [Spans -> SpanRecord]
    BY <1>t, <1>4, <2>2 DEF StartWithTimestamp, EndWithTimestamp
  <2> QED
    BY <1>t, <1>4, <2>3 DEF StartWithTimestamp, EndWithTimestamp, history
<1>5. ASSUME NEW s \in Spans, Record(s)
      PROVE  data' \in [Spans -> SpanRecord] /\ Rest'
  <2>1. calls' \in Calls /\ calls' \in 0..MaxCalls /\ calls' \in Nat
    BY <1>t, <1>5, SpanDataAssumption DEF Record, Calls
  <2>2. data[s] \in SpanRecord
    BY <1>t
  <2>3. data' \in [Spans -> SpanRecord]
    <3>1. CASE \E kind \in TagKinds :
                 data' = [data EXCEPT ![s] = Tag(@, [call |-> calls', by |-> s, kind |-> kind])]
      <4>1. PICK kind \in TagKinds :
              data' = [data EXCEPT ![s] = Tag(@, [call |-> calls', by |-> s, kind |-> kind])]
        BY <3>1
      <4> DEFINE tag == [call |-> calls', by |-> s, kind |-> kind]
      <4>2. tag \in Tags
        BY <2>1 DEF Tags
      <4>3. Append(data[s].tags, tag) \in Seq(Tags)
        BY <2>2, <4>2, AppendType DEF SpanRecord
      <4>4. Tag(data[s], tag) \in SpanRecord
        BY <2>2, <4>3 DEF Tag, SpanRecord
      <4> QED
        BY <1>t, <4>1, <4>4
    <3>2. CASE data' = [data EXCEPT ![s].logs = Append(@, calls')]
      <4>1. Append(data[s].logs, calls') \in Seq(Calls)
        BY <2>1, <2>2, AppendType DEF SpanRecord
      <4>2. [data[s] EXCEPT !.logs = Append(@, calls')] \in SpanRecord
        BY <2>2, <4>1 DEF SpanRecord
      <4> QED
        BY <1>t, <3>2, <4>2
    <3>3. CASE \/ data' = [data EXCEPT ![s].componentId = calls']
               \/ data' = [data EXCEPT ![s].peer = calls']
      <4>1. /\ [data[s] EXCEPT !.componentId = calls'] \in SpanRecord
            /\ [data[s] EXCEPT !.peer = calls'] \in SpanRecord
        BY <2>1, <2>2 DEF SpanRecord
      <4> QED
        BY <1>t, <3>3, <4>1
    <3> QED
      BY <1>5, <3>1, <3>2, <3>3 DEF Record
  <2> QED
    BY <1>t, <1>5, <2>1, <2>3 DEF Record
<1>6. ASSUME NEW s \in Spans, ErrorOccurred(s)
      PROVE  data' \in [Spans -> SpanRecord] /\ Rest'
  <2>1. [data[s] EXCEPT !.error = TRUE] \in SpanRecord
    BY <1>t DEF SpanRecord
  <2>2. data' \in [Spans -> SpanRecord]
    BY <1>t, <1>6, <2>1 DEF ErrorOccurred
  <2>3. knows' \in [Spans -> SUBSET (0..MaxCalls)]
    BY <1>t, <1>6, SpanDataAssumption DEF ErrorOccurred
  <2> QED
    BY <1>t, <1>6, <2>2, <2>3 DEF ErrorOccurred
<1>7. ASSUME NEW s \in Spans, NEW other \in Spans, MergeSpan(s, other)
      PROVE  data' \in [Spans -> SpanRecord] /\ Rest'
  <2>1. data[s] \in SpanRecord /\ data[other] \in SpanRecord
    BY <1>t
  <2>2. data[s].tags \o data[other].tags \in Seq(Tags)
    BY <2>1, ConcatType DEF SpanRecord
  <2>3. Merge(data[s], data[other]) \in SpanRecord
    BY <2>1, <2>2 DEF Merge, SpanRecord
  <2>4. data' \in [Spans -> SpanRecord]
    BY <1>t, <1>7, <2>3 DEF MergeSpan
  <2> QED
    BY <1>t, <1>7, <2>4 DEF MergeSpan, Goes, Places
<1>8. ASSUME NEW s \in Spans, FinishSpan(s)
      PROVE  data' \in [Spans -> SpanRecord] /\ Rest'
  <2>1. PICK first, second \in Clock :
          /\ data' = [data EXCEPT ![s] = Seal(@, first, second)]
          /\ Shows(first, second)
    BY <1>8 DEF FinishSpan
  <2>2. data[s] \in SpanRecord
    BY <1>t
  <2>3. data' \in [Spans -> SpanRecord]
    BY <1>t, <2>1, <2>2, SealType
  <2> QED
    BY <1>t, <1>0, <1>8, <2>1, <2>3 DEF FinishSpan, Shows, Goes, Places
<1>9. CASE UNCHANGED vars
  BY <1>t, <1>9 DEF vars
<1> QED
  BY <1>1, <1>2, <1>3, <1>4, <1>5, <1>6, <1>7, <1>8, <1>9 DEF Next

(* Type correctness, see STypeOK.                                           *)
THEOREM TypeCorrect == Spec => []STypeOK
<1> QED
  BY InitTypeOK, NextTypeOK, PTL DEF Spec
-----------------------------------------------------------------------------
(* What is recorded.                                                       *)

LEMMA RangeOfSeq ==
  ASSUME NEW S, NEW s \in Seq(S)
  PROVE  Range(s) = {s[i] : i \in 1..Len(s)}
<1>1. DOMAIN s = 1..Len(s)
  OBVIOUS
<1> QED
  BY <1>1 DEF Range

TagCalls(tags) == {t.call : t \in Range(tags)}

LEMMA RangeAppend ==
  ASSUME NEW S, NEW s \in Seq(S), NEW e \in S
  PROVE  Range(Append(s, e)) = Range(s) \cup {e}
<1>1. Append(s, e) \in Seq(S) /\ Len(Append(s, e)) = Len(s) + 1 /\ Len(s) \in Nat
  BY AppendType
<1>2. Append(s, e)[Len(s) + 1] = e /\ \A i \in 1..Len(s) : Append(s, e)[i] = s[i]
  OBVIOUS
<1>3. 1..(Len(s) + 1) = 1..Len(s) \cup {Len(s) + 1}
  BY <1>1
<1>4. /\ Range(s) = {s[i] : i \in 1..Len(s)}
      /\ Range(Append(s, e)) = {Append(s, e)[i] : i \in 1..(Len(s) + 1)}
  BY <1>1, RangeOfSeq
<1> HIDE DEF Range
<1>5. ASSUME NEW x \in Range(Append(s, e)) PROVE x \in Range(s) \cup {e}
  BY <1>2, <1>3, <1>4
<1>6. ASSUME NEW x \in Range(s) \cup {e} PROVE x \in Range(Append(s, e))
  <2>1. 1..Len(s) \subseteq 1..(Len(s) + 1) /\ Len(s) + 1 \in 1..(Len(s) + 1)
    BY <1>1
  <2> QED
    BY <1>2, <1>4, <2>1
<1> QED
  BY <1>5, <1>6

LEMMA RangeConcat ==
  ASSUME NEW S, NEW s \in Seq(S), NEW t \in Seq(S)
  PROVE  Range(s \o t) = Range(s) \cup Range(t)
<1>1. ASSUME NEW i \in 1..Len(t) PROVE t[i] = (s \o t)[Len(s) + i] /\ Len(s) + i \in 1..Len(s \o t)
  OBVIOUS
<1>2. ASSUME NEW i \in 1..Len(s) PROVE s[i] = (s \o t)[i] /\ i \in 1..Len(s \o t)
  OBVIOUS
<1>3. ASSUME NEW i \in 1..Len(s \o t) PROVE (s \o t)[i] \in Range(s) \cup Range(t)
  <2>1. CASE i <= Len(s)
    BY <2>1, RangeOfSeq
  <2>2. CASE i > Len(s)
    <3>1. i - Len(s) \in 1..Len(t) /\ (s \o t)[i] = t[i - Len(s)]
      BY <2>2
    <3> QED
      BY <3>1, RangeOfSeq
  <2> QED
    BY <2>1, <2>2
<1>4. /\ Range(s) = {s[i] : i \in 1..Len(s)} /\ Range(t) = {t[i] : i \in 1..Len(t)}
      /\ Range(s \o t) = {(s \o t)[i] : i \in 1..Len(s \o t)}
  BY RangeOfSeq, ConcatType
<1> HIDE DEF Range
<1> QED
  BY <1>1, <1>2, <1>3, <1>4

LEMMA AppendCalls ==
  ASSUME NEW S, NEW s \in Seq(S), NEW e \in S
  PROVE  TagCalls(Append(s, e)) = TagCalls(s) \cup {e.call}
BY RangeAppend DEF TagCalls

LEMMA ConcatCalls ==
  ASSUME NEW S, NEW s \in Seq(S), NEW t \in Seq(S)
  PROVE  TagCalls(s \o t) = TagCalls(s) \cup TagCalls(t)
BY RangeConcat DEF TagCalls

Tells(s) ==
  /\ TagCalls(data[s].tags) = knows[s] \ {0}
  /\ (data[s].error <=> 0 \in knows[s])

KnowsAll == \A s \in Spans : Tells(s) /\ (place[s] = "none" => knows[s] = {})

(* Only the fields that KnowsAll reads matter.                             *)
LEMMA SameRecords ==
  ASSUME KnowsAll, UNCHANGED knows,
         \A s \in Spans : data'[s].tags = data[s].tags /\ data'[s].error = data[s].error,
         \A s \in Spans : place'[s] = "none" => place[s] = "none"
  PROVE  KnowsAll'
BY DEF KnowsAll, Tells

LEMMA TimesKeepRecords ==
  ASSUME NEW span \in SpanRecord, NEW now \in Clock, NEW later \in Clock
  PROVE  /\ Start(span, now).tags = span.tags /\ Start(span, now).error = span.error
         /\ End(span, now).tags = span.tags /\ End(span, now).error = span.error
         /\ Seal(span, now, later).tags = span.tags
         /\ Seal(span, now, later).error = span.error
<1>1. ASSUME NEW other \in SpanRecord, NEW t \in Clock
      PROVE  /\ Start(other, t).tags = other.tags /\ Start(other, t).error = other.error
             /\ End(other, t).tags = other.tags /\ End(other, t).error = other.error
  BY DEF Start, End, SpanRecord
<1>2. End(span, now) \in SpanRecord
  BY MethodTypes
<1> QED
  BY <1>1, <1>2 DEF Seal

LEMMA NextKnowsAll == STypeOK /\ KnowsAll /\ [Next]_vars => KnowsAll'
<1> SUFFICES ASSUME STypeOK, KnowsAll, [Next]_vars PROVE KnowsAll'
  OBVIOUS
<1>t. /\ data \in [Spans -> SpanRecord] /\ place \in [Spans -> Places]
      /\ knows \in [Spans -> SUBSET (0..MaxCalls)] /\ calls \in 0..MaxCalls
  BY DEF STypeOK, SpanRecord
<1>1. ASSUME NEW s \in Spans, NEW kind \in Kinds, New(s, kind) PROVE KnowsAll'
  <2> DEFINE new == NewSpan(kind, IF kind = "exit" THEN 1 ELSE 0)
  <2>1. PICK now \in Clock : data' = [data EXCEPT ![s] = Start(new, now)]
    BY <1>1 DEF New
  <2>2. /\ UNCHANGED knows /\ place[s] = "none" /\ place' = [place EXCEPT ![s] = "owned"]
    BY <1>1 DEF New, Goes
  <2>3. knows[s] = {}
    BY <2>2 DEF KnowsAll
  <2>4. data'[s].tags = <<>> /\ ~data'[s].error
    <3>1. new \in SpanRecord /\ new.tags = <<>> /\ ~new.error
      BY NewType DEF NewSpan
    <3>2. data'[s] = Start(new, now)
      BY <1>t, <2>1
    <3> QED
      BY <3>1, <3>2, TimesKeepRecords
  <2>5. TagCalls(data'[s].tags) = {}
    BY <2>4 DEF TagCalls, Range
  <2>6. \A t \in Spans \ {s} : data'[t] = data[t] /\ place'[t] = place[t]
    BY <1>t, <2>1, <2>2
  <2>7. place'[s] = "owned"
    BY <1>t, <2>2
  <2>8. Tells(s)'
    BY <2>2, <2>3, <2>4, <2>5 DEF Tells
  <2> HIDE DEF new
  <2> QED
    BY <2>2, <2>6, <2>7, <2>8 DEF KnowsAll, Tells
<1>2. ASSUME NEW s \in Spans, NEW t \in Spans, CloneBox(s, t) PROVE KnowsAll'
  <2>1. /\ data' = [data EXCEPT ![t] = data[s]] /\ knows' = [knows EXCEPT ![t] = knows[s]]
        /\ place' = [place EXCEPT ![t] = "owned"]
    BY <1>2 DEF CloneBox, Goes
  <2>2. data'[t] = data[s] /\ knows'[t] = knows[s] /\ place'[t] = "owned"
    BY <1>t, <2>1
  <2>3. \A u \in Spans \ {t} : data'[u] = data[u] /\ knows'[u] = knows[u] /\ place'[u] = place[u]
    BY <1>t, <2>1
  <2> QED
    BY <2>2, <2>3 DEF KnowsAll, Tells
<1>3. ASSUME NEW s \in Spans, \/ StartAgain(s) \/ EndEarly(s) \/ FinishSpan(s)
                              \/ \E t \in Clock : StartWithTimestamp(s, t) \/ EndWithTimestamp(s, t)
      PROVE  KnowsAll'
  <2>1. PICK t \in Clock, u \in Clock :
          \/ data' = [data EXCEPT ![s] = Start(data[s], t)]
          \/ data' = [data EXCEPT ![s] = End(data[s], t)]
          \/ data' = [data EXCEPT ![s] = Seal(data[s], t, u)]
    BY <1>3 DEF StartAgain, EndEarly, FinishSpan, StartWithTimestamp, EndWithTimestamp
  <2>2. data'[s].tags = data[s].tags /\ data'[s].error = data[s].error
    <3>1. data[s] \in SpanRecord
      BY <1>t
    <3>2. data'[s] \in {Start(data[s], t), End(data[s], t), Seal(data[s], t, u)}
      BY <1>t, <2>1
    <3> QED
      BY <3>1, <3>2, TimesKeepRecords
  <2>3. \A r \in Spans \ {s} : data'[r] = data[r]
    BY <1>t, <2>1
  <2>4. UNCHANGED knows /\ (place' = place \/ place' = [place EXCEPT ![s] = "finished_spans"])
    BY <1>3 DEF StartAgain, EndEarly, FinishSpan, StartWithTimestamp, EndWithTimestamp, Goes, history
  <2>5. \A r \in Spans : place'[r] = "none" => place[r] = "none"
    BY <1>t, <2>4
  <2> QED
    BY <2>2, <2>3, <2>4, <2>5, SameRecords
<1>4. ASSUME NEW s \in Spans, Record(s) PROVE KnowsAll'
  <2>t. data[s] \in SpanRecord /\ data[s].tags \in Seq(Tags) /\ UNCHANGED place
    BY <1>t, <1>4 DEF SpanRecord, Record
  <2>1. CASE \E kind \in TagKinds :
               data' = [data EXCEPT ![s] = Tag(@, [call |-> calls', by |-> s, kind |-> kind])]
    <3>1. PICK kind \in TagKinds :
            data' = [data EXCEPT ![s] = Tag(@, [call |-> calls', by |-> s, kind |-> kind])]
      BY <2>1
    <3> DEFINE tag == [call |-> calls', by |-> s, kind |-> kind]
    <3>2. data'[s].tags = Append(data[s].tags, tag) /\ data'[s].error = data[s].error
      <4>1. data'[s] = Tag(data[s], tag)
        BY <1>t, <3>1
      <4> QED
        BY <4>1, <2>t DEF Tag, SpanRecord
    <3>3. data'[s].tags # data[s].tags
      BY <2>t, <3>2
    <3>4. knows' = [knows EXCEPT ![s] = @ \cup {calls'}]
      BY <1>4, <3>3 DEF Record
    <3>5. calls' \in Nat \ {0}
      BY <1>t, <1>4 DEF Record
    <3>6. TagCalls(data'[s].tags) = TagCalls(data[s].tags) \cup {calls'}
      <4>1. tag.call = calls'
        OBVIOUS
      <4>2. tag \in Tags
        <5>1. calls' \in Calls
          BY <1>t, <1>4, SpanDataAssumption DEF Calls, Record
        <5> QED
          BY <5>1 DEF Tags
      <4> HIDE DEF tag
      <4> QED
        BY <2>t, <3>2, <4>1, <4>2, AppendCalls
    <3>7. knows'[s] = knows[s] \cup {calls'}
      BY <1>t, <3>4
    <3>8. \A r \in Spans \ {s} : data'[r] = data[r] /\ knows'[r] = knows[r]
      BY <1>t, <3>1, <3>4
    <3>9. Tells(s) /\ place[s] # "none"
      BY <1>4 DEF KnowsAll, Record
    <3>10. Tells(s)'
      BY <3>2, <3>5, <3>6, <3>7, <3>9 DEF Tells
    <3> QED
      BY <2>t, <3>8, <3>9, <3>10 DEF KnowsAll, Tells
  <2>2. CASE \/ data' = [data EXCEPT ![s].logs = Append(@, calls')]
             \/ data' = [data EXCEPT ![s].componentId = calls']
             \/ data' = [data EXCEPT ![s].peer = calls']
    <3>1. data'[s].tags = data[s].tags /\ data'[s].error = data[s].error
      BY <1>t, <2>2, <2>t DEF SpanRecord
    <3>2. \A r \in Spans \ {s} : data'[r] = data[r]
      BY <1>t, <2>2
    <3>3. UNCHANGED knows
      BY <1>4, <3>1 DEF Record
    <3> QED
      BY <2>t, <3>1, <3>2, <3>3, SameRecords
  <2> QED
    BY <1>4, <2>1, <2>2 DEF Record
<1>5. ASSUME NEW s \in Spans, ErrorOccurred(s) PROVE KnowsAll'
  <2>1. /\ data'[s].tags = data[s].tags /\ data'[s].error
        /\ knows'[s] = knows[s] \cup {0} /\ UNCHANGED place /\ place[s] # "none"
    BY <1>t, <1>5 DEF ErrorOccurred, SpanRecord
  <2>2. \A r \in Spans \ {s} : data'[r] = data[r] /\ knows'[r] = knows[r]
    BY <1>t, <1>5 DEF ErrorOccurred
  <2> QED
    BY <2>1, <2>2 DEF KnowsAll, Tells
<1>6. ASSUME NEW s \in Spans, NEW other \in Spans, MergeSpan(s, other) PROVE KnowsAll'
  <2>1. /\ data[s] \in SpanRecord /\ data[s].tags \in Seq(Tags)
        /\ data[other] \in SpanRecord /\ data[other].tags \in Seq(Tags)
    BY <1>t DEF SpanRecord
  <2>2. /\ data' = [data EXCEPT ![s] = Merge(data[s], data[other])]
        /\ knows' = [knows EXCEPT ![s] = knows[s] \cup knows[other]]
        /\ place' = [place EXCEPT ![other] = "merged"] /\ place[s] = "owned"
    BY <1>6 DEF MergeSpan, Goes
  <2>3. /\ data'[s].tags = data[s].tags \o data[other].tags
        /\ data'[s].error = (data[s].error \/ data[other].error)
    <3>1. data'[s] = Merge(data[s], data[other])
      BY <1>t, <2>2
    <3> QED
      BY <2>1, <3>1 DEF Merge, SpanRecord
  <2>4. TagCalls(data'[s].tags) = TagCalls(data[s].tags) \cup TagCalls(data[other].tags)
    BY <2>1, <2>3, ConcatCalls
  <2>5. knows'[s] = knows[s] \cup knows[other]
    BY <1>t, <2>2
  <2>6. \A r \in Spans \ {s} : data'[r] = data[r] /\ knows'[r] = knows[r]
    BY <1>t, <2>2
  <2>7. \A r \in Spans : place'[r] = "none" => place[r] = "none"
    BY <1>t, <2>2
  <2>8. Tells(s)'
    BY <2>3, <2>4, <2>5 DEF KnowsAll, Tells
  <2> QED
    BY <2>2, <2>6, <2>7, <2>8 DEF KnowsAll, Tells
<1>7. CASE UNCHANGED vars
  BY <1>7 DEF vars, KnowsAll, Tells
<1> QED
  BY <1>1, <1>2, <1>3, <1>4, <1>5, <1>6, <1>7 DEF Next

(* Nothing recorded is lost or made up, see SentTellsAll.                  *)
THEOREM SentAlwaysTellsAll == Spec => []SentTellsAll
<1>1. Init => KnowsAll
  <2> SUFFICES ASSUME Init, NEW s \in Spans PROVE Tells(s) /\ knows[s] = {}
    BY DEF KnowsAll
  <2>1. data[s].tags = <<>> /\ ~data[s].error /\ knows[s] = {}
    BY DEF Init, NewSpan
  <2>2. TagCalls(<<>>) = {}
    BY DEF TagCalls, Range
  <2> QED
    BY <2>1, <2>2 DEF Tells
<1>2. KnowsAll => SentTellsAll
  BY DEF KnowsAll, Tells, SentTellsAll, Sent, SpanObject, In, TagCalls
<1> QED
  BY <1>1, <1>2, NextKnowsAll, TypeCorrect, PTL DEF Spec
-----------------------------------------------------------------------------
(* The order of tags.  A tag reaches other spans only together with all    *)
(* earlier tags of its owner, and those come first.                        *)

AllTags == UNION {Range(data[s].tags) : s \in Spans}

Ordered(tags, all) ==
  \A i \in 1..Len(tags) : \A t \in all :
    (t.by = tags[i].by /\ t.call < tags[i].call) =>
      \E k \in 1..(i - 1) : tags[k].call = t.call

SpanOrdered(s) ==
  /\ Ordered(data[s].tags, AllTags)
  /\ place[s] = "none" => data[s].tags = <<>>
  /\ \A t \in Range(data[s].tags) : t.call <= calls /\ t \in Range(data[t.by].tags)

TagsOrdered == \A s \in Spans : SpanOrdered(s)

LEMMA OrderedConcat ==
  ASSUME NEW a \in Seq(Tags), NEW b \in Seq(Tags), NEW all, Ordered(a, all), Ordered(b, all)
  PROVE  Ordered(a \o b, all)
<1> SUFFICES ASSUME NEW i \in 1..Len(a \o b), NEW t \in all,
                    t.by = (a \o b)[i].by, t.call < (a \o b)[i].call
             PROVE  \E k \in 1..(i - 1) : (a \o b)[k].call = t.call
  BY DEF Ordered
<1>1. CASE i <= Len(a)
  <2>1. i \in 1..Len(a) /\ (a \o b)[i] = a[i]
    BY <1>1
  <2>2. PICK k \in 1..(i - 1) : a[k].call = t.call
    BY <2>1 DEF Ordered
  <2>3. (a \o b)[k] = a[k]
    BY <2>1, <2>2
  <2> QED
    BY <2>2, <2>3
<1>2. CASE i > Len(a)
  <2> DEFINE j == i - Len(a)
  <2>1. j \in 1..Len(b) /\ (a \o b)[i] = b[j]
    BY <1>2
  <2>2. PICK k \in 1..(j - 1) : b[k].call = t.call
    BY <2>1 DEF Ordered
  <2>3. Len(a) + k \in 1..(i - 1) /\ (a \o b)[Len(a) + k] = b[k]
    BY <2>1, <2>2
  <2> QED
    BY <2>2, <2>3
<1> QED
  BY <1>1, <1>2

(* A later tag does not disturb an order.                                  *)
LEMMA OrderedLater ==
  ASSUME NEW tags \in Seq(Tags), NEW all, NEW tag \in Tags, Ordered(tags, all),
         \A t \in Range(tags) : t.call < tag.call
  PROVE  Ordered(tags, all \cup {tag})
<1> SUFFICES ASSUME NEW i \in 1..Len(tags) PROVE ~(tag.call < tags[i].call)
  BY DEF Ordered
<1>1. tags[i] \in Range(tags) /\ tags[i] \in Tags
  BY RangeOfSeq
<1> QED
  BY <1>1 DEF Tags, Calls

LEMMA OrderedAppend ==
  ASSUME NEW tags \in Seq(Tags), NEW all, NEW tag \in Tags, Ordered(tags, all),
         \A t \in Range(tags) : t.call < tag.call,
         \A t \in all : t.by = tag.by => t \in Range(tags)
  PROVE  Ordered(Append(tags, tag), all \cup {tag})
<1> DEFINE longer == Append(tags, tag)
<1>1. Ordered(tags, all \cup {tag})
  BY OrderedLater
<1>2. /\ Len(longer) = Len(tags) + 1 /\ longer[Len(tags) + 1] = tag
      /\ \A i \in 1..Len(tags) : longer[i] = tags[i]
  OBVIOUS
<1> HIDE DEF longer
<1> SUFFICES ASSUME NEW i \in 1..Len(longer), NEW t \in all \cup {tag},
                    t.by = longer[i].by, t.call < longer[i].call
             PROVE  \E k \in 1..(i - 1) : longer[k].call = t.call
  BY DEF Ordered, longer
<1>3. CASE i \in 1..Len(tags)
  <2>1. PICK k \in 1..(i - 1) : tags[k].call = t.call
    BY <1>1, <1>2, <1>3 DEF Ordered
  <2> QED
    BY <1>2, <1>3, <2>1
<1>4. CASE i = Len(tags) + 1
  <2>1. t # tag
    BY <1>2, <1>4 DEF Tags, Calls
  <2>2. t \in Range(tags)
    BY <1>2, <1>4, <2>1
  <2>3. PICK k \in 1..Len(tags) : t = tags[k]
    BY <2>2, RangeOfSeq
  <2> QED
    BY <1>2, <1>4, <2>3
<1> QED
  BY <1>2, <1>3, <1>4

(* What a step does to the tags of spans.                                  *)
TagStep ==
  \/ /\ \A r \in Spans : data'[r].tags = data[r].tags
     /\ \A r \in Spans : place'[r] = "none" => place[r] = "none"
     /\ calls' = calls \/ calls' = calls + 1
  \/ \E s \in Spans :
       /\ \A r \in Spans \ {s} : data'[r].tags = data[r].tags
       /\ \A r \in Spans : place'[r] = "none" => place[r] = "none" /\ r # s
       /\ \/ /\ place[s] = "none"
             /\ data'[s].tags = <<>> \/ \E t \in Spans : data'[s].tags = data[t].tags
             /\ calls' = calls
          \/ /\ \E t \in Spans : data'[s].tags = data[s].tags \o data[t].tags
             /\ calls' = calls
          \/ /\ \E tag \in Tags : /\ tag.by = s /\ tag.call = calls'
                                  /\ data'[s].tags = Append(data[s].tags, tag)
             /\ calls' = calls + 1

LEMMA EveryTagStep == STypeOK /\ [Next]_vars => TagStep
<1> SUFFICES ASSUME STypeOK, [Next]_vars PROVE TagStep
  OBVIOUS
<1>t. /\ data \in [Spans -> SpanRecord] /\ place \in [Spans -> Places]
      /\ calls \in 0..MaxCalls /\ calls \in Nat
  BY SpanDataAssumption DEF STypeOK, SpanRecord
<1>1. ASSUME NEW s \in Spans, NEW kind \in Kinds, New(s, kind) PROVE TagStep
  <2> DEFINE new == NewSpan(kind, IF kind = "exit" THEN 1 ELSE 0)
  <2>1. PICK now \in Clock : data' = [data EXCEPT ![s] = Start(new, now)]
    BY <1>1 DEF New
  <2>2. /\ UNCHANGED calls /\ place[s] = "none" /\ place' = [place EXCEPT ![s] = "owned"]
    BY <1>1 DEF New, Goes
  <2>3. data'[s].tags = <<>>
    <3>1. new \in SpanRecord /\ new.tags = <<>>
      BY NewType DEF NewSpan
    <3>2. data'[s] = Start(new, now)
      BY <1>t, <2>1
    <3> QED
      BY <3>1, <3>2, TimesKeepRecords
  <2> HIDE DEF new
  <2>4. \A r \in Spans \ {s} : data'[r] = data[r] /\ place'[r] = place[r]
    BY <1>t, <2>1, <2>2
  <2>5. place'[s] = "owned"
    BY <1>t, <2>2
  <2> QED
    BY <2>2, <2>3, <2>4, <2>5 DEF TagStep
<1>2. ASSUME NEW s \in Spans, NEW t \in Spans, CloneBox(s, t) PROVE TagStep
  <2>1. /\ data' = [data EXCEPT ![t] = data[s]] /\ UNCHANGED calls
        /\ place[t] = "none" /\ place' = [place EXCEPT ![t] = "owned"]
    BY <1>2 DEF CloneBox, Goes
  <2>2. data'[t] = data[s] /\ place'[t] = "owned"
    BY <1>t, <2>1
  <2>3. \A r \in Spans \ {t} : data'[r] = data[r] /\ place'[r] = place[r]
    BY <1>t, <2>1
  <2> QED
    BY <2>1, <2>2, <2>3 DEF TagStep
<1>3. ASSUME NEW s \in Spans, \/ StartAgain(s) \/ EndEarly(s) \/ FinishSpan(s)
                              \/ \E t \in Clock : StartWithTimestamp(s, t) \/ EndWithTimestamp(s, t)
      PROVE  TagStep
  <2>1. PICK t \in Clock, u \in Clock :
          \/ data' = [data EXCEPT ![s] = Start(data[s], t)]
          \/ data' = [data EXCEPT ![s] = End(data[s], t)]
          \/ data' = [data EXCEPT ![s] = Seal(data[s], t, u)]
    BY <1>3 DEF StartAgain, EndEarly, FinishSpan, StartWithTimestamp, EndWithTimestamp
  <2>2. data'[s].tags = data[s].tags
    <3>1. data[s] \in SpanRecord
      BY <1>t
    <3>2. data'[s] \in {Start(data[s], t), End(data[s], t), Seal(data[s], t, u)}
      BY <1>t, <2>1
    <3> QED
      BY <3>1, <3>2, TimesKeepRecords
  <2>3. \A r \in Spans \ {s} : data'[r] = data[r]
    BY <1>t, <2>1
  <2>4. UNCHANGED calls /\ (place' = place \/ place' = [place EXCEPT ![s] = "finished_spans"])
    BY <1>3 DEF StartAgain, EndEarly, FinishSpan, StartWithTimestamp, EndWithTimestamp, Goes, history
  <2>5. \A r \in Spans : place'[r] = "none" => place[r] = "none"
    BY <1>t, <2>4
  <2> QED
    BY <1>t, <2>2, <2>3, <2>4, <2>5 DEF TagStep
<1>4. ASSUME NEW s \in Spans, Record(s) PROVE TagStep
  <2>t. /\ data[s] \in SpanRecord /\ UNCHANGED place /\ place[s] = "owned"
        /\ calls' = calls + 1 /\ calls' \in Calls
    BY <1>t, <1>4, SpanDataAssumption DEF Record, Calls
  <2>1. CASE \E kind \in TagKinds :
               data' = [data EXCEPT ![s] = Tag(@, [call |-> calls', by |-> s, kind |-> kind])]
    <3>1. PICK kind \in TagKinds :
            data' = [data EXCEPT ![s] = Tag(@, [call |-> calls', by |-> s, kind |-> kind])]
      BY <2>1
    <3> DEFINE tag == [call |-> calls', by |-> s, kind |-> kind]
    <3>2. data'[s].tags = Append(data[s].tags, tag)
      <4>1. data'[s] = Tag(data[s], tag)
        BY <1>t, <3>1
      <4> QED
        BY <4>1, <2>t DEF Tag, SpanRecord
    <3>3. \A r \in Spans \ {s} : data'[r] = data[r]
      BY <1>t, <3>1
    <3>4. tag \in Tags /\ tag.by = s /\ tag.call = calls'
      BY <2>t DEF Tags
    <3> HIDE DEF tag
    <3> QED
      BY <2>t, <3>2, <3>3, <3>4 DEF TagStep
  <2>2. CASE \/ data' = [data EXCEPT ![s].logs = Append(@, calls')]
             \/ data' = [data EXCEPT ![s].componentId = calls']
             \/ data' = [data EXCEPT ![s].peer = calls']
    <3>1. data'[s].tags = data[s].tags
      BY <1>t, <2>2, <2>t DEF SpanRecord
    <3>2. \A r \in Spans \ {s} : data'[r] = data[r]
      BY <1>t, <2>2
    <3> QED
      BY <2>t, <3>1, <3>2 DEF TagStep
  <2> QED
    BY <1>4, <2>1, <2>2 DEF Record
<1>5. ASSUME NEW s \in Spans, ErrorOccurred(s) PROVE TagStep
  <2>1. data'[s].tags = data[s].tags /\ UNCHANGED <<place, calls>>
    BY <1>t, <1>5 DEF ErrorOccurred, SpanRecord
  <2>2. \A r \in Spans \ {s} : data'[r] = data[r]
    BY <1>t, <1>5 DEF ErrorOccurred
  <2> QED
    BY <1>t, <2>1, <2>2 DEF TagStep
<1>6. ASSUME NEW s \in Spans, NEW other \in Spans, MergeSpan(s, other) PROVE TagStep
  <2>1. /\ data[s] \in SpanRecord /\ UNCHANGED calls
        /\ data' = [data EXCEPT ![s] = Merge(data[s], data[other])]
        /\ place' = [place EXCEPT ![other] = "merged"] /\ place[s] = "owned"
    BY <1>t, <1>6 DEF MergeSpan, Goes
  <2>2. data'[s].tags = data[s].tags \o data[other].tags
    <3>1. data'[s] = Merge(data[s], data[other])
      BY <1>t, <2>1
    <3> QED
      BY <2>1, <3>1 DEF Merge, SpanRecord
  <2>3. \A r \in Spans \ {s} : data'[r] = data[r]
    BY <1>t, <2>1
  <2>4. \A r \in Spans : place'[r] = "none" => place[r] = "none" /\ r # s
    BY <1>t, <2>1
  <2> QED
    BY <2>1, <2>2, <2>3, <2>4 DEF TagStep
<1>7. CASE UNCHANGED vars
  BY <1>t, <1>7 DEF vars, TagStep
<1> QED
  BY <1>1, <1>2, <1>3, <1>4, <1>5, <1>6, <1>7 DEF Next

(* A span gets tags of others, and some fresh ones of its own.             *)
GetsTags(s, fresh) ==
  /\ \A r \in Spans \ {s} : data'[r].tags = data[r].tags
  /\ \A r \in Spans : place'[r] = "none" => place[r] = "none" /\ r # s
  /\ calls' = calls \/ calls' = calls + 1
  /\ \A t \in fresh : t.by = s /\ t.call = calls + 1 /\ t.call = calls'
  /\ Range(data[s].tags) \subseteq Range(data'[s].tags)
  /\ Range(data'[s].tags) \subseteq AllTags \cup fresh
  /\ fresh \subseteq Range(data'[s].tags)
  /\ Ordered(data'[s].tags, AllTags \cup fresh)

LEMMA NextTagsOrdered == STypeOK /\ TagsOrdered /\ [Next]_vars => TagsOrdered'
<1> SUFFICES ASSUME STypeOK, TagsOrdered, TagStep PROVE TagsOrdered'
  BY EveryTagStep
<1>t. /\ \A r \in Spans : data[r].tags \in Seq(Tags)
      /\ calls \in Nat
  BY SpanDataAssumption DEF STypeOK
<1>r. \A r \in Spans : \A t \in Range(data[r].tags) : t \in Tags /\ t.by \in Spans /\ t.call \in Nat
  <2> SUFFICES ASSUME NEW r \in Spans, NEW t \in Range(data[r].tags) PROVE t \in Tags
    BY DEF Tags, Calls
  <2>1. PICK i \in 1..Len(data[r].tags) : t = data[r].tags[i]
    BY <1>t, RangeOfSeq
  <2> QED
    BY <1>t, <2>1
<1>e. Range(<<>>) = {}
  BY DEF Range
<1>1. CASE /\ \A r \in Spans : data'[r].tags = data[r].tags
           /\ \A r \in Spans : place'[r] = "none" => place[r] = "none"
           /\ calls' = calls \/ calls' = calls + 1
  <2>1. AllTags' = AllTags
    BY <1>1 DEF AllTags
  <2> SUFFICES ASSUME NEW r \in Spans PROVE SpanOrdered(r)'
    BY DEF TagsOrdered
  <2>2. SpanOrdered(r)
    BY DEF TagsOrdered
  <2>3. ASSUME NEW t \in Range(data'[r].tags) PROVE t.call <= calls' /\ t \in Range(data'[t.by].tags)
    <3>1. t.by \in Spans /\ t.call \in Nat /\ t.call <= calls /\ t \in Range(data[t.by].tags)
      BY <1>1, <1>r, <2>2 DEF SpanOrdered
    <3> QED
      BY <1>1, <1>t, <3>1
  <2> QED
    BY <1>1, <2>1, <2>2, <2>3 DEF SpanOrdered
<1>2. ASSUME NEW s \in Spans, NEW fresh \in SUBSET Tags, GetsTags(s, fresh)
      PROVE  TagsOrdered'
  <2>g. /\ \A r \in Spans \ {s} : data'[r].tags = data[r].tags
        /\ \A r \in Spans : place'[r] = "none" => place[r] = "none" /\ r # s
        /\ calls' = calls \/ calls' = calls + 1
        /\ \A t \in fresh : t.by = s /\ t.call = calls + 1 /\ t.call = calls'
        /\ Range(data[s].tags) \subseteq Range(data'[s].tags)
        /\ Range(data'[s].tags) \subseteq AllTags \cup fresh
        /\ fresh \subseteq Range(data'[s].tags)
        /\ Ordered(data'[s].tags, AllTags \cup fresh)
    BY <1>2 DEF GetsTags
  <2>1. AllTags' = AllTags \cup fresh
    <3>1. ASSUME NEW r \in Spans PROVE Range(data[r].tags) \subseteq AllTags'
      BY <2>g DEF AllTags
    <3>2. ASSUME NEW r \in Spans PROVE Range(data'[r].tags) \subseteq AllTags \cup fresh
      BY <2>g DEF AllTags
    <3> QED
      BY <2>g, <3>1, <3>2 DEF AllTags
  <2>2. ASSUME NEW t \in AllTags \cup fresh PROVE t.call <= calls' /\ t \in Range(data'[t.by].tags)
    <3>1. CASE t \in fresh
      BY <2>g, <1>t, <3>1 DEF Tags, Calls
    <3>2. CASE t \in AllTags
      <4>1. t.by \in Spans /\ t.call \in Nat /\ t.call <= calls /\ t \in Range(data[t.by].tags)
        BY <1>r, <3>2 DEF AllTags, TagsOrdered, SpanOrdered
      <4> QED
        BY <2>g, <1>t, <4>1
    <3> QED
      BY <3>1, <3>2
  <2>3. ASSUME NEW r \in Spans PROVE SpanOrdered(r)'
    <3>1. \A t \in Range(data'[r].tags) : t \in AllTags \cup fresh
      BY <2>1 DEF AllTags
    <3>2. CASE r = s
      BY <2>g, <2>1, <2>2, <3>1, <3>2 DEF SpanOrdered
    <3>3. CASE r # s
      <4>1. Ordered(data[r].tags, AllTags \cup fresh)
        <5>1. CASE fresh = {}
          BY <5>1 DEF TagsOrdered, SpanOrdered
        <5>2. CASE fresh # {}
          <6>1. PICK tag \in fresh : TRUE
            BY <5>2
          <6>2. \A t \in fresh : t \in Tags /\ t.call = calls + 1
            BY <2>g
          <6>3. \A i \in 1..Len(data[r].tags) : data[r].tags[i].call \in Nat /\ data[r].tags[i].call <= calls
            BY <1>t, <1>r, RangeOfSeq DEF TagsOrdered, SpanOrdered
          <6>4. Ordered(data[r].tags, AllTags)
            BY DEF TagsOrdered, SpanOrdered
          <6> SUFFICES ASSUME NEW i \in 1..Len(data[r].tags), NEW t \in fresh
                       PROVE  ~(t.call < data[r].tags[i].call)
            BY <6>4 DEF Ordered
          <6> QED
            BY <1>t, <6>2, <6>3
        <5> QED
          BY <5>1, <5>2
      <4> QED
        BY <2>g, <2>1, <2>2, <3>1, <3>3, <4>1 DEF TagsOrdered, SpanOrdered
    <3> QED
      BY <3>2, <3>3
  <2> QED
    BY <2>3 DEF TagsOrdered
<1>3. ASSUME NEW s \in Spans,
             \A r \in Spans \ {s} : data'[r].tags = data[r].tags,
             \A r \in Spans : place'[r] = "none" => place[r] = "none" /\ r # s,
             place[s] = "none",
             data'[s].tags = <<>> \/ \E t \in Spans : data'[s].tags = data[t].tags,
             calls' = calls
      PROVE  TagsOrdered'
  <2>1. Range(data[s].tags) = {}
    BY <1>3, <1>e DEF TagsOrdered, SpanOrdered
  <2>2. Range(data'[s].tags) \subseteq AllTags
    BY <1>3, <1>e DEF AllTags
  <2>3. Ordered(data'[s].tags, AllTags)
    BY <1>3 DEF TagsOrdered, SpanOrdered, Ordered
  <2>4. AllTags \cup {} = AllTags
    OBVIOUS
  <2> QED
    <3>1. GetsTags(s, {})
      BY <1>3, <2>1, <2>2, <2>3, <2>4 DEF GetsTags
    <3> QED
      BY <1>2, <3>1
<1>4. ASSUME NEW s \in Spans, NEW t \in Spans,
             \A r \in Spans \ {s} : data'[r].tags = data[r].tags,
             \A r \in Spans : place'[r] = "none" => place[r] = "none" /\ r # s,
             data'[s].tags = data[s].tags \o data[t].tags,
             calls' = calls
      PROVE  TagsOrdered'
  <2>1. Range(data'[s].tags) = Range(data[s].tags) \cup Range(data[t].tags)
    BY <1>4, <1>t, RangeConcat
  <2>2. Range(data'[s].tags) \subseteq AllTags
    BY <2>1 DEF AllTags
  <2>3. Ordered(data'[s].tags, AllTags)
    BY <1>4, <1>t, OrderedConcat DEF TagsOrdered, SpanOrdered
  <2>4. AllTags \cup {} = AllTags
    OBVIOUS
  <2> QED
    <3>1. GetsTags(s, {})
      BY <1>4, <2>1, <2>2, <2>3, <2>4 DEF GetsTags
    <3> QED
      BY <1>2, <3>1
<1>5. ASSUME NEW s \in Spans, NEW tag \in Tags,
             \A r \in Spans \ {s} : data'[r].tags = data[r].tags,
             \A r \in Spans : place'[r] = "none" => place[r] = "none" /\ r # s,
             tag.by = s, tag.call = calls', calls' = calls + 1,
             data'[s].tags = Append(data[s].tags, tag)
      PROVE  TagsOrdered'
  <2>1. Range(data'[s].tags) = Range(data[s].tags) \cup {tag}
    BY <1>5, <1>t, RangeAppend
  <2>2. Range(data'[s].tags) \subseteq AllTags \cup {tag}
    BY <2>1 DEF AllTags
  <2>3. Ordered(data'[s].tags, AllTags \cup {tag})
    <3>1. \A t \in Range(data[s].tags) : t.call < tag.call
      <4>1. \A t \in Range(data[s].tags) : t.call \in Nat /\ t.call <= calls
        BY <1>r DEF TagsOrdered, SpanOrdered
      <4> QED
        BY <1>5, <1>t, <4>1
    <3>2. \A t \in AllTags : t.by = tag.by => t \in Range(data[s].tags)
      <4> SUFFICES ASSUME NEW r \in Spans, NEW t \in Range(data[r].tags), t.by = tag.by
                   PROVE  t \in Range(data[s].tags)
        BY DEF AllTags
      <4>1. t \in Range(data[t.by].tags)
        BY DEF TagsOrdered, SpanOrdered
      <4> QED
        BY <1>5, <4>1
    <3>3. Ordered(data[s].tags, AllTags)
      BY DEF TagsOrdered, SpanOrdered
    <3> QED
      BY <1>5, <1>t, <3>1, <3>2, <3>3, OrderedAppend
  <2> QED
    <3>1. GetsTags(s, {tag})
      BY <1>5, <2>1, <2>2, <2>3 DEF GetsTags
    <3> QED
      BY <1>2, <3>1
<1> QED
  BY <1>1, <1>3, <1>4, <1>5 DEF TagStep

(* The tags set through one owner are sent in order, see TagsInOrder.      *)
THEOREM TagsAreInOrder == Spec => []TagsInOrder
<1>1. Init => TagsOrdered
  <2> SUFFICES ASSUME Init, NEW s \in Spans PROVE SpanOrdered(s)
    BY DEF TagsOrdered
  <2>1. data[s].tags = <<>> /\ Range(<<>>) = {} /\ Len(<<>>) = 0
    BY DEF Init, NewSpan, Range
  <2> QED
    BY <2>1 DEF SpanOrdered, Ordered
<1>2. STypeOK /\ TagsOrdered => TagsInOrder
  <2> SUFFICES ASSUME STypeOK, TagsOrdered, NEW s \in Spans,
                      NEW i \in 1..Len(data[s].tags), NEW j \in 1..Len(data[s].tags),
                      data[s].tags[i].by = data[s].tags[j].by,
                      data[s].tags[j].call < data[s].tags[i].call
               PROVE  \E k \in 1..(i - 1) : data[s].tags[k].call = data[s].tags[j].call
    BY DEF TagsInOrder, Sent, SpanObject, In
  <2>1. data[s].tags \in Seq(Tags)
    BY DEF STypeOK
  <2>2. data[s].tags[j] \in AllTags
    BY <2>1, RangeOfSeq DEF AllTags
  <2> QED
    BY <2>2 DEF TagsOrdered, SpanOrdered, Ordered
<1> QED
  BY <1>1, <1>2, NextTagsOrdered, TypeCorrect, PTL DEF Spec
-----------------------------------------------------------------------------
(* Times.                                                                  *)

LEMMA RecordTimes ==
  STypeOK => \A s \in Spans : /\ data[s] \in SpanRecord
                             /\ data[s].start \in Nat /\ data[s].end \in Nat
<1> SUFFICES ASSUME STypeOK, NEW s \in Spans
             PROVE  data[s] \in SpanRecord /\ data[s].start \in Nat /\ data[s].end \in Nat
  OBVIOUS
<1>1. data[s] \in SpanRecord
  <2>1. data \in [Spans -> SpanRecord]
    BY DEF STypeOK, SpanRecord
  <2> QED
    BY <2>1
<1>2. data[s].start \in Times /\ data[s].end \in Times
  <2>1. ASSUME NEW span \in SpanRecord PROVE span.start \in Times /\ span.end \in Times
    BY DEF SpanRecord, Times
  <2> QED
    BY <1>1, <2>1
<1>3. ASSUME NEW t \in Times PROVE t \in Nat
  <2>1. CASE t \in Clock /\ t >= 0
    <3>1. t \in Int
      BY <2>1, SpanDataAssumption
    <3> QED
      BY <2>1, <3>1
  <2> QED
    BY <2>1 DEF Times
<1> QED
  BY <1>1, <1>2, <1>3

LEMMA ShownTimes == STypeOK => clock \in Int
BY SpanDataAssumption DEF STypeOK

(* A span that code owns did not start after what the clock shows, or from *)
(* now on it does not matter; a finished one did not start after its end.  *)
TimesAgree(s) ==
  /\ place[s] = "owned" =>
       \/ s \in setBack \cup given
       \/ data[s].start = 0
       \/ data[s].start <= clock
  /\ place[s] = "finished_spans" =>
       s \in setBack \cup given \/ data[s].start <= data[s].end

AllTimesAgree == \A s \in Spans : TimesAgree(s)

(* A span the clock does not go back for sees it stay or go on.            *)
LEMMA ClockOfSpan ==
  ASSUME STypeOK, NEW first \in Clock, NEW second \in Clock, Shows(first, second),
         NEW s \in Spans, place[s] = "owned"
  PROVE  /\ setBack \subseteq setBack'
         /\ s \in setBack' \/ (clock <= first /\ first <= second /\ clock' = second)
BY SpanDataAssumption DEF STypeOK, Shows, In

(* A step that leaves a span and its place alone.                          *)
LEMMA OthersAgree ==
  ASSUME STypeOK, NEW s \in Spans, TimesAgree(s),
         data'[s] = data[s], place'[s] = place[s],
         given \subseteq given', setBack \subseteq setBack',
         UNCHANGED clock \/ \E first, second \in Clock : Shows(first, second)
  PROVE  TimesAgree(s)'
<1>1. CASE UNCHANGED clock
  BY <1>1 DEF TimesAgree
<1>2. ASSUME NEW first \in Clock, NEW second \in Clock, Shows(first, second)
      PROVE  TimesAgree(s)'
  <2>1. data[s].start \in Int /\ clock \in Int /\ first \in Int /\ second \in Int
    BY RecordTimes, ShownTimes, SpanDataAssumption
  <2>2. CASE place[s] = "owned"
    BY <1>2, <2>1, <2>2, ClockOfSpan DEF TimesAgree
  <2>3. CASE place[s] # "owned"
    BY <2>3 DEF TimesAgree
  <2> QED
    BY <2>2, <2>3
<1> QED
  BY <1>1, <1>2

LEMMA NextTimesAgree == STypeOK /\ AllTimesAgree /\ [Next]_vars => AllTimesAgree'
<1> SUFFICES ASSUME STypeOK, AllTimesAgree, [Next]_vars PROVE AllTimesAgree'
  OBVIOUS
<1>t. /\ data \in [Spans -> SpanRecord] /\ place \in [Spans -> Places]
      /\ clock \in Int /\ Clock \subseteq Int
  <2>1. data \in [Spans -> SpanRecord] /\ place \in [Spans -> Places]
    BY DEF STypeOK, SpanRecord
  <2> QED
    BY <2>1, ShownTimes, SpanDataAssumption
<1>a. \A r \in Spans : /\ TimesAgree(r) /\ data[r] \in SpanRecord
                       /\ data[r].start \in Int /\ data[r].start >= 0
  BY RecordTimes DEF AllTimesAgree
(* A step that changes one span only, and what is left to show for it.     *)
<1>s. ASSUME NEW s \in Spans,
             \A r \in Spans \ {s} : data'[r] = data[r] /\ place'[r] = place[r],
             given \subseteq given', setBack \subseteq setBack',
             UNCHANGED clock \/ \E first, second \in Clock : Shows(first, second),
             TimesAgree(s)'
      PROVE  AllTimesAgree'
  <2>1. ASSUME NEW r \in Spans \ {s} PROVE TimesAgree(r)'
    BY <1>a, <1>s, <2>1, OthersAgree
  <2> QED
    BY <1>s, <2>1 DEF AllTimesAgree
<1>1. ASSUME NEW s \in Spans, NEW kind \in Kinds, New(s, kind) PROVE AllTimesAgree'
  <2> DEFINE new == NewSpan(kind, IF kind = "exit" THEN 1 ELSE 0)
  <2>1. PICK now \in Clock : data' = [data EXCEPT ![s] = Start(new, now)] /\ Shows(now, now)
    BY <1>1 DEF New
  <2>2. place' = [place EXCEPT ![s] = "owned"] /\ UNCHANGED given
    BY <1>1 DEF New, Goes
  <2>3. data'[s].start = 0 \/ data'[s].start = now
    <3>1. new \in SpanRecord /\ new.start = 0
      BY NewType DEF NewSpan
    <3>2. data'[s] = Start(new, now)
      BY <1>t, <2>1
    <3> QED
      BY <3>1, <3>2 DEF Start, MillisOr, SpanRecord
  <2>4. place'[s] = "owned" /\ clock' = now /\ setBack \subseteq setBack'
    BY <1>t, <2>1, <2>2 DEF Shows
  <2>5. TimesAgree(s)'
    BY <1>t, <2>3, <2>4 DEF TimesAgree
  <2>6. \A r \in Spans \ {s} : data'[r] = data[r] /\ place'[r] = place[r]
    BY <1>t, <2>1, <2>2
  <2> HIDE DEF new
  <2> QED
    BY <1>s, <2>1, <2>2, <2>4, <2>5, <2>6
<1>2. ASSUME NEW s \in Spans, NEW t \in Spans, CloneBox(s, t) PROVE AllTimesAgree'
  <2>1. /\ data' = [data EXCEPT ![t] = data[s]] /\ place' = [place EXCEPT ![t] = "owned"]
        /\ UNCHANGED clock /\ place[s] = "owned"
    BY <1>2 DEF CloneBox, Goes
  <2>2. given \subseteq given' /\ setBack \subseteq setBack'
    BY <1>2 DEF CloneBox
  <2>3. TimesAgree(t)'
    <3>1. data'[t] = data[s] /\ place'[t] = "owned"
      BY <1>t, <2>1
    <3>2. s \in setBack \cup given => t \in setBack' \cup given'
      BY <1>2 DEF CloneBox
    <3>3. TimesAgree(s)
      BY <1>a
    <3> QED
      BY <2>1, <3>1, <3>2, <3>3 DEF TimesAgree
  <2>4. \A r \in Spans \ {t} : data'[r] = data[r] /\ place'[r] = place[r]
    BY <1>t, <2>1
  <2> QED
    BY <1>s, <2>1, <2>2, <2>3, <2>4
<1>3. ASSUME NEW s \in Spans, StartAgain(s) \/ EndEarly(s) PROVE AllTimesAgree'
  <2>1. PICK now \in Clock :
          /\ data' = [data EXCEPT ![s] = Start(data[s], now)] \/ data' = [data EXCEPT ![s] = End(data[s], now)]
          /\ Shows(now, now)
    BY <1>3 DEF StartAgain, EndEarly
  <2>2. UNCHANGED <<place, given>> /\ place[s] = "owned"
    BY <1>3 DEF StartAgain, EndEarly
  <2>3. data'[s].start = data[s].start \/ data'[s].start = now
    <3>1. data'[s] = Start(data[s], now) \/ data'[s] = End(data[s], now)
      BY <1>t, <2>1
    <3> QED
      BY <1>a, <3>1 DEF Start, End, MillisOr, SpanRecord
  <2>4. setBack \subseteq setBack' /\ (s \in setBack' \/ (clock <= now /\ clock' = now))
    BY <2>1, <2>2, ClockOfSpan
  <2>5. TimesAgree(s)'
    BY <1>t, <1>a, <2>2, <2>3, <2>4 DEF TimesAgree
  <2>6. \A r \in Spans \ {s} : data'[r] = data[r]
    BY <1>t, <2>1
  <2> QED
    BY <1>s, <2>1, <2>2, <2>4, <2>5, <2>6
<1>4. ASSUME NEW s \in Spans, NEW timestamp \in Clock, StartWithTimestamp(s, timestamp)
      PROVE  AllTimesAgree'
  <2>1. /\ data' = [data EXCEPT ![s] = Start(data[s], timestamp)] /\ given' = given \cup {s}
        /\ UNCHANGED <<place, clock, setBack>> /\ place[s] = "owned"
    BY <1>4 DEF StartWithTimestamp
  <2>2. TimesAgree(s)'
    BY <2>1 DEF TimesAgree
  <2>3. \A r \in Spans \ {s} : data'[r] = data[r]
    BY <1>t, <2>1
  <2> QED
    BY <1>s, <2>1, <2>2, <2>3
(* Calls that leave the times alone.                                       *)
<1>5. ASSUME NEW s \in Spans,
             \/ \E timestamp \in Clock : EndWithTimestamp(s, timestamp)
             \/ Record(s) \/ ErrorOccurred(s)
             \/ \E other \in Spans : MergeSpan(s, other)
      PROVE  AllTimesAgree'
  <2>1. /\ UNCHANGED <<clock, given, setBack>>
        /\ place[s] = "owned"
        /\ \A r \in Spans \ {s} : data'[r] = data[r]
        /\ data'[s].start = data[s].start
    <3>1. data[s] \in SpanRecord
      BY <1>a
    <3>2. CASE \E timestamp \in Clock : EndWithTimestamp(s, timestamp)
      BY <1>t, <3>1, <3>2 DEF EndWithTimestamp, history, End, SpanRecord
    <3>3. CASE Record(s)
      <4>1. UNCHANGED <<clock, given, setBack>> /\ place[s] = "owned"
        BY <3>3 DEF Record
      <4>2. PICK new :
              /\ data' = [data EXCEPT ![s] = new]
              /\ \/ \E tag : new = Tag(data[s], tag)
                 \/ \E logs : new = [data[s] EXCEPT !.logs = logs]
                 \/ new = [data[s] EXCEPT !.componentId = calls']
                 \/ new = [data[s] EXCEPT !.peer = calls']
        BY <3>3 DEF Record
      <4>3. new.start = data[s].start
        BY <3>1, <4>2 DEF Tag, SpanRecord
      <4> QED
        BY <1>t, <4>1, <4>2, <4>3
    <3>e. CASE ErrorOccurred(s)
      BY <1>t, <3>1, <3>e DEF ErrorOccurred, SpanRecord
    <3>4. CASE \E other \in Spans : MergeSpan(s, other)
      BY <1>t, <3>1, <3>4 DEF MergeSpan, Merge, SpanRecord
    <3> QED
      BY <1>5, <3>2, <3>3, <3>4, <3>e
  <2>2. /\ place'[s] = "owned"
        /\ \A r \in Spans : place'[r] \in {"owned", "finished_spans"} => place'[r] = place[r]
    BY <1>t, <1>5, <2>1 DEF EndWithTimestamp, Record, ErrorOccurred, MergeSpan, Goes
  <2>3. TimesAgree(s)'
    BY <1>a, <2>1, <2>2 DEF TimesAgree
  <2>4. ASSUME NEW r \in Spans \ {s} PROVE TimesAgree(r)'
    BY <1>a, <2>1, <2>2, <2>4 DEF TimesAgree
  <2> QED
    BY <2>3, <2>4 DEF AllTimesAgree
<1>6. ASSUME NEW s \in Spans, FinishSpan(s) PROVE AllTimesAgree'
  <2>1. PICK first \in Clock, second \in Clock :
          /\ IsEnded(End(data[s], first)) => second = first
          /\ data' = [data EXCEPT ![s] = Seal(data[s], first, second)]
          /\ Shows(first, second)
    BY <1>6 DEF FinishSpan
  <2>2. /\ place[s] = "owned" /\ place' = [place EXCEPT ![s] = "finished_spans"]
        /\ UNCHANGED given
    BY <1>6 DEF FinishSpan, Goes
  <2>3. setBack \subseteq setBack' /\ (s \in setBack' \/ (clock <= first /\ first <= second))
    BY <2>1, <2>2, ClockOfSpan
  <2>4. /\ data'[s].start = data[s].start
        /\ data'[s].end = IF second >= 0 THEN second ELSE data[s].start
    <3>1. data'[s] = Seal(data[s], first, second)
      BY <1>t, <2>1
    <3>2. /\ End(data[s], first) \in SpanRecord
          /\ End(data[s], first).start = data[s].start
          /\ End(data[s], first).end = MillisOr(first, data[s].start)
      BY <1>a, MethodTypes DEF End, SpanRecord
    <3>3. /\ End(End(data[s], first), second).start = data[s].start
          /\ End(End(data[s], first), second).end = MillisOr(second, data[s].start)
      BY <3>2, MethodTypes DEF End, SpanRecord
    <3>4. CASE IsEnded(End(data[s], first))
      BY <2>1, <3>1, <3>2, <3>4 DEF Seal, MillisOr
    <3>5. CASE ~IsEnded(End(data[s], first))
      BY <3>1, <3>3, <3>5 DEF Seal, MillisOr
    <3> QED
      BY <3>4, <3>5
  <2>5. place'[s] = "finished_spans"
    BY <1>t, <2>1, <2>2
  <2>6. s \in setBack' \cup given' \/ data'[s].start <= data'[s].end
    BY <1>t, <1>a, <2>2, <2>3, <2>4 DEF TimesAgree
  <2>7. TimesAgree(s)'
    BY <2>4, <2>5, <2>6 DEF TimesAgree
  <2>8. \A r \in Spans \ {s} : data'[r] = data[r] /\ place'[r] = place[r]
    BY <1>t, <2>1, <2>2
  <2> QED
    BY <1>s, <2>1, <2>2, <2>3, <2>7, <2>8
<1>7. CASE UNCHANGED vars
  BY <1>7 DEF vars, AllTimesAgree, TimesAgree
<1> QED
  BY <1>1, <1>2, <1>3, <1>4, <1>5, <1>6, <1>7 DEF Next

LEMMA TimesAlwaysAgree == Spec => []AllTimesAgree
<1>1. Init => AllTimesAgree
  BY DEF Init, AllTimesAgree, TimesAgree
<1> QED
  BY <1>1, NextTimesAgree, TypeCorrect, PTL DEF Spec

(* Durations are not negative, see NoNegativeDuration.                     *)
THEOREM DurationsAreNotNegative == Spec => []NoNegativeDuration
<1>1. STypeOK /\ AllTimesAgree => NoNegativeDuration
  <2> SUFFICES ASSUME STypeOK, AllTimesAgree, NEW s \in In("finished_spans"),
                      s \notin setBack \cup given
               PROVE  ~(Sent(s).endTime < Sent(s).startTime)
    BY DEF NoNegativeDuration
  <2>1. s \in Spans /\ data[s].start <= data[s].end
    BY DEF AllTimesAgree, TimesAgree, In
  <2>2. data[s].start \in Int /\ data[s].end \in Int
    BY <2>1, RecordTimes
  <2> QED
    BY <2>1, <2>2 DEF Sent, SpanObject
<1> QED
  BY <1>1, TypeCorrect, TimesAlwaysAgree, PTL
=============================================================================
