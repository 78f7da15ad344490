------------------------ MODULE ContextManagerProofs ------------------------
(***************************************************************************)
(* Proofs about the context manager under Spec, that is for any code that  *)
(* uses it, and for any number of scopes, futures and spans.               *)
(***************************************************************************)
EXTENDS ContextManagerProps, SequenceTheorems, TLAPS

-----------------------------------------------------------------------------
(* Operations on one span.                                                 *)

SameIdentity(s, t) ==
  s.ctx = t.ctx /\ s.id = t.id /\ s.parent = t.parent /\ s.kind = t.kind

LEMMA EndedSpan ==
  ASSUME NEW s \in Spans, NEW now \in Times
  PROVE  End(s, now) \in Spans /\ SameIdentity(End(s, now), s)
BY ContextManagerAssumption DEF End, MillisOr, Spans, SameIdentity

LEMMA FinishedSpan ==
  ASSUME NEW s \in Spans, NEW t \in Finished(s)
  PROVE  t \in Spans /\ SameIdentity(t, s)
<1>1. PICK now \in Times, again \in Times :
        t = IF IsEnded(End(s, now)) THEN End(s, now) ELSE End(End(s, now), again)
  BY DEF Finished
<1>2. End(s, now) \in Spans /\ SameIdentity(End(s, now), s)
  BY EndedSpan
<1>3. /\ End(End(s, now), again) \in Spans
      /\ SameIdentity(End(End(s, now), again), End(s, now))
  BY <1>2, EndedSpan
<1> QED
  BY <1>1, <1>2, <1>3 DEF SameIdentity

LEMMA ClonedSpan ==
  ASSUME NEW s \in Spans, 2 * s.copy + 2 <= MaxCopies
  PROVE  /\ [s EXCEPT !.copy = 2 * @ + 1] \in Spans
         /\ [s EXCEPT !.copy = 2 * @ + 2] \in Spans
         /\ SameIdentity([s EXCEPT !.copy = 2 * @ + 1], s)
         /\ SameIdentity([s EXCEPT !.copy = 2 * @ + 2], s)
BY ContextManagerAssumption DEF Spans, SameIdentity

LEMMA RangeAppend ==
  ASSUME NEW S, NEW seq \in Seq(S), NEW e \in S
  PROVE  Range(Append(seq, e)) = Range(seq) \cup {e}
<1> DEFINE longer == Append(seq, e)
<1>1. /\ longer \in Seq(S) /\ Len(seq) \in Nat
      /\ Len(longer) = Len(seq) + 1
      /\ \A i \in 1..Len(seq) : longer[i] = seq[i]
      /\ longer[Len(seq) + 1] = e
  BY AppendProperties, LenProperties
<1>2. /\ Range(seq) = {seq[i] : i \in 1..Len(seq)}
      /\ Range(longer) = {longer[i] : i \in 1..Len(longer)}
  BY <1>1, RangeEquality
<1>3. 1..Len(longer) = 1..Len(seq) \cup {Len(seq) + 1}
  BY <1>1
<1> HIDE DEF longer
<1>4. Range(longer) = Range(seq) \cup {e}
  BY <1>1, <1>2, <1>3
<1> QED
  BY <1>4 DEF longer

LEMMA PoppedStack ==
  ASSUME NEW S, NEW stack \in Seq(S)
  PROVE  /\ Pop(stack) \in Seq(S)
         /\ Len(Pop(stack)) <= Len(stack)
         /\ \A i \in 1..Len(Pop(stack)) : i \in 1..Len(stack) /\ Pop(stack)[i] = stack[i]
<1>1. CASE stack = <<>>
  BY <1>1, LenProperties DEF Pop
<1>2. CASE stack # <<>>
  <2>1. Len(stack) \in Nat \ {0}
    BY <1>2, EmptySeq
  <2>2. \A i \in 1..(Len(stack) - 1) : stack[i] \in S
    BY <2>1, ElementOfSeq
  <2> DEFINE n == Len(stack) - 1
  <2>3. n \in Int /\ n - 1 + 1 = n /\ Len(stack) = n + 1
    BY <2>1
  <2>4. /\ SubSeq(stack, 1, n) \in Seq(S)
        /\ Len(SubSeq(stack, 1, n)) = IF 1 <= n THEN n - 1 + 1 ELSE 0
        /\ \A i \in 1..(n - 1 + 1) : SubSeq(stack, 1, n)[i] = stack[1 + i - 1]
    BY <2>2, <2>3, SubSeqProperties
  <2>5. Pop(stack) = SubSeq(stack, 1, n)
    BY <1>2 DEF Pop
  <2> HIDE DEF n
  <2> QED
    BY <2>1, <2>3, <2>4, <2>5
<1> QED
  BY <1>1, <1>2

-----------------------------------------------------------------------------
(* Type correctness.                                                       *)

LEMMA ParentSpanIdType ==
  ASSUME TypeOK, NEW c \in Contexts
  PROVE  ParentSpanId(c) \in Nat \cup {NoParent}
<1>1. spanStack[c] \in Seq(Nat)
  BY DEF TypeOK
<1>2. spanStack[c] # <<>> => spanStack[c][Len(spanStack[c])] \in Nat
  BY <1>1, EmptySeq, ElementOfSeq
<1> QED
  BY <1>2 DEF ParentSpanId

LEMMA NewSpanType ==
  ASSUME TypeOK, NEW f \in Futures, NEW kind \in Kinds, NEW now \in Times
  PROVE  /\ NewSpan(f, kind, now) \in Spans
         /\ NewSpan(f, kind, now).ctx = Home[f]
         /\ NewSpan(f, kind, now).id = nextSeq[Home[f]] + 1
         /\ NewSpan(f, kind, now).parent = ParentSpanId(Home[f])
<1>1. Home[f] \in Contexts /\ nextSeq[Home[f]] + 1 \in Nat
  BY ContextManagerAssumption DEF TypeOK
<1>2. ParentSpanId(Home[f]) \in Nat \cup {NoParent}
  BY <1>1, ParentSpanIdType
<1>3. now \in Nat /\ MaxCopies \in Nat
  BY ContextManagerAssumption
<1> QED
  BY <1>1, <1>2, <1>3 DEF NewSpan, NextSpanId, Start, MillisOr, Spans

LEMMA InitTypeOK == Init => TypeOK
BY ContextManagerAssumption, EmptySeq DEF Init, TypeOK, Phases, NewTraceIds

LEMMA CreateSpanType ==
  ASSUME TypeOK, NEW f \in Futures, NEW kind \in Kinds, CreateSpan(f, kind)
  PROVE  /\ nextSeq' \in [Contexts -> Int]
         /\ \A c \in Contexts : nextSeq'[c] \in -1..(MaxSpans[c] - 1)
         /\ spanStack' \in [Contexts -> Seq(Nat)]
         /\ held' \in [Futures -> SUBSET Spans]
<1> DEFINE c == Home[f]
<1>1. c \in Contexts /\ nextSeq[c] + 1 \in Nat /\ nextSeq[c] + 1 < MaxSpans[c]
  <2>1. c \in Contexts
    BY ContextManagerAssumption
  <2>2. nextSeq[c] \in -1..(MaxSpans[c] - 1)
    BY <2>1 DEF TypeOK
  <2>3. nextSeq[c] + 1 < MaxSpans[c]
    BY DEF CreateSpan, NextSpanId
  <2> QED
    BY <2>1, <2>2, <2>3
<1>2. /\ nextSeq' \in [Contexts -> Int]
      /\ \A b \in Contexts : nextSeq'[b] \in -1..(MaxSpans[b] - 1)
  <2>1. nextSeq' = [nextSeq EXCEPT ![c] = @ + 1]
    BY DEF CreateSpan, NextSpanId
  <2>2. nextSeq[c] + 1 \in -1..(MaxSpans[c] - 1)
    BY <1>1, ContextManagerAssumption
  <2>3. /\ nextSeq \in [Contexts -> Int]
        /\ \A b \in Contexts : nextSeq[b] \in -1..(MaxSpans[b] - 1)
    BY DEF TypeOK
  <2> HIDE DEF c
  <2> QED
    BY <1>1, <2>1, <2>2, <2>3
<1>3. Append(spanStack[c], nextSeq[c] + 1) \in Seq(Nat)
  BY <1>1, AppendProperties DEF TypeOK
<1>4. spanStack' \in [Contexts -> Seq(Nat)]
  BY <1>1, <1>3 DEF TypeOK, CreateSpan, NextSpanId
<1>5. held' \in [Futures -> SUBSET Spans]
  BY NewSpanType DEF TypeOK, CreateSpan, NextSpanId
<1> QED
  BY <1>2, <1>4, <1>5

LEMMA HeaderType ==
  ASSUME TypeOK, NEW c \in Contexts, nextSeq[c] + 1 \in Nat, MayInject(c)
  PROVE  injected' \subseteq Headers
<1>1. [ctx |-> c, traceId |-> traceId[c], spanId |-> nextSeq[c] + 1] \in Headers
  BY DEF TypeOK, Headers
<1> QED
  BY <1>1 DEF MayInject, Header, NextSpanId, TypeOK

LEMMA NextTypeOK == TypeOK /\ [Next]_vars => TypeOK'
<1> SUFFICES ASSUME TypeOK, [Next]_vars PROVE TypeOK'
  OBVIOUS
<1> USE ContextManagerAssumption
<1>1. ASSUME NEW c \in Contexts, AsyncEnter(c) PROVE TypeOK'
  <2>1. MaxSpans[c] - 1 \in Int /\ -1 <= MaxSpans[c] - 1 /\ <<>> \in Seq(Nat) /\ <<>> \in Seq(Spans)
    BY EmptySeq
  <2> QED
    BY <1>1, <2>1 DEF AsyncEnter, TypeOK, Phases, NewTraceIds
<1>2. ASSUME NEW c \in Contexts, LeaveScope(c) PROVE TypeOK'
  <2>1. <<>> \in Seq(Nat) /\ <<>> \in Seq(Spans)
    BY EmptySeq
  <2>2. held' \in [Futures -> SUBSET Spans]
    BY <1>2 DEF LeaveScope, TypeOK
  <2> QED
    BY <1>2, <2>1, <2>2 DEF LeaveScope, TypeOK, Phases
<1>3. ASSUME NEW f \in Futures, Create(f) PROVE TypeOK'
  <2>1. PICK kind \in Kinds : CreateSpan(f, kind) /\ (UNCHANGED injected \/ MayInject(Home[f]))
    BY <1>3 DEF Create, TracingEntry, TracingLocal, TracingExit, Kinds
  <2>2. injected' \subseteq Headers
    <3>1. Home[f] \in Contexts /\ nextSeq[Home[f]] + 1 \in Nat
      BY DEF TypeOK
    <3> QED
      BY <2>1, <3>1, HeaderType DEF TypeOK
  <2> QED
    BY <2>1, <2>2, CreateSpanType DEF CreateSpan, NextSpanId, TypeOK
<1>4. ASSUME NEW f \in Futures, CreateSpanPanics(f) PROVE TypeOK'
  <2>1. Home[f] \in Contexts /\ nextSeq[Home[f]] + 1 \in Nat
    BY DEF TypeOK
  <2>2. injected' \subseteq Headers
    BY <1>4, <2>1, HeaderType DEF CreateSpanPanics
  <2>3. /\ nextSeq' \in [Contexts -> Int]
        /\ \A b \in Contexts : nextSeq'[b] \in -1..(MaxSpans[b] - 1)
    BY <1>4, <2>1 DEF CreateSpanPanics, TypeOK
  <2> QED
    BY <1>4, <2>2, <2>3 DEF CreateSpanPanics, TypeOK
<1>5. ASSUME NEW f \in Futures, ChangeTraceId(f) PROVE TypeOK'
  BY <1>5 DEF ChangeTraceId, TypeOK
<1>6. ASSUME NEW f \in Futures, NEW span \in held[f], FinishSpan(f, span) PROVE TypeOK'
  <2> DEFINE c == Home[f]
  <2>1. c \in Contexts /\ span \in Spans
    BY DEF TypeOK
  <2>2. held' \in [Futures -> SUBSET Spans]
    BY <1>6 DEF FinishSpan, IsFirstSpan, TypeOK
  <2>3. CASE phase[c] = "working"
    <3>1. PICK done \in Finished(span) :
            IF span.id = 0
            THEN Report(c, Append(finishedSpans[c], done))
            ELSE /\ finishedSpans' = [finishedSpans EXCEPT ![c] = Append(@, done)]
                 /\ spanStack' = [spanStack EXCEPT ![c] = Pop(@)]
                 /\ UNCHANGED <<phase, reported>>
      BY <1>6, <2>3 DEF FinishSpan, IsFirstSpan
    <3>2. done \in Spans
      BY <2>1, <3>1, FinishedSpan
    <3>3. Append(finishedSpans[c], done) \in Seq(Spans)
      BY <2>1, <3>2, AppendProperties DEF TypeOK
    <3>4. Pop(spanStack[c]) \in Seq(Nat)
      BY <2>1, PoppedStack DEF TypeOK
    <3>5. CASE span.id = 0
      <4>1. [ctx |-> c, traceId |-> traceId[c],
             spans |-> Append(finishedSpans[c], done)] \in Segments
        BY <2>1, <3>3 DEF TypeOK, Segments
      <4>2. reported' \in Seq(Segments)
        <5>1. reported' = Append(reported,
                [ctx |-> c, traceId |-> traceId[c],
                 spans |-> Append(finishedSpans[c], done)])
          BY <3>1, <3>5 DEF Report, Segment
        <5>2. reported \in Seq(Segments)
          BY DEF TypeOK
        <5> QED
          BY <4>1, <5>1, <5>2, AppendProperties
      <4>3. <<>> \in Seq(Nat) /\ <<>> \in Seq(Spans)
        BY EmptySeq
      <4> QED
        <5>1. /\ phase' = [phase EXCEPT ![c] = "taken"]
              /\ spanStack' = [spanStack EXCEPT ![c] = <<>>]
              /\ finishedSpans' = [finishedSpans EXCEPT ![c] = <<>>]
              /\ UNCHANGED <<nextSeq, traceId, injected>>
          BY <1>6, <3>1, <3>5 DEF Report, Segment, FinishSpan, IsFirstSpan
        <5> HIDE DEF c
        <5> QED
          BY <2>1, <2>2, <4>2, <4>3, <5>1 DEF TypeOK, Phases
    <3>6. CASE span.id # 0
      <4>1. /\ finishedSpans' = [finishedSpans EXCEPT ![c] = Append(@, done)]
            /\ spanStack' = [spanStack EXCEPT ![c] = Pop(@)]
            /\ UNCHANGED <<phase, nextSeq, traceId, injected, reported>>
        BY <1>6, <3>1, <3>6 DEF FinishSpan, IsFirstSpan
      <4> HIDE DEF c
      <4> QED
        BY <2>1, <2>2, <3>3, <3>4, <4>1 DEF TypeOK
    <3> QED
      BY <3>5, <3>6
  <2>4. CASE phase[c] # "working"
    BY <1>6, <2>2, <2>4 DEF FinishSpan, IsFirstSpan, TypeOK
  <2> QED
    BY <2>3, <2>4
<1>7. ASSUME NEW f \in Futures, NEW span \in held[f],
             EndSpan(f, span) \/ CloneSpan(f, span) \/ DropSpan(f, span)
               \/ \E g \in Futures : SendSpan(f, g, span)
      PROVE TypeOK'
  <2>1. span \in Spans
    BY DEF TypeOK
  <2>2. UNCHANGED <<phase, nextSeq, traceId, spanStack, finishedSpans, injected, reported>>
    BY <1>7 DEF EndSpan, CloneSpan, DropSpan, SendSpan
  <2>3. held' \in [Futures -> SUBSET Spans]
    <3>1. CASE EndSpan(f, span)
      BY <2>1, <3>1, EndedSpan DEF EndSpan, TypeOK
    <3>2. CASE CloneSpan(f, span)
      <4>1. /\ [span EXCEPT !.copy = 2 * @ + 1] \in Spans
            /\ [span EXCEPT !.copy = 2 * @ + 2] \in Spans
        BY <2>1, <3>2, ClonedSpan DEF CloneSpan
      <4> QED
        BY <3>2, <4>1 DEF CloneSpan, TypeOK
    <3>3. CASE DropSpan(f, span)
      BY <3>3 DEF DropSpan, TypeOK
    <3>4. ASSUME NEW g \in Futures, SendSpan(f, g, span)
          PROVE  held' \in [Futures -> SUBSET Spans]
      BY <2>1, <3>4 DEF SendSpan, TypeOK
    <3> QED
      BY <1>7, <3>1, <3>2, <3>3, <3>4
  <2> QED
    BY <2>2, <2>3 DEF TypeOK
<1>8. CASE UNCHANGED vars
  BY <1>8 DEF vars, TypeOK
<1> QED
  BY <1>1, <1>2, <1>3, <1>4, <1>5, <1>6, <1>7, <1>8 DEF Next

(* No usage of the context manager takes a variable out of its range: ids, *)
(* parents and times of spans, stacks, headers and segments are well       *)
(* formed.                                                                 *)
THEOREM TypeCorrect == Spec => []TypeOK
BY InitTypeOK, NextTypeOK, PTL DEF Spec

-----------------------------------------------------------------------------
(* Reports.  A step that reports a segment is the finish of a span with id *)
(* 0 in a scope that has its context; any other step leaves reported alone *)
(* and gives no context back to a scope.                                   *)

Over == {"taken", "exited"}

Reports(f, span, done) ==
  /\ phase[Home[f]] = "working"
  /\ span \in held[f]
  /\ span.id = 0
  /\ done \in Finished(span)
  /\ Report(Home[f], Append(finishedSpans[Home[f]], done))

LEMMA ReportingStep ==
  ASSUME TypeOK, [Next]_vars
  PROVE  \/ /\ UNCHANGED reported
            /\ \A c \in Contexts : phase[c] \in Over => phase'[c] \in Over
         \/ \E f \in Futures, span \in Spans, done \in Spans : Reports(f, span, done)
<1> USE ContextManagerAssumption DEF Over
<1>1. ASSUME NEW c \in Contexts, AsyncEnter(c) \/ LeaveScope(c)
      PROVE  /\ UNCHANGED reported
             /\ \A b \in Contexts : phase[b] \in Over => phase'[b] \in Over
  BY <1>1 DEF AsyncEnter, LeaveScope, TypeOK
<1>2. ASSUME NEW f \in Futures, Create(f) \/ CreateSpanPanics(f) \/ ChangeTraceId(f)
      PROVE  UNCHANGED <<reported, phase>>
  BY <1>2 DEF Create, TracingEntry, TracingLocal, TracingExit, CreateSpan, NextSpanId,
              CreateSpanPanics, ChangeTraceId
<1>3. ASSUME NEW f \in Futures, NEW span \in held[f], FinishSpan(f, span)
      PROVE  \/ UNCHANGED <<reported, phase>>
             \/ span \in Spans /\ \E done \in Spans : Reports(f, span, done)
  <2>1. span \in Spans
    BY DEF TypeOK
  <2>2. \A done \in Finished(span) : done \in Spans
    BY <2>1, FinishedSpan
  <2>3. CASE phase[Home[f]] = "working" /\ span.id = 0
    <3>1. PICK done \in Finished(span) :
            Report(Home[f], Append(finishedSpans[Home[f]], done))
      BY <1>3, <2>3 DEF FinishSpan, IsFirstSpan
    <3> QED
      BY <2>1, <2>2, <2>3, <3>1 DEF Reports
  <2>4. CASE ~(phase[Home[f]] = "working" /\ span.id = 0)
    BY <1>3, <2>4 DEF FinishSpan, IsFirstSpan
  <2> QED
    BY <2>3, <2>4
<1>4. ASSUME NEW f \in Futures, NEW span \in held[f],
             EndSpan(f, span) \/ CloneSpan(f, span) \/ DropSpan(f, span)
               \/ \E g \in Futures : SendSpan(f, g, span)
      PROVE  UNCHANGED <<reported, phase>>
  BY <1>4 DEF EndSpan, CloneSpan, DropSpan, SendSpan
<1>5. CASE UNCHANGED vars
  BY <1>5 DEF vars
<1> QED
  BY <1>1, <1>2, <1>3, <1>4, <1>5 DEF Next

(* What a report does to the list of segments.                             *)
LEMMA ReportAppends ==
  ASSUME TypeOK, NEW f \in Futures, NEW span \in Spans, NEW done \in Spans,
         Reports(f, span, done)
  PROVE  LET last == reported'[Len(reported) + 1]
             spans == Append(finishedSpans[Home[f]], done) IN
         /\ Home[f] \in Contexts
         /\ Len(reported) \in Nat
         /\ Len(reported') = Len(reported) + 1
         /\ \A i \in 1..Len(reported) :
              reported'[i] = reported[i] /\ reported[i] \in Segments
         /\ last.ctx = Home[f] /\ last.spans = spans
         /\ spans \in Seq(Spans)
<1> DEFINE c == Home[f]
           spans == Append(finishedSpans[c], done)
           segment == [ctx |-> c, traceId |-> traceId[c], spans |-> spans]
<1>1. c \in Contexts /\ reported \in Seq(Segments)
  BY ContextManagerAssumption DEF TypeOK
<1>2. spans \in Seq(Spans)
  BY <1>1, AppendProperties DEF TypeOK
<1>3. segment \in Segments
  BY <1>1, <1>2 DEF TypeOK, Segments
<1>4. reported' = Append(reported, segment)
  BY DEF Reports, Report, Segment
<1>5. /\ Len(reported') = Len(reported) + 1
      /\ \A i \in 1..Len(reported) : reported'[i] = reported[i]
      /\ reported'[Len(reported) + 1] = segment
  BY <1>1, <1>3, <1>4, AppendProperties
<1>6. Len(reported) \in Nat /\ \A i \in 1..Len(reported) : reported[i] \in Segments
  BY <1>1, LenProperties, ElementOfSeq
<1>7. segment.ctx = c /\ segment.spans = spans
  OBVIOUS
<1> QED
  BY <1>1, <1>2, <1>5, <1>6, <1>7

LEMMA ReportedType ==
  ASSUME TypeOK, NEW i \in 1..Len(reported)
  PROVE  reported[i].ctx \in Contexts /\ reported[i].spans \in Seq(Spans)
<1>1. reported[i] \in Segments
  BY ElementOfSeq DEF TypeOK
<1> QED
  BY <1>1 DEF Segments

LEMMA NextReportedOnce ==
  ASSUME TypeOK, ReportedOnce, [Next]_vars
  PROVE  ReportedOnce'
<1>1. CASE /\ UNCHANGED reported
           /\ \A c \in Contexts : phase[c] \in Over => phase'[c] \in Over
  <2>1. \A i \in 1..Len(reported) : reported[i].ctx \in Contexts
    BY ReportedType
  <2> QED
    BY <1>1, <2>1 DEF ReportedOnce, Over
<1>2. ASSUME NEW f \in Futures, NEW span \in Spans, NEW done \in Spans,
             Reports(f, span, done)
      PROVE  ReportedOnce'
  <2> DEFINE c == Home[f]
             n == Len(reported)
  <2>1. /\ c \in Contexts /\ n \in Nat /\ Len(reported') = n + 1
        /\ \A i \in 1..n : reported'[i] = reported[i]
        /\ reported'[n + 1].ctx = c
    BY <1>2, ReportAppends
  <2>2. /\ phase[c] = "working"
        /\ phase' = [phase EXCEPT ![c] = "taken"]
        /\ phase \in [Contexts -> Phases]
    BY <1>2 DEF Reports, Report, Segment, TypeOK
  <2>3. \A i \in 1..n : /\ reported[i].ctx # c
                        /\ reported[i].ctx \in Contexts
                        /\ phase[reported[i].ctx] \in {"taken", "exited"}
    <3>1. \A i \in 1..n : reported[i].ctx \in Contexts
      BY ReportedType
    <3>2. \A i \in 1..n : phase[reported[i].ctx] \in {"taken", "exited"}
      BY DEF ReportedOnce
    <3> QED
      BY <2>2, <3>1, <3>2
  <2> HIDE DEF c
  <2>4. \A i \in 1..(n + 1) : phase'[reported'[i].ctx] \in {"taken", "exited"}
    <3> SUFFICES ASSUME NEW i \in 1..(n + 1)
                 PROVE  phase'[reported'[i].ctx] \in {"taken", "exited"}
      OBVIOUS
    <3>1. CASE i = n + 1
      BY <2>1, <2>2, <3>1
    <3>2. CASE i \in 1..n
      BY <2>1, <2>2, <2>3, <3>2
    <3> QED
      BY <2>1, <3>1, <3>2
  <2>5. ASSUME NEW i \in 1..(n + 1), NEW j \in 1..(n + 1),
               reported'[i].ctx = reported'[j].ctx
        PROVE  i = j
    <3>1. CASE i \in 1..n /\ j \in 1..n
      BY <2>1, <2>5, <3>1 DEF ReportedOnce
    <3>2. CASE i = n + 1 \/ j = n + 1
      BY <2>1, <2>3, <2>5, <3>2
    <3> QED
      BY <2>1, <3>1, <3>2
  <2> QED
    BY <2>1, <2>4, <2>5 DEF ReportedOnce
<1> QED
  BY <1>1, <1>2, ReportingStep

(* However handles are cloned, moved between scopes or finished, a context *)
(* is handed to the reporter at most once, and its scope has none after.   *)
THEOREM ContextReportedOnce == Spec => []ReportedOnce
<1>1. Init => ReportedOnce
  BY EmptySeq DEF Init, ReportedOnce
<1>2. TypeOK /\ ReportedOnce /\ [Next]_vars => ReportedOnce'
  BY NextReportedOnce
<1> QED
  BY <1>1, <1>2, TypeCorrect, PTL DEF Spec

-----------------------------------------------------------------------------
(* A segment is sent by the first span with id 0.                          *)

LEMMA ArchivingStep ==
  ASSUME TypeOK, [Next]_vars, NEW c \in Contexts
  PROVE  \/ finishedSpans'[c] = finishedSpans[c]
         \/ finishedSpans'[c] = <<>>
         \/ \E span \in HeldSpans : \E done \in Finished(span) :
              /\ span.id # 0
              /\ finishedSpans'[c] = Append(finishedSpans[c], done)
<1> USE ContextManagerAssumption
<1>f. finishedSpans \in [Contexts -> Seq(Spans)]
  BY DEF TypeOK
<1>1. ASSUME NEW b \in Contexts, AsyncEnter(b) \/ LeaveScope(b)
      PROVE  finishedSpans'[c] \in {finishedSpans[c], <<>>}
  BY <1>1, <1>f DEF AsyncEnter, LeaveScope
<1>2. ASSUME NEW f \in Futures, Create(f) \/ CreateSpanPanics(f) \/ ChangeTraceId(f)
      PROVE  UNCHANGED finishedSpans
  BY <1>2 DEF Create, TracingEntry, TracingLocal, TracingExit, CreateSpan, NextSpanId,
              CreateSpanPanics, ChangeTraceId
<1>3. ASSUME NEW f \in Futures, NEW span \in held[f], FinishSpan(f, span)
      PROVE  \/ finishedSpans'[c] \in {finishedSpans[c], <<>>}
             \/ \E done \in Finished(span) :
                  /\ span.id # 0
                  /\ finishedSpans'[c] = Append(finishedSpans[c], done)
  <2>1. CASE phase[Home[f]] = "working"
    <3>1. PICK done \in Finished(span) :
            IF span.id = 0
            THEN finishedSpans' = [finishedSpans EXCEPT ![Home[f]] = <<>>]
            ELSE finishedSpans' = [finishedSpans EXCEPT ![Home[f]] = Append(@, done)]
      BY <1>3, <2>1 DEF FinishSpan, IsFirstSpan, Report, Segment
    <3> QED
      BY <1>f, <3>1
  <2>2. CASE phase[Home[f]] # "working"
    BY <1>3, <2>2 DEF FinishSpan, IsFirstSpan
  <2> QED
    BY <2>1, <2>2
<1>4. ASSUME NEW f \in Futures, NEW span \in held[f],
             EndSpan(f, span) \/ CloneSpan(f, span) \/ DropSpan(f, span)
               \/ \E g \in Futures : SendSpan(f, g, span)
      PROVE  UNCHANGED finishedSpans
  BY <1>4 DEF EndSpan, CloneSpan, DropSpan, SendSpan
<1>5. CASE UNCHANGED vars
  BY <1>5 DEF vars
<1>6. \A f \in Futures : \A span \in held[f] : span \in HeldSpans
  BY DEF HeldSpans
<1> QED
  BY <1>1, <1>2, <1>3, <1>4, <1>5, <1>6 DEF Next

LEMMA NextReportEndsAtSpanZero ==
  ASSUME TypeOK, ReportEndsAtSpanZero, [Next]_vars
  PROVE  ReportEndsAtSpanZero'
<1> DEFINE EndsAtZero(spans) == \A j \in 1..Len(spans) : spans[j].id = 0 <=> j = Len(spans)
<1>1. ASSUME NEW c \in Contexts
      PROVE  \A s \in Range(finishedSpans'[c]) : s.id # 0
  <2>1. finishedSpans[c] \in Seq(Spans) /\ \A s \in Range(finishedSpans[c]) : s.id # 0
    BY DEF TypeOK, ReportEndsAtSpanZero
  <2>2. CASE finishedSpans'[c] = finishedSpans[c]
    BY <2>1, <2>2
  <2>3. CASE finishedSpans'[c] = <<>>
    BY <2>3 DEF Range
  <2>4. ASSUME NEW span \in HeldSpans, NEW done \in Finished(span), span.id # 0,
               finishedSpans'[c] = Append(finishedSpans[c], done)
        PROVE  \A s \in Range(finishedSpans'[c]) : s.id # 0
    <3>1. span \in Spans
      BY DEF TypeOK, HeldSpans
    <3>2. done \in Spans /\ done.id # 0
      BY <2>4, <3>1, FinishedSpan DEF SameIdentity
    <3>3. Range(finishedSpans'[c]) = Range(finishedSpans[c]) \cup {done}
      BY <2>1, <2>4, <3>2, RangeAppend
    <3> QED
      BY <2>1, <3>2, <3>3
  <2> QED
    BY <2>2, <2>3, <2>4, ArchivingStep
<1>2. ASSUME NEW f \in Futures, NEW span \in Spans, NEW done \in Spans,
             Reports(f, span, done)
      PROVE  \A i \in 1..Len(reported') : EndsAtZero(reported'[i].spans)
  <2> DEFINE c == Home[f]
             n == Len(reported)
             archived == finishedSpans[c]
             spans == Append(archived, done)
  <2>1. /\ c \in Contexts /\ n \in Nat /\ Len(reported') = n + 1
        /\ \A i \in 1..n : reported'[i] = reported[i]
        /\ reported'[n + 1].spans = spans
    BY <1>2, ReportAppends
  <2>2. done.id = 0
    BY <1>2, FinishedSpan DEF Reports, SameIdentity
  <2>3. /\ archived \in Seq(Spans)
        /\ Range(archived) = {archived[j] : j \in 1..Len(archived)}
        /\ \A s \in Range(archived) : s.id # 0
    BY <2>1, RangeEquality DEF TypeOK, ReportEndsAtSpanZero
  <2>4. /\ Len(spans) = Len(archived) + 1 /\ Len(archived) \in Nat
        /\ \A j \in 1..Len(archived) : spans[j] = archived[j]
        /\ spans[Len(archived) + 1] = done
    BY <2>3, AppendProperties, LenProperties
  <2>5. EndsAtZero(spans)
    BY <2>2, <2>3, <2>4
  <2>6. \A i \in 1..n : EndsAtZero(reported[i].spans)
    BY DEF ReportEndsAtSpanZero
  <2> HIDE DEF c, archived, EndsAtZero
  <2> SUFFICES ASSUME NEW i \in 1..(n + 1) PROVE EndsAtZero(reported'[i].spans)
    BY <2>1
  <2>7. CASE i = n + 1
    BY <2>1, <2>5, <2>7
  <2>8. CASE i \in 1..n
    BY <2>1, <2>6, <2>8
  <2> QED
    BY <2>1, <2>7, <2>8
<1>3. CASE UNCHANGED reported
  BY <1>1, <1>3 DEF ReportEndsAtSpanZero
<1> QED
  BY <1>1, <1>2, <1>3, ReportingStep DEF ReportEndsAtSpanZero

(* A segment leaves its scope when, and only when, a span with id 0 is     *)
(* finished there: that span is its last one and no other has id 0.        *)
THEOREM SegmentEndsAtSpanZero == Spec => []ReportEndsAtSpanZero
<1>1. Init => ReportEndsAtSpanZero
  BY EmptySeq DEF Init, ReportEndsAtSpanZero, Range
<1>2. TypeOK /\ ReportEndsAtSpanZero /\ [Next]_vars => ReportEndsAtSpanZero'
  BY NextReportEndsAtSpanZero
<1> QED
  BY <1>1, <1>2, TypeCorrect, PTL DEF Spec

-----------------------------------------------------------------------------
(* Parents.  Every span after a step is new, or is a span from before it,  *)
(* ended, cloned, moved or archived.                                       *)

AllSpans == HeldSpans \cup Archived

LEMMA InAllSpans ==
  ASSUME NEW t
  PROVE  /\ t \in Archived <=> \/ \E c \in Contexts : t \in Range(finishedSpans[c])
                               \/ \E i \in 1..Len(reported) : t \in Range(reported[i].spans)
         /\ t \in AllSpans <=> t \in HeldSpans \/ t \in Archived
<1>1. t \in UNION {Range(finishedSpans[c]) : c \in Contexts}
        <=> \E c \in Contexts : t \in Range(finishedSpans[c])
  BY ZenonT(30)
<1>2. t \in UNION {Range(reported[i].spans) : i \in 1..Len(reported)}
        <=> \E i \in 1..Len(reported) : t \in Range(reported[i].spans)
  BY ZenonT(30)
<1> QED
  BY <1>1, <1>2 DEF AllSpans, Archived

LEMMA AllSpansAreSpans ==
  ASSUME TypeOK
  PROVE  AllSpans \subseteq Spans
<1>1. HeldSpans \subseteq Spans
  BY DEF HeldSpans, TypeOK
<1>2. \A c \in Contexts : Range(finishedSpans[c]) \subseteq Spans
  BY RangeOfSeq DEF TypeOK
<1>3. \A i \in 1..Len(reported) : Range(reported[i].spans) \subseteq Spans
  BY ReportedType, RangeOfSeq
<1> QED
  BY <1>1, <1>2, <1>3, InAllSpans

(* The handles after a step.                                               *)
LEMMA HeldStep ==
  ASSUME TypeOK, [Next]_vars, NEW t \in HeldSpans'
  PROVE  \/ \E s \in HeldSpans : SameIdentity(t, s)
         \/ \E f \in Futures, kind \in Kinds, now \in Times :
              CreateSpan(f, kind) /\ t = NewSpan(f, kind, now)
<1> DEFINE Old == \E s \in HeldSpans : SameIdentity(t, s)
           New(f) == \E kind \in Kinds, now \in Times :
                       CreateSpan(f, kind) /\ t = NewSpan(f, kind, now)
<1> SUFFICES Old \/ \E f \in Futures : New(f)
  OBVIOUS
<1>t. PICK g \in Futures : t \in held'[g]
  BY DEF HeldSpans
<1>h. held \in [Futures -> SUBSET Spans]
  BY DEF TypeOK
<1>old. \A f \in Futures : t \in held[f] => Old
  BY DEF HeldSpans, SameIdentity
<1>1. ASSUME NEW c \in Contexts, AsyncEnter(c) \/ LeaveScope(c) PROVE Old
  BY <1>1, <1>t, <1>h, <1>old DEF AsyncEnter, LeaveScope
<1>2. ASSUME NEW f \in Futures, Create(f) PROVE Old \/ New(f)
  <2>1. PICK kind \in Kinds : CreateSpan(f, kind)
    BY <1>2 DEF Create, TracingEntry, TracingLocal, TracingExit, Kinds
  <2>2. PICK now \in Times : held' = [held EXCEPT ![f] = @ \cup {NewSpan(f, kind, now)}]
    BY <2>1 DEF CreateSpan, NextSpanId
  <2>3. t \in held[g] \/ t = NewSpan(f, kind, now)
    BY <1>t, <1>h, <2>2
  <2> QED
    BY <1>old, <2>1, <2>3
<1>3. ASSUME NEW f \in Futures, CreateSpanPanics(f) \/ ChangeTraceId(f) PROVE Old
  BY <1>3, <1>t, <1>old DEF CreateSpanPanics, ChangeTraceId
<1>4. ASSUME NEW f \in Futures, NEW span \in held[f],
             FinishSpan(f, span) \/ DropSpan(f, span)
      PROVE  Old
  BY <1>4, <1>t, <1>h, <1>old DEF FinishSpan, IsFirstSpan, DropSpan
<1>5. ASSUME NEW f \in Futures, NEW span \in held[f],
             EndSpan(f, span) \/ CloneSpan(f, span)
      PROVE  Old
  <2>1. span \in HeldSpans /\ span \in Spans
    BY <1>h DEF HeldSpans
  <2>2. CASE EndSpan(f, span)
    <3>1. PICK now \in Times : held' = [held EXCEPT ![f] = (@ \ {span}) \cup {End(span, now)}]
      BY <2>2 DEF EndSpan
    <3>2. t \in held[g] \/ t = End(span, now)
      BY <1>t, <1>h, <3>1
    <3>3. SameIdentity(End(span, now), span)
      BY <2>1, EndedSpan
    <3> QED
      BY <1>old, <2>1, <3>2, <3>3
  <2>3. CASE CloneSpan(f, span)
    <3>1. /\ SameIdentity([span EXCEPT !.copy = 2 * @ + 1], span)
          /\ SameIdentity([span EXCEPT !.copy = 2 * @ + 2], span)
      BY <2>1, <2>3, ClonedSpan DEF CloneSpan
    <3>2. \/ t \in held[g]
          \/ t = [span EXCEPT !.copy = 2 * @ + 1]
          \/ t = [span EXCEPT !.copy = 2 * @ + 2]
      BY <1>t, <1>h, <2>3 DEF CloneSpan
    <3> QED
      BY <1>old, <2>1, <3>1, <3>2
  <2> QED
    BY <1>5, <2>2, <2>3
<1>6. ASSUME NEW f \in Futures, NEW span \in held[f], NEW b \in Futures,
             SendSpan(f, b, span)
      PROVE  Old
  <2>1. held' = [held EXCEPT ![f] = @ \ {span}, ![b] = @ \cup {span}]
    BY <1>6 DEF SendSpan
  <2>2. t \in held[g] \/ t = span
    BY <1>t, <1>h, <2>1
  <2> QED
    BY <1>old, <2>2
<1>7. CASE UNCHANGED vars
  BY <1>7, <1>t, <1>old DEF vars
<1>8. \A f \in Futures : Create(f) => Old \/ New(f)
  BY <1>2
<1> HIDE DEF Old, New
<1>9. CASE \E c \in Contexts : AsyncEnter(c) \/ LeaveScope(c)
  BY <1>1, <1>9
<1>10. CASE \E f \in Futures : Create(f) \/ CreateSpanPanics(f) \/ ChangeTraceId(f)
  BY <1>3, <1>8, <1>10
<1>11. CASE \E f \in Futures : \E span \in held[f] :
              \/ FinishSpan(f, span) \/ EndSpan(f, span) \/ CloneSpan(f, span)
              \/ DropSpan(f, span) \/ \E b \in Futures : SendSpan(f, b, span)
  BY <1>4, <1>5, <1>6, <1>11
<1> QED
  BY <1>7, <1>9, <1>10, <1>11 DEF Next

(* The archives after a step: what is finished in it was held before.      *)
LEMMA ArchivedStep ==
  ASSUME TypeOK, [Next]_vars, NEW t \in Archived'
  PROVE  \E s \in AllSpans : SameIdentity(t, s)
<1>old. \A s \in AllSpans : SameIdentity(s, s)
  BY DEF SameIdentity
<1>arch. t \in Archived' => \/ \E c \in Contexts : t \in Range(finishedSpans'[c])
                            \/ \E i \in 1..Len(reported') : t \in Range(reported'[i].spans)
  BY ZenonT(30) DEF Archived
<1>fin. \A c \in Contexts : finishedSpans[c] \in Seq(Spans)
  BY DEF TypeOK
<1>app. ASSUME NEW c \in Contexts, NEW span \in HeldSpans, NEW done \in Finished(span),
               t \in Range(Append(finishedSpans[c], done))
        PROVE  \E s \in AllSpans : SameIdentity(t, s)
  <2>1. span \in Spans
    BY AllSpansAreSpans, InAllSpans
  <2>2. done \in Spans /\ SameIdentity(done, span)
    BY <2>1, FinishedSpan
  <2>3. t \in Range(finishedSpans[c]) \/ t = done
    BY <1>app, <1>fin, <2>2, RangeAppend
  <2> QED
    BY <1>old, <2>2, <2>3, InAllSpans
<1>1. ASSUME NEW c \in Contexts, t \in Range(finishedSpans'[c])
      PROVE  \E s \in AllSpans : SameIdentity(t, s)
  <2>1. CASE finishedSpans'[c] = finishedSpans[c]
    BY <1>1, <1>old, <2>1, InAllSpans
  <2>2. CASE finishedSpans'[c] = <<>>
    BY <1>1, <2>2 DEF Range
  <2>3. ASSUME NEW span \in HeldSpans, NEW done \in Finished(span),
               finishedSpans'[c] = Append(finishedSpans[c], done)
        PROVE  \E s \in AllSpans : SameIdentity(t, s)
    <3>1. t \in Range(Append(finishedSpans[c], done))
      BY <1>1, <2>3
    <3> QED
      BY <1>app, <3>1
  <2> QED
    BY <2>1, <2>2, <2>3, ArchivingStep
<1>2. ASSUME NEW i \in 1..Len(reported'), t \in Range(reported'[i].spans)
      PROVE  \E s \in AllSpans : SameIdentity(t, s)
  <2>1. CASE UNCHANGED reported
    BY <1>2, <1>old, <2>1, InAllSpans
  <2>2. ASSUME NEW f \in Futures, NEW span \in Spans, NEW done \in Spans,
               Reports(f, span, done)
        PROVE  \E s \in AllSpans : SameIdentity(t, s)
    <3>1. /\ Home[f] \in Contexts
          /\ Len(reported) \in Nat /\ Len(reported') = Len(reported) + 1
          /\ \A j \in 1..Len(reported) : reported'[j] = reported[j]
          /\ reported'[Len(reported) + 1].spans = Append(finishedSpans[Home[f]], done)
      BY <2>2, ReportAppends
    <3>2. span \in HeldSpans /\ done \in Finished(span)
      BY <2>2 DEF Reports, HeldSpans
    <3>3. CASE i \in 1..Len(reported)
      BY <1>2, <1>old, <3>1, <3>3, InAllSpans
    <3>4. CASE i = Len(reported) + 1
      <4>1. t \in Range(Append(finishedSpans[Home[f]], done))
        BY <1>2, <3>1, <3>4
      <4> QED
        BY <1>app, <3>1, <3>2, <4>1
    <3> QED
      BY <3>1, <3>3, <3>4
  <2> QED
    BY <2>1, <2>2, ReportingStep
<1> QED
  BY <1>1, <1>2, <1>arch

(* A scope that was not entered has given out no id, so that entering it   *)
(* takes back none.                                                        *)
FreshScopes == \A c \in Contexts : phase[c] = "unentered" => nextSeq[c] = -1

LEMMA IdsGrow ==
  ASSUME TypeOK, FreshScopes, [Next]_vars, NEW c \in Contexts
  PROVE  /\ nextSeq[c] <= nextSeq'[c]
         /\ phase'[c] = "unentered" => nextSeq'[c] = -1
<1> USE ContextManagerAssumption
<1>i. nextSeq[c] \in Int /\ nextSeq \in [Contexts -> Int] /\ phase \in [Contexts -> Phases]
  BY DEF TypeOK
<1>s. phase[c] = "unentered" => nextSeq[c] = -1
  BY DEF FreshScopes
<1> DEFINE Grows == /\ nextSeq[c] <= nextSeq'[c]
                    /\ phase'[c] = "unentered" => nextSeq'[c] = -1
<1> SUFFICES Grows
  OBVIOUS
<1>1. ASSUME NEW b \in Contexts, AsyncEnter(b) PROVE Grows
  BY <1>1, <1>i, <1>s DEF AsyncEnter
<1>2. ASSUME NEW b \in Contexts, LeaveScope(b) PROVE Grows
  BY <1>2, <1>i, <1>s DEF LeaveScope
<1>3. ASSUME NEW f \in Futures, Create(f) \/ CreateSpanPanics(f) PROVE Grows
  <2>1. /\ Home[f] \in Contexts /\ phase[Home[f]] = "working" /\ phase' = phase
        /\ nextSeq' = [nextSeq EXCEPT ![Home[f]] = @ + 1]
    BY <1>3 DEF Create, TracingEntry, TracingLocal, TracingExit, CreateSpan, NextSpanId, CreateSpanPanics
  <2> QED
    BY <2>1, <1>i, <1>s
<1>4. ASSUME NEW f \in Futures, ChangeTraceId(f) PROVE Grows
  BY <1>4, <1>i, <1>s DEF ChangeTraceId
<1>5. ASSUME NEW f \in Futures, NEW span \in held[f], FinishSpan(f, span) PROVE Grows
  <2>1. nextSeq' = nextSeq /\ (phase' = phase \/ phase' = [phase EXCEPT ![Home[f]] = "taken"])
    BY <1>5 DEF FinishSpan, IsFirstSpan, Report, Segment
  <2> QED
    BY <2>1, <1>i, <1>s
<1>6. ASSUME NEW f \in Futures, NEW span \in held[f],
             EndSpan(f, span) \/ CloneSpan(f, span) \/ DropSpan(f, span)
               \/ \E g \in Futures : SendSpan(f, g, span)
      PROVE  Grows
  BY <1>6, <1>i, <1>s DEF EndSpan, CloneSpan, DropSpan, SendSpan
<1>7. CASE UNCHANGED vars
  BY <1>7, <1>i, <1>s DEF vars
<1> HIDE DEF Grows
<1> QED
  BY <1>1, <1>2, <1>3, <1>4, <1>5, <1>6, <1>7 DEF Next

LEMMA StackStep ==
  ASSUME TypeOK, [Next]_vars, NEW c \in Contexts
  PROVE  \/ spanStack'[c] \in {spanStack[c], <<>>, Pop(spanStack[c])}
         \/ /\ spanStack'[c] = Append(spanStack[c], nextSeq[c] + 1)
            /\ nextSeq'[c] = nextSeq[c] + 1
<1> USE ContextManagerAssumption
<1>t. spanStack \in [Contexts -> Seq(Nat)] /\ nextSeq \in [Contexts -> Int]
  BY DEF TypeOK
<1> DEFINE Pushed == /\ spanStack'[c] = Append(spanStack[c], nextSeq[c] + 1)
                     /\ nextSeq'[c] = nextSeq[c] + 1
           Kept == spanStack'[c] \in {spanStack[c], <<>>, Pop(spanStack[c])}
<1> SUFFICES Kept \/ Pushed
  OBVIOUS
<1>1. ASSUME NEW b \in Contexts, AsyncEnter(b) \/ LeaveScope(b) PROVE Kept
  BY <1>1, <1>t DEF AsyncEnter, LeaveScope
<1>2. ASSUME NEW f \in Futures, Create(f) PROVE Kept \/ Pushed
  <2>1. /\ Home[f] \in Contexts
        /\ spanStack' = [spanStack EXCEPT ![Home[f]] = Append(@, nextSeq[Home[f]] + 1)]
        /\ nextSeq' = [nextSeq EXCEPT ![Home[f]] = @ + 1]
    BY <1>2 DEF Create, TracingEntry, TracingLocal, TracingExit, CreateSpan, NextSpanId
  <2> QED
    BY <2>1, <1>t
<1>3. ASSUME NEW f \in Futures, CreateSpanPanics(f) \/ ChangeTraceId(f) PROVE Kept
  BY <1>3 DEF CreateSpanPanics, ChangeTraceId
<1>4. ASSUME NEW f \in Futures, NEW span \in held[f], FinishSpan(f, span) PROVE Kept
  <2>1. \/ UNCHANGED spanStack
        \/ spanStack' = [spanStack EXCEPT ![Home[f]] = <<>>]
        \/ spanStack' = [spanStack EXCEPT ![Home[f]] = Pop(@)]
    BY <1>4 DEF FinishSpan, IsFirstSpan, Report, Segment
  <2> QED
    BY <2>1, <1>t
<1>5. ASSUME NEW f \in Futures, NEW span \in held[f],
             EndSpan(f, span) \/ CloneSpan(f, span) \/ DropSpan(f, span)
               \/ \E g \in Futures : SendSpan(f, g, span)
      PROVE  Kept
  BY <1>5 DEF EndSpan, CloneSpan, DropSpan, SendSpan
<1>6. CASE UNCHANGED vars
  BY <1>6 DEF vars
<1> HIDE DEF Kept, Pushed
<1> QED
  BY <1>1, <1>2, <1>3, <1>4, <1>5, <1>6 DEF Next

(* The two halves of ParentsAreOlder.                                      *)
StackAscends(stack, last) ==
  /\ \A i \in 1..Len(stack) : stack[i] <= last
  /\ \A i, j \in 1..Len(stack) : i < j => stack[i] < stack[j]

LEMMA StackStaysAscending ==
  ASSUME TypeOK, TypeOK', FreshScopes, [Next]_vars, NEW c \in Contexts,
         StackAscends(spanStack[c], nextSeq[c])
  PROVE  StackAscends(spanStack'[c], nextSeq'[c])
<1> DEFINE stack == spanStack[c]
           n == Len(stack)
           last == nextSeq[c]
           next == nextSeq'[c]
<1>t. stack \in Seq(Nat) /\ last \in Int /\ next \in Int /\ last <= next
  BY IdsGrow DEF TypeOK
<1>n. n \in Nat /\ \A i \in 1..n : stack[i] \in Nat
  BY <1>t, LenProperties, ElementOfSeq
<1>a. /\ \A i \in 1..n : stack[i] <= last
      /\ \A i, j \in 1..n : i < j => stack[i] < stack[j]
  BY DEF StackAscends
<1>1. CASE spanStack'[c] = stack
  <2> HIDE DEF stack, last, next
  <2>1. StackAscends(stack, next)
    BY <1>t, <1>n, <1>a DEF StackAscends
  <2> QED
    BY <1>1, <2>1 DEF next
<1>2. CASE spanStack'[c] = <<>>
  BY <1>2 DEF StackAscends
<1>3. CASE spanStack'[c] = Pop(stack)
  <2> DEFINE shorter == Pop(stack)
  <2>1. /\ Len(shorter) \in Nat
        /\ \A i \in 1..Len(shorter) : i \in 1..n /\ shorter[i] = stack[i]
    BY <1>t, PoppedStack, LenProperties
  <2> HIDE DEF stack, last, next, shorter, n
  <2>2. \A i \in 1..Len(shorter) : shorter[i] <= next
    BY <1>t, <1>n, <1>a, <2>1
  <2>3. \A i, j \in 1..Len(shorter) : i < j => shorter[i] < shorter[j]
    BY <1>a, <2>1
  <2>4. StackAscends(shorter, next)
    BY <2>2, <2>3 DEF StackAscends
  <2> QED
    BY <1>3, <2>4 DEF next, shorter
<1>4. CASE spanStack'[c] = Append(stack, last + 1) /\ next = last + 1
  <2> DEFINE longer == spanStack'[c]
  <2>0. longer \in Seq(Nat)
    BY DEF TypeOK
  <2>1. Len(longer) = n + 1 /\ \A i \in 1..n : longer[i] = stack[i]
    BY <1>t, <1>4
  <2>2. longer[n + 1] = last + 1
    BY <1>t, <1>4
  <2> HIDE DEF stack, last, longer, n
  <2>3. \A i \in 1..(n + 1) : i \in 1..n \/ i = n + 1
    BY <1>n
  <2>4. StackAscends(longer, last + 1)
    BY <1>t, <1>n, <1>a, <2>1, <2>2, <2>3 DEF StackAscends
  <2> QED
    BY <1>4, <2>4 DEF longer, last
<1> QED
  BY <1>1, <1>2, <1>3, <1>4, StackStep

Older(s) == s.parent < s.id /\ s.id <= nextSeq[s.ctx]

LEMMA ParentIsOlder ==
  ASSUME TypeOK, NEW f \in Futures, NEW kind \in Kinds, NEW now \in Times,
         CreateSpan(f, kind), StackAscends(spanStack[Home[f]], nextSeq[Home[f]])
  PROVE  /\ NewSpan(f, kind, now).parent < NewSpan(f, kind, now).id
         /\ NewSpan(f, kind, now).id <= nextSeq'[NewSpan(f, kind, now).ctx]
<1> DEFINE c == Home[f]
           stack == spanStack[c]
<1>1. c \in Contexts /\ stack \in Seq(Nat) /\ nextSeq[c] \in Int /\ -1 <= nextSeq[c]
  BY ContextManagerAssumption DEF TypeOK
<1>2. nextSeq'[c] = nextSeq[c] + 1
  BY <1>1 DEF CreateSpan, NextSpanId, TypeOK
<1>3. ParentSpanId(c) <= nextSeq[c]
  <2>1. CASE stack = <<>>
    BY <1>1, <2>1 DEF ParentSpanId, NoParent
  <2>2. CASE stack # <<>>
    <3>1. Len(stack) \in 1..Len(stack)
      BY <1>1, <2>2, LenProperties, EmptySeq
    <3>2. stack[Len(stack)] <= nextSeq[c]
      BY <3>1 DEF StackAscends
    <3> QED
      BY <2>2, <3>2 DEF ParentSpanId
  <2> QED
    BY <2>1, <2>2
<1>4. ParentSpanId(c) \in Int
  BY <1>1, ParentSpanIdType DEF NoParent
<1> HIDE DEF c
<1>5. ParentSpanId(c) < nextSeq[c] + 1
  BY <1>1, <1>3, <1>4
<1> QED
  BY <1>1, <1>2, <1>5, NewSpanType DEF c

LEMMA ParentsAreOlderHalves ==
  ParentsAreOlder <=> /\ \A c \in Contexts : StackAscends(spanStack[c], nextSeq[c])
                      /\ \A s \in AllSpans : Older(s)
BY DEF ParentsAreOlder, StackAscends, AllSpans, Older

LEMMA NextParentsAreOlder ==
  ASSUME TypeOK, TypeOK', FreshScopes, ParentsAreOlder, [Next]_vars
  PROVE  ParentsAreOlder'
<1>1. \A c \in Contexts : StackAscends(spanStack[c], nextSeq[c])
  BY ParentsAreOlderHalves
<1>2. \A s \in AllSpans : s \in Spans /\ Older(s)
  BY AllSpansAreSpans, ParentsAreOlderHalves
<1>3. ASSUME NEW t, NEW s \in AllSpans, SameIdentity(t, s)
      PROVE  t.parent < t.id /\ t.id <= nextSeq'[t.ctx]
  <2>1. s.ctx \in Contexts /\ s.id \in Nat /\ s.parent \in Int /\ Older(s)
    BY <1>2 DEF Spans, NoParent
  <2>2. nextSeq[s.ctx] \in Int /\ nextSeq'[s.ctx] \in Int
    BY <2>1 DEF TypeOK
  <2>3. nextSeq[s.ctx] <= nextSeq'[s.ctx]
    BY <2>1, IdsGrow
  <2>4. s.parent < s.id /\ s.id <= nextSeq'[s.ctx]
    BY <2>1, <2>2, <2>3 DEF Older
  <2> QED
    BY <1>3, <2>4 DEF SameIdentity
<1>4. ASSUME NEW t \in HeldSpans' PROVE t.parent < t.id /\ t.id <= nextSeq'[t.ctx]
  <2>1. ASSUME NEW s \in HeldSpans, SameIdentity(t, s)
        PROVE  t.parent < t.id /\ t.id <= nextSeq'[t.ctx]
    BY <1>3, <2>1 DEF AllSpans
  <2>2. ASSUME NEW f \in Futures, NEW kind \in Kinds, NEW now \in Times,
               CreateSpan(f, kind), t = NewSpan(f, kind, now)
        PROVE  t.parent < t.id /\ t.id <= nextSeq'[t.ctx]
    <3>1. Home[f] \in Contexts
      BY ContextManagerAssumption
    <3> QED
      BY <1>1, <2>2, <3>1, ParentIsOlder
  <2> QED
    BY <2>1, <2>2, HeldStep
<1>5. ASSUME NEW t \in Archived' PROVE t.parent < t.id /\ t.id <= nextSeq'[t.ctx]
  BY <1>3, ArchivedStep
<1>6. \A c \in Contexts : StackAscends(spanStack'[c], nextSeq'[c])
  BY <1>1, StackStaysAscending
<1> QED
  BY <1>4, <1>5, <1>6 DEF ParentsAreOlder, StackAscends

(* Whatever code does with its handles, no step makes a span that is its   *)
(* own ancestor: every parent was created before, in the same context.     *)
THEOREM ParentLinksAreAcyclic == Spec => []ParentsAreOlder
<1>1. Init => FreshScopes /\ ParentsAreOlder
  <2> SUFFICES ASSUME Init PROVE FreshScopes /\ ParentsAreOlder
    OBVIOUS
  <2>1. HeldSpans = {} /\ Archived = {}
    BY EmptySeq DEF Init, HeldSpans, Archived, Range
  <2>2. \A c \in Contexts : Len(spanStack[c]) = 0
    BY EmptySeq DEF Init
  <2> QED
    BY <2>1, <2>2 DEF Init, FreshScopes, ParentsAreOlder
<1>2. TypeOK /\ FreshScopes /\ [Next]_vars => FreshScopes'
  BY IdsGrow DEF FreshScopes
<1>3. TypeOK /\ TypeOK' /\ FreshScopes /\ ParentsAreOlder /\ [Next]_vars => ParentsAreOlder'
  BY NextParentsAreOlder
<1> QED
  BY <1>1, <1>2, <1>3, TypeCorrect, PTL DEF Spec
=============================================================================
