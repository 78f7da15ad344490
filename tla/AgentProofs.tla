----------------------------- MODULE AgentProofs -----------------------------
(***************************************************************************)
(* Proofs about the agent, for any number of scopes, branches and spans,   *)
(* every channel capacity, batch limit and number of attempts: it          *)
(* implements TraceFate.                                                   *)
(***************************************************************************)
EXTENDS Agent, StructuredProofs

(* The reporter of the agent, with its theorems.                           *)
Rep == INSTANCE ReporterProofs WITH MaxSegments <- Cardinality(Contexts)

LEMMA ReporterIsAssumed == Rep!ReporterAssumption
<1>1. Cardinality(Contexts) \in Nat
  BY AgentAssumption, FS_CardinalityType
<1> QED
  BY <1>1, AgentAssumption DEF Rep!ReporterAssumption

-----------------------------------------------------------------------------
(* R and Rep are the same instance of Reporter.                            *)
LEMMA SameActions ==
  /\ R!ReportTrace <=> Rep!ReportTrace
  /\ R!Retrieved <=> Rep!Retrieved
  /\ R!LoopTop <=> Rep!LoopTop
  /\ R!Recv <=> Rep!Recv
  /\ R!RecvNone <=> Rep!RecvNone
  /\ R!RecvTimeout <=> Rep!RecvTimeout
  /\ R!Backoff <=> Rep!Backoff
  /\ R!CollectOk <=> Rep!CollectOk
  /\ R!CollectRetryable <=> Rep!CollectRetryable
  /\ R!CollectUnknown <=> Rep!CollectUnknown
  /\ R!CollectorReads <=> Rep!CollectorReads
  /\ \A s : R!CollectorReadsLate(s) <=> Rep!CollectorReadsLate(s)
  /\ R!CollectorUpDown <=> Rep!CollectorUpDown
<1> USE DEF R!client, R!wire, R!result, Rep!client, Rep!wire, Rep!result
<1>1. R!AttemptFailed <=> Rep!AttemptFailed
  BY DEF R!AttemptFailed, R!NewVec, R!ReturnedCtx, R!Range,
         Rep!AttemptFailed, Rep!NewVec, Rep!ReturnedCtx, Rep!Range
<1>2. R!AbortCall <=> Rep!AbortCall
  BY DEF R!AbortCall, R!Segments, R!Range, Rep!AbortCall, Rep!Segments, Rep!Range
<1>3. \A n : R!FlushOrLoop(n) <=> Rep!FlushOrLoop(n)
  BY DEF R!FlushOrLoop, R!IsFull, Rep!FlushOrLoop, Rep!IsFull
<1>4. R!ReportTrace <=> Rep!ReportTrace
  BY DEF R!ReportTrace, R!HasRoom, Rep!ReportTrace, Rep!HasRoom
<1>5. R!Retrieved <=> Rep!Retrieved
  BY <1>1 DEF R!Retrieved, Rep!Retrieved
<1>6. R!LoopTop <=> Rep!LoopTop
  BY DEF R!LoopTop, Rep!LoopTop
<1>7. R!Recv <=> Rep!Recv
  BY <1>3 DEF R!Recv, R!Push, Rep!Recv, Rep!Push
<1>8. R!RecvNone <=> Rep!RecvNone
  BY <1>3 DEF R!RecvNone, Rep!RecvNone
<1>9. R!RecvTimeout <=> Rep!RecvTimeout
  BY DEF R!RecvTimeout, R!VecIsEmpty, Rep!RecvTimeout, Rep!VecIsEmpty
<1>10. R!Backoff <=> Rep!Backoff
  BY DEF R!Backoff, Rep!Backoff
<1>11. R!CollectOk <=> Rep!CollectOk
  BY DEF R!CollectOk, R!NewVec, R!Range, Rep!CollectOk, Rep!NewVec, Rep!Range
<1>12. R!CollectRetryable <=> Rep!CollectRetryable
  BY <1>1, <1>2 DEF R!CollectRetryable, Rep!CollectRetryable
<1>13. R!CollectUnknown <=> Rep!CollectUnknown
  BY <1>2 DEF R!CollectUnknown, Rep!CollectUnknown
<1>14. R!CollectorReads <=> Rep!CollectorReads
  BY DEF R!CollectorReads, Rep!CollectorReads
<1>15. \A s : R!CollectorReadsLate(s) <=> Rep!CollectorReadsLate(s)
  BY DEF R!CollectorReadsLate, R!Range, Rep!CollectorReadsLate, Rep!Range
<1>16. R!CollectorUpDown <=> Rep!CollectorUpDown
  BY DEF R!CollectorUpDown, Rep!CollectorUpDown
<1> QED
  BY <1>4, <1>5, <1>6, <1>7, <1>8, <1>9, <1>10, <1>11, <1>12, <1>13, <1>14, <1>15, <1>16

LEMMA SameInit == R!Init <=> Rep!Init
BY DEF R!Init, R!Segments, Rep!Init, Rep!Segments

-----------------------------------------------------------------------------
(* A step of the agent is a step of the scopes, or leaves them alone, and  *)
(* a step of the reporter, or leaves it alone.                             *)
LEMMA StepsOfBoth ==
  ASSUME [ANext]_avars
  PROVE  [StructuredNext]_vars /\ [Rep!Next]_(Rep!vars)
<1>1. CASE Code
  <2>1. StructuredNext
    BY <1>1 DEF Code
  <2>2. CASE reported' = reported
    BY <1>1, <2>2 DEF Code, reporter, Rep!vars, Rep!client, Rep!wire, Rep!result
  <2>3. CASE reported' # reported
    BY <1>1, <2>3, SameActions DEF Code, Rep!Next
  <2> QED
    BY <2>1, <2>2, <2>3
<1>2. CASE Task
  BY <1>2, SameActions DEF Task, R!TaskStep, Rep!TaskStep, Rep!Next
<1>3. CASE TaskCall
  BY <1>3, SameActions DEF TaskCall, R!CallReturns, Rep!CallReturns, Rep!Next
<1>4. CASE Outside
  BY <1>4, SameActions DEF Outside, R!Segments, Rep!Segments, Rep!Next
<1>5. CASE ProcessEnds
  BY <1>5 DEF ProcessEnds, reporter, Rep!vars, Rep!client, Rep!wire, Rep!result
<1>6. CASE UNCHANGED avars
  BY <1>6 DEF avars, reporter, Rep!vars, Rep!client, Rep!wire, Rep!result
<1> QED
  BY <1>1, <1>2, <1>3, <1>4, <1>5, <1>6 DEF ANext

LEMMA AgentIsBoth == ASpec => StructuredSpec /\ Rep!Spec
<1>1. AInit => Init /\ Rep!Init
  BY SameInit DEF AInit
<1>2. [ANext]_avars => [StructuredNext]_vars /\ [Rep!Next]_(Rep!vars)
  BY StepsOfBoth
<1> QED
  BY <1>1, <1>2, PTL DEF ASpec, StructuredSpec, Rep!Spec

-----------------------------------------------------------------------------
(* Segment n is the n-th reported one, the reporter exists, and a scope    *)
(* that was reported has a span.                                           *)
Numbered ==
  /\ offered = Len(reported)
  /\ senderAlive = TRUE
  /\ \A i \in 1..Len(reported) : nextSeq[reported[i].ctx] >= 0
  /\ running \in BOOLEAN

AgentInv ==
  /\ Structured /\ ReportedOnce /\ SegmentsComplete
  /\ Rep!CollectorInv
  /\ Numbered

(* What a step of the code does to the scopes.                             *)
Quiet == UNCHANGED <<phase, nextSeq, reported>>

Sent(b, span, done) ==
  /\ Sends(b, span, done)
  /\ phase' = [phase EXCEPT ![b] = "taken"]
  /\ nextSeq' = nextSeq

LEMMA CodeStep ==
  ASSUME Structured, [StructuredNext]_vars
  PROVE  \/ Quiet
         \/ \E b \in Contexts : AsyncEnter(b) \/ LeaveScope(b)
         \/ \E f \in Futures : Create(f)
         \/ \E b \in Contexts, span \in Spans, done \in Spans : Sent(b, span, done)
<1>1. ASSUME NEW f \in Futures, NEW span \in held[f], FinishSpan(f, span), ~Quiet
      PROVE  \E b \in Contexts, s \in Spans, done \in Spans : Sent(b, s, done)
  <2>1. PICK done \in Finished(span) :
          /\ phase[Home[f]] = "working" /\ nextSeq' = nextSeq
          /\ Report(Home[f], Append(finishedSpans[Home[f]], done))
    BY <1>1 DEF FinishSpan, Quiet
  <2>2. phase' = [phase EXCEPT ![Home[f]] = "taken"] /\ phase \in [Contexts -> Phases]
    BY <2>1, StructuredTypes DEF Report, Structured
  <2>3. reported' # reported
    <3>1. reported \in Seq(Segments)
      BY DEF Structured, TypeOK
    <3>2. Len(reported') = Len(reported) + 1 /\ Len(reported) \in Nat
      BY <2>1, <3>1, LenProperties DEF Report
    <3> QED
      BY <3>2
  <2>4. PICK b \in Contexts, s \in Spans, d \in Spans : Closed(b, s, d) /\ s.id = 0
    BY <2>3, SendingStep
  <2>5. Sends(b, s, d)
    BY <2>4, FirstSpanSends
  <2>6. phase[b] = "working" /\ phase'[b] = "taken"
    BY <2>5 DEF Sends
  <2>7. b = Home[f]
    BY <2>2, <2>6
  <2> QED
    BY <2>1, <2>2, <2>5, <2>7 DEF Sent
<1>2. ASSUME NEW f \in Futures, ChangeTraceId(f) PROVE Quiet
  BY <1>2 DEF ChangeTraceId, Quiet
<1>3. ASSUME NEW f \in Futures, NEW span \in held[f], EndSpan(f, span) PROVE Quiet
  BY <1>3 DEF EndSpan, Quiet
<1>4. ASSUME NEW f \in Futures, NEW g \in Futures, NEW span \in held[f], SendSpan(f, g, span)
      PROVE  Quiet
  BY <1>4 DEF SendSpan, Quiet
<1>5. CASE UNCHANGED vars
  BY <1>5 DEF vars, Quiet
<1> QED
  BY <1>1, <1>2, <1>3, <1>4, <1>5 DEF StructuredNext

(* Only report_trace counts a segment, and only in a step that reports one.*)
LEMMA OfferedStep ==
  ASSUME [ANext]_avars
  PROVE  /\ senderAlive' = senderAlive
         /\ \/ reported' = reported /\ offered' = offered
            \/ reported' # reported /\ running /\ running' = running /\ Rep!ReportTrace
         /\ running' \in {running, FALSE}
<1>1. CASE Code
  BY <1>1, SameActions DEF Code, reporter, Rep!ReportTrace
<1>2. CASE Task
  BY <1>2 DEF Task, vars, R!TaskStep, R!Retrieved, R!LoopTop, R!Recv, R!RecvNone,
              R!RecvTimeout, R!Backoff, R!client
<1>3. CASE TaskCall
  BY <1>3 DEF TaskCall, vars, R!CallReturns, R!CollectOk, R!CollectRetryable,
              R!CollectUnknown, R!client
<1>4. CASE Outside
  BY <1>4 DEF Outside, vars, R!CollectorReads, R!CollectorReadsLate, R!CollectorUpDown,
              R!client
<1>5. CASE ProcessEnds
  BY <1>5 DEF ProcessEnds, vars, reporter
<1>6. CASE UNCHANGED avars
  BY <1>6 DEF avars, vars, reporter
<1> QED
  BY <1>1, <1>2, <1>3, <1>4, <1>5, <1>6 DEF ANext

LEMMA NextNumbered ==
  ASSUME AgentInv, [ANext]_avars
  PROVE  Numbered'
<1>s. Structured /\ ReportedOnce /\ [StructuredNext]_vars
  BY StepsOfBoth DEF AgentInv
<1>1. senderAlive' = TRUE /\ running' \in BOOLEAN
  BY OfferedStep DEF AgentInv, Numbered
<1>2. \A i \in 1..Len(reported) :
        /\ reported[i].ctx \in Contexts
        /\ nextSeq[reported[i].ctx] >= 0
        /\ nextSeq'[reported[i].ctx] = nextSeq[reported[i].ctx]
  BY <1>s, ReportedType, OverIsFrozen DEF AgentInv, Structured, ReportedOnce, Over, Numbered
<1>3. CASE reported' = reported
  <2>1. offered' = Len(reported')
    BY <1>3, OfferedStep DEF AgentInv, Numbered
  <2>2. \A i \in 1..Len(reported') : nextSeq'[reported'[i].ctx] >= 0
    BY <1>2, <1>3
  <2> QED
    BY <1>1, <2>1, <2>2 DEF Numbered
<1>4. ASSUME NEW b \in Contexts, NEW span \in Spans, NEW done \in Spans, Sends(b, span, done)
      PROVE  Numbered'
  <2> DEFINE n == Len(reported)
             spans == Append(finishedSpans[b], done)
  <2>1. /\ n \in Nat /\ Len(reported') = n + 1
        /\ \A i \in 1..n : reported'[i] = reported[i]
        /\ reported'[n + 1].ctx = b
        /\ nextSeq'[b] = nextSeq[b] /\ Len(spans) = nextSeq[b] + 1
    BY <1>4 DEF Sends
  <2>2. nextSeq'[b] >= 0
    <3>1. finishedSpans[b] \in Seq(Spans) /\ nextSeq[b] \in Int
      BY <1>s, StructuredTypes DEF Structured
    <3>2. Len(spans) = Len(finishedSpans[b]) + 1 /\ Len(finishedSpans[b]) \in Nat
      BY <3>1, AppendProperties, LenProperties
    <3> HIDE DEF spans
    <3> QED
      BY <2>1, <3>1, <3>2
  <2>3. offered' = n + 1
    <3>1. reported' # reported
      BY <2>1
    <3>2. Rep!ReportTrace
      BY <3>1, OfferedStep
    <3> QED
      BY <3>2 DEF Rep!ReportTrace, AgentInv, Numbered
  <2>4. \A i \in 1..(n + 1) : i \in 1..n \/ i = n + 1
    BY <2>1
  <2> HIDE DEF n
  <2>5. \A i \in 1..Len(reported') : nextSeq'[reported'[i].ctx] >= 0
    BY <1>2, <2>1, <2>2, <2>4 DEF n
  <2> QED
    BY <1>1, <2>1, <2>3, <2>5 DEF Numbered
<1>5. reported' = reported \/ \E b \in Contexts, span \in Spans, done \in Spans : Sends(b, span, done)
  BY <1>s, SendingStep, FirstSpanSends
<1> QED
  BY <1>3, <1>4, <1>5

LEMMA AlwaysAgentInv == ASpec => []AgentInv
<1>1. AInit => Numbered
  BY EmptySeq DEF AInit, R!Init, Init, Numbered
<1>2. Rep!ReporterAssumption
  BY ReporterIsAssumed
<1>3. StructuredSpec => [](Structured /\ ReportedOnce /\ SegmentsComplete)
  BY AlwaysStructured, SegmentsAlwaysComplete, ContextReportedOnce, StructuredSpecIsSpec, PTL
<1>4. Rep!Spec => []Rep!CollectorInv
  BY <1>2, Rep!AlwaysCollectorInv
<1>5. AgentInv /\ [ANext]_avars => Numbered'
  BY NextNumbered
<1>6. (Structured /\ ReportedOnce /\ SegmentsComplete) /\ Rep!CollectorInv /\ Numbered
        <=> AgentInv
  BY DEF AgentInv
<1> QED
  BY <1>1, <1>3, <1>4, <1>5, <1>6, AgentIsBoth, PTL DEF ASpec

-----------------------------------------------------------------------------
(* What TraceFate sees.                                                    *)

(* The fate of the scope of segment n, and of a scope without segment.     *)
Outcome(n) ==
  CASE n \in dropped -> "refused"
    [] n \in acked -> "delivered"
    [] n \in logged -> "backedUp"
    [] OTHER -> IF running THEN "waiting" ELSE "lost"

Before(c) ==
  CASE phase[c] = "unentered" -> "idle"
    [] phase[c] = "working" -> IF running THEN "tracing" ELSE "abandoned"
    [] OTHER -> "abandoned"

Unreported(c) == \A n \in 1..Len(reported) : reported[n].ctx # c

Arrived(n) == IF received[n] > 0 THEN 0..nextSeq[reported[n].ctx] ELSE {}

View ==
  /\ \A n \in 1..Len(reported) :
       /\ reported[n].ctx \in Contexts
       /\ Fate(reported[n].ctx) = Outcome(n)
       /\ Known(reported[n].ctx) = Arrived(n)
  /\ \A c \in Contexts : Unreported(c) => Fate(c) = Before(c) /\ Known(c) = {}

LEMMA SegmentOfIs ==
  ASSUME ReportedOnce, Len(reported) \in Nat
  PROVE  /\ \A n \in 1..Len(reported) : SegmentOf(reported[n].ctx) = n
         /\ \A c : Unreported(c) => SegmentOf(c) = 0
<1>1. ASSUME NEW n \in 1..Len(reported) PROVE SegmentOf(reported[n].ctx) = n
  <2> DEFINE c == reported[n].ctx
             m == CHOOSE i \in 1..Len(reported) : reported[i].ctx = c
  <2>1. SegmentOf(c) = m
    BY DEF SegmentOf
  <2>2. m \in 1..Len(reported) /\ reported[m].ctx = c
    OBVIOUS
  <2> QED
    BY <2>1, <2>2 DEF ReportedOnce
<1>2. ASSUME NEW c, Unreported(c) PROVE SegmentOf(c) = 0
  BY <1>2 DEF Unreported, SegmentOf
<1> QED
  BY <1>1, <1>2

LEMMA AgentView == AgentInv => View
<1> SUFFICES ASSUME AgentInv PROVE View
  OBVIOUS
<1>1. Len(reported) \in Nat /\ ReportedOnce
  BY LenProperties DEF AgentInv, Structured, TypeOK
<1>2. ASSUME NEW n \in 1..Len(reported)
      PROVE  /\ reported[n].ctx \in Contexts
             /\ Fate(reported[n].ctx) = Outcome(n)
             /\ Known(reported[n].ctx) = Arrived(n)
  <2>1. SegmentOf(reported[n].ctx) = n /\ n # 0
    BY <1>1, SegmentOfIs
  <2>2. Ids(Range(reported[n].spans)) = 0..nextSeq[reported[n].ctx]
    BY DEF AgentInv, SegmentsComplete, Complete
  <2>3. {reported[n].spans[i].id : i \in 1..Len(reported[n].spans)}
          = Ids(Range(reported[n].spans))
    BY ReportedType, RangeEquality DEF Ids, AgentInv, Structured
  <2>4. Known(reported[n].ctx) = Arrived(n)
    BY <2>1, <2>2, <2>3 DEF Known, Arrived
  <2>5. Fate(reported[n].ctx) = Outcome(n)
    BY <2>1 DEF Fate, Outcome
  <2> QED
    BY <2>4, <2>5, ReportedType DEF AgentInv, Structured
<1>3. ASSUME NEW c \in Contexts, Unreported(c) PROVE Fate(c) = Before(c) /\ Known(c) = {}
  <2>1. SegmentOf(c) = 0
    BY <1>1, <1>3, SegmentOfIs
  <2> QED
    BY <2>1 DEF Fate, Before, Known
<1> QED
  BY <1>2, <1>3 DEF View

(* The scopes of the segments p, in order.                                 *)
Line(p, segments) == [i \in 1..Len(p) |-> segments[p[i]].ctx]

LEMMA LineIsSeq ==
  ASSUME NEW S, NEW p \in Seq(S), NEW segments,
         \A i \in 1..Len(p) : segments[p[i]].ctx \in Contexts
  PROVE  /\ Line(p, segments) \in Seq(Contexts)
         /\ Len(Line(p, segments)) = Len(p) /\ Len(p) \in Nat
         /\ \A i \in 1..Len(p) : Line(p, segments)[i] = segments[p[i]].ctx
<1>1. Len(p) \in Nat
  BY LenProperties
<1>2. Line(p, segments) \in [1..Len(p) -> Contexts]
  BY DEF Line
<1> QED
  BY <1>1, <1>2, SeqDef, LenProperties DEF Line

LEMMA LineAppend ==
  ASSUME NEW S, NEW p \in Seq(S), NEW segments, NEW s \in S,
         \A i \in 1..Len(p) : segments[p[i]].ctx \in Contexts,
         segments[s].ctx \in Contexts
  PROVE  Line(Append(p, s), segments) = Append(Line(p, segments), segments[s].ctx)
<1> DEFINE longer == Append(p, s)
           c == segments[s].ctx
           line == Line(p, segments)
<1>1. /\ Len(p) \in Nat /\ longer \in Seq(S) /\ Len(longer) = Len(p) + 1
      /\ \A i \in 1..Len(p) : longer[i] = p[i]
      /\ longer[Len(p) + 1] = s
  BY AppendProperties, LenProperties
<1>2. /\ line \in Seq(Contexts) /\ Len(line) = Len(p)
      /\ \A i \in 1..Len(p) : line[i] = segments[p[i]].ctx
  BY LineIsSeq
<1> HIDE DEF longer, line
<1>3. /\ Append(line, c) \in Seq(Contexts) /\ Len(Append(line, c)) = Len(p) + 1
      /\ \A i \in 1..Len(p) : Append(line, c)[i] = line[i]
      /\ Append(line, c)[Len(p) + 1] = c
  BY <1>2, AppendProperties
<1>4. \A i \in 1..Len(longer) :
        segments[longer[i]].ctx \in Contexts /\ segments[longer[i]].ctx = Append(line, c)[i]
  BY <1>1, <1>2, <1>3
<1>5. /\ Line(longer, segments) \in Seq(Contexts)
      /\ Len(Line(longer, segments)) = Len(longer)
      /\ \A i \in 1..Len(longer) : Line(longer, segments)[i] = segments[longer[i]].ctx
  BY <1>1, <1>4, LineIsSeq
<1>6. Line(longer, segments) = Append(line, c)
  BY <1>1, <1>3, <1>4, <1>5, SeqEqual
<1> QED
  BY <1>6 DEF longer, line

LEMMA LineSubSeq ==
  ASSUME NEW S, NEW p \in Seq(S), NEW segments,
         \A i \in 1..Len(p) : segments[p[i]].ctx \in Contexts,
         NEW m \in 1..(Len(p) + 1), NEW n \in 0..Len(p)
  PROVE  Line(SubSeq(p, m, n), segments) = SubSeq(Line(p, segments), m, n)
<1> DEFINE part == SubSeq(p, m, n)
           line == Line(p, segments)
           size == IF m <= n THEN n - m + 1 ELSE 0
<1>1. /\ line \in Seq(Contexts) /\ Len(line) = Len(p) /\ Len(p) \in Nat
      /\ \A i \in 1..Len(p) : line[i] = segments[p[i]].ctx
  BY LineIsSeq
<1>2. /\ part \in Seq(S) /\ Len(part) = size
      /\ \A i \in 1..size : part[i] = p[m + i - 1]
  BY <1>1, SubSeqProperties
<1> HIDE DEF line, part
<1>3. /\ SubSeq(line, m, n) \in Seq(Contexts) /\ Len(SubSeq(line, m, n)) = size
      /\ \A i \in 1..size : SubSeq(line, m, n)[i] = line[m + i - 1]
  BY <1>1, SubSeqProperties
<1>4. \A i \in 1..size : m + i - 1 \in 1..Len(p)
  BY <1>1
<1>5. \A i \in 1..Len(part) :
        segments[part[i]].ctx \in Contexts /\ segments[part[i]].ctx = SubSeq(line, m, n)[i]
  <2> SUFFICES ASSUME NEW i \in 1..size
               PROVE  /\ segments[part[i]].ctx \in Contexts
                      /\ segments[part[i]].ctx = SubSeq(line, m, n)[i]
    BY <1>2
  <2> DEFINE j == m + i - 1
  <2>1. j \in 1..Len(p)
    BY <1>4
  <2>2. part[i] = p[j] /\ SubSeq(line, m, n)[i] = line[j]
    BY <1>2, <1>3
  <2> HIDE DEF j, size
  <2> QED
    BY <1>1, <2>1, <2>2
<1>6. /\ Line(part, segments) \in Seq(Contexts)
      /\ Len(Line(part, segments)) = Len(part)
      /\ \A i \in 1..Len(part) : Line(part, segments)[i] = segments[part[i]].ctx
  BY <1>2, <1>5, LineIsSeq
<1>7. Line(part, segments) = SubSeq(line, m, n)
  BY <1>2, <1>3, <1>5, <1>6, SeqEqual
<1> QED
  BY <1>7 DEF part, line

-----------------------------------------------------------------------------
(* The state of TraceFate.                                                 *)
fate == [c \in Contexts |-> Fate(c)]
size == [c \in Contexts |-> nextSeq[c] + 1]
known == [c \in Contexts |-> Known(c)]
line == IF running THEN Line(Rep!Pending, reported) ELSE <<>>

LEMMA Mapping ==
  /\ \A c \in Contexts : fate[c] = Fate(c) /\ size[c] = nextSeq[c] + 1 /\ known[c] = Known(c)
  /\ \A c \in Contexts : fate'[c] = Fate(c)' /\ size'[c] = nextSeq'[c] + 1 /\ known'[c] = Known(c)'
  /\ UNCHANGED <<fate, size, line, known, running>> => UNCHANGED Ends!fvars
BY DEF fate, size, known, line, Line, R!Pending, Rep!Pending, Ends!fvars

LEMMA FatesChange ==
  ASSUME NEW c \in Contexts, NEW outcome, Fate(c)' = outcome,
         \A d \in Contexts : d # c => Fate(d)' = Fate(d)
  PROVE  fate' = [fate EXCEPT ![c] = outcome]
BY DEF fate

LEMMA FatesStay ==
  ASSUME \A c \in Contexts : Fate(c)' = Fate(c)
  PROVE  fate' = fate
BY DEF fate

LEMMA SizesStay ==
  ASSUME \A c \in Contexts : nextSeq'[c] = nextSeq[c]
  PROVE  size' = size
BY DEF size

LEMMA KnownStays ==
  ASSUME \A c \in Contexts : Known(c)' = Known(c)
  PROVE  known' = known
BY DEF known

(* Nothing is reported, and the reporter does nothing: what is reported    *)
(* keeps its place, and the rest depends on the scope alone.               *)
LEMMA ReporterAtRest ==
  ASSUME AgentInv, View, View', [ANext]_avars, reported' = reported, UNCHANGED reporter,
         running, running'
  PROVE  /\ line' = line /\ known' = known
         /\ \A c \in Contexts : Unreported(c) => Fate(c) = Before(c) /\ Fate(c)' = Before(c)'
         /\ \A c \in Contexts : ~Unreported(c) => Fate(c)' = Fate(c) /\ phase[c] \in Over
<1>1. Structured /\ ReportedOnce /\ [StructuredNext]_vars
  BY StepsOfBoth DEF AgentInv
<1>2. \A c : Unreported(c)' <=> Unreported(c)
  BY DEF Unreported
<1>3. \A n \in 1..Len(reported) :
        /\ reported[n].ctx \in Contexts
        /\ phase[reported[n].ctx] \in Over
        /\ nextSeq'[reported[n].ctx] = nextSeq[reported[n].ctx]
  BY <1>1, ReportedType, OverIsFrozen DEF Structured, ReportedOnce, Over
<1>4. \A n \in 1..Len(reported) : Outcome(n)' = Outcome(n) /\ Arrived(n)' = Arrived(n)
  BY <1>3 DEF Outcome, Arrived, reporter
<1>5. ASSUME NEW c \in Contexts, ~Unreported(c)
      PROVE  Fate(c)' = Fate(c) /\ Known(c)' = Known(c) /\ phase[c] \in Over
  BY <1>3, <1>4, <1>5 DEF Unreported, View
<1>6. \A c \in Contexts : Unreported(c) =>
        Fate(c) = Before(c) /\ Fate(c)' = Before(c)' /\ Known(c) = {} /\ Known(c)' = {}
  BY <1>2 DEF View
<1>7. line' = line
  BY DEF line, reporter, Rep!Pending
<1> QED
  BY <1>5, <1>6, <1>7, KnownStays

LEMMA ScopeSteps ==
  ASSUME AgentInv, View, View', [ANext]_avars, reported' = reported, UNCHANGED reporter,
         running, running', [StructuredNext]_vars
  PROVE  [Ends!FNext]_(Ends!fvars)
<1> DEFINE Goal == [Ends!FNext]_(Ends!fvars)
<1> SUFFICES Goal
  OBVIOUS
<1>1. /\ line' = line /\ known' = known /\ running' = running
      /\ \A c \in Contexts : Unreported(c) => Fate(c) = Before(c) /\ Fate(c)' = Before(c)'
      /\ \A c \in Contexts : ~Unreported(c) => Fate(c)' = Fate(c) /\ phase[c] \in Over
  BY ReporterAtRest DEF AgentInv, Numbered
<1>2. /\ Structured /\ FreshScopes
      /\ phase \in [Contexts -> Phases] /\ nextSeq \in [Contexts -> Int]
  BY StructuredTypes DEF AgentInv, Structured
<1>3. ASSUME NEW b \in Contexts, AsyncEnter(b) PROVE Goal
  <2>1. /\ phase[b] = "unentered" /\ nextSeq'[b] = nextSeq[b] /\ phase'[b] = "working"
        /\ \A c \in Contexts : c # b => phase'[c] = phase[c] /\ nextSeq'[c] = nextSeq[c]
    BY <1>2, <1>3 DEF AsyncEnter, FreshScopes
  <2>2. Fate(b) = "idle" /\ Fate(b)' = "tracing"
    BY <1>1, <2>1 DEF Before, Over
  <2>3. \A c \in Contexts : c # b => Fate(c)' = Fate(c)
    BY <1>1, <2>1 DEF Before
  <2>4. fate[b] = "idle" /\ fate' = [fate EXCEPT ![b] = "tracing"] /\ size' = size
    BY <2>1, <2>2, <2>3, FatesChange, SizesStay, Mapping
  <2>5. Ends!Enter(b)
    BY <1>1, <2>4 DEF Ends!Enter, fate, size, known, line, Line, R!Pending, Rep!Pending
  <2> QED
    BY <2>5 DEF Ends!FNext
<1>4. ASSUME NEW b \in Contexts, LeaveScope(b) PROVE Goal
  <2>1. /\ phase[b] \in {"working", "taken"} /\ phase'[b] = "exited"
        /\ \A c \in Contexts : c # b => phase'[c] = phase[c]
        /\ nextSeq' = nextSeq
    BY <1>2, <1>4 DEF LeaveScope
  <2>2. \A c \in Contexts : c # b => Fate(c)' = Fate(c)
    BY <1>1, <2>1 DEF Before
  <2>3. size' = size
    BY <2>1, SizesStay
  <2>4. CASE phase[b] = "working"
    <3>1. Fate(b) = "tracing" /\ Fate(b)' = "abandoned"
      BY <1>1, <2>1, <2>4 DEF Before, Over
    <3>2. fate[b] = "tracing" /\ fate' = [fate EXCEPT ![b] = "abandoned"]
      BY <2>2, <3>1, FatesChange, Mapping
    <3>3. Ends!Abandon(b)
      BY <1>1, <2>3, <3>2 DEF Ends!Abandon, fate, size, known, line, Line, R!Pending, Rep!Pending
    <3> QED
      BY <3>3 DEF Ends!FNext
  <2>5. CASE phase[b] = "taken"
    <3>1. Fate(b)' = Fate(b)
      BY <1>1, <2>1, <2>5 DEF Before
    <3> QED
      BY <1>1, <2>2, <2>3, <3>1, FatesStay, Mapping
  <2> QED
    BY <2>1, <2>4, <2>5
<1>5. ASSUME NEW f \in Futures, Create(f) PROVE Goal
  <2> DEFINE b == Home[f]
  <2>1. /\ b \in Contexts /\ phase[b] = "working" /\ phase' = phase
        /\ nextSeq' = [nextSeq EXCEPT ![b] = @ + 1]
    BY <1>5, ContextManagerAssumption
    DEF Create, TracingEntry, TracingExit, TracingLocal, CreateSpan
  <2> HIDE DEF b
  <2>2. \A c \in Contexts : Fate(c)' = Fate(c)
    BY <1>1, <2>1 DEF Before
  <2>3. Fate(b) = "tracing"
    BY <1>1, <2>1 DEF Before, Over
  <2>4. size' = [size EXCEPT ![b] = @ + 1]
    BY <1>2, <2>1 DEF size
  <2>5. fate[b] = "tracing" /\ fate' = fate
    BY <2>1, <2>2, <2>3, FatesStay, Mapping
  <2>6. Ends!Open(b)
    BY <1>1, <2>4, <2>5 DEF Ends!Open, fate, size, known, line, Line, R!Pending, Rep!Pending
  <2> QED
    BY <2>1, <2>6 DEF Ends!FNext
<1>6. CASE Quiet
  <2>1. \A c \in Contexts : Fate(c)' = Fate(c)
    BY <1>1, <1>6 DEF Before, Quiet
  <2>2. size' = size
    BY <1>6, SizesStay DEF Quiet
  <2> QED
    BY <1>1, <2>1, <2>2, FatesStay, Mapping
<1>7. ASSUME NEW b \in Contexts, NEW span \in Spans, NEW done \in Spans, Sent(b, span, done)
      PROVE  FALSE
  BY <1>7 DEF Sent, Sends
<1> HIDE DEF Goal
<1> QED
  BY <1>2, <1>3, <1>4, <1>5, <1>6, <1>7, CodeStep

-----------------------------------------------------------------------------
(* What is pending has been reported, was not refused and is not settled;  *)
(* nothing else has been written.                                          *)
PendingReported ==
  /\ Rep!Pending \in Seq(Rep!Segments) /\ Len(Rep!Pending) \in Nat
  /\ Len(reported) \in Nat /\ 1..Len(reported) \subseteq Rep!Segments
  /\ \A i \in 1..Len(Rep!Pending) :
       LET n == Rep!Pending[i] IN
       /\ n \in 1..Len(reported) /\ reported[n].ctx \in Contexts
       /\ n \notin dropped /\ n \notin acked /\ n \notin logged
  /\ dropped \cup acked \cup logged \subseteq 1..Len(reported)
  /\ acked \cap logged = {} /\ dropped \cap (acked \cup logged) = {}
  /\ \A n \in Rep!Segments :
       /\ received[n] \in Nat
       /\ received[n] > 0 => n \in 1..Len(reported) /\ n \notin dropped
       /\ n \in acked => received[n] > 0

LEMMA AgentPending == AgentInv => PendingReported
<1> SUFFICES ASSUME AgentInv PROVE PendingReported
  OBVIOUS
<1>1. /\ Rep!TypeInv /\ Rep!EachSegmentInOnePlace /\ Rep!AckInv /\ Rep!CopiesInv
      /\ TypeOK /\ offered = Len(reported)
  BY DEF AgentInv, Rep!CollectorInv, Structured, Numbered
<1>2. Rep!Pending \in Seq(Rep!Segments) /\ Len(Rep!Pending) \in Nat
  BY <1>1, ReporterIsAssumed, Rep!PendingIsSeq, LenProperties
<1>3. /\ offered \in 0..Cardinality(Contexts) /\ Cardinality(Contexts) \in Nat
      /\ received \in [Rep!Segments -> Nat] /\ late \in [Rep!Segments -> Nat]
  BY <1>1, ReporterIsAssumed DEF Rep!TypeInv, Rep!RTypeOK, Rep!ReporterAssumption
<1>4. Len(reported) \in Nat /\ 1..Len(reported) \subseteq Rep!Segments
  BY <1>1, <1>3 DEF Rep!Segments
<1>5. ASSUME NEW i \in 1..Len(Rep!Pending)
      PROVE  LET n == Rep!Pending[i] IN
             /\ n \in 1..Len(reported) /\ reported[n].ctx \in Contexts
             /\ n \notin dropped /\ n \notin acked /\ n \notin logged
  <2> DEFINE n == Rep!Pending[i]
  <2>1. n \in Rep!Segments /\ n \in Rep!Range(Rep!Pending)
    BY <1>2, ElementOfSeq DEF Rep!Range
  <2>2. n \in 1..Len(reported) /\ n \notin dropped /\ \A s \in Rep!Settled : s < n
    BY <1>1, <2>1 DEF Rep!EachSegmentInOnePlace
  <2> HIDE DEF n
  <2>3. n \notin Rep!Settled
    BY <2>2, <1>4
  <2>4. reported[n].ctx \in Contexts
    BY <1>1, <2>2, ReportedType
  <2> QED
    BY <2>2, <2>3, <2>4 DEF Rep!Settled, n
<1>6. /\ dropped \cup acked \cup logged \subseteq 1..Len(reported)
      /\ acked \cap logged = {} /\ dropped \cap (acked \cup logged) = {}
  BY <1>1 DEF Rep!EachSegmentInOnePlace, Rep!Settled
<1>7. ASSUME NEW n \in Rep!Segments
      PROVE  /\ received[n] \in Nat
             /\ received[n] > 0 => n \in 1..Len(reported) /\ n \notin dropped
             /\ n \in acked => received[n] > 0
  <2>1. received[n] \in Nat /\ late[n] \in Nat
    BY <1>3
  <2>2. (n > offered \/ n \in dropped) => received[n] + late[n] = 0
    BY <1>1 DEF Rep!CopiesInv, Rep!Copies
  <2>3. n \in 1..Len(reported) \/ n > offered
    BY <1>1, <1>3, <1>4 DEF Rep!Segments
  <2>4. n \in acked => received[n] > 0
    BY <1>1 DEF Rep!AckInv, Rep!AckedWasReceived
  <2> QED
    BY <2>1, <2>2, <2>3, <2>4
<1> QED
  BY <1>2, <1>4, <1>5, <1>6, <1>7 DEF PendingReported

(* A step of the reporter, at the level of SegmentDelivery.                *)
LEMMA DeliveryStep ==
  ASSUME AgentInv, [ANext]_avars
  PROVE  [Rep!Delivery!DNext]_(Rep!Delivery!dvars)
<1>1. Rep!TypeInv /\ [Rep!Next]_(Rep!vars)
  BY StepsOfBoth DEF AgentInv, Rep!CollectorInv
<1> QED
  BY <1>1, ReporterIsAssumed, Rep!StepImplements

(* The first span of scope b is finished: b is complete.                   *)
LEMMA ReportSteps ==
  ASSUME AgentInv, AgentInv', View, View', PendingReported, PendingReported', [ANext]_avars,
         reported' # reported, running, running',
         NEW b \in Contexts, NEW span \in Spans, NEW done \in Spans, Sent(b, span, done)
  PROVE  [Ends!FNext]_(Ends!fvars)
<1>n. PICK n \in Nat : n = Len(reported)
  BY DEF PendingReported
<1>1. /\ n \in Nat /\ Len(reported') = n + 1
      /\ \A i \in 1..n : reported'[i] = reported[i] /\ reported[i].ctx \in Contexts
      /\ reported'[n + 1].ctx = b
      /\ phase[b] = "working"
      /\ nextSeq' = nextSeq
      /\ \A c \in Contexts : c # b => phase'[c] = phase[c]
  <2>1. phase \in [Contexts -> Phases]
    BY StructuredTypes DEF AgentInv, Structured
  <2> QED
    BY <1>n, <2>1 DEF Sent, Sends
<1>2. /\ Rep!ReportTrace /\ running' = running /\ offered = n /\ offered' = n + 1
      /\ received' = received /\ acked' = acked /\ logged' = logged
  BY <1>n, OfferedStep DEF AgentInv, Numbered, Rep!ReportTrace, Rep!wire, Rep!result
<1>3. Unreported(b) /\ \A i \in 1..n : reported[i].ctx # b
  BY <1>n, <1>1 DEF AgentInv, ReportedOnce, Unreported
<1>4. \A i \in 1..(n + 1) : i \in 1..n \/ i = n + 1
  BY <1>1
<1>5. \A c \in Contexts : c # b => (Unreported(c)' <=> Unreported(c))
  BY <1>n, <1>1, <1>4 DEF Unreported
<1>6. /\ n + 1 \notin dropped /\ n + 1 \notin acked /\ n + 1 \notin logged
      /\ n + 1 \in Rep!Segments /\ n + 1 \in 1..(n + 1)
      /\ received[n + 1] = 0
  <2>1. n + 1 \in 1..(n + 1) /\ n + 1 \notin 1..n
    BY <1>1
  <2>2. n + 1 \in Rep!Segments
    BY <1>1, <2>1 DEF PendingReported
  <2>3. received[n + 1] \in Nat /\ ~(received[n + 1] > 0)
    BY <1>n, <2>1, <2>2 DEF PendingReported
  <2> QED
    BY <1>n, <2>1, <2>2, <2>3 DEF PendingReported
<1>7. Fate(b) = "tracing" /\ Known(b) = {}
  BY <1>1, <1>3 DEF View, Before
<1>8. Known(b)' = {} /\ Fate(b)' = Outcome(n + 1)'
  <2>1. Known(b)' = Arrived(n + 1)' /\ Fate(b)' = Outcome(n + 1)'
    <3>1. n + 1 \in 1..Len(reported') /\ reported'[n + 1].ctx = b
      BY <1>1, <1>6
    <3> QED
      BY <3>1 DEF View
  <2> QED
    BY <1>2, <1>6, <2>1 DEF Arrived
<1>9. ASSUME NEW c \in Contexts, c # b, dropped' \in {dropped, dropped \cup {n + 1}}
      PROVE  Fate(c)' = Fate(c) /\ Known(c)' = Known(c)
  <2>1. CASE Unreported(c)
    <3>1. Fate(c) = Before(c) /\ Known(c) = {}
      BY <2>1 DEF View
    <3>2. Fate(c)' = Before(c)' /\ Known(c)' = {}
      <4>1. Unreported(c)'
        BY <1>5, <1>9, <2>1
      <4> QED
        BY <4>1 DEF View
    <3>3. Before(c)' = Before(c)
      BY <1>1, <1>2, <1>9 DEF Before
    <3> QED
      BY <3>1, <3>2, <3>3
  <2>2. ASSUME NEW i \in 1..n, reported[i].ctx = c
        PROVE  Fate(c)' = Fate(c) /\ Known(c)' = Known(c)
    <3>1. i \in 1..Len(reported') /\ reported'[i].ctx = c /\ i # n + 1
      BY <1>1, <2>2
    <3>2. Outcome(i)' = Outcome(i)
      BY <1>2, <1>9, <3>1 DEF Outcome
    <3>3. Arrived(i)' = Arrived(i)
      BY <1>1, <1>2, <2>2, <3>1 DEF Arrived
    <3> QED
      BY <1>n, <2>2, <3>1, <3>2, <3>3 DEF View
  <2> QED
    BY <1>n, <2>1, <2>2 DEF Unreported
<1>10. /\ \A i \in 1..Len(Rep!Pending) :
            /\ reported'[Rep!Pending[i]] = reported[Rep!Pending[i]]
            /\ reported[Rep!Pending[i]].ctx \in Contexts
       /\ Rep!Pending \in Seq(Rep!Segments)
  BY <1>n, <1>1 DEF PendingReported
<1>11. Line(Rep!Pending, reported') = Line(Rep!Pending, reported)
  BY <1>10 DEF Line
<1>12. /\ size' = size /\ fate[b] = "tracing" /\ size[b] > 0
  <2>1. nextSeq'[b] >= 0 /\ nextSeq[b] \in Int
    <3>1. nextSeq'[reported'[n + 1].ctx] >= 0
      BY <1>1, <1>6 DEF AgentInv, Numbered
    <3> QED
      BY <1>1, <3>1, StructuredTypes DEF AgentInv, Structured
  <2> QED
    BY <1>1, <1>7, <2>1, SizesStay, Mapping
<1>13. line = Line(Rep!Pending, reported) /\ line' = Line(Rep!Pending', reported')
  BY DEF line
<1>14. dropped' \in {dropped, dropped \cup {n + 1}} => known' = known
  BY <1>7, <1>8, <1>9, KnownStays
<1>15. CASE Rep!Delivery!Accept
  <2>1. Rep!Pending' = Append(Rep!Pending, n + 1) /\ dropped' = dropped
    BY <1>2, <1>15 DEF Rep!Delivery!Accept
  <2>2. line' = Append(line, b)
    BY <1>1, <1>6, <1>10, <1>11, <1>13, <2>1, LineAppend
  <2>3. Fate(b)' = "waiting"
    BY <1>2, <1>6, <1>8, <2>1 DEF Outcome
  <2>4. fate' = [fate EXCEPT ![b] = "waiting"]
    BY <1>9, <2>1, <2>3, FatesChange
  <2>5. Ends!Complete(b)
    BY <1>2, <1>12, <1>14, <2>1, <2>2, <2>4
    DEF Ends!Complete, fate, size, known, line, Line, R!Pending, Rep!Pending
  <2> QED
    BY <2>5 DEF Ends!FNext
<1>16. CASE Rep!Delivery!Refuse
  <2>1. /\ Rep!Pending' = Rep!Pending /\ dropped' = dropped \cup {n + 1}
        /\ Len(Rep!Pending) >= SKW_CHAN_SIZE
    BY <1>2, <1>16 DEF Rep!Delivery!Refuse
  <2>2. line' = line /\ Len(line) = Len(Rep!Pending)
    BY <1>10, <1>11, <1>13, <2>1, LineIsSeq
  <2>3. Fate(b)' = "refused"
    BY <1>2, <1>6, <1>8, <2>1 DEF Outcome
  <2>4. fate' = [fate EXCEPT ![b] = "refused"]
    BY <1>9, <2>1, <2>3, FatesChange
  <2>5. Len(line) >= SKW_CHAN_SIZE
    BY <2>1, <2>2
  <2>6. Ends!Complete(b)
    BY <1>2, <1>12, <1>14, <2>1, <2>2, <2>4, <2>5
    DEF Ends!Complete, fate, size, known, line, Line, R!Pending, Rep!Pending
  <2> QED
    BY <2>6 DEF Ends!FNext
<1>17. Rep!Delivery!Accept \/ Rep!Delivery!Refuse
  <2>1. offered' # offered
    BY <1>1, <1>2
  <2> QED
    BY <2>1, DeliveryStep DEF Rep!Delivery!DNext, Rep!Delivery!Settle, Rep!Delivery!dvars
<1> QED
  BY <1>15, <1>16, <1>17

-----------------------------------------------------------------------------
(* The reporter moves while the scopes rest.                               *)

ScopesAtRest == UNCHANGED <<phase, nextSeq, reported>>

(* Segment n is settled or read, any other is not.                         *)
LEMMA RestKeepsFates ==
  ASSUME View, View', ScopesAtRest, running' = running, UNCHANGED dropped,
         NEW c \in Contexts, PendingReported
  PROVE  \/ Fate(c)' = Fate(c) /\ Known(c)' = Known(c) /\ Unreported(c)
         \/ \E n \in 1..Len(reported) :
              /\ reported[n].ctx = c
              /\ Fate(c) = Outcome(n) /\ Known(c) = Arrived(n)
              /\ Fate(c)' = Outcome(n)' /\ Known(c)' = Arrived(n)'
<1>1. CASE Unreported(c)
  <2>1. Unreported(c)' /\ Before(c)' = Before(c)
    BY <1>1 DEF ScopesAtRest, Unreported, Before
  <2> QED
    BY <1>1, <2>1 DEF View
<1>2. ASSUME NEW n \in 1..Len(reported), reported[n].ctx = c
      PROVE  /\ Fate(c) = Outcome(n) /\ Known(c) = Arrived(n)
             /\ Fate(c)' = Outcome(n)' /\ Known(c)' = Arrived(n)'
  <2>1. n \in 1..Len(reported') /\ reported'[n].ctx = c
    BY <1>2 DEF ScopesAtRest
  <2> QED
    BY <1>2, <2>1 DEF View
<1> QED
  BY <1>1, <1>2 DEF Unreported

(* The first k pending segments are settled together.                      *)
LEMMA SettleSteps ==
  ASSUME AgentInv, View, View', PendingReported, PendingReported',
         ScopesAtRest, running, running', received' = received,
         NEW k \in 1..Len(Rep!Pending), Rep!Delivery!Settle(k)
  PROVE  [Ends!FNext]_(Ends!fvars)
<1> DEFINE oldest == Rep!Range(SubSeq(Rep!Pending, 1, k))
           gone == Range(SubSeq(line, 1, k))
<1>1. /\ Rep!Pending \in Seq(Rep!Segments) /\ Len(Rep!Pending) \in Nat /\ k \in Nat
      /\ \A i \in 1..Len(Rep!Pending) :
           /\ Rep!Pending[i] \in 1..Len(reported) /\ Rep!Pending[i] \in Rep!Segments
           /\ reported[Rep!Pending[i]].ctx \in Contexts
           /\ Rep!Pending[i] \notin dropped
           /\ Rep!Pending[i] \notin acked /\ Rep!Pending[i] \notin logged
  BY DEF PendingReported
<1>2. /\ Rep!Pending' = SubSeq(Rep!Pending, k + 1, Len(Rep!Pending))
      /\ UNCHANGED <<offered, dropped>>
      /\ \/ acked' = acked \cup oldest /\ logged' = logged
         \/ logged' = logged \cup oldest /\ acked' = acked
  BY DEF Rep!Delivery!Settle, Rep!Delivery!Range, Rep!Range
<1>3. /\ line = Line(Rep!Pending, reported) /\ line' = Line(Rep!Pending', reported)
      /\ line \in Seq(Contexts) /\ Len(line) = Len(Rep!Pending)
      /\ \A i \in 1..Len(Rep!Pending) : line[i] = reported[Rep!Pending[i]].ctx
  <2>1. line = Line(Rep!Pending, reported) /\ line' = Line(Rep!Pending', reported)
    BY DEF line, ScopesAtRest
  <2> QED
    BY <1>1, <2>1, LineIsSeq
<1>4. line' = SubSeq(line, k + 1, Len(line))
  <2>1. k + 1 \in 1..(Len(Rep!Pending) + 1) /\ Len(Rep!Pending) \in 0..Len(Rep!Pending)
    BY <1>1
  <2>2. Line(SubSeq(Rep!Pending, k + 1, Len(Rep!Pending)), reported)
          = SubSeq(Line(Rep!Pending, reported), k + 1, Len(Rep!Pending))
    BY <1>1, <2>1, LineSubSeq
  <2> QED
    BY <1>2, <1>3, <2>2
<1>5. \A n : n \in oldest <=> \E i \in 1..k : Rep!Pending[i] = n
  <2>1. /\ DOMAIN SubSeq(Rep!Pending, 1, k) = 1..k
        /\ \A i \in 1..k : SubSeq(Rep!Pending, 1, k)[i] = Rep!Pending[i]
    BY <1>1, SubSeqProperties, LenProperties
  <2> QED
    BY <2>1, <1>1 DEF Rep!Range
<1>6. \A c : c \in gone <=> \E i \in 1..k : line[i] = c
  <2>1. /\ DOMAIN SubSeq(line, 1, k) = 1..k
        /\ \A i \in 1..k : SubSeq(line, 1, k)[i] = line[i]
    BY <1>1, <1>3, SubSeqProperties, LenProperties
  <2> QED
    BY <2>1, <1>1 DEF Range
<1> HIDE DEF oldest, gone
<1>7. \A n \in 1..Len(reported) : reported[n].ctx \in gone <=> n \in oldest
  <2>1. \A i, j \in 1..Len(reported) : reported[i].ctx = reported[j].ctx => i = j
    BY DEF AgentInv, ReportedOnce
  <2>2. 1..k \subseteq 1..Len(Rep!Pending)
    BY <1>1
  <2>3. \A i \in 1..k : /\ Rep!Pending[i] \in 1..Len(reported)
                       /\ line[i] = reported[Rep!Pending[i]].ctx
    BY <1>1, <1>3, <2>2
  <2> SUFFICES ASSUME NEW n \in 1..Len(reported) PROVE reported[n].ctx \in gone <=> n \in oldest
    OBVIOUS
  <2>4. ASSUME reported[n].ctx \in gone PROVE n \in oldest
    <3>1. PICK i \in 1..k : line[i] = reported[n].ctx
      BY <1>6, <2>4
    <3>2. Rep!Pending[i] = n
      BY <2>1, <2>3, <3>1
    <3> QED
      BY <1>5, <3>2
  <2>5. ASSUME n \in oldest PROVE reported[n].ctx \in gone
    BY <1>5, <1>6, <2>3, <2>5
  <2> QED
    BY <2>4, <2>5
<1>8. \A n \in oldest : n \in 1..Len(reported) /\ n \in Rep!Segments
                        /\ n \notin dropped /\ n \notin acked /\ n \notin logged
  <2>1. 1..k \subseteq 1..Len(Rep!Pending)
    BY <1>1
  <2> QED
    BY <1>1, <1>5, <2>1
<1>9. \A c \in gone : \E n \in oldest : n \in 1..Len(reported) /\ reported[n].ctx = c
  <2>1. 1..k \subseteq 1..Len(Rep!Pending)
    BY <1>1
  <2> QED
    BY <1>1, <1>3, <1>5, <1>6, <2>1
<1>10. PICK outcome \in {"delivered", "backedUp"} :
         /\ \A n \in oldest : Outcome(n)' = outcome
         /\ outcome = "delivered" => acked' = acked \cup oldest
         /\ \A n \in 1..Len(reported) : n \notin oldest => Outcome(n)' = Outcome(n)
  BY <1>2, <1>8 DEF Outcome
<1>11. \A n \in 1..Len(reported) : Arrived(n)' = Arrived(n)
  BY DEF Arrived, ScopesAtRest
<1>12. ASSUME NEW c \in Contexts
       PROVE  /\ Known(c)' = Known(c)
              /\ Fate(c)' = IF c \in gone THEN outcome ELSE Fate(c)
  <2>1. CASE Fate(c)' = Fate(c) /\ Known(c)' = Known(c) /\ Unreported(c)
    BY <1>9, <2>1 DEF Unreported
  <2>2. ASSUME NEW n \in 1..Len(reported),
               /\ reported[n].ctx = c
               /\ Fate(c) = Outcome(n) /\ Known(c) = Arrived(n)
               /\ Fate(c)' = Outcome(n)' /\ Known(c)' = Arrived(n)'
        PROVE  /\ Known(c)' = Known(c)
               /\ Fate(c)' = IF c \in gone THEN outcome ELSE Fate(c)
    BY <1>7, <1>10, <1>11, <2>2
  <2> QED
    BY <1>2, <2>1, <2>2, RestKeepsFates
<1>13. fate' = [c \in Contexts |-> IF c \in gone THEN outcome ELSE fate[c]]
  BY <1>12 DEF fate
<1>14. outcome = "delivered" => \A c \in gone : known[c] # {}
  <2> SUFFICES ASSUME outcome = "delivered", NEW c \in gone PROVE known[c] # {}
    OBVIOUS
  <2>1. PICK n \in oldest : n \in 1..Len(reported) /\ reported[n].ctx = c
    BY <1>9
  <2>2. n \in acked' /\ n \in Rep!Segments
    BY <1>8, <1>10
  <2>3. received[n] > 0
    BY <2>2 DEF PendingReported
  <2>4. nextSeq[c] >= 0 /\ nextSeq[c] \in Int /\ c \in Contexts
    <3>1. c \in Contexts
      BY <2>1 DEF View
    <3> QED
      BY <2>1, <3>1, StructuredTypes DEF AgentInv, Numbered, Structured
  <2>5. Known(c) = 0..nextSeq[c]
    BY <2>1, <2>3 DEF View, Arrived
  <2>6. 0 \in known[c]
    BY <2>4, <2>5, Mapping
  <2> QED
    BY <2>6
<1>15. size' = size /\ known' = known
  BY <1>12, KnownStays, SizesStay DEF ScopesAtRest
<1>16. Ends!Settle(k, outcome)
  BY <1>4, <1>13, <1>14, <1>15
  DEF gone, Ends!Settle, Ends!Range, Range, fate, size, known, line, Line, R!Pending, Rep!Pending
<1>17. k \in 1..Len(line)
  BY <1>3
<1> QED
  BY <1>10, <1>16, <1>17 DEF Ends!FNext, line, Line, R!Pending, Rep!Pending

(* The collector reads a copy of segment s.                                *)
LEMMA ArriveSteps ==
  ASSUME AgentInv, View, View', PendingReported, PendingReported',
         ScopesAtRest, running' = running,
         UNCHANGED <<dropped, acked, logged, Rep!Pending>>,
         NEW s \in Rep!Segments, received' = [received EXCEPT ![s] = @ + 1]
  PROVE  [Ends!FNext]_(Ends!fvars)
<1> DEFINE b == reported[s].ctx
<1>1. /\ received[s] \in Nat /\ received \in [Rep!Segments -> Nat]
      /\ received'[s] > 0 /\ \A n \in Rep!Segments : n # s => received'[n] = received[n]
  BY DEF AgentInv, Rep!CollectorInv, Rep!TypeInv, Rep!RTypeOK
<1>2. s \in 1..Len(reported) /\ s \notin dropped
  BY <1>1 DEF PendingReported, ScopesAtRest
<1>3. b \in Contexts /\ Fate(b) = Outcome(s)
  BY <1>2 DEF View
<1>4. Fate(b) \in {"waiting", "delivered", "backedUp", "lost"}
  BY <1>2, <1>3 DEF Outcome, PendingReported
<1>5. \A n \in 1..Len(reported) :
        Outcome(n)' = Outcome(n) /\ (n # s => Arrived(n)' = Arrived(n))
  <2>1. 1..Len(reported) \subseteq Rep!Segments
    BY DEF PendingReported
  <2> QED
    BY <1>1, <2>1 DEF Outcome, Arrived, ScopesAtRest
<1>6. Arrived(s)' = 0..nextSeq[b]
  BY <1>1 DEF Arrived, ScopesAtRest
<1> HIDE DEF b
<1>7. ASSUME NEW c \in Contexts
      PROVE  /\ Fate(c)' = Fate(c)
             /\ Known(c)' = IF c = b THEN 0..nextSeq[b] ELSE Known(c)
  <2>1. CASE Fate(c)' = Fate(c) /\ Known(c)' = Known(c) /\ Unreported(c)
    BY <1>2, <2>1 DEF Unreported, b
  <2>2. ASSUME NEW n \in 1..Len(reported),
               /\ reported[n].ctx = c
               /\ Fate(c) = Outcome(n) /\ Known(c) = Arrived(n)
               /\ Fate(c)' = Outcome(n)' /\ Known(c)' = Arrived(n)'
        PROVE  /\ Fate(c)' = Fate(c)
               /\ Known(c)' = IF c = b THEN 0..nextSeq[b] ELSE Known(c)
    <3>1. c = b <=> n = s
      BY <1>2, <2>2 DEF b, AgentInv, ReportedOnce
    <3> QED
      BY <1>5, <1>6, <2>2, <3>1
  <2> QED
    BY <2>1, <2>2, RestKeepsFates
<1>8. known' = [known EXCEPT ![b] = 0..(size[b] - 1)]
  <2>1. size[b] - 1 = nextSeq[b]
    <3>1. nextSeq[b] \in Int
      BY <1>3, StructuredTypes DEF AgentInv, Structured
    <3> QED
      BY <1>3, <3>1, Mapping
  <2>2. known' = [known EXCEPT ![b] = 0..nextSeq[b]]
    BY <1>7 DEF known
  <2> QED
    BY <2>1, <2>2
<1>9. fate' = fate /\ size' = size /\ line' = line
  BY <1>7, FatesStay, SizesStay DEF ScopesAtRest, line
<1>10. fate[b] \in {"waiting", "delivered", "backedUp", "lost"}
  BY <1>3, <1>4, Mapping
<1>11. Ends!Arrive(b)
  BY <1>8, <1>9, <1>10
  DEF Ends!Arrive, fate, size, known, line, Line, R!Pending, Rep!Pending
<1> QED
  BY <1>3, <1>11 DEF Ends!FNext

(* Nothing that TraceFate sees changes.                                    *)
LEMMA UnseenSteps ==
  ASSUME View, View', PendingReported, ScopesAtRest, running' = running,
         UNCHANGED <<dropped, acked, logged, received, Rep!Pending>>
  PROVE  UNCHANGED Ends!fvars
<1>1. \A n \in 1..Len(reported) : Outcome(n)' = Outcome(n) /\ Arrived(n)' = Arrived(n)
  BY DEF Outcome, Arrived, ScopesAtRest
<1>2. \A c \in Contexts : Fate(c)' = Fate(c) /\ Known(c)' = Known(c)
  BY <1>1, RestKeepsFates
<1>3. size' = size /\ line' = line
  BY SizesStay DEF ScopesAtRest, line
<1> QED
  BY <1>2, <1>3, FatesStay, KnownStays, Mapping

(* The process ends.                                                       *)
LEMMA StopSteps ==
  ASSUME AgentInv, View, View', PendingReported, ProcessEnds
  PROVE  [Ends!FNext]_(Ends!fvars)
<1>1. running /\ running' = FALSE /\ UNCHANGED <<vars, reporter>>
  BY DEF ProcessEnds
<1>2. UNCHANGED <<phase, nextSeq, reported>> /\ UNCHANGED <<dropped, acked, logged, received>>
  BY <1>1 DEF vars, reporter
<1> DEFINE Stopped(outcome) == CASE outcome = "tracing" -> "abandoned"
                                 [] outcome = "waiting" -> "lost"
                                 [] OTHER -> outcome
<1>3. \A n : Arrived(n)' = Arrived(n)
  BY <1>2 DEF Arrived
<1>4. \A n \in 1..Len(reported) : Outcome(n)' = Stopped(Outcome(n))
  <2>1. \A n : ~(n \in acked /\ n \in logged) /\ ~(n \in dropped /\ n \in acked)
               /\ ~(n \in dropped /\ n \in logged)
    BY DEF PendingReported
  <2> QED
    BY <1>1, <1>2, <2>1 DEF Outcome
<1>5. \A c \in Contexts : Before(c)' = Stopped(Before(c))
  BY <1>1, <1>2 DEF Before
<1>6. ASSUME NEW c \in Contexts
      PROVE  Fate(c)' = Stopped(Fate(c)) /\ Known(c)' = Known(c)
  <2>1. CASE Unreported(c)
    <3>1. Unreported(c)'
      BY <1>2, <2>1 DEF Unreported
    <3> HIDE DEF Stopped
    <3> QED
      BY <1>5, <2>1, <3>1 DEF View
  <2>2. ASSUME NEW n \in 1..Len(reported), reported[n].ctx = c
        PROVE  Fate(c)' = Stopped(Fate(c)) /\ Known(c)' = Known(c)
    <3>1. n \in 1..Len(reported') /\ reported'[n].ctx = c
      BY <1>2, <2>2
    <3> HIDE DEF Stopped
    <3> QED
      BY <1>3, <1>4, <2>2, <3>1 DEF View
  <2> QED
    BY <2>1, <2>2 DEF Unreported
<1>7. fate' = [c \in Contexts |-> Stopped(fate[c])]
  BY <1>6 DEF fate
<1>8. size' = size /\ known' = known /\ line' = <<>>
  BY <1>1, <1>2, <1>6, SizesStay, KnownStays DEF line
<1>9. Ends!Stop
  BY <1>1, <1>7, <1>8 DEF Ends!Stop, fate, size, known, line, Line, R!Pending, Rep!Pending
<1> QED
  BY <1>9 DEF Ends!FNext

-----------------------------------------------------------------------------
LEMMA StepImplementsFate ==
  ASSUME AgentInv, AgentInv', View, View', PendingReported, PendingReported', [ANext]_avars
  PROVE  [Ends!FNext]_(Ends!fvars)
<1>s. Structured /\ [StructuredNext]_vars
  BY StepsOfBoth DEF AgentInv
<1>1. CASE Code
  <2>1. CASE reported' = reported
    BY <1>1, <1>s, <2>1, ScopeSteps DEF Code
  <2>2. CASE reported' # reported
    <3>1. \E b \in Contexts, span \in Spans, done \in Spans : Sent(b, span, done)
      BY <1>s, <2>2, CodeStep
      DEF Quiet, AsyncEnter, LeaveScope, Create, TracingEntry, TracingExit, TracingLocal,
          CreateSpan
    <3> QED
      BY <1>1, <2>2, <3>1, ReportSteps DEF Code
  <2> QED
    BY <2>1, <2>2
<1>2. CASE Task \/ TaskCall
  <2>1. ScopesAtRest /\ running /\ running' /\ running' = running
    BY <1>2 DEF Task, TaskCall, vars, ScopesAtRest
  <2>2. received' = received
    BY <1>2 DEF Task, TaskCall, R!TaskStep, R!Retrieved, R!LoopTop, R!Recv, R!RecvNone,
                R!RecvTimeout, R!Backoff, R!CallReturns, R!CollectOk, R!CollectRetryable,
                R!CollectUnknown, R!wire
  <2>3. offered' = offered
    BY <2>1, OfferedStep DEF ScopesAtRest
  <2>4. CASE UNCHANGED Rep!Delivery!dvars
    BY <2>1, <2>2, <2>4, UnseenSteps DEF Rep!Delivery!dvars
  <2>5. ASSUME NEW k \in 1..Len(Rep!Pending), Rep!Delivery!Settle(k)
        PROVE  [Ends!FNext]_(Ends!fvars)
    BY <2>1, <2>2, <2>5, SettleSteps
  <2>6. ~Rep!Delivery!Accept /\ ~Rep!Delivery!Refuse
    BY <2>3, ReporterIsAssumed
    DEF Rep!Delivery!Accept, Rep!Delivery!Refuse, AgentInv, Rep!CollectorInv, Rep!TypeInv,
        Rep!RTypeOK, Rep!ReporterAssumption
  <2> QED
    BY <2>4, <2>5, <2>6, DeliveryStep DEF Rep!Delivery!DNext
<1>3. CASE Outside
  <2>1. ScopesAtRest /\ running' = running
    BY <1>3 DEF Outside, vars, ScopesAtRest
  <2>2. UNCHANGED <<dropped, acked, logged, Rep!Pending>>
    BY <1>3 DEF Outside, R!CollectorReads, R!CollectorReadsLate, R!CollectorUpDown,
                R!client, R!result, Rep!Pending
  <2>3. \/ received' = received
        \/ \E s \in Rep!Segments : received' = [received EXCEPT ![s] = @ + 1]
    <3>1. CASE R!CollectorReads
      <4>1. batch[streamed + 1] \in Rep!Segments
        <5>1. batch \in Seq(Rep!Segments) /\ streamed \in Nat
          BY DEF AgentInv, Rep!CollectorInv, Rep!TypeInv, Rep!RTypeOK
        <5>2. Len(batch) \in Nat /\ streamed < Len(batch)
          BY <3>1, <5>1, LenProperties DEF R!CollectorReads
        <5>3. streamed + 1 \in 1..Len(batch)
          BY <5>1, <5>2
        <5> QED
          BY <5>1, <5>3, ElementOfSeq
      <4> QED
        BY <3>1, <4>1 DEF R!CollectorReads
    <3>2. ASSUME NEW s \in R!Segments, R!CollectorReadsLate(s)
          PROVE  s \in Rep!Segments /\ received' = [received EXCEPT ![s] = @ + 1]
      BY <3>2 DEF R!Segments, Rep!Segments, R!CollectorReadsLate
    <3>3. CASE R!CollectorUpDown
      BY <3>3 DEF R!CollectorUpDown, R!wire
    <3> QED
      BY <1>3, <3>1, <3>2, <3>3 DEF Outside
  <2> QED
    BY <2>1, <2>2, <2>3, ArriveSteps, UnseenSteps
<1>4. CASE ProcessEnds
  BY <1>4, StopSteps
<1>5. CASE UNCHANGED avars
  <2>1. ScopesAtRest /\ running' = running
        /\ UNCHANGED <<dropped, acked, logged, received, Rep!Pending>>
    BY <1>5 DEF avars, vars, reporter, ScopesAtRest, Rep!Pending
  <2> QED
    BY <2>1, UnseenSteps
<1> QED
  BY <1>1, <1>2, <1>3, <1>4, <1>5 DEF ANext

(* From end to end, the process with its scopes, its channel, its calls    *)
(* and its retries implements TraceFate: a complete scope is refused only  *)
(* when as many scopes wait as the channel holds, those that wait are      *)
(* settled oldest first, delivered only with all their spans arrived, and  *)
(* the end of the process loses the ones that wait, whatever the branches  *)
(* of the scopes, the task, the collector and the network do meanwhile.    *)
THEOREM AgentImplementsTraceFate == ASpec => ImplementsTraceFate
<1>1. AInit => Ends!FInit
  <2> SUFFICES ASSUME AInit PROVE Ends!FInit
    OBVIOUS
  <2>1. /\ phase = [c \in Contexts |-> "unentered"] /\ nextSeq = [c \in Contexts |-> -1]
        /\ Len(reported) = 0 /\ batch = <<>> /\ queue = <<>> /\ running = TRUE
    BY EmptySeq DEF AInit, Init, R!Init
  <2>2. \A c \in Contexts : Unreported(c) /\ SegmentOf(c) = 0
    BY <2>1 DEF Unreported, SegmentOf
  <2>3. \A c \in Contexts : Fate(c) = "idle" /\ Known(c) = {}
    BY <2>1, <2>2 DEF Fate, Known
  <2>4. line = <<>>
    <3>1. Rep!Pending = <<>>
      BY <2>1, ConcatEmptySeq, EmptySeq DEF Rep!Pending
    <3>2. Line(<<>>, reported) = <<>>
      <4>1. ASSUME NEW p \in Seq(Contexts), Len(p) = 0 PROVE Line(p, reported) = <<>>
        <5>1. \A i \in 1..Len(p) : reported[p[i]].ctx \in Contexts
          BY <4>1
        <5>2. Line(p, reported) \in Seq(Contexts) /\ Len(Line(p, reported)) = 0
          BY <4>1, <5>1, LineIsSeq
        <5> QED
          BY <5>2, EmptySeq
      <4> QED
        BY <4>1, EmptySeq
    <3> QED
      BY <2>1, <3>1, <3>2 DEF line
  <2>5. fate = [c \in Contexts |-> "idle"] /\ known = [c \in Contexts |-> {}]
    BY <2>3 DEF fate, known
  <2>6. size = [c \in Contexts |-> 0]
    BY <2>1 DEF size
  <2> QED
    BY <2>1, <2>4, <2>5, <2>6
    DEF Ends!FInit, fate, size, known, line, Line, R!Pending, Rep!Pending
<1>2. /\ AgentInv /\ AgentInv' /\ View /\ View' /\ PendingReported /\ PendingReported'
      /\ [ANext]_avars
      => [Ends!FNext]_(Ends!fvars)
  BY StepImplementsFate
<1>3. [](AgentInv => View /\ PendingReported)
  BY AgentView, AgentPending, PTL
<1> QED
  BY <1>1, <1>2, <1>3, AlwaysAgentInv, PTL DEF ASpec, ImplementsTraceFate, Ends!FSpec

-----------------------------------------------------------------------------
(* What follows from it for one scope.                                     *)

(* Delivered means complete: what the collector has of a scope is nothing  *)
(* or every span that was created in it, and it has them when the scope    *)
(* counts as delivered, with whatever calls that failed or came late.      *)
DeliveredIsWhole ==
  \A c \in Contexts :
    /\ Known(c) # {} => Known(c) = 0..nextSeq[c]
    /\ Fate(c) = "delivered" => Known(c) # {}

(* DeliveredIsWhole, for any number of scopes, branches and spans.         *)
THEOREM DeliveredScopesAreWhole == ASpec => []DeliveredIsWhole
<1>1. AgentInv /\ View /\ PendingReported => DeliveredIsWhole
  <2> SUFFICES ASSUME AgentInv, View, PendingReported, NEW c \in Contexts
               PROVE  /\ Known(c) # {} => Known(c) = 0..nextSeq[c]
                      /\ Fate(c) = "delivered" => Known(c) # {}
    BY DEF DeliveredIsWhole
  <2>1. CASE Unreported(c)
    BY <2>1 DEF View, Before
  <2>2. ASSUME NEW n \in 1..Len(reported), reported[n].ctx = c
        PROVE  /\ Known(c) # {} => Known(c) = 0..nextSeq[c]
               /\ Fate(c) = "delivered" => Known(c) # {}
    <3>1. Fate(c) = Outcome(n) /\ Known(c) = Arrived(n)
      BY <2>2 DEF View
    <3>2. Known(c) # {} => Known(c) = 0..nextSeq[c]
      BY <2>2, <3>1 DEF Arrived
    <3>3. ASSUME Fate(c) = "delivered" PROVE Known(c) # {}
      <4>1. n \in acked
        BY <3>1, <3>3 DEF Outcome
      <4>2. received[n] > 0
        BY <4>1 DEF PendingReported
      <4>3. nextSeq[c] >= 0 /\ nextSeq[c] \in Int
        BY <2>2, StructuredTypes DEF AgentInv, Numbered, Structured
      <4>4. 0 \in 0..nextSeq[c]
        BY <4>3
      <4> QED
        BY <2>2, <3>1, <4>2, <4>4 DEF Arrived
    <3> QED
      BY <3>2, <3>3
  <2> QED
    BY <2>1, <2>2 DEF Unreported
<1> QED
  BY <1>1, AgentView, AgentPending, AlwaysAgentInv, PTL

FinalFates == {"abandoned", "refused", "delivered", "backedUp", "lost"}

(* A scope has one fate in the end: no retry, no late copy, no other scope *)
(* and not the end of the process turns a final one into another.          *)
FatesAreFinal ==
  [][\A c \in Contexts : Fate(c) \in FinalFates => Fate(c)' = Fate(c)]_avars

(* A scope in line waits.                                                  *)
LEMMA InLineWaits ==
  ASSUME View, PendingReported, NEW i \in 1..Len(line)
  PROVE  line[i] \in Contexts /\ Fate(line[i]) = "waiting"
<1>1. CASE running
  <2>1. line = Line(Rep!Pending, reported)
    BY <1>1 DEF line
  <2>2. /\ Len(line) = Len(Rep!Pending)
        /\ \A j \in 1..Len(Rep!Pending) : line[j] = reported[Rep!Pending[j]].ctx
    BY <2>1, LineIsSeq DEF PendingReported
  <2> DEFINE n == Rep!Pending[i]
  <2>3. /\ n \in 1..Len(reported) /\ reported[n].ctx \in Contexts
        /\ n \notin dropped /\ n \notin acked /\ n \notin logged
        /\ line[i] = reported[n].ctx
    BY <2>2 DEF PendingReported
  <2>4. Outcome(n) = "waiting"
    BY <1>1, <2>3 DEF Outcome
  <2> QED
    BY <2>3, <2>4 DEF View
<1>2. CASE ~running
  <2>1. line = <<>>
    BY <1>2 DEF line
  <2> QED
    BY <2>1, EmptySeq
<1> QED
  BY <1>1, <1>2

LEMMA FateSteps ==
  ASSUME View, PendingReported, [Ends!FNext]_(Ends!fvars), NEW c \in Contexts,
         Fate(c) \in FinalFates
  PROVE  Fate(c)' = Fate(c)
<1>1. fate[c] \in FinalFates /\ fate[c] = Fate(c) /\ fate'[c] = Fate(c)'
  BY Mapping
<1> SUFFICES fate'[c] = fate[c]
  BY <1>1
<1> USE DEF FinalFates
<1>2. \A i \in 1..Len(line) : line[i] \in Contexts /\ fate[line[i]] = "waiting"
  BY InLineWaits, Mapping
<1>3. CASE UNCHANGED Ends!fvars
  BY <1>1, <1>3 DEF Ends!fvars, fate
<1>4. ASSUME NEW d \in Contexts, Ends!Enter(d) \/ Ends!Abandon(d) \/ Ends!Complete(d)
      PROVE  fate'[c] = fate[c]
  <2>1. fate[d] \in {"idle", "tracing"}
    BY <1>4 DEF Ends!Enter, Ends!Abandon, Ends!Complete, fate
  <2>2. d # c
    BY <1>1, <2>1
  <2> QED
    BY <1>4, <2>2 DEF Ends!Enter, Ends!Abandon, Ends!Complete, fate
<1>5. ASSUME NEW d \in Contexts, Ends!Open(d) \/ Ends!Arrive(d) PROVE fate'[c] = fate[c]
  BY <1>5 DEF Ends!Open, Ends!Arrive, fate
<1>6. ASSUME NEW k \in 1..Len(line), NEW outcome, Ends!Settle(k, outcome)
      PROVE  fate'[c] = fate[c]
  <2>1. fate' = [d \in Contexts |-> IF d \in Range(SubSeq(line, 1, k)) THEN outcome ELSE fate[d]]
    BY <1>6 DEF Ends!Settle, Ends!Range, Range, fate, line, Line, R!Pending, Rep!Pending
  <2>2. c \notin Range(SubSeq(line, 1, k))
    <3> SUFFICES ASSUME c \in Range(SubSeq(line, 1, k)) PROVE FALSE
      OBVIOUS
    <3>1. line \in Seq(Contexts) /\ Len(line) \in Nat
      <4>1. Line(Rep!Pending, reported) \in Seq(Contexts)
        BY LineIsSeq DEF PendingReported
      <4>2. line \in Seq(Contexts)
        BY <4>1, EmptySeq DEF line
      <4> QED
        BY <4>2, LenProperties
    <3> HIDE DEF line
    <3>2. /\ DOMAIN SubSeq(line, 1, k) = 1..k /\ k \in 1..Len(line)
          /\ \A j \in 1..k : SubSeq(line, 1, k)[j] = line[j]
      BY <3>1
    <3>3. PICK j \in 1..k : line[j] = c
      BY <3>2 DEF Range
    <3> QED
      BY <1>1, <1>2, <3>1, <3>3
  <2> QED
    BY <2>1, <2>2
<1>7. CASE Ends!Stop
  <2>1. fate'[c] = CASE fate[c] = "tracing" -> "abandoned"
                     [] fate[c] = "waiting" -> "lost"
                     [] OTHER -> fate[c]
    BY <1>7 DEF Ends!Stop, fate
  <2> QED
    BY <1>1, <2>1
<1>8. \A k : k \in 1..Len(line) <=>
        k \in 1..Len(IF running THEN [i \in 1..Len(R!Pending) |-> reported[R!Pending[i]].ctx]
                     ELSE <<>>)
  BY DEF line, Line, R!Pending, Rep!Pending
<1> QED
  BY <1>3, <1>4, <1>5, <1>6, <1>7, <1>8 DEF Ends!FNext

(* FatesAreFinal, for any number of scopes, branches and spans.            *)
THEOREM EveryFateIsFinal == ASpec => FatesAreFinal
<1>1. AgentInv /\ AgentInv' /\ View /\ View' /\ PendingReported /\ PendingReported'
      /\ [ANext]_avars
      => [\A c \in Contexts : Fate(c) \in FinalFates => Fate(c)' = Fate(c)]_avars
  BY StepImplementsFate, FateSteps
<1>2. [](AgentInv => View /\ PendingReported)
  BY AgentView, AgentPending, PTL
<1> QED
  BY <1>1, <1>2, AlwaysAgentInv, PTL DEF ASpec, FatesAreFinal

=============================================================================
