--------------------------- MODULE PropagationProofs ---------------------------
(***************************************************************************)
(* Propagation behaves as the context manager does, so its invariants hold *)
(* here too.  With the types, a tag is a text that came in; reading such a *)
(* text gives back the header it was written from, or nothing.             *)
(***************************************************************************)
EXTENDS Propagation, StructuredProofs

(* A scope that takes up a header has not sent one.                        *)
LEMMA StepsAreStructured == Structured /\ [PNext]_pvars => [StructuredNext]_vars
<1> SUFFICES ASSUME Structured, [PNext]_pvars PROVE [StructuredNext]_vars
  OBVIOUS
<1>1. CASE StructuredNext
  BY <1>1
<1>2. ASSUME NEW f \in Futures, NEW span \in held[f], NEW text \in Incoming,
             TakeUp(f, span, text)
      PROVE  [StructuredNext]_vars
  <2>1. \A h \in injected : h.ctx # Home[f]
    BY <1>2 DEF TakeUp, HasCalled
  <2>2. ChangeTraceId(f) \/ UNCHANGED vars
    BY <1>2 DEF TakeUp
  <2> QED
    BY <2>1, <2>2 DEF StructuredNext
<1>3. CASE UNCHANGED pvars
  BY <1>3 DEF pvars
<1> QED
  BY <1>1, <1>2, <1>3 DEF PNext

LEMMA StepsOfContextManager == Structured /\ [PNext]_pvars => [Next]_vars
BY StepsAreStructured, StructuredIsCode

LEMMA PropagationIsStructured == PSpec => StructuredSpec /\ []Structured
<1>1. PInit => Init /\ Structured
  BY InitStructured DEF PInit
<1>2. Structured /\ [PNext]_pvars => Structured' /\ [StructuredNext]_vars
  BY StepsAreStructured, NextStructured
<1> QED
  BY <1>1, <1>2, PTL DEF PSpec, StructuredSpec

LEMMA PropagationTyped == PSpec => []TypeOK
<1>1. Structured => TypeOK
  BY DEF Structured
<1> QED
  BY <1>1, PropagationIsStructured, PTL

-----------------------------------------------------------------------------
(* Reading back.                                                           *)

(* from_text undoes serialize.                                             *)
LEMMA ReadSerialized ==
  ASSUME NEW h
  PROVE  LET r == ReferenceIn(Serialize(h)) IN
         /\ FromText(Serialize(h)) = {r}
         /\ r.traceId = TextOf(h.traceId)
         /\ r.parentTraceSegmentId = TextOf(h.ctx)
         /\ r.parentSpanId = h.spanId
         /\ r.parentService = ServiceOf[h.ctx]
         /\ r.parentServiceInstance = ServiceInstance(ServiceOf[h.ctx], "header")
<1> DEFINE text == Serialize(h)
<1>1. Readable(text)
  BY DEF Readable, Serialize, Is, Base64, Decimal
<1>2. FromText(text) = {ReferenceIn(text)}
  BY <1>1 DEF FromText
<1>3. /\ text[2][2] = TextOf(h.traceId) /\ text[3][2] = TextOf(h.ctx)
      /\ text[4][2] = h.spanId
      /\ text[5][2] = ServiceOf[h.ctx]
      /\ text[6][2] = ServiceInstance(ServiceOf[h.ctx], "header")
  BY DEF Serialize, Base64, Decimal, TraceIdOf
<1> QED
  BY <1>2, <1>3 DEF ReferenceIn

(* A damaged text and one of the older protocol are refused.               *)
LEMMA ReadOther ==
  /\ FromText(OldText) = {}
  /\ \A h : FromText(DamagedText(h)) = {}
<1>1. ~Readable(OldText)
  BY DEF Readable, OldText
<1>2. ASSUME NEW h PROVE ~Readable(DamagedText(h))
  <2>1. DamagedText(h)[3] = Raw("damaged")
    BY DEF DamagedText, Serialize
  <2>2. ~Is("base64", Raw("damaged"))
    BY DEF Is, Raw
  <2> QED
    BY <2>1, <2>2 DEF Readable
<1> QED
  BY <1>1, <1>2 DEF FromText

(* What is read from a text that came in is in a header that was sent, or  *)
(* in that of the other agent.                                             *)
LEMMA ReadIncoming ==
  ASSUME NEW text \in Incoming, NEW r \in FromText(text),
         r # ReferenceIn(OtherAgentText)
  PROVE  \E h \in injected :
           /\ r.traceId = TextOf(h.traceId)
           /\ r.parentTraceSegmentId = TextOf(h.ctx)
           /\ r.parentSpanId = h.spanId
           /\ r.parentService = ServiceOf[h.ctx]
           /\ r.parentServiceInstance = ServiceInstance(ServiceOf[h.ctx], "header")
<1>1. text # OtherAgentText
  BY DEF FromText
<1>2. PICK h \in injected : text = Serialize(h)
  BY <1>1, ReadOther DEF Incoming
<1>3. r = ReferenceIn(Serialize(h))
  BY <1>2, ReadSerialized
<1> QED
  BY <1>3, ReadSerialized

LEMMA ReferenceToOther == ReferenceIn(OtherAgentText).parentService = "service"
<1>1. OtherAgentText[5][2] = "service"
  BY DEF OtherAgentText, Base64
<1> QED
  BY <1>1 DEF ReferenceIn

-----------------------------------------------------------------------------
(* Tags are texts that came in.                                            *)

TagsCameIn ==
  /\ parentTags = [c \in Contexts |-> parentTags[c]]
  /\ \A c \in Contexts : \A t \in parentTags[c] : t.text \in Incoming

LEMMA InjectedGrows == [Next]_vars => injected \subseteq injected'
<1> SUFFICES ASSUME [Next]_vars PROVE injected \subseteq injected'
  OBVIOUS
<1>1. ASSUME NEW c \in Contexts, AsyncEnter(c) \/ LeaveScope(c)
      PROVE  injected \subseteq injected'
  BY <1>1 DEF AsyncEnter, LeaveScope
<1>2. ASSUME NEW f \in Futures, Create(f) \/ CreateSpanPanics(f) \/ ChangeTraceId(f)
      PROVE  injected \subseteq injected'
  BY <1>2 DEF Create, TracingEntry, TracingExit, TracingLocal, CreateSpanPanics, MayInject, Header, NextSpanId,
              ChangeTraceId
<1>3. ASSUME NEW f \in Futures, NEW span \in held[f],
             \/ FinishSpan(f, span) \/ EndSpan(f, span) \/ CloneSpan(f, span)
             \/ DropSpan(f, span) \/ \E g \in Futures : SendSpan(f, g, span)
      PROVE  injected \subseteq injected'
  BY <1>3 DEF FinishSpan, IsFirstSpan, EndSpan, CloneSpan, DropSpan, SendSpan
<1>4. CASE UNCHANGED vars
  BY <1>4 DEF vars
<1> QED
  BY <1>1, <1>2, <1>3, <1>4 DEF Next

LEMMA IncomingGrows == [Next]_vars => Incoming \subseteq Incoming'
BY InjectedGrows DEF Incoming, Serialize, DamagedText

LEMMA NextTagsCameIn == Structured /\ TagsCameIn /\ [PNext]_pvars => TagsCameIn'
<1> SUFFICES ASSUME Structured, TagsCameIn, [PNext]_pvars PROVE TagsCameIn'
  OBVIOUS
<1>1. Incoming \subseteq Incoming'
  BY StepsOfContextManager, IncomingGrows
<1>2. CASE UNCHANGED parentTags
  BY <1>1, <1>2 DEF TagsCameIn
<1>3. ASSUME NEW f \in Futures, NEW span \in held[f], NEW text \in Incoming,
             TakeUp(f, span, text)
      PROVE  TagsCameIn'
  <2>1. parentTags' = [parentTags EXCEPT ![Home[f]] = @ \cup {[spanId |-> span.id, text |-> text]}]
    BY <1>3 DEF TakeUp
  <2>2. ASSUME NEW c \in Contexts, NEW t \in parentTags'[c] PROVE t.text \in Incoming
    BY <2>1, <2>2 DEF TagsCameIn
  <2>3. parentTags' = [c \in Contexts |-> parentTags'[c]]
    BY <2>1 DEF TagsCameIn
  <2> QED
    BY <1>1, <2>2, <2>3 DEF TagsCameIn
<1> QED
  BY <1>2, <1>3 DEF PNext, pvars

LEMMA TagsAlwaysCameIn == PSpec => []TagsCameIn
<1>1. PInit => TagsCameIn
  BY DEF PInit, TagsCameIn
<1> QED
  BY <1>1, NextTagsCameIn, PropagationIsStructured, PTL DEF PSpec

-----------------------------------------------------------------------------
(* References.                                                             *)

(* A reference that is sent was read from a tag of some context.           *)
LEMMA ReferenceFromTag ==
  ASSUME TypeOK, TagsCameIn, NEW r \in References
  PROVE  \E text \in Incoming : r \in FromText(text)
<1>1. PICK o \in TransformSegments : \E s \in Range(o.spans) : r \in s.refs
  BY DEF References
<1>2. PICK i \in 1..Len(reported) : o = GenSegment(reported[i])
  BY DEF TransformSegments
<1>3. PICK s \in Range(o.spans) : r \in s.refs
  BY <1>1
<1>4. reported[i].spans \in Seq(Spans)
  BY ReportedType
<1>5. o.spans = [j \in 1..Len(reported[i].spans) |-> SpanObject(reported[i].spans[j])]
  BY <1>2 DEF GenSegment
<1>6. PICK j \in 1..Len(reported[i].spans) : s = SpanObject(reported[i].spans[j])
  BY <1>3, <1>5 DEF Range
<1>7. reported[i].spans[j] \in Spans
  BY <1>4, ElementOfSeq
<1>8. r \in Refs(reported[i].spans[j]) /\ reported[i].spans[j].ctx \in Contexts
  BY <1>3, <1>6, <1>7 DEF SpanObject, Spans
<1> QED
  BY <1>8 DEF Refs, TagsCameIn

(* Nothing in a reference is made up, see ReferencesAreGenuine.            *)
THEOREM NoReferenceIsMadeUp == PSpec => []ReferencesAreGenuine
<1>1. TypeOK /\ TagsCameIn => ReferencesAreGenuine
  BY ReferenceFromTag, ReadIncoming DEF ReferencesAreGenuine
<1> QED
  BY <1>1, PropagationTyped, TagsAlwaysCameIn, PTL

(* If every process has its instance name from the environment, segments   *)
(* and references agree on it, see OneInstancePerService.                  *)
THEOREM ConfiguredInstancesAgree ==
  ASSUME Configured = Services
  PROVE  PSpec => []OneInstancePerService
<1>1. TypeOK /\ TagsCameIn => OneInstancePerService
  <2> SUFFICES ASSUME TypeOK, TagsCameIn,
                      NEW r \in References, NEW o \in TransformSegments,
                      r.parentService = o.service
               PROVE  r.parentServiceInstance = o.serviceInstance
    BY DEF OneInstancePerService
  <2>1. PICK i \in 1..Len(reported) : o = GenSegment(reported[i])
    BY DEF TransformSegments
  <2>2. /\ o.service = ServiceOf[reported[i].ctx]
        /\ o.serviceInstance = ServiceInstance(o.service, "task")
    BY <2>1 DEF GenSegment
  <2>3. o.service \in Configured
    BY <2>2, ReportedType, PropagationAssumption
  <2>4. r # ReferenceIn(OtherAgentText)
    BY <2>3, ReferenceToOther, PropagationAssumption
  <2>5. PICK h \in injected :
          /\ r.parentService = ServiceOf[h.ctx]
          /\ r.parentServiceInstance = ServiceInstance(ServiceOf[h.ctx], "header")
    BY <2>4, ReferenceFromTag, ReadIncoming
  <2> QED
    BY <2>2, <2>3, <2>5 DEF ServiceInstance
<1> QED
  BY <1>1, PropagationTyped, TagsAlwaysCameIn, PTL

-----------------------------------------------------------------------------
(* Tags are on spans of the scope.                                         *)

TagsOnSpans == \A c \in Contexts : \A t \in parentTags[c] : t.spanId \in 0..nextSeq[c]

LEMMA HeldId ==
  ASSUME Structured, NEW f \in Futures, NEW span \in held[f]
  PROVE  span.id \in 0..nextSeq[Home[f]]
<1> DEFINE c == Home[f]
<1>1. span.ctx = c /\ phase[c] = "working" /\ c \in Contexts
  BY ContextManagerAssumption DEF Structured, Owned
<1>2. Sound(OwnSpans(c), finishedSpans[c], spanStack[c], nextSeq[c])
  BY <1>1 DEF Structured, ScopesSound, ScopeSound
<1>3. span.id \in Ids(OwnSpans(c))
  BY <1>1, OwnSpansAre DEF Ids
<1> QED
  BY <1>2, <1>3 DEF Sound

LEMMA NextTagsOnSpans ==
  ASSUME Structured, TagsCameIn, TagsOnSpans, [PNext]_pvars
  PROVE  TagsOnSpans'
<1>t. \A c \in Contexts : nextSeq[c] \in Int /\ nextSeq'[c] \in Int /\ nextSeq[c] <= nextSeq'[c]
  <2>1. TypeOK /\ TypeOK' /\ FreshScopes /\ [Next]_vars
    BY StepsOfContextManager, NextTypeOK DEF Structured
  <2> QED
    BY <2>1, IdsGrow DEF TypeOK
<1>1. \A c \in Contexts : 0..nextSeq[c] \subseteq 0..nextSeq'[c]
  BY <1>t
<1>2. CASE UNCHANGED parentTags
  BY <1>1, <1>2 DEF TagsOnSpans
<1>3. ASSUME NEW f \in Futures, NEW span \in held[f], NEW text \in Incoming,
             TakeUp(f, span, text)
      PROVE  TagsOnSpans'
  <2>1. parentTags' = [parentTags EXCEPT ![Home[f]] = @ \cup {[spanId |-> span.id, text |-> text]}]
    BY <1>3 DEF TakeUp
  <2>2. span.id \in 0..nextSeq[Home[f]]
    BY HeldId
  <2>3. ASSUME NEW c \in Contexts, NEW t \in parentTags'[c] PROVE t.spanId \in 0..nextSeq[c]
    BY <2>1, <2>2, <2>3 DEF TagsCameIn, TagsOnSpans
  <2> QED
    BY <1>1, <2>3 DEF TagsOnSpans
<1> QED
  BY <1>2, <1>3 DEF PNext, pvars

LEMMA TagsAlwaysOnSpans == PSpec => []TagsOnSpans
<1>1. PInit => TagsOnSpans
  BY DEF PInit, TagsOnSpans
<1>2. Structured /\ TagsCameIn /\ TagsOnSpans /\ [PNext]_pvars => TagsOnSpans'
  BY NextTagsOnSpans
<1> QED
  BY <1>1, <1>2, PropagationIsStructured, TagsAlwaysCameIn, PTL DEF PSpec

(* Tags are texts that came in, on spans of their scope, and what is sent  *)
(* has its type, see PTypeOK.                                              *)
THEOREM TagsAndSegmentsTyped == PSpec => []PTypeOK
<1>1. TypeOK /\ TagsCameIn /\ TagsOnSpans => PTypeOK
  <2> SUFFICES ASSUME TypeOK, TagsCameIn, TagsOnSpans PROVE PTypeOK
    OBVIOUS
  <2>1. ASSUME NEW o \in TransformSegments
        PROVE  /\ o.service \in Services
               /\ \A i \in 1..Len(o.spans) : o.spans[i].spanType \in 0..2
    <3>1. PICK i \in 1..Len(reported) : o = GenSegment(reported[i])
      BY DEF TransformSegments
    <3>2. reported[i].ctx \in Contexts /\ reported[i].spans \in Seq(Spans)
      BY ReportedType
    <3>3. o.service \in Services
      BY <3>1, <3>2, PropagationAssumption DEF GenSegment
    <3>4. o.spans = [j \in 1..Len(reported[i].spans) |-> SpanObject(reported[i].spans[j])]
      BY <3>1 DEF GenSegment
    <3>5. Len(reported[i].spans) \in Nat
      BY <3>2, LenProperties
    <3>6. Len(o.spans) = Len(reported[i].spans)
      BY <3>4, <3>5
    <3>7. ASSUME NEW j \in 1..Len(o.spans) PROVE o.spans[j].spanType \in 0..2
      <4>1. j \in 1..Len(reported[i].spans)
        BY <3>6
      <4>2. o.spans[j] = SpanObject(reported[i].spans[j])
        BY <3>4, <4>1
      <4>3. o.spans[j].spanType = SpanType(reported[i].spans[j])
        BY <4>2 DEF SpanObject
      <4>4. reported[i].spans[j] \in Spans
        BY <3>2, <4>1, ElementOfSeq
      <4> QED
        BY <4>3, <4>4 DEF SpanType, Spans, Kinds
    <3> QED
      BY <3>3, <3>7
  <2> QED
    BY <2>1 DEF PTypeOK, TagsCameIn, TagsOnSpans
<1> QED
  BY <1>1, PropagationTyped, TagsAlwaysCameIn, TagsAlwaysOnSpans, PTL

-----------------------------------------------------------------------------
(* Joining segments.                                                       *)

(* The ids of a complete segment are its spans' own.                       *)
LEMMA OneSpanForAnId ==
  ASSUME NEW segment, NEW last \in Int, last >= -1, Complete(segment, last),
         segment.spans \in Seq(Spans),
         NEW i \in 1..Len(segment.spans), NEW j \in 1..Len(segment.spans),
         segment.spans[i].id = segment.spans[j].id
  PROVE  i = j
<1> DEFINE n == Len(segment.spans)
           id == [k \in 1..n |-> segment.spans[k].id]
<1>1. /\ n = last + 1 /\ Ids(Range(segment.spans)) = 0..last
      /\ n \in Nat /\ DOMAIN segment.spans = 1..n
  BY LenProperties DEF Complete
<1>2. id \in Surjection(1..n, 0..last)
  <2>1. \A k \in 1..n : id[k] \in 0..last
    BY <1>1 DEF Ids, Range
  <2>2. \A m \in 0..last : \E k \in 1..n : id[k] = m
    BY <1>1 DEF Ids, Range
  <2> QED
    BY <2>1, <2>2 DEF Surjection
<1>3. IsFiniteSet(1..n) /\ Cardinality(1..n) = Cardinality(0..last)
  BY <1>1, FS_Interval
<1>4. id \in Injection(1..n, 0..last)
  BY <1>2, <1>3, FS_SurjSameCardinalityImpliesInj
<1> QED
  BY <1>4 DEF Injection, IsInjective

LEMMA PropagationSegments == PSpec => [](Structured /\ ReportedOnce /\ SegmentsComplete /\ HeadersResolve)
BY PropagationIsStructured, StructuredSpecIsSpec, ContextReportedOnce, SegmentsAlwaysComplete,
   HeadersAlwaysResolve, PTL

(* The other agent names no segment of these services.                     *)
LEMMA OtherSegment ==
  /\ ReferenceIn(OtherAgentText).parentTraceSegmentId = OtherId("segment")
  /\ ReferenceIn(OtherAgentText).traceId = OtherId("trace")
<1>1. OtherAgentText[3][2] = OtherId("segment") /\ OtherAgentText[2][2] = OtherId("trace")
  BY DEF OtherAgentText, Base64
<1> QED
  BY <1>1 DEF ReferenceIn

(* The collector can join two segments, see ReferencesResolve.             *)
THEOREM ReferencesAlwaysResolve == PSpec => []ReferencesResolve
<1>1. Structured /\ TagsCameIn /\ SegmentsComplete /\ HeadersResolve => ReferencesResolve
  <2> SUFFICES ASSUME Structured, TagsCameIn, SegmentsComplete, HeadersResolve,
                      NEW r \in References, NEW o \in TransformSegments,
                      o.traceSegmentId = r.parentTraceSegmentId
               PROVE  /\ o.service = r.parentService
                      /\ o.traceId = r.traceId
                      /\ {i \in 1..Len(o.spans) : o.spans[i].spanId = r.parentSpanId} # {}
                      /\ \A i \in 1..Len(o.spans) :
                           o.spans[i].spanId = r.parentSpanId => o.spans[i].spanType = 1
    BY DEF ReferencesResolve
  <2>1. TypeOK
    BY DEF Structured
  <2>2. PICK n \in 1..Len(reported) : o = GenSegment(reported[n])
    BY DEF TransformSegments
  <2> DEFINE segment == reported[n]
             spans == segment.spans
  <2>3. segment.ctx \in Contexts /\ spans \in Seq(Spans) /\ Len(spans) \in Nat
    BY <2>1, ReportedType, LenProperties
  <2>4. /\ o.traceSegmentId = segment.ctx
        /\ o.service = ServiceOf[segment.ctx]
        /\ o.traceId = TextOf(segment.traceId)
        /\ o.spans = [i \in 1..Len(spans) |-> SpanObject(spans[i])]
    BY <2>2, <2>3 DEF GenSegment, TextOf, NumIds
  <2>5. r # ReferenceIn(OtherAgentText)
    BY <2>3, <2>4, OtherSegment, PropagationAssumption
  <2>6. PICK h \in injected :
          /\ r.traceId = TextOf(h.traceId)
          /\ r.parentTraceSegmentId = TextOf(h.ctx)
          /\ r.parentSpanId = h.spanId
          /\ r.parentService = ServiceOf[h.ctx]
    BY <2>1, <2>5, ReferenceFromTag, ReadIncoming
  <2>7. h.ctx \in Contexts
    BY <2>1 DEF TypeOK, Headers
  <2>8. segment.ctx = h.ctx
    BY <2>4, <2>6, <2>7 DEF TextOf, NumIds
  <2>9. segment.traceId = h.traceId /\ ExitSpanOf(h, Range(spans))
    BY <2>8 DEF HeadersResolve, ExitSpanOf
  <2>10. PICK j \in 1..Len(spans) : spans[j].id = h.spanId /\ spans[j].kind = "exit"
    BY <2>3, <2>9, LenProperties DEF ExitSpanOf, Range
  <2>11. \A i \in 1..Len(spans) : spans[i].id = h.spanId => i = j
    <3>1. Complete(segment, nextSeq[segment.ctx]) /\ nextSeq[segment.ctx] \in Int
          /\ nextSeq[segment.ctx] >= -1
      BY <2>3, StructuredTypes DEF SegmentsComplete, Structured
    <3> QED
      BY <2>3, <2>10, <3>1, OneSpanForAnId
  <2> HIDE DEF spans, segment
  <2>12. /\ Len(o.spans) = Len(spans)
         /\ \A i \in 1..Len(spans) : /\ o.spans[i].spanId = spans[i].id
                                     /\ o.spans[i].spanType = SpanType(spans[i])
    BY <2>3, <2>4 DEF SpanObject
  <2>13. SpanType(spans[j]) = 1
    BY <2>10 DEF SpanType
  <2>14. o.service = r.parentService /\ o.traceId = r.traceId
    BY <2>4, <2>6, <2>8, <2>9
  <2>15. j \in 1..Len(o.spans) /\ o.spans[j].spanId = r.parentSpanId
    BY <2>6, <2>10, <2>12
  <2>16. ASSUME NEW i \in 1..Len(o.spans), o.spans[i].spanId = r.parentSpanId
         PROVE  o.spans[i].spanType = 1
    <3>1. i = j
      BY <2>6, <2>11, <2>12, <2>16
    <3> QED
      BY <2>10, <2>12, <2>13, <3>1
  <2> QED
    BY <2>14, <2>15, <2>16
<1> QED
  BY <1>1, PropagationSegments, TagsAlwaysCameIn, PTL

-----------------------------------------------------------------------------
(* The name of a trace.                                                    *)

TraceNames == NumIds \cup {StrID(text) : text \in IdTexts}

LEMMA NewTraceIdsDiffer ==
  /\ \A c, d : NewTraceId(c) = NewTraceId(d) => c = d
  /\ \A c, text : NewTraceId(c) # StrID(text)
  /\ \A c, part : NewTraceId(c) # OtherId(part)
BY DEF NewTraceId, StrID, OtherId

LEMMA TextOfName ==
  /\ \A c \in Contexts : TextOf(c) = c
  /\ \A c \in Contexts : TextOf(NewTraceId(c)) = NewTraceId(c) /\ NewTraceId(c) \in TraceNames
  /\ \A id \in TraceNames : TextOf(id) \in IdTexts
  /\ \A text \in IdTexts : \A id \in IdsFor(text) : id \in TraceNames /\ TextOf(id) = text
<1>1. \A id \in NumIds : TextOf(id) = id
  BY DEF TextOf
<1>2. \A c \in Contexts : c \in NumIds /\ NewTraceId(c) \in NumIds
  BY DEF NumIds, NewTraceIds
<1>3. \A text \in IdTexts : StrID(text) \notin NumIds
  BY NewTraceIdsDiffer, PropagationAssumption DEF NumIds, NewTraceIds
<1>4. \A text \in IdTexts : TextOf(StrID(text)) = text
  BY <1>3 DEF TextOf, StrID
<1> QED
  BY <1>1, <1>2, <1>4 DEF TraceNames, IdsFor, IdTexts

(* The operators that follow take parts of the state as parameters, to be  *)
(* used before and after a step.                                           *)
RefsIn(tags) == UNION {FromText(t.text) : t \in tags}

(* A scope with no reference continues a trace of its own, another one the *)
(* trace of one of its references.                                         *)
NamedByRef(c, id, tags) ==
  IF RefsIn(tags[c]) = {}
  THEN id = NewTraceId(c)
  ELSE \E r \in RefsIn(tags[c]) : r.traceId = TextOf(id)

(* A scope that drew the trace id which another one has is without         *)
(* references, and stays so, since it has called.                          *)
HasCalledAlone(d, tags, sent) == RefsIn(tags[d]) = {} /\ \E h \in sent : h.ctx = d

IsRoot(trace, tags, sent) ==
  \A d \in Contexts : trace = NewTraceId(d) => HasCalledAlone(d, tags, sent)

ScopeRooted(c, id, tags, sent) ==
  /\ id \in TraceNames /\ NamedByRef(c, id, tags)
  /\ TextOf(id) = NewTraceId(c) => RefsIn(tags[c]) = {}
  /\ TextOf(id) # NewTraceId(c) => IsRoot(TextOf(id), tags, sent)

Rooted ==
  /\ \A c \in Contexts : ScopeRooted(c, traceId[c], parentTags, injected)
  /\ \A h \in injected : h.traceId \in TraceNames /\ IsRoot(TextOf(h.traceId), parentTags, injected)

LEMMA InitRooted == PInit => Rooted
<1> SUFFICES ASSUME PInit PROVE Rooted
  OBVIOUS
<1>1. \A c \in Contexts : traceId[c] = NewTraceId(c) /\ RefsIn(parentTags[c]) = {}
  BY DEF PInit, Init, RefsIn
<1>2. injected = {}
  BY DEF PInit, Init
<1> QED
  BY <1>1, <1>2, TextOfName DEF Rooted, ScopeRooted, NamedByRef

(* A scope takes up a header.                                              *)
TakesUp(c, text) ==
  /\ c \in Contexts /\ injected' = injected /\ \A h \in injected : h.ctx # c
  /\ RefsIn(parentTags'[c]) = RefsIn(parentTags[c]) \cup FromText(text)
  /\ \A d \in Contexts \ {c} : parentTags'[d] = parentTags[d] /\ traceId'[d] = traceId[d]
  /\ IF RefsIn(parentTags[c]) = {} /\ FromText(text) # {}
     THEN \E r \in FromText(text) : traceId'[c] \in IdsFor(r.traceId)
     ELSE traceId' = traceId

LEMMA TakeUpStep ==
  ASSUME Structured, TagsCameIn, NEW f \in Futures, NEW span \in held[f],
         NEW text \in Incoming, TakeUp(f, span, text)
  PROVE  TakesUp(Home[f], text)
<1> DEFINE c == Home[f]
           tag == [spanId |-> span.id, text |-> text]
<1>1. c \in Contexts /\ traceId \in [Contexts -> NewTraceIds \cup TraceIds]
  BY StructuredTypes, ContextManagerAssumption DEF Structured
<1>2. parentTags' = [parentTags EXCEPT ![c] = @ \cup {tag}]
  BY DEF TakeUp
<1>3. RefsIn(parentTags'[c]) = RefsIn(parentTags[c]) \cup FromText(text)
  <2>1. parentTags'[c] = parentTags[c] \cup {tag} /\ tag.text = text
    BY <1>1, <1>2 DEF TagsCameIn
  <2> QED
    BY <2>1 DEF RefsIn
<1>4. \A d \in Contexts \ {c} : parentTags'[d] = parentTags[d]
  BY <1>2 DEF TagsCameIn
<1>5. TakenUp(c) = RefsIn(parentTags[c]) /\ \A h \in injected : h.ctx # c
  BY DEF TakeUp, HasCalled, TakenUp, RefsIn
<1>6. CASE TakenUp(c) = {} /\ FromText(text) # {}
  <2>1. ChangeTraceId(f) /\ \E r \in FromText(text) : traceId'[c] \in IdsFor(r.traceId)
    BY <1>6 DEF TakeUp
  <2>2. injected' = injected /\ \A d \in Contexts \ {c} : traceId'[d] = traceId[d]
    BY <1>1, <2>1 DEF ChangeTraceId
  <2> QED
    BY <1>1, <1>3, <1>4, <1>5, <1>6, <2>1, <2>2 DEF TakesUp
<1>7. CASE ~(TakenUp(c) = {} /\ FromText(text) # {})
  <2>1. injected' = injected /\ traceId' = traceId
    BY <1>7 DEF TakeUp, vars
  <2> QED
    BY <1>1, <1>3, <1>4, <1>5, <1>7, <2>1 DEF TakesUp
<1> QED
  BY <1>6, <1>7

(* What a text that came in names: a trace of the other agent, or one whose*)
(* root has called.                                                        *)
LEMMA NamedIsRoot ==
  ASSUME Rooted, NEW text \in Incoming, NEW r \in FromText(text)
  PROVE  r.traceId \in IdTexts /\ IsRoot(r.traceId, parentTags, injected)
<1>1. CASE r = ReferenceIn(OtherAgentText)
  <2>1. r.traceId = OtherId("trace")
    BY <1>1, OtherSegment
  <2> QED
    BY <2>1, NewTraceIdsDiffer DEF IdTexts, IsRoot
<1>2. CASE r # ReferenceIn(OtherAgentText)
  <2>1. PICK h \in injected : r.traceId = TextOf(h.traceId)
    BY <1>2, ReadIncoming
  <2> QED
    BY <2>1, TextOfName DEF Rooted
<1> QED
  BY <1>1, <1>2

LEMMA TakeUpRooted ==
  ASSUME Rooted, NEW c, NEW text \in Incoming, TakesUp(c, text)
  PROVE  Rooted'
<1>1. /\ c \in Contexts /\ injected' = injected /\ \A h \in injected : h.ctx # c
      /\ RefsIn(parentTags'[c]) = RefsIn(parentTags[c]) \cup FromText(text)
      /\ \A d \in Contexts \ {c} : parentTags'[d] = parentTags[d] /\ traceId'[d] = traceId[d]
      /\ IF RefsIn(parentTags[c]) = {} /\ FromText(text) # {}
         THEN \E r \in FromText(text) : traceId'[c] \in IdsFor(r.traceId)
         ELSE traceId' = traceId
  BY DEF TakesUp
(* c itself is no root, for it has not called.                             *)
<1>2. \A trace : IsRoot(trace, parentTags, injected)
                 => trace # NewTraceId(c) /\ IsRoot(trace, parentTags', injected')
  <2>1. \A d \in Contexts : HasCalledAlone(d, parentTags, injected)
                             => d # c /\ HasCalledAlone(d, parentTags', injected')
    BY <1>1 DEF HasCalledAlone
  <2> QED
    BY <1>1, <2>1 DEF IsRoot
<1>3. \A h \in injected' :
        h.traceId \in TraceNames /\ IsRoot(TextOf(h.traceId), parentTags', injected')
  BY <1>1, <1>2 DEF Rooted
<1>4. ASSUME NEW d \in Contexts \ {c} PROVE ScopeRooted(d, traceId'[d], parentTags', injected')
  BY <1>1, <1>2 DEF Rooted, ScopeRooted, NamedByRef
<1>5. ScopeRooted(c, traceId'[c], parentTags', injected')
  <2>1. CASE RefsIn(parentTags[c]) = {} /\ FromText(text) # {}
    <3>1. PICK r \in FromText(text) : traceId'[c] \in IdsFor(r.traceId)
      BY <1>1, <2>1
    <3>2. r.traceId \in IdTexts /\ IsRoot(r.traceId, parentTags, injected)
      BY NamedIsRoot
    <3>3. TextOf(traceId'[c]) = r.traceId /\ traceId'[c] \in TraceNames
      BY <3>1, <3>2, TextOfName
    <3>4. r.traceId # NewTraceId(c) /\ IsRoot(r.traceId, parentTags', injected')
      BY <1>2, <3>2
    <3>5. r \in RefsIn(parentTags'[c])
      BY <1>1
    <3>6. NamedByRef(c, traceId'[c], parentTags')
      BY <3>3, <3>5 DEF NamedByRef
    <3> QED
      BY <3>3, <3>4, <3>6 DEF ScopeRooted
  <2>2. CASE FromText(text) = {}
    <3>1. RefsIn(parentTags'[c]) = RefsIn(parentTags[c]) /\ traceId' = traceId
      BY <1>1, <2>2
    <3> QED
      BY <1>1, <1>2, <3>1 DEF Rooted, ScopeRooted, NamedByRef
  <2>3. CASE RefsIn(parentTags[c]) # {}
    <3>1. traceId' = traceId /\ RefsIn(parentTags[c]) \subseteq RefsIn(parentTags'[c])
      BY <1>1, <2>3
    <3>2. NamedByRef(c, traceId'[c], parentTags')
      BY <1>1, <2>3, <3>1 DEF Rooted, ScopeRooted, NamedByRef
    <3> QED
      BY <1>1, <1>2, <2>3, <3>1, <3>2 DEF Rooted, ScopeRooted
  <2> QED
    BY <2>1, <2>2, <2>3
<1> QED
  BY <1>3, <1>4, <1>5 DEF Rooted

(* Any other step of code: it may send a header with the trace of its      *)
(* scope.                                                                  *)
LEMMA CodeStep ==
  ASSUME [StructuredNext]_vars
  PROVE  \/ injected' = injected
         \/ \E c \in Contexts : injected' = injected \cup {Header(c)}
<1> DEFINE Goal == \/ injected' = injected
                   \/ \E c \in Contexts : injected' = injected \cup {Header(c)}
<1> SUFFICES Goal
  OBVIOUS
<1>1. ASSUME NEW c \in Contexts, AsyncEnter(c) \/ LeaveScope(c) PROVE Goal
  BY <1>1 DEF AsyncEnter, LeaveScope
<1>2. ASSUME NEW f \in Futures, Create(f) PROVE Goal
  BY <1>2, ContextManagerAssumption
     DEF Create, TracingEntry, TracingLocal, TracingExit, CreateSpan, MayInject
<1>3. ASSUME NEW f \in Futures, ChangeTraceId(f) PROVE Goal
  BY <1>3 DEF ChangeTraceId
<1>4. ASSUME NEW f \in Futures, NEW span \in held[f],
             \/ FinishSpan(f, span) \/ EndSpan(f, span)
             \/ \E g \in Futures : SendSpan(f, g, span)
      PROVE  Goal
  BY <1>4 DEF FinishSpan, EndSpan, SendSpan
<1>5. CASE UNCHANGED vars
  BY <1>5 DEF vars
<1> HIDE DEF Goal
<1> QED
  BY <1>1, <1>2, <1>3, <1>4, <1>5 DEF StructuredNext

LEMMA CodeRooted ==
  ASSUME Rooted, [StructuredNext]_vars, UNCHANGED <<traceId, parentTags>>
  PROVE  Rooted'
<1>1. /\ traceId' = traceId
      /\ \/ injected' = injected
         \/ \E c \in Contexts : injected' = injected \cup {Header(c)}
  BY CodeStep
<1>2. \A trace : IsRoot(trace, parentTags, injected) => IsRoot(trace, parentTags', injected')
  BY <1>1 DEF IsRoot, HasCalledAlone
<1>3. \A c \in Contexts : ScopeRooted(c, traceId'[c], parentTags', injected')
  BY <1>1, <1>2 DEF Rooted, ScopeRooted
<1>4. ASSUME NEW c \in Contexts, injected' = injected \cup {Header(c)}
      PROVE  /\ Header(c).traceId \in TraceNames
             /\ IsRoot(TextOf(Header(c).traceId), parentTags', injected')
  <2>1. Header(c).traceId = traceId[c] /\ Header(c).ctx = c
    BY DEF Header
  <2>2. ScopeRooted(c, traceId[c], parentTags, injected)
    BY DEF Rooted
  <2>3. CASE TextOf(traceId[c]) = NewTraceId(c)
    <3>1. HasCalledAlone(c, parentTags', injected')
      BY <1>4, <2>1, <2>2, <2>3 DEF ScopeRooted, HasCalledAlone
    <3> QED
      BY <2>1, <2>2, <2>3, <3>1, NewTraceIdsDiffer DEF ScopeRooted, IsRoot
  <2>4. CASE TextOf(traceId[c]) # NewTraceId(c)
    BY <1>2, <2>1, <2>2, <2>4 DEF ScopeRooted
  <2> QED
    BY <2>3, <2>4
<1>5. \A h \in injected' :
        h.traceId \in TraceNames /\ IsRoot(TextOf(h.traceId), parentTags', injected')
  BY <1>1, <1>2, <1>4 DEF Rooted
<1> QED
  BY <1>3, <1>5 DEF Rooted

LEMMA AlwaysRooted == PSpec => []Rooted
<1>1. Structured /\ TagsCameIn /\ Rooted /\ [PNext]_pvars => Rooted'
  BY TakeUpStep, TakeUpRooted, CodeRooted DEF PNext, pvars, vars
<1> QED
  BY <1>1, InitRooted, PropagationIsStructured, TagsAlwaysCameIn, PTL DEF PSpec

(* What is reported has the trace id that its scope had, and keeps.        *)
TracesReported == \A i \in 1..Len(reported) : reported[i].traceId = traceId[reported[i].ctx]

LEMMA TraceStep ==
  ASSUME Structured, [StructuredNext]_vars
  PROVE  /\ \A c \in Contexts : phase[c] \in Over => traceId'[c] = traceId[c]
         /\ reported' # reported => traceId' = traceId
<1> DEFINE Goal == /\ \A c \in Contexts : phase[c] \in Over => traceId'[c] = traceId[c]
                   /\ reported' # reported => traceId' = traceId
<1> SUFFICES Goal
  OBVIOUS
<1>t. traceId \in [Contexts -> NewTraceIds \cup TraceIds]
  BY StructuredTypes DEF Structured
<1>1. ASSUME NEW c \in Contexts, AsyncEnter(c) \/ LeaveScope(c) PROVE Goal
  BY <1>1, <1>t DEF AsyncEnter, LeaveScope, Over
<1>2. ASSUME NEW f \in Futures, Create(f) PROVE Goal
  BY <1>2 DEF Create, TracingEntry, TracingLocal, TracingExit, CreateSpan
<1>3. ASSUME NEW f \in Futures, ChangeTraceId(f) PROVE Goal
  BY <1>3, <1>t DEF ChangeTraceId, Over
<1>4. ASSUME NEW f \in Futures, NEW span \in held[f],
             \/ FinishSpan(f, span) \/ EndSpan(f, span)
             \/ \E g \in Futures : SendSpan(f, g, span)
      PROVE  Goal
  BY <1>4 DEF FinishSpan, EndSpan, SendSpan
<1>5. CASE UNCHANGED vars
  BY <1>5 DEF vars
<1> HIDE DEF Goal
<1> QED
  BY <1>1, <1>2, <1>3, <1>4, <1>5 DEF StructuredNext

LEMMA NextTracesReported ==
  ASSUME Structured, ReportedOnce, TracesReported, [StructuredNext]_vars
  PROVE  TracesReported'
<1>1. \A i \in 1..Len(reported) :
        reported[i].ctx \in Contexts /\ phase[reported[i].ctx] \in Over
  BY ReportedType DEF Structured, ReportedOnce, Over
<1>2. \A i \in 1..Len(reported) : reported[i].traceId = traceId'[reported[i].ctx]
  BY <1>1, TraceStep DEF TracesReported
<1>3. CASE reported' = reported
  BY <1>2, <1>3 DEF TracesReported
<1>4. ASSUME NEW c \in Contexts, NEW span \in Spans, NEW done \in Spans,
             Closed(c, span, done), span.id = 0
      PROVE  \A i \in 1..Len(reported') : reported'[i].traceId = traceId'[reported'[i].ctx]
  <2> DEFINE n == Len(reported)
  <2>1. Sends(c, span, done)
    BY <1>4, FirstSpanSends
  <2>2. /\ n \in Nat /\ Len(reported') = n + 1
        /\ \A i \in 1..n : reported'[i] = reported[i]
        /\ reported'[n + 1].ctx = c /\ reported'[n + 1].traceId = traceId[c]
    BY <2>1 DEF Sends
  <2>3. traceId' = traceId
    <3>1. reported' # reported
      BY <2>2
    <3> QED
      BY <3>1, TraceStep
  <2> HIDE DEF n
  <2>4. \A i \in 1..(n + 1) : i \in 1..n \/ i = n + 1
    BY <2>2
  <2> QED
    BY <1>2, <2>2, <2>3, <2>4 DEF n
<1> QED
  BY <1>3, <1>4, SendingStep DEF TracesReported

LEMMA TracesAlwaysReported == PSpec => []TracesReported
<1>1. PInit => TracesReported
  BY EmptySeq DEF PInit, Init, TracesReported
<1>2. Structured /\ ReportedOnce /\ TracesReported /\ [PNext]_pvars => TracesReported'
  BY StepsAreStructured, NextTracesReported
<1> QED
  BY <1>1, <1>2, PropagationSegments, PTL DEF PSpec

(* A segment has the references of all tags of its scope: each tag is on a *)
(* span, and the segment has all spans.                                    *)
LEMMA SegmentHasAllRefs ==
  ASSUME Structured, SegmentsComplete, TagsOnSpans, NEW n \in 1..Len(reported)
  PROVE  RefsOf(GenSegment(reported[n])) = RefsIn(parentTags[reported[n].ctx])
<1> DEFINE c == reported[n].ctx
           spans == reported[n].spans
           o == GenSegment(reported[n])
<1>1. c \in Contexts /\ spans \in Seq(Spans) /\ Len(spans) \in Nat /\ DOMAIN spans = 1..Len(spans)
  BY ReportedType, LenProperties DEF Structured
<1>2. /\ Ids(Range(spans)) = 0..nextSeq[c]
      /\ \A s \in Range(spans) : s.ctx = c
  BY DEF SegmentsComplete, Complete
<1>3. o.spans = [i \in 1..Len(spans) |-> SpanObject(spans[i])]
  BY DEF GenSegment
<1> HIDE DEF c, spans, o
<1>4. \A r : r \in RefsOf(o) <=> \E i \in 1..Len(spans) : r \in Refs(spans[i])
  <2>1. DOMAIN o.spans = 1..Len(spans)
    BY <1>3
  <2>2. \A i \in 1..Len(spans) : o.spans[i].refs = Refs(spans[i])
    BY <1>3 DEF SpanObject
  <2> QED
    BY <2>1, <2>2 DEF RefsOf, Range
<1>5. \A i \in 1..Len(spans) : spans[i] \in Range(spans) /\ spans[i].ctx = c
  BY <1>1, <1>2 DEF Range
<1>6. \A i \in 1..Len(spans) : \A r :
        r \in Refs(spans[i]) <=>
          \E t \in parentTags[c] : t.spanId = spans[i].id /\ r \in FromText(t.text)
  BY <1>5 DEF Refs
<1>7. \A t \in parentTags[c] : \E i \in 1..Len(spans) : spans[i].id = t.spanId
  <2>1. \A m \in 0..nextSeq[c] : \E i \in 1..Len(spans) : spans[i].id = m
    BY <1>1, <1>2 DEF Ids, Range
  <2> QED
    BY <1>1, <2>1 DEF TagsOnSpans
<1>8. \A r : r \in RefsIn(parentTags[c]) <=> \E t \in parentTags[c] : r \in FromText(t.text)
  BY DEF RefsIn
<1>9. \A r : r \in RefsOf(o) <=> r \in RefsIn(parentTags[c])
  BY <1>4, <1>6, <1>7, <1>8
<1> QED
  BY <1>9 DEF c, o, RefsOf, RefsIn

(* A trace has one root, over any number of services, see TraceHasOneRoot. *)
THEOREM TracesHaveOneRoot == PSpec => []TraceHasOneRoot
<1>1. Structured /\ SegmentsComplete /\ TagsOnSpans /\ TracesReported /\ Rooted
        => TraceHasOneRoot
  <2> SUFFICES ASSUME Structured, SegmentsComplete, TagsOnSpans, TracesReported, Rooted,
                      NEW o \in TransformSegments
               PROVE  /\ RefsOf(o) # {} => \E r \in RefsOf(o) : r.traceId = o.traceId
                      /\ \A p \in TransformSegments :
                           /\ RefsOf(o) = {} /\ RefsOf(p) = {} /\ o.traceId = p.traceId
                                => o.traceSegmentId = p.traceSegmentId
                           /\ DrewTraceOf(o, p) => RefsOf(o) = {}
    BY DEF TraceHasOneRoot
  <2>1. ASSUME NEW p \in TransformSegments
        PROVE  \E c \in Contexts :
                 /\ p.traceSegmentId = c /\ p.traceId = TextOf(traceId[c])
                 /\ RefsOf(p) = RefsIn(parentTags[c])
    <3>1. PICK n \in 1..Len(reported) : p = GenSegment(reported[n])
      BY DEF TransformSegments
    <3>2. reported[n].ctx \in Contexts
      BY ReportedType DEF Structured
    <3>3. p.traceSegmentId = reported[n].ctx /\ p.traceId = TextOf(traceId[reported[n].ctx])
      BY <3>1, <3>2, TextOfName DEF GenSegment, TracesReported
    <3> QED
      BY <3>1, <3>2, <3>3, SegmentHasAllRefs
  <2>2. PICK c \in Contexts :
          /\ o.traceSegmentId = c /\ o.traceId = TextOf(traceId[c])
          /\ RefsOf(o) = RefsIn(parentTags[c])
    BY <2>1
  <2>3. ScopeRooted(c, traceId[c], parentTags, injected)
    BY DEF Rooted
  <2>4. RefsOf(o) # {} => \E r \in RefsOf(o) : r.traceId = o.traceId
    BY <2>2, <2>3 DEF ScopeRooted, NamedByRef
  <2>5. ASSUME NEW p \in TransformSegments
        PROVE  /\ RefsOf(o) = {} /\ RefsOf(p) = {} /\ o.traceId = p.traceId
                    => o.traceSegmentId = p.traceSegmentId
               /\ DrewTraceOf(o, p) => RefsOf(o) = {}
    <3>1. PICK d \in Contexts :
            /\ p.traceSegmentId = d /\ p.traceId = TextOf(traceId[d])
            /\ RefsOf(p) = RefsIn(parentTags[d])
      BY <2>1
    <3>2. ScopeRooted(d, traceId[d], parentTags, injected)
      BY DEF Rooted
    (* A scope without references has the trace id it drew.                *)
    <3>3. /\ RefsOf(o) = {} => o.traceId = NewTraceId(c)
          /\ RefsOf(p) = {} => p.traceId = NewTraceId(d)
      BY <2>2, <2>3, <3>1, <3>2, TextOfName DEF ScopeRooted, NamedByRef
    <3>4. RefsOf(o) = {} /\ RefsOf(p) = {} /\ o.traceId = p.traceId => c = d
      BY <3>3, NewTraceIdsDiffer
    <3>5. ASSUME DrewTraceOf(o, p) PROVE RefsOf(o) = {}
      <4>1. p.traceId = NewTraceId(c)
        BY <2>2, <3>5, TextOfName DEF DrewTraceOf
      <4>2. CASE c = d
        BY <2>2, <3>1, <3>2, <4>1, <4>2 DEF ScopeRooted
      <4>3. CASE c # d
        <5>1. IsRoot(NewTraceId(c), parentTags, injected)
          BY <3>1, <3>2, <4>1, <4>3, NewTraceIdsDiffer DEF ScopeRooted
        <5> QED
          BY <2>2, <5>1 DEF IsRoot, HasCalledAlone
      <4> QED
        BY <4>2, <4>3
    <3>6. RefsOf(o) = {} /\ RefsOf(p) = {} /\ o.traceId = p.traceId
            => o.traceSegmentId = p.traceSegmentId
      BY <2>2, <3>1, <3>4
    <3> QED
      BY <3>5, <3>6
  <2> QED
    BY <2>4, <2>5
<1> QED
  BY <1>1, PropagationSegments, TracesAlwaysReported, TagsAlwaysOnSpans, AlwaysRooted, PTL
=============================================================================
