------------------------------ MODULE Propagation ------------------------------
(***************************************************************************)
(* How a trace crosses services: the text of the sw8 header (serialize in  *)
(* core/src/skywalking/core/segment_ref.rs, from_text in core/src/         *)
(* remote.rs), the segments that the collector gets (gen_segment in agent/ *)
(* reporter.rs), and the names that a service has there (agent/config.rs). *)
(*                                                                         *)
(* Every scope of ContextManager belongs to one service, that is to one    *)
(* process with one Reporter.  The code of a scope is structured; branches *)
(* may interleave.  Before it calls other services it may take up headers  *)
(* it received: it puts the text on an open span under the key sw8-parent, *)
(* the key gen_segment looks for, and continues the trace of the first     *)
(* header that can be read.  Nothing else changes the trace id.            *)
(* The network delivers a header any number of times, to anyone, or never; *)
(* services with other agents send headers too.                            *)
(***************************************************************************)
EXTENDS ContextManager

CONSTANTS
  Services,    \* APP_NAME of each process
  ServiceOf,   \* the service a scope runs in
  Configured,  \* the services started with SKW_SER_INST_KEY in the environment
  MaxTags      \* bound of the model: sw8-parent tags in each scope

-----------------------------------------------------------------------------
(* Ids.  IDGenerator::new_id makes a NumID of three i64 parts, a fresh one *)
(* for each segment id and each trace id; its name here stands for the     *)
(* NumID and for its text.  A StrID holds any text, also that of a NumID;  *)
(* the two are different ids.                                              *)
NumIds == Contexts \cup NewTraceIds

StrID(text) == <<"StrID", text>>

TextOf(id) == IF id \in NumIds THEN id ELSE id[2]

(* ID::from takes the texts of NumIDs only, ID::new_by_string any text.    *)
IdsFor(text) == (NumIds \cap {text}) \cup {StrID(text)}

(* The ids of another agent, which are no NumIDs.                          *)
OtherId(part) == <<"other agent", part>>

(* The texts of the ids in this model.                                     *)
IdTexts == NumIds \cup {OtherId("trace")}

ASSUME PropagationAssumption ==
  /\ ServiceOf \in [Contexts -> Services]
  /\ Configured \subseteq Services
  /\ NumIds \cup {StrID(text) : text \in IdTexts} \subseteq TraceIds
  /\ \A text \in IdTexts : StrID(text) \notin Contexts
  /\ OtherId("segment") \notin Contexts
  /\ "service" \notin Services   \* the service with another agent
  /\ MaxTags \in [Contexts -> Nat]

VARIABLE
  parentTags   \* the sw8-parent tags on the spans of each context

pvars == <<vars, parentTags>>

-----------------------------------------------------------------------------
(* Names.                                                                  *)

(* Mutant: the environment variable is not looked at.                      *)
RandomServiceInstance(service, config) == <<"uuid", service, config>>

(* Reporter::new evaluates Config::new twice: for the background task that *)
(* sends segments ("task") and for the Reporter whose names go into        *)
(* headers ("header").  The name is the environment variable, or a fresh   *)
(* uuid in each of the two.                                                *)
ServiceInstance(service, config) ==
  IF service \in Configured
  THEN <<"env", service>>
  ELSE <<"uuid", service, config>>

(* The address of the collector, and an end point that is never set.       *)
AddrClient == <<"address", "collector">>
Unknown == "Unknown"

-----------------------------------------------------------------------------
(* The header.  A text is the sequence of its parts between dashes; base64 *)
(* has no dash, so a part holds any name.                                  *)

Base64(value) == <<"base64", value>>
Decimal(value) == <<"decimal", value>>
Raw(value) == <<"raw", value>>

(* Mutant: the segment id is sent for the trace id.                        *)
OwnTraceId(header) == header.ctx

TraceIdOf(header) == header.traceId

Serialize(header) ==
  LET service == ServiceOf[header.ctx] IN
  << Decimal(1), Base64(TextOf(TraceIdOf(header))), Base64(TextOf(header.ctx)),
     Decimal(header.spanId),
     Base64(service), Base64(ServiceInstance(service, "header")),
     Base64(Unknown), Base64(AddrClient) >>

(* What else may come in: the header of another agent; one of nine parts of*)
(* the older protocol; and one of eight parts whose segment id was damaged *)
(* so that it cannot be decoded.                                           *)
OtherAgentText ==
  << Decimal(1), Base64(OtherId("trace")), Base64(OtherId("segment")), Decimal(4),
     Base64("service"), Base64("instance"), Base64("#endpoint"), Base64("#address") >>

OldText ==
  << Decimal(1), Base64(OtherId("trace")), Base64(OtherId("segment")), Decimal(4), Decimal(1),
     Decimal(1), Base64("#address"), Base64("#endpoint"), Base64("#parent") >>

DamagedText(header) == [Serialize(header) EXCEPT ![3] = Raw("damaged")]

Incoming ==
  {OtherAgentText, OldText} \cup {Serialize(h) : h \in injected} \cup {DamagedText(h) : h \in injected}

Is(tag, part) == part[1] = tag

Readable(text) ==
  /\ Len(text) = 8
  /\ Is("decimal", text[4])
  /\ \A i \in {2, 3, 5, 6, 7, 8} : Is("base64", text[i])

(* RefType::CrossThread.                                                   *)
CrossThread == 1

(* The SegmentReference in a text that is Readable.                        *)
ReferenceIn(text) ==
  [ refType |-> CrossThread,
    traceId |-> text[2][2],
    parentTraceSegmentId |-> text[3][2],
    parentSpanId |-> text[4][2],
    parentService |-> text[5][2],
    parentServiceInstance |-> text[6][2],
    parentEndpoint |-> text[7][2],
    networkAddressUsedAtPeer |-> text[8][2] ]

(* Mutant: a part that cannot be decoded is taken as it is.                *)
FromTextLenient(text) == IF Len(text) = 8 THEN {ReferenceIn(text)} ELSE {}

(* Some reference or none, as a set.                                       *)
FromText(text) == IF Readable(text) THEN {ReferenceIn(text)} ELSE {}

-----------------------------------------------------------------------------
(* Segments as the collector gets them.                                    *)

(* Mutant: a later reference replaces an earlier one.                      *)
OneRef(span) ==
  LET refs == UNION {FromText(t.text) : t \in {u \in parentTags[span.ctx] : u.spanId = span.id}}
  IN IF refs = {} THEN {} ELSE {CHOOSE r \in refs : TRUE}

Refs(span) ==
  UNION {FromText(t.text) : t \in {u \in parentTags[span.ctx] : u.spanId = span.id}}

SpanType(span) == [exit |-> 1, entry |-> 0, local |-> 2][span.kind]

SpanObject(span) ==
  [ spanId |-> span.id, parentSpanId |-> span.parent,
    startTime |-> span.start, endTime |-> span.end,
    spanType |-> SpanType(span), refs |-> Refs(span) ]

GenSegment(segment) ==
  LET service == ServiceOf[segment.ctx] IN
  [ traceId |-> TextOf(segment.traceId),
    traceSegmentId |-> TextOf(segment.ctx),
    spans |-> [i \in 1..Len(segment.spans) |-> SpanObject(segment.spans[i])],
    service |-> service,
    serviceInstance |-> ServiceInstance(service, "task") ]

(* Everything the background tasks of all services may send.               *)
TransformSegments == {GenSegment(reported[i]) : i \in 1..Len(reported)}

-----------------------------------------------------------------------------
PInit == Init /\ parentTags = [c \in Contexts |-> {}]

(* The references of the spans a scope has tagged so far.                  *)
TakenUp(c) == UNION {FromText(t.text) : t \in parentTags[c]}

HasCalled(c) == \E h \in injected : h.ctx = c

(* Code takes up a header it received: tag on the span, change_trace_id if *)
(* it is the first one that can be read.                                   *)
TakeUp(f, span, text) ==
  LET c == Home[f] IN
  /\ phase[c] = "working"
  /\ span \in held[f]
  /\ ~HasCalled(c)
  /\ Cardinality(parentTags[c]) < MaxTags[c]
  /\ parentTags' = [parentTags EXCEPT ![c] = @ \cup {[spanId |-> span.id, text |-> text]}]
  /\ IF TakenUp(c) = {} /\ FromText(text) # {}
     THEN ChangeTraceId(f) /\ \E r \in FromText(text) : traceId'[c] \in IdsFor(r.traceId)
     ELSE UNCHANGED vars

PNext ==
  \/ StructuredNext /\ UNCHANGED <<traceId, parentTags>>
  \/ \E f \in Futures : \E span \in held[f] : \E text \in Incoming : TakeUp(f, span, text)

PSpec == PInit /\ [][PNext]_pvars

-----------------------------------------------------------------------------
(* Properties.                                                             *)

References == UNION {s.refs : s \in UNION {Range(o.spans) : o \in TransformSegments}}

(* The tags are texts that came in, on spans that exist.                   *)
PTypeOK ==
  /\ \A c \in Contexts : \A t \in parentTags[c] :
       t.spanId \in 0..nextSeq[c] /\ t.text \in Incoming
  /\ \A o \in TransformSegments :
       o.service \in Services /\ \A i \in 1..Len(o.spans) : o.spans[i].spanType \in 0..2

(* No reference is made up: whichever text of Incoming was tagged, a       *)
(* reference that is sent agrees with a header that some service really    *)
(* sent; headers of eight parts that cannot be decoded and those of the    *)
(* older protocol leave no reference behind.  (A header has no checksum:   *)
(* from_text takes one that was damaged and still decodes, not in Incoming.)*)
ReferencesAreGenuine ==
  \A r \in References :
    \/ r = ReferenceIn(OtherAgentText)
    \/ \E h \in injected :
         /\ r.traceId = TextOf(h.traceId)
         /\ r.parentTraceSegmentId = TextOf(h.ctx)
         /\ r.parentSpanId = h.spanId
         /\ r.parentService = ServiceOf[h.ctx]

(* The collector can join two segments: if a segment that a reference      *)
(* names is sent too, it is of the service named, has the trace id named,  *)
(* and has one span with the id named, an exit span.                       *)
ReferencesResolve ==
  \A r \in References, o \in TransformSegments :
    o.traceSegmentId = r.parentTraceSegmentId =>
      /\ o.service = r.parentService
      /\ o.traceId = r.traceId
      /\ {i \in 1..Len(o.spans) : o.spans[i].spanId = r.parentSpanId} # {}
      /\ \A i \in 1..Len(o.spans) :
           o.spans[i].spanId = r.parentSpanId => o.spans[i].spanType = 1

RefsOf(o) == UNION {s.refs : s \in Range(o.spans)}

(* The context of segment o drew the trace id that segment p was sent with.*)
DrewTraceOf(o, p) == TextOf(NewTraceId(o.traceSegmentId)) = p.traceId

(* A trace has one root, over any number of services that continue the     *)
(* first header they take up: a segment with references has the trace id of*)
(* one of them; two segments without references have two trace ids; and the*)
(* context that drew the trace id of a segment took up no header itself.   *)
TraceHasOneRoot ==
  \A o \in TransformSegments :
    /\ RefsOf(o) # {} => \E r \in RefsOf(o) : r.traceId = o.traceId
    /\ \A p \in TransformSegments :
         /\ RefsOf(o) = {} /\ RefsOf(p) = {} /\ o.traceId = p.traceId
              => o.traceSegmentId = p.traceSegmentId
         /\ DrewTraceOf(o, p) => RefsOf(o) = {}

(* config.rs:24: the instance name of a service changes when the machine   *)
(* restarts (no process restarts here), so that segments and references    *)
(* name one instance of each service.                                      *)
OneInstancePerService ==
  \A r \in References, o \in TransformSegments :
    r.parentService = o.service => r.parentServiceInstance = o.serviceInstance
=============================================================================
