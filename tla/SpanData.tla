------------------------------- MODULE SpanData -------------------------------
(***************************************************************************)
(* What code records on a span and what is sent of it: the TracingSpan     *)
(* behind each Box<dyn Span> (core/src/skywalking/core/span.rs), its tags  *)
(* and logs (tag.rs, log.rs), and the SpanObject that gen_segment makes of *)
(* a finished one (agent/reporter.rs).                                     *)
(*                                                                         *)
(* A Box is owned by one task, so that every method is one step.  A clone  *)
(* is a TracingSpan of its own; merge_span and finish_span consume theirs. *)
(* Which finished spans make up a segment is told in ContextManager.       *)
(***************************************************************************)
EXTENDS Integers, Sequences, FiniteSets, Functions

CONSTANTS
  Spans,      \* the TracingSpans, clones included
  Clock,      \* milliseconds since the epoch that SystemTime may show
  MaxCalls    \* bound of the model: calls that record something

ASSUME SpanDataAssumption == Clock \subseteq Int /\ MaxCalls \in Nat

Kinds == {"entry", "exit", "local"}

(* What a tag is to gen_segment: it looks for the key sw8-parent, and reads*)
(* the value as a header.                                                  *)
TagKinds == {"plain", "parent", "unreadable parent"}

VARIABLES
  data,       \* the fields of each span; a value is the number of the call
  place,      \* where each span is
  calls,      \* calls so far
  clock,      \* what SystemTime::now showed last
  knows,      \* history: calls of tag that reached a span; 0: error_occurred
  given,      \* history: the spans whose start time was given by code
  setBack     \* history: the spans during which the clock was seen to go back

vars == <<data, place, calls, clock, knows, given, setBack>>

history == <<knows, given, setBack>>

-----------------------------------------------------------------------------
Places == {"none", "owned", "merged", "finished_spans"}

In(p) == {s \in Spans : place[s] = p}

(* The fields.                                                             *)

NewSpan(kind, peer) ==
  [ kind |-> kind, start |-> 0, end |-> 0, peer |-> peer, error |-> FALSE,
    componentId |-> 0, tags |-> <<>>, logs |-> <<>> ]

(* Mutant: a time before the epoch is taken as it is.                      *)
MillisSigned(now, other) == now

(* duration_since fails before the epoch.                                  *)
MillisOr(now, other) == IF now >= 0 THEN now ELSE other

Start(span, now) == [span EXCEPT !.start = MillisOr(now, span.start)]

End(span, now) == [span EXCEPT !.end = MillisOr(now, span.start)]

IsEnded(span) == span.end # 0

(* Mutant: a tag is put before the others.                                 *)
TagFirst(span, tag) == [span EXCEPT !.tags = <<tag>> \o @]

Tag(span, tag) == [span EXCEPT !.tags = Append(@, tag)]

(* Mutant: the error of the other span is not taken over.                  *)
MergeTags(span, other) == [span EXCEPT !.tags = @ \o other.tags]

Merge(span, other) ==
  [span EXCEPT !.tags = @ \o other.tags, !.error = @ \/ other.error]

(* Mutant: a span that has an end time keeps it.                           *)
SealOnce(span, first, second) == IF IsEnded(span) THEN span ELSE End(span, first)

(* ContextManager::finish_span ends the span; TracingContext::finish_span  *)
(* does it again if that left no end time.                                 *)
Seal(span, first, second) ==
  LET ended == End(span, first) IN IF IsEnded(ended) THEN ended ELSE End(ended, second)

(* What is sent.                                                           *)
SpanObject(span) ==
  [ startTime |-> span.start, endTime |-> span.end,
    refs |-> SelectSeq(span.tags, LAMBDA t : t.kind = "parent"),
    peer |-> span.peer,
    spanType |-> [exit |-> 1, entry |-> 0, local |-> 2][span.kind],
    componentId |-> 94,
    isError |-> span.error, tags |-> span.tags, logs |-> <<>> ]

-----------------------------------------------------------------------------
Init ==
  /\ data = [s \in Spans |-> NewSpan("local", 0)]
  /\ place = [s \in Spans |-> "none"] /\ calls = 0
  /\ clock \in Clock
  /\ knows = [s \in Spans |-> {}]
  /\ given = {} /\ setBack = {}

(* SystemTime::now shows the times one after the other.                    *)
Shows(first, second) ==
  /\ clock' = second
  /\ setBack' = setBack \cup (IF first < clock \/ second < first THEN In("owned") ELSE {})

Goes(s, from, to) == place[s] = from /\ place' = [place EXCEPT ![s] = to]

(* tracing_entry, tracing_exit or tracing_local: created and started.      *)
New(s, kind) ==
  /\ Goes(s, "none", "owned")
  /\ \E now \in Clock :
       /\ data' = [data EXCEPT ![s] = Start(NewSpan(kind, IF kind = "exit" THEN 1 ELSE 0), now)]
       /\ Shows(now, now)
  /\ UNCHANGED <<calls, knows, given>>

CloneBox(s, t) ==
  /\ place[s] = "owned" /\ Goes(t, "none", "owned")
  /\ data' = [data EXCEPT ![t] = data[s]]
  /\ knows' = [knows EXCEPT ![t] = knows[s]]
  /\ given' = IF s \in given THEN given \cup {t} ELSE given
  /\ setBack' = IF s \in setBack THEN setBack \cup {t} ELSE setBack
  /\ UNCHANGED <<calls, clock>>

StartAgain(s) ==
  /\ place[s] = "owned"
  /\ \E now \in Clock : data' = [data EXCEPT ![s] = Start(@, now)] /\ Shows(now, now)
  /\ UNCHANGED <<place, calls, knows, given>>

StartWithTimestamp(s, timestamp) ==
  /\ place[s] = "owned"
  /\ data' = [data EXCEPT ![s] = Start(@, timestamp)]
  /\ given' = given \cup {s}
  /\ UNCHANGED <<place, calls, clock, knows, setBack>>

EndEarly(s) ==
  /\ place[s] = "owned"
  /\ \E now \in Clock : data' = [data EXCEPT ![s] = End(@, now)] /\ Shows(now, now)
  /\ UNCHANGED <<place, calls, knows, given>>

EndWithTimestamp(s, timestamp) ==
  /\ place[s] = "owned"
  /\ data' = [data EXCEPT ![s] = End(@, timestamp)]
  /\ UNCHANGED <<place, calls, clock, history>>

(* One of the methods that record something, as call number calls'.        *)
Record(s) ==
  /\ place[s] = "owned"
  /\ calls < MaxCalls
  /\ calls' = calls + 1
  /\ \/ \E kind \in TagKinds :
          data' = [data EXCEPT ![s] = Tag(@, [call |-> calls', by |-> s, kind |-> kind])]
     \/ data' = [data EXCEPT ![s].logs = Append(@, calls')]
     \/ data' = [data EXCEPT ![s].componentId = calls']
     \/ data' = [data EXCEPT ![s].peer = calls']
  /\ knows' = IF data'[s].tags = data[s].tags THEN knows
              ELSE [knows EXCEPT ![s] = @ \cup {calls'}]
  /\ UNCHANGED <<place, clock, given, setBack>>

ErrorOccurred(s) ==
  /\ place[s] = "owned"
  /\ data' = [data EXCEPT ![s].error = TRUE]
  /\ knows' = [knows EXCEPT ![s] = @ \cup {0}]
  /\ UNCHANGED <<place, calls, clock, given, setBack>>

MergeSpan(s, other) ==
  /\ place[s] = "owned" /\ s # other /\ Goes(other, "owned", "merged")
  /\ data' = [data EXCEPT ![s] = Merge(@, data[other])]
  /\ knows' = [knows EXCEPT ![s] = @ \cup knows[other]]
  /\ UNCHANGED <<calls, clock, given, setBack>>

FinishSpan(s) ==
  /\ Goes(s, "owned", "finished_spans")
  /\ \E first, second \in Clock :
       /\ IsEnded(End(data[s], first)) => second = first
       /\ data' = [data EXCEPT ![s] = Seal(@, first, second)]
       /\ Shows(first, second)
  /\ UNCHANGED <<calls, knows, given>>

Next ==
  \E s \in Spans :
    \/ \E kind \in Kinds : New(s, kind)
    \/ StartAgain(s) \/ EndEarly(s) \/ Record(s) \/ ErrorOccurred(s) \/ FinishSpan(s)
    \/ \E timestamp \in Clock : StartWithTimestamp(s, timestamp) \/ EndWithTimestamp(s, timestamp)
    \/ \E t \in Spans : CloneBox(s, t) \/ MergeSpan(s, t)

Spec == Init /\ [][Next]_vars

-----------------------------------------------------------------------------
(* Properties.                                                             *)

Calls == 1..MaxCalls

Tags == [call : Calls, by : Spans, kind : TagKinds]

Times == {t \in Clock : t >= 0} \cup {0}

STypeOK ==
  /\ data \in [Spans ->
       [ kind : Kinds, start : Times, end : Times, peer : Nat, error : BOOLEAN,
         componentId : Nat, tags : Seq(Tags), logs : Seq(Calls) ]]
  /\ place \in [Spans -> Places]
  /\ calls \in 0..MaxCalls
  /\ clock \in Clock
  /\ knows \in [Spans -> SUBSET (0..MaxCalls)]
  /\ given \subseteq Spans /\ setBack \subseteq Spans

Sent(s) == SpanObject(data[s])

(* What is sent of a span, over any clones and merges: the tags and the    *)
(* error that were recorded on it, on what it was cloned from before that, *)
(* or on what was merged into it before that; none is lost and none is     *)
(* another's (tag, error_occurred, merge_span, gen_segment).               *)
SentTellsAll ==
  \A s \in In("finished_spans") :
    /\ {t.call : t \in Range(Sent(s).tags)} = knows[s] \ {0}
    /\ (Sent(s).isError <=> 0 \in knows[s])

(* Of the tags set through one owner, an earlier one first comes before a  *)
(* later one, although merging a clone repeats those that both have.       *)
TagsInOrder ==
  \A s \in In("finished_spans") :
    LET tags == Sent(s).tags IN
    \A i, j \in 1..Len(tags) :
      (i < j /\ tags[i].by = tags[j].by /\ tags[j].call < tags[i].call) =>
        \E k \in 1..(i - 1) : tags[k].call = tags[j].call

(* A span that is sent ends before it starts only if the clock was set back*)
(* meanwhile, or code gave the start (start_with_timestamp).               *)
NoNegativeDuration ==
  \A s \in In("finished_spans") :
    Sent(s).endTime < Sent(s).startTime => s \in setBack \cup given

(* span.rs:48: end and end_with_timestamp seal the end time; finish_span is*)
(* still needed, but to archive the span.  So a span that has an end keeps *)
(* it in finish_span.                                                      *)
EndIsSealed ==
  [][ \A s \in Spans :
        IsEnded(data[s]) /\ place[s] = "owned" /\ place'[s] = "finished_spans"
          => data'[s].end = data[s].end ]_vars
=============================================================================
