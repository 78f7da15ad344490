--------------------------- MODULE ContextManager ---------------------------
(***************************************************************************)
(* The context manager (core/src/skywalking/agent/context_manager.rs) with *)
(* the tracing contexts and spans it drives (core/src/skywalking/core/     *)
(* context.rs and span.rs).                                                *)
(*                                                                         *)
(* ContextManager::async_enter runs a future inside the scope of the task- *)
(* local CTX, which holds one tracing context.  Code inside the scope      *)
(* opens spans and gets them back as owned handles; finish_span consumes a *)
(* handle.  Finishing the span with id 0 takes the context out of CTX and  *)
(* hands it to the reporter.                                               *)
(*                                                                         *)
(* A future is a piece of code that owns span handles and is polled on its *)
(* own.  Two futures with the same Home are branches of one scope (join!,  *)
(* select!) and share its CTX; a handle is Send and Clone, so it may move  *)
(* to a future of another scope.  An operation runs without .await, so it  *)
(* is one step; futures interleave between operations.  An operation       *)
(* called outside a scope, or after the context was taken, returns None or *)
(* false and changes nothing: only finish_span still consumes its handle.  *)
(***************************************************************************)
EXTENDS Integers, Sequences, FiniteSets, Functions

CONSTANTS
  Contexts,   \* scopes entered by async_enter, each with its own context
  Futures,    \* code that owns span handles
  Home,       \* the scope in which a future runs
  TraceIds,   \* ids that callers of change_trace_id use
  Times,      \* readings of SystemTime::now() in ms; 0: before the epoch
  MaxSpans,   \* bound of the model: span ids each context gives out
  MaxCopies   \* bound of the model: 2 for one cloning of a span, 4 for two

ASSUME ContextManagerAssumption ==
  /\ Home \in [Futures -> Contexts]
  /\ Times \subseteq Nat
  /\ MaxSpans \in [Contexts -> Nat]
  /\ MaxCopies \in Nat

VARIABLES
  phase,          \* the life of the scope and of the Option in its CTX
  nextSeq,        \* TracingContext.next_seq, the id given out last
  traceId,        \* TracingContext.primary_trace_id
  spanStack,      \* WorkingContext.span_stack
  finishedSpans,  \* TracingContext.finished_spans
  held,           \* the span handles each future owns
  injected,       \* sw8 headers handed to injectors
  reported        \* segments passed to report_trace, in order

vars == <<phase, nextSeq, traceId, spanStack, finishedSpans, held, injected,
          reported>>

(* unentered: async_enter was not called; working: CTX is set and holds a  *)
(* WorkingContext; taken: CTX is set and holds None; exited: the future    *)
(* given to async_enter has returned or was dropped.                       *)
Phases == {"unentered", "working", "taken", "exited"}

Kinds == {"entry", "exit", "local"}

NoParent == -1

(* TracingSpan.  ctx (the creator) and copy name the handle, the code keeps*)
(* neither; cloning handle n leaves n as 2n + 1 and makes its clone 2n + 2.*)
Spans == [ctx : Contexts, id : Nat, parent : Nat \cup {NoParent}, kind : Kinds,
          start : Nat, end : Nat, copy : 0..MaxCopies]

(* TracingContext::new draws two ids of IDGenerator::new_id, the trace id  *)
(* first; no other context draws them.  The name of a context stands for   *)
(* its segment id, in segments and headers too.                            *)
NewTraceId(c) == <<"traceId", c>>

NewTraceIds == {NewTraceId(c) : c \in Contexts}

Segments == [ctx : Contexts, traceId : NewTraceIds \cup TraceIds, spans : Seq(Spans)]
Headers == [ctx : Contexts, traceId : NewTraceIds \cup TraceIds, spanId : Nat]

-----------------------------------------------------------------------------
(* Spans.                                                                  *)

(* now.duration_since(UNIX_EPOCH), or the fallback when that is an error.  *)
MillisOr(now, fallback) == IF now = 0 THEN fallback ELSE now

Start(span, now) == [span EXCEPT !.start = MillisOr(now, span.start)]

End(span, now) == [span EXCEPT !.end = MillisOr(now, span.start)]

IsEnded(span) == span.end # 0

HeldSpans == UNION {held[f] : f \in Futures}

(* Mutant: the parent is read off the stack after the push.                *)
ParentAfterPush(c) == nextSeq[c] + 1

(* The span on top of the stack, the parent of the next one.               *)
ParentSpanId(c) ==
  IF spanStack[c] = <<>> THEN NoParent ELSE spanStack[c][Len(spanStack[c])]

(* Mutant: next_span_id returns the value before the increment.            *)
OldSpanId(c) == nextSeq[c]

NextSpanId(c) == nextSeq[c] + 1

(* A new span of the context of f, started.                                *)
NewSpan(f, kind, now) ==
  LET c == Home[f] IN
  Start([ctx |-> c, id |-> NextSpanId(c), parent |-> ParentSpanId(c),
         kind |-> kind, start |-> 0, end |-> 0, copy |-> 0], now)

(* Mutant: the stack is popped at the wrong end.                           *)
PopOldest(stack) == IF stack = <<>> THEN stack ELSE Tail(stack)

(* Whichever span is finished, the top goes.                               *)
Pop(stack) == IF stack = <<>> THEN stack ELSE SubSeq(stack, 1, Len(stack) - 1)

-----------------------------------------------------------------------------
Init ==
  /\ phase = [c \in Contexts |-> "unentered"]
  /\ nextSeq = [c \in Contexts |-> -1]
  /\ traceId = [c \in Contexts |-> NewTraceId(c)]
  /\ spanStack = [c \in Contexts |-> <<>>]
  /\ finishedSpans = [c \in Contexts |-> <<>>]
  /\ held = [f \in Futures |-> {}]
  /\ injected = {}
  /\ reported = <<>>

(* async_enter sets CTX to a fresh CurrentTracingContext: next_seq -1, a   *)
(* new trace id and segment id, nothing finished, an empty stack.          *)
AsyncEnter(c) ==
  /\ phase[c] = "unentered"
  /\ phase' = [phase EXCEPT ![c] = "working"]
  /\ nextSeq' = [nextSeq EXCEPT ![c] = -1]
  /\ traceId' = [traceId EXCEPT ![c] = NewTraceId(c)]
  /\ spanStack' = [spanStack EXCEPT ![c] = <<>>]
  /\ finishedSpans' = [finishedSpans EXCEPT ![c] = <<>>]
  /\ UNCHANGED <<held, injected, reported>>

(* What tracing_entry, tracing_exit and tracing_local have in common: the  *)
(* parent is read off the stack, the span is created with the next id,     *)
(* pushed, started and given to the caller.                                *)
CreateSpan(f, kind) ==
  LET c == Home[f] IN
  /\ phase[c] = "working"
  /\ nextSeq[c] + 1 < MaxSpans[c]
  /\ nextSeq' = [nextSeq EXCEPT ![c] = @ + 1]
  /\ spanStack' = [spanStack EXCEPT ![c] = Append(@, NextSpanId(c))]
  /\ \E now \in Times : held' = [held EXCEPT ![f] = @ \cup {NewSpan(f, kind, now)}]
  /\ UNCHANGED <<phase, traceId, finishedSpans, reported>>

TracingEntry(f) == CreateSpan(f, "entry") /\ UNCHANGED injected

TracingLocal(f) == CreateSpan(f, "local") /\ UNCHANGED injected

(* Mutant: the header names the parent of the exit span.                   *)
HeaderOfParent(c) == [ctx |-> c, traceId |-> traceId[c], spanId |-> ParentSpanId(c)]

(* The header names the trace, this segment and the span.                  *)
Header(c) == [ctx |-> c, traceId |-> traceId[c], spanId |-> NextSpanId(c)]

MayInject(c) == UNCHANGED injected \/ injected' = injected \cup {Header(c)}

TracingExit(f) == CreateSpan(f, "exit") /\ MayInject(Home[f])

(* Span creation panics after it has taken an id: tracing_entry with an    *)
(* extractor is todo!(), and an injector that calls the ContextManager     *)
(* finds the RefCell borrowed, perhaps after it has sent the header.  The  *)
(* caller catches the panic; one that is not caught drops the whole scope, *)
(* see LeaveScope.                                                         *)
CreateSpanPanics(f) ==
  LET c == Home[f] IN
  /\ phase[c] = "working"
  /\ nextSeq[c] + 1 < MaxSpans[c]
  /\ nextSeq' = [nextSeq EXCEPT ![c] = @ + 1]
  /\ MayInject(c)
  /\ UNCHANGED <<phase, traceId, spanStack, finishedSpans, held, reported>>

ChangeTraceId(f) ==
  LET c == Home[f] IN
  /\ phase[c] = "working"
  /\ \E id \in TraceIds : traceId' = [traceId EXCEPT ![c] = id]
  /\ UNCHANGED <<phase, nextSeq, spanStack, finishedSpans, held, injected, reported>>

-----------------------------------------------------------------------------
(* ContextManager::finish_span ends the span; TracingContext::finish_span  *)
(* does it again if that left no end time.                                 *)
Finished(span) ==
  { IF IsEnded(End(span, now)) THEN End(span, now) ELSE End(End(span, now), again) :
      now, again \in Times }

(* Mutant: the context is taken before the first span is archived in it.   *)
SegmentWithoutRoot(c, spans) ==
  [ctx |-> c, traceId |-> traceId[c], spans |-> SubSeq(spans, 1, Len(spans) - 1)]

Segment(c, spans) == [ctx |-> c, traceId |-> traceId[c], spans |-> spans]

(* Mutant: the context is cloned out of CTX instead of taken.              *)
ReportClone(c, spans) ==
  /\ reported' = Append(reported, Segment(c, spans))
  /\ finishedSpans' = [finishedSpans EXCEPT ![c] = spans]
  /\ UNCHANGED <<phase, spanStack>>

(* The span with id 0 ends the segment: the context is taken out of CTX    *)
(* and moved to the reporter, whose answer is ignored.                     *)
Report(c, spans) ==
  /\ phase' = [phase EXCEPT ![c] = "taken"]
  /\ spanStack' = [spanStack EXCEPT ![c] = <<>>]
  /\ finishedSpans' = [finishedSpans EXCEPT ![c] = <<>>]
  /\ reported' = Append(reported, Segment(c, spans))

(* Mutant: the segment is reported when the stack runs empty.              *)
IsLastOnStack(c, span) == Len(spanStack[c]) <= 1

IsFirstSpan(c, span) == span.id = 0

(* f finishes the span in whatever scope it runs in.  The span is archived *)
(* there and the stack popped, whichever span that is; without a context   *)
(* the handle just goes away.                                              *)
FinishSpan(f, span) ==
  LET c == Home[f] IN
  /\ span \in held[f]
  /\ held' = [held EXCEPT ![f] = @ \ {span}]
  /\ IF phase[c] = "working"
     THEN \E done \in Finished(span) :
            IF IsFirstSpan(c, span)
            THEN Report(c, Append(finishedSpans[c], done))
            ELSE /\ finishedSpans' = [finishedSpans EXCEPT ![c] = Append(@, done)]
                 /\ spanStack' = [spanStack EXCEPT ![c] = Pop(@)]
                 /\ UNCHANGED <<phase, reported>>
     ELSE UNCHANGED <<phase, spanStack, finishedSpans, reported>>
  /\ UNCHANGED <<nextSeq, traceId, injected>>

-----------------------------------------------------------------------------
(* What code does with the handles it owns, without the context manager.   *)

(* Span::end or end_with_timestamp, called by the owner.                   *)
EndSpan(f, span) ==
  /\ span \in held[f]
  /\ \E now \in Times : held' = [held EXCEPT ![f] = (@ \ {span}) \cup {End(span, now)}]
  /\ UNCHANGED <<phase, nextSeq, traceId, spanStack, finishedSpans, injected, reported>>

CloneSpan(f, span) ==
  /\ span \in held[f]
  /\ 2 * span.copy + 2 <= MaxCopies
  /\ held' = [held EXCEPT ![f] = (@ \ {span}) \cup
                {[span EXCEPT !.copy = 2 * @ + 1], [span EXCEPT !.copy = 2 * @ + 2]}]
  /\ UNCHANGED <<phase, nextSeq, traceId, spanStack, finishedSpans, injected, reported>>

SendSpan(f, g, span) ==
  /\ span \in held[f]
  /\ f # g
  /\ phase[Home[g]] # "exited"
  /\ held' = [held EXCEPT ![f] = @ \ {span}, ![g] = @ \cup {span}]
  /\ UNCHANGED <<phase, nextSeq, traceId, spanStack, finishedSpans, injected, reported>>

(* The handle goes out of scope unfinished, as on an early return; spans   *)
(* have no destructor.                                                     *)
DropSpan(f, span) ==
  /\ span \in held[f]
  /\ held' = [held EXCEPT ![f] = @ \ {span}]
  /\ UNCHANGED <<phase, nextSeq, traceId, spanStack, finishedSpans, injected, reported>>

(* The future given to async_enter returns, is cancelled, or unwinds with  *)
(* a panic: CTX and everything its futures own are dropped.                *)
LeaveScope(c) ==
  /\ phase[c] \in {"working", "taken"}
  /\ phase' = [phase EXCEPT ![c] = "exited"]
  /\ spanStack' = [spanStack EXCEPT ![c] = <<>>]
  /\ finishedSpans' = [finishedSpans EXCEPT ![c] = <<>>]
  /\ held' = [f \in Futures |-> IF Home[f] = c THEN {} ELSE held[f]]
  /\ UNCHANGED <<nextSeq, traceId, injected, reported>>

-----------------------------------------------------------------------------
Create(f) == TracingEntry(f) \/ TracingExit(f) \/ TracingLocal(f)

(* Any code at all.                                                        *)
Next ==
  \/ \E c \in Contexts : AsyncEnter(c) \/ LeaveScope(c)
  \/ \E f \in Futures :
       \/ Create(f)
       \/ CreateSpanPanics(f)
       \/ ChangeTraceId(f)
       \/ \E span \in held[f] :
            \/ FinishSpan(f, span)
            \/ EndSpan(f, span)
            \/ CloneSpan(f, span)
            \/ DropSpan(f, span)
            \/ \E g \in Futures : SendSpan(f, g, span)

Spec == Init /\ [][Next]_vars

(* Structured code: every span is finished once, in the scope that created *)
(* it, the first span last; the trace id is not changed once a header has  *)
(* been sent.  Branches of a scope may still interleave in any order.      *)
IsLastOpen(f, span) ==
  /\ span.ctx = Home[f]
  /\ span.id = 0 => \A s \in HeldSpans : s.ctx = span.ctx => s = span

StructuredNext ==
  \/ \E c \in Contexts : AsyncEnter(c) \/ LeaveScope(c)
  \/ \E f \in Futures :
       \/ Create(f)
       \/ ChangeTraceId(f) /\ \A h \in injected : h.ctx # Home[f]
       \/ \E span \in held[f] :
            \/ FinishSpan(f, span) /\ IsLastOpen(f, span)
            \/ EndSpan(f, span)
            \/ \E g \in Futures :
                 Home[g] = Home[f] /\ SendSpan(f, g, span)

StructuredSpec == Init /\ [][StructuredNext]_vars

(* Sequential code: moreover, the open span created last is finished first. *)
IsInnermost(f, span) ==
  \A s \in HeldSpans : s.ctx = Home[f] => s.id <= span.id

SequentialNext ==
  \/ \E c \in Contexts : AsyncEnter(c) \/ LeaveScope(c)
  \/ \E f \in Futures :
       \/ Create(f)
       \/ \E span \in held[f] :
            \/ FinishSpan(f, span) /\ span.ctx = Home[f] /\ IsInnermost(f, span)
            \/ EndSpan(f, span)

SequentialSpec == Init /\ [][SequentialNext]_vars
=============================================================================
