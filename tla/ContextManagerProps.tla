------------------------ MODULE ContextManagerProps ------------------------
(***************************************************************************)
(* What the context manager promises: to any code (under Spec), to code    *)
(* that finishes each span once in its own scope and the first span last   *)
(* (StructuredSpec), and to code that nests its spans (SequentialSpec).    *)
(* The hazards: branches of a scope that interleave on one span_stack,     *)
(* handles that are cloned, dropped, or finished in a foreign scope, scopes*)
(* that are cancelled, and panics in the middle of span creation.          *)
(***************************************************************************)
EXTENDS ContextManager

(* Every variable stays in its range.                                      *)
TypeOK ==
  /\ phase \in [Contexts -> Phases]
  /\ nextSeq \in [Contexts -> Int]
  /\ \A c \in Contexts : nextSeq[c] \in -1..(MaxSpans[c] - 1)
  /\ traceId \in [Contexts -> NewTraceIds \cup TraceIds]
  /\ spanStack \in [Contexts -> Seq(Nat)]
  /\ finishedSpans \in [Contexts -> Seq(Spans)]
  /\ held \in [Futures -> SUBSET Spans]
  /\ injected \subseteq Headers
  /\ reported \in Seq(Segments)

-----------------------------------------------------------------------------
(* Whatever code does.                                                     *)

(* A context goes to the reporter at most once, however many handles with  *)
(* id 0 (clones, spans of other scopes) are finished in its scope, and     *)
(* after that its scope has no context.                                    *)
ReportedOnce ==
  /\ \A i, j \in 1..Len(reported) :
       reported[i].ctx = reported[j].ctx => i = j
  /\ \A i \in 1..Len(reported) : phase[reported[i].ctx] \in {"taken", "exited"}

Archived ==
  (UNION {Range(finishedSpans[c]) : c \in Contexts})
    \cup (UNION {Range(reported[i].spans) : i \in 1..Len(reported)})

(* The parent links of a segment are acyclic: the ids on a stack ascend    *)
(* and have been given out, so a parent is an older span of the same       *)
(* context, even after clones and foreign spans have popped the stack.     *)
ParentsAreOlder ==
  /\ \A c \in Contexts :
       /\ \A i \in 1..Len(spanStack[c]) : spanStack[c][i] <= nextSeq[c]
       /\ \A i, j \in 1..Len(spanStack[c]) :
            i < j => spanStack[c][i] < spanStack[c][j]
  /\ \A s \in HeldSpans \cup Archived : s.parent < s.id /\ s.id <= nextSeq[s.ctx]

(* A segment is sent by the first span with id 0 finished in its scope and *)
(* by nothing else: that span is its last one, and no other has id 0.      *)
ReportEndsAtSpanZero ==
  /\ \A i \in 1..Len(reported) :
       LET spans == reported[i].spans IN
       \A j \in 1..Len(spans) : spans[j].id = 0 <=> j = Len(spans)
  /\ \A c \in Contexts : \A s \in Range(finishedSpans[c]) : s.id # 0

-----------------------------------------------------------------------------
(* Structured code.                                                        *)

OwnSpans(c) == {s \in HeldSpans : s.ctx = c}

Ids(spans) == {s.id : s \in spans}

(* While branches of a scope open and finish spans in any order, no span   *)
(* is lost or archived twice: an id that was given out belongs to an open  *)
(* span or to one archived span.  The stack has one entry for each open    *)
(* span and starts with the first, so no second root can appear.           *)
OpenOrArchived ==
  \A c \in Contexts : phase[c] = "working" =>
    LET archived == finishedSpans[c] IN
    /\ Ids(OwnSpans(c)) \cup Ids(Range(archived)) = 0..nextSeq[c]
    /\ Cardinality(OwnSpans(c)) + Len(archived) = nextSeq[c] + 1
    /\ Len(spanStack[c]) = Cardinality(OwnSpans(c))
    /\ spanStack[c] # <<>> => spanStack[c][1] = 0

(* A reported segment is complete: it holds each span created in its       *)
(* context exactly once, all ended, and is one tree: only the first is     *)
(* without parent, and the parent of any other is an older span of it.     *)
SegmentIsComplete ==
  \A i \in 1..Len(reported) :
    LET segment == reported[i] IN
    /\ Len(segment.spans) = nextSeq[segment.ctx] + 1
    /\ Ids(Range(segment.spans)) = 0..nextSeq[segment.ctx]
    /\ \A s \in Range(segment.spans) :
         /\ s.ctx = segment.ctx
         /\ IsEnded(s)
         /\ IF s.id = 0
            THEN s.parent = NoParent
            ELSE s.parent < s.id /\ s.parent \in Ids(Range(segment.spans))

(* The receiver of a header can resolve it: once the segment it names is   *)
(* reported, the segment has that trace id and an exit span with that id.  *)
HeadersResolve ==
  \A h \in injected, i \in 1..Len(reported) :
    reported[i].ctx = h.ctx =>
      /\ reported[i].traceId = h.traceId
      /\ \E s \in Range(reported[i].spans) : s.id = h.spanId /\ s.kind = "exit"

-----------------------------------------------------------------------------
(* Sequential code.                                                        *)

(* The elements of a set of numbers, the least one first.                  *)
Nth(ids, n) ==
  CHOOSE i \in {j \in ids : Cardinality({k \in ids : k < j}) = n - 1} : TRUE

Ascending(ids) == [n \in 1..Cardinality(ids) |-> Nth(ids, n)]

(* The parents of spans with ids 0, 1, ... in order.                       *)
ParentOf(spans, id) ==
  CHOOSE parent \in {s.parent : s \in {t \in spans : t.id = id}} : TRUE

ParentSeq(spans) ==
  [n \in 1..Cardinality(Ids(spans)) |-> ParentOf(spans, n - 1)]

ReportsOf(c) == {i \in 1..Len(reported) : reported[i].ctx = c}

TreesOf(c) == {ParentSeq(Range(reported[i].spans)) : i \in ReportsOf(c)}

(* One tree for each report; two reports are too many, whatever they hold. *)
Published(c) ==
  [n \in 1..Cardinality(ReportsOf(c)) |-> CHOOSE tree \in TreesOf(c) : TRUE]

(* Every scope implements CallTree (this is TSpec for each c at once); a   *)
(* span is open while code holds its handle: the parent that span_stack    *)
(* yields is the innermost open span, and the reported segment is the      *)
(* whole tree.                                                             *)
Tree(c) == INSTANCE CallTree WITH
  tracing   <- phase[c] = "working",
  open      <- Ascending(Ids(OwnSpans(c))),
  parents   <- ParentSeq(OwnSpans(c) \cup Range(finishedSpans[c])),
  published <- Published(c)

ImplementsCallTree ==
  /\ \A c \in Contexts : Tree(c)!TInit
  /\ [][ \A c \in Contexts : [Tree(c)!TNext]_(Tree(c)!tvars) ]_vars

-----------------------------------------------------------------------------
(* Claims of comments that the code does not keep.                         *)

(* context_manager.rs:253: span_stack follows the creation sequence of the *)
(* spans "stack-style", so that its top is the parent of the next span: a  *)
(* span that is still open.                                                *)
StackTopIsOpen ==
  \A c \in Contexts :
    spanStack[c] # <<>> => ParentSpanId(c) \in Ids(OwnSpans(c))

(* context.rs:53: finish_span only accepts a span of this context.         *)
ForeignSpanRefused ==
  \A c \in Contexts : \A s \in Range(finishedSpans[c]) : s.ctx = c
=============================================================================
