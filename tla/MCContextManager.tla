-------------------------- MODULE MCContextManager --------------------------
(* Model checking of the context manager with two scopes of one future     *)
(* each, or one scope of two futures.                                      *)
EXTENDS ContextManagerProps, TLC

CONSTANTS c1, c2, f1, f2

HomeApart == (f1 :> c1) @@ (f2 :> c2)

HomeTogether == (f1 :> c1) @@ (f2 :> c1)

TwoSpansEach == (c1 :> 2) @@ (c2 :> 2)

TwoSpansAndOne == (c1 :> 2) @@ (c2 :> 1)

ThreeSpansAndTwo == (c1 :> 3) @@ (c2 :> 2)

ThreeSpans == c1 :> 3

FourSpans == c1 :> 4

(* Bound: code creates exit spans only.                                    *)
OnlyExit == \A s \in HeldSpans : s.kind = "exit"

(* Bound: a span that was ended with end is followed no further; what holds*)
(* of ids and of who reports does not depend on times.                     *)
EndedByFinish == \A s \in HeldSpans : ~IsEnded(s)

(* Bound: the trace id of a scope is changed only while the other scope has*)
(* created no span; nothing but a header and a segment reads it.           *)
ChangedAlone ==
  \A c, d \in Contexts : c # d /\ traceId[c] # NewTraceId(c) => nextSeq[d] = -1
=============================================================================
