------------------------------- MODULE MCAgent -------------------------------
(* Model checking of the agent with two scopes, one of them with two       *)
(* branches.                                                               *)
EXTENDS Agent, TLC

CONSTANTS c1, c2, f1, f2, f3

Homes == (f1 :> c1) @@ (f2 :> c1) @@ (f3 :> c2)

ThreeAndOne == (c1 :> 3) @@ (c2 :> 1)

(* Bound: code creates local spans only.                                   *)
OnlyLocalSpans == \A s \in HeldSpans : s.kind = "local"
=============================================================================
