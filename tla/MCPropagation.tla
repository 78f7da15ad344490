----------------------------- MODULE MCPropagation -----------------------------
(* Model checking of propagation over scopes of three services.            *)
EXTENDS Propagation, TLC

CONSTANTS c1, c2, c3, f1, f2, f3, s1, s2, s3

Homes == (f1 :> c1) @@ (f2 :> c2) @@ (f3 :> c3)

ThreeServices == (c1 :> s1) @@ (c2 :> s2) @@ (c3 :> s3)

OneTwoOne == (c1 :> 1) @@ (c2 :> 2) @@ (c3 :> 1)

UpToTwoTags == (c1 :> 0) @@ (c2 :> 1) @@ (c3 :> 2)

(* Bound: code creates entry and exit spans; a local span differs from an  *)
(* entry span in its type only.                                            *)
NoLocalSpans == \A s \in HeldSpans : s.kind # "local"

(* Bound: a span that was ended with end is followed no further; ids, tags *)
(* and headers do not depend on times.                                     *)
EndedByFinish == \A s \in HeldSpans : ~IsEnded(s)

Ids == NumIds \cup {StrID(text) : text \in IdTexts}

TwoHomes == (f1 :> c1) @@ (f2 :> c2)

TwoServices == (c1 :> s1) @@ (c2 :> s2)

OneAndOne == (c1 :> 1) @@ (c2 :> 1)

OneTag == (c1 :> 0) @@ (c2 :> 1)
=============================================================================
