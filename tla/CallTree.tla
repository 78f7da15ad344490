------------------------------ MODULE CallTree ------------------------------
(***************************************************************************)
(* What sequential code may rely on when it traces one scope: its spans    *)
(* form a tree; a new span is a child of the innermost span that is still  *)
(* open; closing the last open span publishes the whole tree, once; and a  *)
(* scope that is left before that publishes nothing.  No id, stack, handle *)
(* or context is visible at this level: the n-th span of the scope is n,   *)
(* and parents[n + 1] is its parent.                                       *)
(***************************************************************************)
EXTENDS Integers, Sequences

VARIABLES
  tracing,    \* the scope has been entered and its tree is not complete
  open,       \* open spans, outermost first
  parents,    \* the tree so far
  published   \* the trees made visible outside the scope

tvars == <<tracing, open, parents, published>>

Innermost == IF open = <<>> THEN -1 ELSE open[Len(open)]

TInit ==
  /\ tracing = FALSE
  /\ open = <<>>
  /\ parents = <<>>
  /\ published = <<>>

Begin ==
  /\ ~tracing
  /\ published = <<>>
  /\ tracing' = TRUE
  /\ UNCHANGED <<open, parents, published>>

Open ==
  /\ tracing
  /\ open' = Append(open, Len(parents))
  /\ parents' = Append(parents, Innermost)
  /\ UNCHANGED <<tracing, published>>

Close ==
  /\ Len(open) > 1
  /\ open' = SubSeq(open, 1, Len(open) - 1)
  /\ UNCHANGED <<tracing, parents, published>>

Publish ==
  /\ tracing
  /\ Len(open) = 1
  /\ published' = Append(published, parents)
  /\ tracing' = FALSE
  /\ open' = <<>>
  /\ parents' = <<>>

Abandon ==
  /\ tracing
  /\ tracing' = FALSE
  /\ open' = <<>>
  /\ parents' = <<>>
  /\ UNCHANGED published

TNext == Begin \/ Open \/ Close \/ Publish \/ Abandon

TSpec == TInit /\ [][TNext]_tvars
=============================================================================
