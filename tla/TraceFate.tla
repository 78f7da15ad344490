------------------------------ MODULE TraceFate ------------------------------
(***************************************************************************)
(* What becomes of a traced scope, from end to end.  The spans of a scope  *)
(* are collected while it runs.  When it is complete it is offered for     *)
(* delivery at once: it is refused, or it waits.  Those that wait are      *)
(* settled oldest first.  What the collector has of a scope is nothing or  *)
(* all of its spans, and it has all of them when the scope counts as       *)
(* delivered.  When the process ends, what was not settled is lost.        *)
(* No span stack, channel, batch, call or retry is visible here.           *)
(***************************************************************************)
EXTENDS Integers, Sequences, Functions

CONSTANTS
  Scopes,
  Capacity   \* scopes that are certain to find room while waiting

VARIABLES
  fate,      \* what has become of each scope
  size,      \* the number of its spans
  line,      \* the scopes that wait, oldest first
  known,     \* the spans of each scope that the collector has
  running    \* the process has not ended

fvars == <<fate, size, line, known, running>>

Fates == {"idle", "tracing", "abandoned", "refused", "waiting", "delivered",
          "backedUp", "lost"}

FInit ==
  /\ fate = [c \in Scopes |-> "idle"]
  /\ size = [c \in Scopes |-> 0]
  /\ line = <<>>
  /\ known = [c \in Scopes |-> {}]
  /\ running = TRUE

Enter(c) ==
  /\ running /\ fate[c] = "idle"
  /\ fate' = [fate EXCEPT ![c] = "tracing"]
  /\ UNCHANGED <<size, line, known, running>>

Open(c) ==
  /\ running /\ fate[c] = "tracing"
  /\ size' = [size EXCEPT ![c] = @ + 1]
  /\ UNCHANGED <<fate, line, known, running>>

Abandon(c) ==
  /\ running /\ fate[c] = "tracing"
  /\ fate' = [fate EXCEPT ![c] = "abandoned"]
  /\ UNCHANGED <<size, line, known, running>>

(* The scope is complete.                                                  *)
Complete(c) ==
  /\ running /\ fate[c] = "tracing" /\ size[c] > 0
  /\ \/ /\ fate' = [fate EXCEPT ![c] = "waiting"]
        /\ line' = Append(line, c)
     \/ /\ Len(line) >= Capacity
        /\ fate' = [fate EXCEPT ![c] = "refused"]
        /\ UNCHANGED line
  /\ UNCHANGED <<size, known, running>>

(* A copy arrives, perhaps another one, perhaps after the scope is settled.*)
Arrive(c) ==
  /\ fate[c] \in {"waiting", "delivered", "backedUp", "lost"}
  /\ known' = [known EXCEPT ![c] = 0..(size[c] - 1)]
  /\ UNCHANGED <<fate, size, line, running>>

(* The n oldest are settled together, delivered only if all have arrived.  *)
Settle(n, outcome) ==
  /\ running
  /\ LET oldest == Range(SubSeq(line, 1, n)) IN
       /\ outcome = "delivered" => \A c \in oldest : known[c] # {}
       /\ fate' = [c \in Scopes |-> IF c \in oldest THEN outcome ELSE fate[c]]
  /\ line' = SubSeq(line, n + 1, Len(line))
  /\ UNCHANGED <<size, known, running>>

Stop ==
  /\ running
  /\ running' = FALSE
  /\ fate' = [c \in Scopes |-> CASE fate[c] = "tracing" -> "abandoned"
                                 [] fate[c] = "waiting" -> "lost"
                                 [] OTHER -> fate[c]]
  /\ line' = <<>>
  /\ UNCHANGED <<size, known>>

FNext ==
  \/ \E c \in Scopes : Enter(c) \/ Open(c) \/ Abandon(c) \/ Complete(c) \/ Arrive(c)
  \/ \E n \in 1..Len(line), outcome \in {"delivered", "backedUp"} : Settle(n, outcome)
  \/ Stop

FSpec == FInit /\ [][FNext]_fvars
=============================================================================
