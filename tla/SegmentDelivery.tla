--------------------------- MODULE SegmentDelivery ---------------------------
(***************************************************************************)
(* What an application may rely on when it hands a finished segment to the *)
(* reporter: the call never blocks; the segment is refused only while at   *)
(* least Capacity segments wait; those that wait are settled oldest first, *)
(* some at a time, each either delivered to the collector or backed up to  *)
(* the log, and never both.  No channel, batch, call, retry or connection  *)
(* is visible at this level.                                               *)
(***************************************************************************)
EXTENDS Integers, Sequences, Functions

CONSTANTS
  Capacity,     \* segments that are certain to find room
  MaxSegments   \* bound of the model: segments handed over

VARIABLES
  offered,    \* number of segments handed over
  waiting,    \* accepted segments, oldest first
  refused, delivered, backedUp

dvars == <<offered, waiting, refused, delivered, backedUp>>

DInit ==
  /\ offered = 0
  /\ waiting = <<>>
  /\ refused = {}
  /\ delivered = {}
  /\ backedUp = {}

Accept ==
  /\ offered < MaxSegments
  /\ offered' = offered + 1
  /\ waiting' = Append(waiting, offered + 1)
  /\ UNCHANGED <<refused, delivered, backedUp>>

Refuse ==
  /\ offered < MaxSegments
  /\ Len(waiting) >= Capacity
  /\ offered' = offered + 1
  /\ refused' = refused \cup {offered + 1}
  /\ UNCHANGED <<waiting, delivered, backedUp>>

(* The n oldest segments leave together, with one outcome.                 *)
Settle(n) ==
  /\ waiting' = SubSeq(waiting, n + 1, Len(waiting))
  /\ LET oldest == Range(SubSeq(waiting, 1, n)) IN
       \/ /\ delivered' = delivered \cup oldest
          /\ UNCHANGED backedUp
       \/ /\ backedUp' = backedUp \cup oldest
          /\ UNCHANGED delivered
  /\ UNCHANGED <<offered, refused>>

DNext == Accept \/ Refuse \/ \E n \in 1..Len(waiting) : Settle(n)

DSpec == DInit /\ [][DNext]_dvars
=============================================================================
