--------------------------- MODULE ReporterProps ---------------------------
(***************************************************************************)
(* What the reporter promises.  The hazards: the task is suspended inside  *)
(* a batch while the application goes on filling the channel, calls fail   *)
(* after the collector has read part of them, and copies arrive late.      *)
(***************************************************************************)
EXTENDS Reporter

(* Segments the reporter has accepted and not yet settled, oldest first.   *)
Pending == batch \o queue

Settled == acked \cup logged

(* Every variable stays in its range; the batch never holds more than      *)
(* BATCH_LIMIT + 1 entries and the channel no more than its capacity.      *)
RTypeOK ==
  /\ offered \in 0..MaxSegments
  /\ queue \in Seq(Segments)
  /\ Len(queue) <= SKW_CHAN_SIZE
  /\ senderAlive \in BOOLEAN
  /\ dropped \subseteq Segments
  /\ pc \in Pc
  /\ batch \in Seq(Segments)
  /\ nones \in Nat
  /\ Len(batch) + nones <= BATCH_LIMIT + 1
  /\ attempt \in 0..(RETRY_NUM - 1)
  /\ streamed \in 0..(BATCH_LIMIT + 1)
  /\ late \in [Segments -> Nat]
  /\ received \in [Segments -> Nat]
  /\ acked \subseteq Segments
  /\ logged \subseteq Segments
  /\ up \in BOOLEAN

(* No segment is lost or settled twice inside the agent: each one given to *)
(* report_trace is refused, pending, acknowledged or logged, and only one  *)
(* of these; the pending ones are kept in the order of their calls, and    *)
(* nothing is settled before an older segment.                             *)
EachSegmentInOnePlace ==
  /\ Range(Pending) \cup dropped \cup Settled = 1..offered
  /\ acked \cap logged = {}
  /\ dropped \cap Settled = {}
  /\ \A i, j \in 1..Len(Pending) : i < j => Pending[i] < Pending[j]
  /\ \A i \in 1..Len(Pending) :
       /\ Pending[i] \notin dropped
       /\ \A s \in Settled : s < Pending[i]

(* An acknowledged segment has been read by the collector, whatever calls  *)
(* failed, were repeated or were cut short before.                         *)
AckedWasReceived == \A s \in acked : received[s] > 0

(* At-least-once delivery duplicates, but a segment is read no more often  *)
(* than the retry loop has attempts, late copies included.                 *)
AtMostRetryNumCopies == \A s \in Segments : received[s] + late[s] <= RETRY_NUM

(* The collector first reads segments in the order of report_trace, except *)
(* for those given up: when it has read t, it has read every accepted      *)
(* segment before t that was not logged to disk instead.                   *)
FirstReadInOrder ==
  \A s, t \in Segments :
    (s < t /\ received[t] > 0) =>
      (received[s] > 0 \/ s \in dropped \/ s \in logged)

(* The reporter implements what SegmentDelivery promises: a call refused   *)
(* only when the channel's capacity is taken, oldest segments settled      *)
(* first, one outcome each, a batch at a time.                             *)
Delivery == INSTANCE SegmentDelivery WITH
  Capacity  <- SKW_CHAN_SIZE,
  waiting   <- Pending,
  refused   <- dropped,
  delivered <- acked,
  backedUp  <- logged

ImplementsDelivery == Delivery!DSpec

(* If the collector stays reachable from some point on and every call is   *)
(* answered in the end, every accepted segment is acknowledged or logged,  *)
(* even when the Reporter is dropped meanwhile.                            *)
EventuallySettled ==
  (<>[]up /\ []<>(pc # "collect")) =>
    \A s \in Segments : (s \in Range(Pending)) ~> (s \in Settled)
=============================================================================
