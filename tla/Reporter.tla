------------------------------ MODULE Reporter ------------------------------
(***************************************************************************)
(* The reporter of the agent (core/src/skywalking/agent/reporter.rs).      *)
(*                                                                         *)
(* Application tasks hand finished segments to report_trace, which puts    *)
(* them into a bounded mpsc channel without ever blocking.  One background *)
(* task, spawned by Reporter::new on the global runtime, connects to the   *)
(* collector, moves segments from the channel into a batch, and sends each *)
(* batch in a client-streaming gRPC call that is repeated when it fails.   *)
(*                                                                         *)
(* Segment n is the argument of the n-th call of report_trace; calls of    *)
(* different threads are ordered by the channel.  A step of the task is    *)
(* what it does between two points at which it can be suspended (.await),  *)
(* or at which other threads can observe or change the channel.  Time is   *)
(* abstracted: a timer that may have expired is a choice.                  *)
(***************************************************************************)
EXTENDS Integers, Sequences, Functions

CONSTANTS
  SKW_CHAN_SIZE,  \* capacity of the channel (50000 in the code)
  BATCH_LIMIT,    \* a batch longer than this is flushed at once (500)
  RETRY_NUM,      \* attempts to send one batch (5)
  MaxSegments     \* bound of the model: calls of report_trace

ASSUME ReporterAssumption ==
  /\ SKW_CHAN_SIZE \in Nat \ {0}
  /\ BATCH_LIMIT \in Nat
  /\ RETRY_NUM \in Nat \ {0}
  /\ MaxSegments \in Nat

VARIABLES
  offered,      \* number of calls of report_trace so far
  queue,        \* the channel: accepted segments, oldest first
  senderAlive,  \* the Reporter value, which owns the only Sender, exists
  dropped,      \* segments that report_trace refused and discarded
  pc,           \* where the background task is suspended
  batch,        \* the Some(..) entries of the task's vec, in order
  nones,        \* the number of None entries at the end of vec
  attempt,      \* loop variable i of retry_send_skw
  streamed,     \* segments of the batch the collector has read in this call
  late,         \* late[s]: copies of s written in aborted calls, still on the wire
  received,     \* received[s]: copies of s the collector has read
  acked,        \* segments of batches whose call returned Ok
  logged,       \* segments of batches that were given up and logged to disk
  up            \* the collector can be reached

client == <<offered, queue, senderAlive, dropped>>
wire   == <<streamed, late, received>>
result == <<acked, logged>>
vars   == <<client, pc, batch, nones, attempt, wire, result, up>>

Segments == 1..MaxSegments

(* The places where the background task waits.  In the first three it is   *)
(* inside loop_retrive_client: at start-up, at the top of the loop, and in *)
(* send_to_grpc_trace_service after an unknown error.                      *)
Retrieving == {"retrieve", "reconnect", "renew"}
Pc == Retrieving \cup {"top", "recv", "collect", "backoff"}

-----------------------------------------------------------------------------
Init ==
  /\ offered = 0
  /\ queue = <<>>
  /\ senderAlive = TRUE
  /\ dropped = {}
  /\ pc = "retrieve"
  /\ batch = <<>>
  /\ nones = 0
  /\ attempt = 0
  /\ streamed = 0
  /\ late = [s \in Segments |-> 0]
  /\ received = [s \in Segments |-> 0]
  /\ acked = {}
  /\ logged = {}
  /\ up \in BOOLEAN

-----------------------------------------------------------------------------
(* The application.                                                        *)

(* Mutant: the channel refuses one segment too early.                      *)
HasRoomForTwo == Len(queue) + 1 < SKW_CHAN_SIZE

HasRoom == Len(queue) < SKW_CHAN_SIZE

(* report_trace: try_send moves the context into the channel.  When the    *)
(* channel is full the context comes back in the error and goes out of     *)
(* scope; every caller passes try_times = 0, so the branch that logs it    *)
(* (try_times > 3) is never taken.  TrySendError::Closed cannot happen:    *)
(* the task that owns the receiver never returns.                          *)
ReportTrace ==
  /\ senderAlive
  /\ offered < MaxSegments
  /\ offered' = offered + 1
  /\ \/ /\ HasRoom
        /\ queue' = Append(queue, offered + 1)
        /\ UNCHANGED dropped
     \/ /\ ~HasRoom
        /\ dropped' = dropped \cup {offered + 1}
        /\ UNCHANGED queue
  /\ UNCHANGED <<senderAlive, pc, batch, nones, attempt, wire, result, up>>

(* The owner of a Reporter drops it and with it the only Sender.  The      *)
(* library's own SKYWALKING_REPORTER is static; Reporter::new is public.   *)
DropReporter ==
  /\ senderAlive
  /\ senderAlive' = FALSE
  /\ UNCHANGED <<offered, queue, dropped, pc, batch, nones, attempt, wire,
                 result, up>>

-----------------------------------------------------------------------------
(* The background task.                                                    *)

(* Mutant: the limit is checked before the new entry is counted.           *)
IsFullLate(len) == len > BATCH_LIMIT + 1

IsFull(len) == len > BATCH_LIMIT

(* vec.len() > 500 or the bucket has elapsed: the batch is sent, starting  *)
(* with attempt 0 of retry_send_skw; otherwise the loop goes round.        *)
FlushOrLoop(len) ==
  \/ /\ pc' = "collect"
     /\ attempt' = 0
     /\ streamed' = 0
  \/ /\ ~IsFull(len)
     /\ pc' = "top"
     /\ UNCHANGED <<attempt, streamed>>

(* Mutant: origin_ctx is not restored from the failed call.                *)
NothingReturned == <<>>

(* A call that fails gives the batch back.                                 *)
ReturnedCtx == batch

(* Mutant: a batch that is given up is not cleared, and is sent again.     *)
OldVec == batch

NewVec == <<>>

(* The end of an iteration of the retry loop that did not succeed: the     *)
(* last one logs the batch and returns, the others sleep.                  *)
AttemptFailed ==
  \/ /\ attempt = RETRY_NUM - 1
     /\ logged' = logged \cup Range(batch)
     /\ batch' = NewVec
     /\ nones' = 0
     /\ pc' = "top"
  \/ /\ attempt < RETRY_NUM - 1
     /\ batch' = ReturnedCtx
     /\ pc' = "backoff"
     /\ UNCHANGED <<logged, nones>>

(* A call is aborted when the collector has read `streamed` segments of it *)
(* and n are written; the rest of those n may still arrive.                *)
AbortCall ==
  \E n \in streamed..Len(batch) :
    late' = [s \in Segments |->
               IF s \in Range(SubSeq(batch, streamed + 1, n))
               THEN late[s] + 1 ELSE late[s]]

(* loop_retrive_client: while connect fails the task sleeps one second and *)
(* tries again, which changes nothing; the only way out is a connection.   *)
Retrieved ==
  /\ up
  /\ \/ /\ pc = "retrieve"
        /\ pc' = "top"
        /\ UNCHANGED <<batch, nones, logged>>
     \/ /\ pc = "reconnect"
        /\ pc' = "recv"
        /\ UNCHANGED <<batch, nones, logged>>
     \/ /\ pc = "renew"
        /\ AttemptFailed
  /\ UNCHANGED <<client, attempt, wire, acked, up>>

(* The top of the loop: a reconnect when 30 seconds have passed since the  *)
(* last one, otherwise straight to recv.                                   *)
LoopTop ==
  /\ pc = "top"
  /\ pc' \in {"reconnect", "recv"}
  /\ UNCHANGED <<client, batch, nones, attempt, wire, result, up>>

(* Mutant: vec is filled from the front.                                   *)
PushFront(s) == <<s>> \o batch

Push(s) == Append(batch, s)

(* receiver.recv() yields the oldest segment of the channel.               *)
Recv ==
  /\ pc = "recv"
  /\ queue # <<>>
  /\ queue' = Tail(queue)
  /\ batch' = Push(Head(queue))
  /\ FlushOrLoop(Len(batch) + nones + 1)
  /\ UNCHANGED <<offered, senderAlive, dropped, nones, late, received,
                 result, up>>

(* The channel is empty and its sender gone: recv yields None at once, and *)
(* the None is pushed like a segment.                                      *)
RecvNone ==
  /\ pc = "recv"
  /\ queue = <<>>
  /\ ~senderAlive
  /\ nones' = nones + 1
  /\ FlushOrLoop(Len(batch) + nones + 1)
  /\ UNCHANGED <<client, batch, late, received, result, up>>

(* Mutant: a timeout always continues the loop.                            *)
VecCountsAsEmpty == TRUE

VecIsEmpty == Len(batch) + nones = 0

(* Nothing arrives for REPORT_BUCKET.  A non-empty vec is flushed (the     *)
(* bucket has elapsed since the last flush as well), an empty one is not.  *)
RecvTimeout ==
  /\ pc = "recv"
  /\ queue = <<>>
  /\ senderAlive
  /\ \/ /\ VecIsEmpty
        /\ pc' = "top"
        /\ UNCHANGED <<attempt, streamed>>
     \/ /\ ~VecIsEmpty
        /\ pc' = "collect"
        /\ attempt' = 0
        /\ streamed' = 0
  /\ UNCHANGED <<client, batch, nones, late, received, result, up>>

(* collect returns Ok: the batch is done.                                  *)
CollectOk ==
  /\ pc = "collect"
  /\ up
  /\ streamed = Len(batch)
  /\ acked' = acked \cup Range(batch)
  /\ batch' = NewVec
  /\ nones' = 0
  /\ pc' = "top"
  /\ UNCHANGED <<client, attempt, wire, logged, up>>

(* Mutant: an expired deadline counts as success.                          *)
CollectDeadlineIsOk ==
  /\ pc = "collect"
  /\ AbortCall
  /\ acked' = acked \cup Range(batch)
  /\ batch' = <<>>
  /\ nones' = 0
  /\ pc' = "top"
  /\ UNCHANGED <<client, attempt, streamed, received, logged, up>>

(* DeadlineExceeded, ResourceExhausted or Unavailable.                     *)
CollectRetryable ==
  /\ pc = "collect"
  /\ AbortCall
  /\ AttemptFailed
  /\ UNCHANGED <<client, attempt, streamed, received, acked, up>>

(* Any other status: a new client is retrieved before the attempt counts   *)
(* as failed, however long that takes.                                     *)
CollectUnknown ==
  /\ pc = "collect"
  /\ AbortCall
  /\ pc' = "renew"
  /\ UNCHANGED <<client, batch, nones, attempt, streamed, received, result, up>>

(* The sleep of 500 ms ends and the next iteration calls collect again.    *)
Backoff ==
  /\ pc = "backoff"
  /\ attempt' = attempt + 1
  /\ streamed' = 0
  /\ pc' = "collect"
  /\ UNCHANGED <<client, batch, nones, late, received, result, up>>

-----------------------------------------------------------------------------
(* The collector and the network (external).                               *)

(* The collector reads the next segment of the stream of the current call. *)
CollectorReads ==
  /\ pc = "collect"
  /\ up
  /\ streamed < Len(batch)
  /\ streamed' = streamed + 1
  /\ received' = [received EXCEPT ![batch[streamed + 1]] = @ + 1]
  /\ UNCHANGED <<client, pc, batch, nones, attempt, late, result, up>>

(* It reads a segment that an aborted call left on the wire.  A stream is  *)
(* read in order, so the segments before s in its batch have been read.    *)
CollectorReadsLate(s) ==
  /\ up
  /\ late[s] > 0
  /\ \A r \in Range(batch) : r < s => received[r] > 0
  /\ late' = [late EXCEPT ![s] = @ - 1]
  /\ received' = [received EXCEPT ![s] = @ + 1]
  /\ UNCHANGED <<client, pc, batch, nones, attempt, streamed, result, up>>

(* The collector, or the network on the way to it, fails or comes back.    *)
CollectorUpDown ==
  /\ up' = ~up
  /\ UNCHANGED <<client, pc, batch, nones, attempt, wire, result>>

-----------------------------------------------------------------------------
(* The steps of the task that need no answer from the collector.           *)
TaskStep ==
  Retrieved \/ LoopTop \/ Recv \/ RecvNone \/ RecvTimeout \/ Backoff

CallReturns == CollectOk \/ CollectRetryable \/ CollectUnknown

Next ==
  \/ ReportTrace
  \/ DropReporter
  \/ TaskStep
  \/ CallReturns
  \/ CollectorReads
  \/ \E s \in Segments : CollectorReadsLate(s)
  \/ CollectorUpDown

Spec == Init /\ [][Next]_vars

(* The runtime polls a task that is ready, and its timers fire.  Nothing   *)
(* is assumed of the application, the network or the collector.            *)
FairSpec == Spec /\ WF_vars(TaskStep)
=============================================================================
