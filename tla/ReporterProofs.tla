--------------------------- MODULE ReporterProofs ---------------------------
(***************************************************************************)
(* Proofs about the reporter for every channel capacity, batch limit,      *)
(* number of attempts and number of segments: where a segment is in the    *)
(* agent, and what the collector has read of it: acknowledged segments     *)
(* were read, no segment more often than RETRY_NUM times, and, as far as   *)
(* the first copies are concerned, in the order of report_trace.           *)
(***************************************************************************)
EXTENDS ReporterProps, SequenceTheorems, TLAPS

-----------------------------------------------------------------------------
(* Type correctness needs to know where in its loop the task is: a batch   *)
(* that is still being filled has room for one more entry, and the task    *)
(* sleeps only before an attempt it still has.                             *)
Filling == {"retrieve", "reconnect", "top", "recv"}

LoopInv ==
  /\ pc \in Filling => Len(batch) + nones <= BATCH_LIMIT
  /\ pc = "backoff" => attempt < RETRY_NUM - 1

TypeInv == RTypeOK /\ LoopInv

LEMMA InitTypeInv == Init => TypeInv
BY ReporterAssumption
DEF Init, TypeInv, RTypeOK, LoopInv, Filling, Pc, Retrieving, Segments

LEMMA NextTypeInv == TypeInv /\ [Next]_vars => TypeInv'
<1> SUFFICES ASSUME TypeInv, [Next]_vars PROVE TypeInv'
  OBVIOUS
<1> USE ReporterAssumption DEF TypeInv, RTypeOK, LoopInv, Filling, Pc, Retrieving
<1>len. Len(batch) \in Nat /\ Len(queue) \in Nat
  BY LenProperties
<1>range. Range(batch) \subseteq Segments
  BY RangeOfSeq
<1>empty. <<>> \in Seq(Segments) /\ Len(<<>>) = 0
  BY EmptySeq
<1>fail. ASSUME AttemptFailed, UNCHANGED attempt
         PROVE  /\ batch' \in Seq(Segments) /\ nones' \in Nat
                /\ Len(batch') + nones' <= BATCH_LIMIT + 1
                /\ logged' \subseteq Segments
                /\ pc' \in Pc
                /\ LoopInv'
  <2>1. CASE attempt = RETRY_NUM - 1 /\ batch' = <<>> /\ nones' = 0
    BY <1>fail, <2>1, <1>len, <1>range, <1>empty DEF AttemptFailed, NewVec, ReturnedCtx
  <2>2. CASE attempt < RETRY_NUM - 1 /\ UNCHANGED <<logged, batch, nones>>
    BY <1>fail, <2>2, <1>len DEF AttemptFailed, NewVec, ReturnedCtx
  <2> QED
    BY <1>fail, <2>1, <2>2 DEF AttemptFailed, NewVec, ReturnedCtx
<1>1. CASE ReportTrace
  <2>1. offered + 1 \in Segments
    BY <1>1 DEF ReportTrace, HasRoom, Segments
  <2>2. queue' \in Seq(Segments) /\ Len(queue') <= SKW_CHAN_SIZE
    <3>1. CASE queue' = queue
      BY <3>1
    <3>2. CASE Len(queue) < SKW_CHAN_SIZE /\ queue' = Append(queue, offered + 1)
      BY <3>2, <1>len, <2>1, AppendProperties
    <3> QED
      BY <1>1, <3>1, <3>2 DEF ReportTrace, HasRoom
  <2> QED
    BY <1>1, <2>1, <2>2 DEF ReportTrace, HasRoom, wire, result
<1>2. CASE DropReporter
  BY <1>2 DEF DropReporter, wire, result
<1>3. CASE Retrieved
  <2>1. CASE pc = "renew" /\ AttemptFailed
    BY <1>3, <2>1, <1>fail DEF Retrieved, client, wire
  <2>2. CASE pc # "renew"
    BY <1>3, <2>2, <1>len DEF Retrieved, client, wire
  <2> QED
    BY <1>3, <2>1, <2>2 DEF Retrieved
<1>4. CASE LoopTop
  BY <1>4 DEF LoopTop, client, wire, result
<1>5. CASE Recv
  <2>1. /\ queue' \in Seq(Segments)
        /\ Len(queue') <= SKW_CHAN_SIZE
        /\ batch' \in Seq(Segments)
        /\ Len(batch') = Len(batch) + 1
    BY <1>5, <1>len, HeadTailProperties, AppendProperties DEF Recv, Push
  <2>2. /\ pc = "recv" /\ Len(batch) + nones <= BATCH_LIMIT
        /\ UNCHANGED <<offered, senderAlive, dropped, nones, late, received, result, up>>
    BY <1>5 DEF Recv, Push
  <2>3. \/ pc' = "collect" /\ attempt' = 0 /\ streamed' = 0
        \/ /\ Len(batch) + nones + 1 <= BATCH_LIMIT
           /\ pc' = "top" /\ attempt' = attempt /\ streamed' = streamed
    BY <1>5 DEF Recv, Push, FlushOrLoop, IsFull
  <2>4. nones' \in Nat /\ Len(batch') + nones' = Len(batch) + nones + 1
    BY <2>1, <2>2
  <2>5. CASE pc' = "collect" /\ attempt' = 0 /\ streamed' = 0
    BY <1>len, <2>1, <2>2, <2>4, <2>5 DEF result
  <2>6. CASE /\ Len(batch) + nones + 1 <= BATCH_LIMIT
             /\ pc' = "top" /\ attempt' = attempt /\ streamed' = streamed
    BY <1>len, <2>1, <2>2, <2>4, <2>6 DEF result
  <2> QED
    BY <2>3, <2>5, <2>6
<1>6. CASE RecvNone
  BY <1>6, <1>len DEF RecvNone, FlushOrLoop, IsFull, client, result
<1>7. CASE RecvTimeout
  BY <1>7, <1>len DEF RecvTimeout, VecIsEmpty, client, result
<1>8. CASE Backoff
  BY <1>8 DEF Backoff, client, result
<1>9. CASE CollectOk
  BY <1>9, <1>len, <1>range, <1>empty DEF CollectOk, NewVec, client, wire
<1>10. CASE CollectRetryable
  <2>1. late' \in [Segments -> Nat]
    BY <1>10 DEF CollectRetryable, AbortCall
  <2> QED
    BY <1>10, <1>fail, <2>1 DEF CollectRetryable, client
<1>11. CASE CollectUnknown
  BY <1>11, <1>len DEF CollectUnknown, AbortCall, client, result
<1>12. CASE CollectorReads
  <2>1. batch[streamed + 1] \in Segments
    BY <1>12, <1>len, ElementOfSeq DEF CollectorReads
  <2>2. received' = [received EXCEPT ![batch[streamed + 1]] = @ + 1]
    BY <1>12 DEF CollectorReads
  <2>3. received' \in [Segments -> Nat]
    BY <2>1, <2>2
  <2>4. streamed' \in 0..(BATCH_LIMIT + 1)
    BY <1>12, <1>len DEF CollectorReads
  <2> QED
    BY <1>12, <2>3, <2>4 DEF CollectorReads, client, result
<1>13. ASSUME NEW s \in Segments, CollectorReadsLate(s) PROVE TypeInv'
  BY <1>13 DEF CollectorReadsLate, client, result
<1>14. CASE CollectorUpDown
  BY <1>14 DEF CollectorUpDown, client, wire, result
<1>15. CASE UNCHANGED vars
  BY <1>15 DEF vars, client, wire, result
<1> QED
  BY <1>1, <1>2, <1>3, <1>4, <1>5, <1>6, <1>7, <1>8, <1>9, <1>10, <1>11, <1>12,
     <1>13, <1>14, <1>15
  DEF Next, TaskStep, CallReturns

(* No operation leaves the range of its variables; in particular the batch *)
(* never exceeds BATCH_LIMIT + 1 entries and attempt never RETRY_NUM - 1.  *)
THEOREM TypeCorrect == Spec => []RTypeOK
<1>1. Spec => []TypeInv
  BY InitTypeInv, NextTypeInv, PTL DEF Spec
<1> QED
  BY <1>1, PTL DEF TypeInv

-----------------------------------------------------------------------------
(* The reporter implements SegmentDelivery.  A step of the reporter is a   *)
(* step of Delivery when it accepts or refuses a segment, or when a batch  *)
(* that is not empty has reached its end; all others leave Pending and the *)
(* sets of settled segments alone.                                         *)

LEMMA PendingIsSeq ==
  ASSUME TypeInv
  PROVE  /\ Pending \in Seq(Segments)
         /\ Len(Pending) = Len(batch) + Len(queue)
         /\ Len(batch) \in Nat /\ Len(queue) \in Nat
         /\ Range(Pending) = Range(batch) \cup Range(queue)
BY ConcatProperties, RangeConcatenation, LenProperties DEF TypeInv, RTypeOK, Pending

(* Moving the head of one sequence to the end of another.                  *)
LEMMA MoveHead ==
  ASSUME NEW S, NEW s \in Seq(S), NEW t \in Seq(S), t # <<>>
  PROVE  Append(s, Head(t)) \o Tail(t) = s \o t
<1> DEFINE h == Head(t)
<1>1. h \in S /\ Tail(t) \in Seq(S) /\ <<h>> \in Seq(S)
  BY HeadTailProperties
<1>2. <<h>> \o Tail(t) = t
  <2>1. /\ <<h>> \o Tail(t) \in Seq(S)
        /\ Len(<<h>> \o Tail(t)) = 1 + Len(Tail(t))
        /\ \A i \in 1..(1 + Len(Tail(t))) :
             (<<h>> \o Tail(t))[i] = IF i <= 1 THEN <<h>>[i] ELSE Tail(t)[i - 1]
    BY <1>1, ConcatProperties, Len(<<h>>) = 1
  <2>2. /\ Len(t) \in Nat /\ Len(Tail(t)) = Len(t) - 1
        /\ \A i \in 1..Len(Tail(t)) : Tail(t)[i] = t[i + 1]
    BY HeadTailProperties, LenProperties
  <2>3. ASSUME NEW i \in 1..Len(t) PROVE (<<h>> \o Tail(t))[i] = t[i]
    <3>1. CASE i = 1
      BY <3>1, <2>1, <2>2, h = t[1]
    <3>2. CASE i # 1
      <4>1. i - 1 \in 1..Len(Tail(t)) /\ Tail(t)[i - 1] = t[i]
        BY <3>2, <2>2
      <4> QED
        BY <3>2, <4>1, <2>1, <2>2
    <3> QED
      BY <3>1, <3>2
  <2> QED
    BY <2>1, <2>2, <2>3, SeqEqual
<1>3. Append(s, h) = s \o <<h>>
  BY <1>1, AppendIsConcat
<1>4. (s \o <<h>>) \o Tail(t) = s \o (<<h>> \o Tail(t))
  BY <1>1, ConcatAssociative
<1> QED
  BY <1>2, <1>3, <1>4

(* A whole batch settles: it is the oldest part of what is pending.        *)
LEMMA BatchSettles ==
  ASSUME TypeInv, UNCHANGED <<offered, queue, dropped>>, batch' = <<>>,
         \/ acked' = acked \cup Range(batch) /\ UNCHANGED logged
         \/ logged' = logged \cup Range(batch) /\ UNCHANGED acked
  PROVE  [Delivery!DNext]_(Delivery!dvars)
<1>1. /\ batch \in Seq(Segments) /\ queue \in Seq(Segments)
      /\ Len(batch) \in Nat /\ Len(queue) \in Nat
      /\ Len(Pending) = Len(batch) + Len(queue)
  BY PendingIsSeq DEF TypeInv, RTypeOK
<1>2. Pending' = queue
  BY <1>1, ConcatEmptySeq DEF Pending
<1>3. CASE batch = <<>>
  <2>1. Range(batch) = {}
    BY <1>3 DEF Range
  <2>2. Pending = queue
    BY <1>1, <1>3, ConcatEmptySeq DEF Pending
  <2> QED
    BY <1>2, <2>1, <2>2 DEF Delivery!dvars
<1>4. CASE batch # <<>>
  <2>1. Len(batch) \in 1..Len(Pending)
    BY <1>1, <1>4, EmptySeq
  <2>2. SubSeq(Pending, 1, Len(batch)) = batch
    BY <1>1, <1>4, EmptySeq, SubSeqOfConcat1, SubSeqFull DEF Pending
  <2>3. SubSeq(Pending, Len(batch) + 1, Len(Pending)) = queue
    <3>1. CASE queue = <<>>
      <4>1. Len(Pending) < Len(batch) + 1
        BY <1>1, <3>1, EmptySeq
      <4> QED
        BY <1>1, <3>1, <4>1, SubSeqEmpty
    <3>2. CASE queue # <<>>
      <4>1. SubSeq(Pending, Len(batch) + 1, Len(Pending))
              = SubSeq(queue, Len(batch) + 1 - Len(batch), Len(Pending) - Len(batch))
        BY <1>1, <3>2, EmptySeq, SubSeqOfConcat2 DEF Pending
      <4>2. Len(batch) + 1 - Len(batch) = 1 /\ Len(Pending) - Len(batch) = Len(queue)
        BY <1>1
      <4> QED
        BY <1>1, <4>1, <4>2, SubSeqFull
    <3> QED
      BY <3>1, <3>2
  <2>4. Delivery!Settle(Len(batch))
    BY <1>2, <2>2, <2>3 DEF Delivery!Settle, Delivery!Range, Range
  <2> QED
    BY <2>1, <2>4 DEF Delivery!DNext
<1> QED
  BY <1>3, <1>4

LEMMA StepImplements ==
  TypeInv /\ [Next]_vars => [Delivery!DNext]_(Delivery!dvars)
<1> SUFFICES ASSUME TypeInv, [Next]_vars
             PROVE  [Delivery!DNext]_(Delivery!dvars)
  OBVIOUS
<1>type. /\ batch \in Seq(Segments) /\ queue \in Seq(Segments)
         /\ Len(batch) \in Nat /\ Len(queue) \in Nat
         /\ Len(Pending) = Len(batch) + Len(queue)
  BY PendingIsSeq DEF TypeInv, RTypeOK
<1>same. ASSUME UNCHANGED <<offered, queue, dropped, batch, acked, logged>>
         PROVE  [Delivery!DNext]_(Delivery!dvars)
  BY <1>same DEF Delivery!dvars, Pending
<1>fail. ASSUME AttemptFailed, UNCHANGED <<offered, queue, dropped, acked>>
         PROVE  [Delivery!DNext]_(Delivery!dvars)
  BY <1>fail, <1>same, BatchSettles DEF AttemptFailed, NewVec, ReturnedCtx
<1>1. CASE ReportTrace
  <2>1. CASE /\ Len(queue) < SKW_CHAN_SIZE
             /\ queue' = Append(queue, offered + 1)
             /\ UNCHANGED dropped
    <3>0. offered + 1 \in Segments
      BY <1>1, ReporterAssumption DEF ReportTrace, HasRoom, TypeInv, RTypeOK, Segments
    <3>1. <<offered + 1>> \in Seq(Segments)
      BY <3>0
    <3>2. batch \o Append(queue, offered + 1) = Append(Pending, offered + 1)
      BY <1>type, <3>0, <3>1, AppendIsConcat, ConcatAssociative, PendingIsSeq DEF Pending
    <3>3. Delivery!Accept
      BY <1>1, <2>1, <3>2 DEF ReportTrace, HasRoom, result, Delivery!Accept, Pending
    <3> QED
      BY <3>3 DEF Delivery!DNext
  <2>2. CASE /\ Len(queue) >= SKW_CHAN_SIZE
             /\ dropped' = dropped \cup {offered + 1}
             /\ UNCHANGED queue
    <3>1. Len(Pending) >= SKW_CHAN_SIZE
      BY <1>type, <2>2, ReporterAssumption
    <3>2. Delivery!Refuse
      BY <1>1, <2>2, <3>1 DEF ReportTrace, HasRoom, result, Delivery!Refuse, Pending
    <3> QED
      BY <3>2 DEF Delivery!DNext
  <2> QED
    BY <1>1, <1>type, <2>1, <2>2, ReporterAssumption DEF ReportTrace, HasRoom
<1>2. CASE DropReporter
  BY <1>2, <1>same DEF DropReporter, result
<1>3. CASE Retrieved
  BY <1>3, <1>same, <1>fail DEF Retrieved, client
<1>4. CASE LoopTop
  BY <1>4, <1>same DEF LoopTop, client, result
<1>5. CASE Recv
  <2>1. Pending' = Pending
    BY <1>5, <1>type, MoveHead DEF Recv, Push, Pending
  <2> QED
    BY <1>5, <2>1 DEF Recv, Push, result, Delivery!dvars
<1>6. CASE RecvNone
  BY <1>6, <1>same DEF RecvNone, client, result
<1>7. CASE RecvTimeout
  BY <1>7, <1>same DEF RecvTimeout, VecIsEmpty, client, result
<1>8. CASE Backoff
  BY <1>8, <1>same DEF Backoff, client, result
<1>9. CASE CollectOk
  BY <1>9, BatchSettles DEF CollectOk, NewVec, client
<1>10. CASE CollectRetryable
  BY <1>10, <1>fail DEF CollectRetryable, client
<1>11. CASE CollectUnknown
  BY <1>11, <1>same DEF CollectUnknown, client, result
<1>12. CASE CollectorReads
  BY <1>12, <1>same DEF CollectorReads, client, result
<1>13. ASSUME NEW s \in Segments, CollectorReadsLate(s)
       PROVE  [Delivery!DNext]_(Delivery!dvars)
  BY <1>13, <1>same DEF CollectorReadsLate, client, result
<1>14. CASE CollectorUpDown
  BY <1>14, <1>same DEF CollectorUpDown, client, result
<1>15. CASE UNCHANGED vars
  BY <1>15, <1>same DEF vars, client, result
<1> QED
  BY <1>1, <1>2, <1>3, <1>4, <1>5, <1>6, <1>7, <1>8, <1>9, <1>10, <1>11, <1>12,
     <1>13, <1>14, <1>15
  DEF Next, TaskStep, CallReturns

(* The reporter, with its channel, batches, calls and retries, implements  *)
(* the bounded queue of SegmentDelivery: refused only when full, settled   *)
(* oldest first, a batch at a time, with one outcome each.                 *)
THEOREM ReporterImplementsDelivery == Spec => ImplementsDelivery
<1>1. Init => Delivery!DInit
  BY ConcatEmptySeq, EmptySeq DEF Init, Delivery!DInit, Pending
<1>2. Spec => []TypeInv
  BY InitTypeInv, NextTypeInv, PTL DEF Spec
<1> QED
  BY <1>1, <1>2, StepImplements, PTL DEF Spec, ImplementsDelivery, Delivery!DSpec

-----------------------------------------------------------------------------
(* Every segment is in one place: an invariant of SegmentDelivery's steps. *)

LEMMA DeliveryKeepsPlaces ==
  ASSUME TypeInv, TypeInv', EachSegmentInOnePlace, [Delivery!DNext]_(Delivery!dvars)
  PROVE  EachSegmentInOnePlace'
<1> USE DEF EachSegmentInOnePlace, Settled
<1>type. /\ Pending \in Seq(Segments) /\ Len(Pending) \in Nat
         /\ offered \in Nat
  <2> HIDE DEF EachSegmentInOnePlace
  <2>1. Pending \in Seq(Segments)
    BY PendingIsSeq
  <2>2. offered \in Nat
    BY DEF TypeInv, RTypeOK
  <2> QED
    BY <2>1, <2>2, LenProperties
<1>range. \A s : s \in Range(Pending) <=> \E i \in 1..Len(Pending) : Pending[i] = s
  BY <1>type, RangeEquality
<1>1. CASE Delivery!Accept
  <2>1. Pending' = Append(Pending, offered + 1) /\ offered + 1 \in Segments
    BY <1>1, <1>type, ReporterAssumption DEF Delivery!Accept, Segments
  <2>2. /\ Len(Pending') = Len(Pending) + 1
        /\ \A i \in 1..Len(Pending) : Pending'[i] = Pending[i]
        /\ Pending'[Len(Pending) + 1] = offered + 1
        /\ Pending' \in Seq(Segments)
    BY <1>type, <2>1, AppendProperties
  <2>3. Range(Pending') = Range(Pending) \cup {offered + 1}
    <3>1. \A s : s \in Range(Pending') <=> \E i \in 1..Len(Pending') : Pending'[i] = s
      BY <2>2, RangeEquality
    <3> QED
      BY <1>type, <1>range, <2>2, <3>1
  <2>4. /\ offered' = offered + 1
        /\ UNCHANGED <<dropped, acked, logged>>
        /\ 1..offered' = 1..offered \cup {offered + 1}
    BY <1>1, <1>type DEF Delivery!Accept
  <2>5. \A s \in dropped \cup acked \cup logged \cup Range(Pending) : s \in Nat /\ s < offered + 1
    BY <1>type
  <2>6. \A i, j \in 1..Len(Pending)' : i < j => Pending'[i] < Pending'[j]
    <3> SUFFICES ASSUME NEW i \in 1..Len(Pending)', NEW j \in 1..Len(Pending)', i < j
                 PROVE  Pending'[i] < Pending'[j]
      OBVIOUS
    <3>1. i \in 1..Len(Pending) /\ Pending'[i] = Pending[i] /\ Pending[i] \in Range(Pending)
      BY <1>type, <1>range, <2>2
    <3>2. CASE j = Len(Pending) + 1
      BY <2>2, <2>5, <3>1, <3>2
    <3>3. CASE j \in 1..Len(Pending)
      BY <2>2, <3>1, <3>3
    <3> QED
      BY <1>type, <2>2, <3>2, <3>3
  <2>7. \A i \in 1..Len(Pending)' :
          /\ Pending'[i] \notin dropped
          /\ \A s \in acked \cup logged : s < Pending'[i]
    BY <1>type, <2>2, <2>5
  <2> QED
    BY <2>3, <2>4, <2>6, <2>7
<1>2. CASE Delivery!Refuse
  <2>1. /\ offered' = offered + 1 /\ dropped' = dropped \cup {offered + 1}
        /\ UNCHANGED <<Pending, acked, logged>>
        /\ 1..offered' = 1..offered \cup {offered + 1}
    BY <1>2, <1>type DEF Delivery!Refuse
  <2>2. offered + 1 \notin acked \cup logged \cup Range(Pending)
    BY <1>type
  <2> QED
    BY <1>range, <2>1, <2>2
<1>3. ASSUME NEW n \in 1..Len(Pending), Delivery!Settle(n)
      PROVE  EachSegmentInOnePlace'
  <2> DEFINE oldest == Range(SubSeq(Pending, 1, n))
  <2>1. /\ Pending' = SubSeq(Pending, n + 1, Len(Pending))
        /\ UNCHANGED <<offered, dropped>>
        /\ \/ acked' = acked \cup oldest /\ UNCHANGED logged
           \/ logged' = logged \cup oldest /\ UNCHANGED acked
    BY <1>3 DEF Delivery!Settle, Delivery!Range, Range
  <2>2. \A s : s \in oldest <=> \E i \in 1..n : Pending[i] = s
    <3>1. /\ SubSeq(Pending, 1, n) \in Seq(Segments)
          /\ Len(SubSeq(Pending, 1, n)) = n
          /\ \A i \in 1..n : SubSeq(Pending, 1, n)[i] = Pending[i]
      BY <1>type, SubSeqProperties, ElementOfSeq
    <3>2. oldest = {SubSeq(Pending, 1, n)[i] : i \in 1..Len(SubSeq(Pending, 1, n))}
      BY <3>1, RangeEquality
    <3> QED
      BY <3>1, <3>2
  <2>3. /\ Len(Pending') = Len(Pending) - n
        /\ \A i \in 1..Len(Pending') : Pending'[i] = Pending[n + i]
        /\ \A s : s \in Range(Pending') <=> \E i \in (n + 1)..Len(Pending) : Pending[i] = s
    <3>1. \A i \in (n + 1)..Len(Pending) : Pending[i] \in Segments
      BY <1>type, ElementOfSeq
    <3>2. /\ Pending' \in Seq(Segments)
          /\ Len(Pending') = IF n + 1 <= Len(Pending) THEN Len(Pending) - (n + 1) + 1 ELSE 0
          /\ \A i \in 1..(Len(Pending) - (n + 1) + 1) : Pending'[i] = Pending[n + 1 + i - 1]
      BY <1>type, <2>1, <3>1, SubSeqProperties
    <3>3. /\ Len(Pending') = Len(Pending) - n
          /\ \A i \in 1..Len(Pending') : Pending'[i] = Pending[n + i]
      BY <1>type, <3>2
    <3>4. Range(Pending') = {Pending'[i] : i \in 1..Len(Pending')}
      <4>1. Pending' \in Seq(Segments)
        BY <3>2
      <4> QED
        BY <4>1, RangeEquality
    <3>5. \A i \in (n + 1)..Len(Pending) : i - n \in 1..Len(Pending') /\ n + (i - n) = i
      BY <1>type, <3>3
    <3>6. ASSUME NEW s, s \in Range(Pending')
          PROVE  \E i \in (n + 1)..Len(Pending) : Pending[i] = s
      <4>1. PICK i \in 1..Len(Pending') : Pending'[i] = s
        BY <3>4, <3>6
      <4>2. n + i \in (n + 1)..Len(Pending) /\ Pending[n + i] = s
        BY <1>type, <3>3, <4>1
      <4> QED
        BY <4>2
    <3>7. ASSUME NEW i \in (n + 1)..Len(Pending)
          PROVE  Pending[i] \in Range(Pending')
      BY <3>3, <3>4, <3>5
    <3> QED
      BY <3>3, <3>6, <3>7
  <2>4. \A i \in 1..Len(Pending') : n + i \in 1..Len(Pending) /\ Pending'[i] = Pending[n + i]
    BY <1>type, <2>3
  <2>5. oldest \subseteq Range(Pending) /\ oldest \cap Range(Pending') = {}
    <3>1. \A i \in 1..n, j \in (n + 1)..Len(Pending) : Pending[i] # Pending[j]
      <4> SUFFICES ASSUME NEW i \in 1..n, NEW j \in (n + 1)..Len(Pending)
                   PROVE  Pending[i] # Pending[j]
        OBVIOUS
      <4>1. i \in 1..Len(Pending) /\ j \in 1..Len(Pending) /\ i < j
        BY <1>type
      <4>2. Pending[i] < Pending[j]
        BY <4>1
      <4>3. Pending[i] \in Segments /\ Pending[j] \in Segments
        BY <1>type, <4>1, ElementOfSeq
      <4> QED
        BY <4>2, <4>3 DEF Segments
    <3>2. oldest \subseteq Range(Pending)
      BY <1>type, <1>range, <2>2
    <3>3. ASSUME NEW s \in oldest, s \in Range(Pending') PROVE FALSE
      BY <2>2, <2>3, <3>1, <3>3
    <3> QED
      BY <3>2, <3>3
  <2>6. Range(Pending) = oldest \cup Range(Pending')
    BY <1>type, <1>range, <2>2, <2>3
  <2>7. \A i \in 1..Len(Pending') : \A s \in oldest : s < Pending'[i]
    BY <1>type, <2>2, <2>4
  <2>8. oldest \cap (acked \cup logged \cup dropped) = {}
    BY <1>type, <1>range, <2>5
  <2>9. \A i, j \in 1..Len(Pending') : i < j => Pending'[i] < Pending'[j]
    BY <1>type, <2>4
  <2> HIDE DEF oldest
  <2> QED
    BY <2>1, <2>4, <2>6, <2>7, <2>8, <2>9
<1>4. CASE UNCHANGED Delivery!dvars
  BY <1>4 DEF Delivery!dvars
<1> QED
  BY <1>1, <1>2, <1>3, <1>4 DEF Delivery!DNext

(* The reporter neither loses nor duplicates a segment: each segment given *)
(* to report_trace is refused, pending, acknowledged or logged, exactly    *)
(* one of these, and segments are settled in the order of their calls.     *)
THEOREM SegmentsInOnePlace == Spec => []EachSegmentInOnePlace
<1>1. Init => EachSegmentInOnePlace
  <2> SUFFICES ASSUME Init PROVE EachSegmentInOnePlace
    OBVIOUS
  <2>1. Pending = <<>> /\ Len(Pending) = 0 /\ Range(Pending) = {}
    BY ConcatEmptySeq, EmptySeq DEF Init, Pending, Range
  <2> QED
    BY <2>1 DEF Init, EachSegmentInOnePlace, Settled
<1>2. TypeInv /\ TypeInv' /\ EachSegmentInOnePlace /\ [Next]_vars
        => EachSegmentInOnePlace'
  BY StepImplements, DeliveryKeepsPlaces
<1>3. Spec => []TypeInv
  BY InitTypeInv, NextTypeInv, PTL DEF Spec
<1> QED
  BY <1>1, <1>2, <1>3, PTL DEF Spec

-----------------------------------------------------------------------------
(* During a call the collector has read the first `streamed` segments of   *)
(* the batch, in this call or an earlier one.                              *)
ReadPrefix ==
  pc = "collect" =>
    /\ streamed <= Len(batch)
    /\ \A i \in 1..streamed : received[batch[i]] > 0

(* How often s has been written to the wire and can be read in the end.    *)
Copies(s) == received[s] + late[s]

(* Nothing of a segment is written before its batch is sent, nor when it   *)
(* was refused; the k-th call writes each segment of the batch at most     *)
(* once more.                                                              *)
CopiesInv ==
  /\ \A s \in Segments : s > offered => Copies(s) = 0
  /\ \A s \in dropped : Copies(s) = 0
  /\ \A i \in 1..Len(queue) : Copies(queue[i]) = 0
  /\ pc \in Filling => \A i \in 1..Len(batch) : Copies(batch[i]) = 0
  /\ pc = "collect" => \A i \in 1..Len(batch) :
       Copies(batch[i]) <= IF i <= streamed THEN attempt + 1 ELSE attempt
  /\ pc \in {"renew", "backoff"} => \A i \in 1..Len(batch) :
       Copies(batch[i]) <= attempt + 1
  /\ AtMostRetryNumCopies

-----------------------------------------------------------------------------
(* Acknowledged segments.                                                  *)

AckInv == ReadPrefix /\ AckedWasReceived

LEMMA NextAckInv ==
  ASSUME TypeInv, AckInv, [Next]_vars
  PROVE  AckInv'
<1> USE DEF TypeInv, RTypeOK, AckInv, ReadPrefix, AckedWasReceived
<1>len. Len(batch) \in Nat /\ Len(queue) \in Nat
  BY LenProperties
<1>range. /\ Range(batch) = {batch[i] : i \in 1..Len(batch)}
          /\ \A i \in 1..Len(batch) : batch[i] \in Segments
  BY RangeEquality, ElementOfSeq
<1>start. ASSUME UNCHANGED <<received, acked>>, streamed' = 0, Len(batch') \in Nat
          PROVE  AckInv'
  BY <1>start
<1>other. ASSUME UNCHANGED <<received, acked>>, pc' # "collect"
          PROVE  AckInv'
  BY <1>other
<1>same. ASSUME UNCHANGED <<received, acked, batch, streamed, pc>>
         PROVE  AckInv'
  BY <1>same
<1>1. CASE ReportTrace
  BY <1>1, <1>same DEF ReportTrace, HasRoom, wire, result
<1>2. CASE DropReporter
  BY <1>2, <1>same DEF DropReporter, wire, result
<1>3. CASE Retrieved
  BY <1>3, <1>other DEF Retrieved, AttemptFailed, NewVec, ReturnedCtx, wire
<1>4. CASE LoopTop
  BY <1>4, <1>other DEF LoopTop, wire, result
<1>5. CASE Recv
  <2>1. Len(batch') \in Nat
    BY <1>5, <1>len, HeadTailProperties, AppendProperties DEF Recv, Push
  <2> QED
    BY <1>5, <1>start, <1>other, <2>1 DEF Recv, Push, FlushOrLoop, IsFull, result
<1>6. CASE RecvNone
  BY <1>6, <1>len, <1>start, <1>other DEF RecvNone, FlushOrLoop, IsFull, result
<1>7. CASE RecvTimeout
  BY <1>7, <1>len, <1>start, <1>other DEF RecvTimeout, VecIsEmpty, result
<1>8. CASE Backoff
  BY <1>8, <1>len, <1>start DEF Backoff, result
<1>9. CASE CollectOk
  <2>1. \A s \in Range(batch) : received[s] > 0
    BY <1>9, <1>len, <1>range DEF CollectOk, NewVec
  <2> QED
    BY <1>9, <2>1 DEF CollectOk, NewVec, wire
<1>10. CASE CollectRetryable
  BY <1>10, <1>other DEF CollectRetryable, AttemptFailed, NewVec, ReturnedCtx
<1>11. CASE CollectUnknown
  BY <1>11, <1>other DEF CollectUnknown, result
<1>12. CASE CollectorReads
  <2>1. /\ streamed + 1 \in 1..Len(batch) /\ batch[streamed + 1] \in Segments
        /\ received' = [received EXCEPT ![batch[streamed + 1]] = @ + 1]
        /\ streamed' = streamed + 1
        /\ UNCHANGED <<batch, pc, acked>>
    BY <1>12, <1>len, <1>range DEF CollectorReads, result
  <2>2. /\ received \in [Segments -> Nat] /\ acked \subseteq Segments
        /\ streamed \in Nat /\ streamed <= Len(batch)
        /\ \A s \in acked : received[s] > 0
        /\ \A i \in 1..streamed : received[batch[i]] > 0
    BY <1>12 DEF CollectorReads
  <2>3. \A i \in 1..Len(batch) : batch[i] \in Segments
    BY <1>range
  <2> HIDE DEF TypeInv, AckInv
  <2>4. /\ \A s \in Segments : received[s] > 0 => received'[s] > 0
        /\ received'[batch[streamed + 1]] > 0
    BY <2>1, <2>2
  <2>5. \A i \in 1..(streamed + 1) : received'[batch[i]] > 0
    <3> SUFFICES ASSUME NEW i \in 1..(streamed + 1) PROVE received'[batch[i]] > 0
      OBVIOUS
    <3>1. CASE i = streamed + 1
      BY <2>4, <3>1
    <3>2. CASE i \in 1..streamed
      <4>1. batch[i] \in Segments
        BY <1>len, <2>2, <2>3, <3>2
      <4> QED
        BY <2>2, <2>4, <3>2, <4>1
    <3> QED
      BY <2>2, <3>1, <3>2
  <2>6. \A s \in acked : received'[s] > 0
    BY <2>2, <2>4
  <2> QED
    BY <2>1, <2>5, <2>6 DEF AckInv
<1>13. ASSUME NEW s \in Segments, CollectorReadsLate(s) PROVE AckInv'
  <2>1. /\ received' = [received EXCEPT ![s] = @ + 1]
        /\ UNCHANGED <<batch, pc, streamed, acked>>
    BY <1>13 DEF CollectorReadsLate, result
  <2>2. \A r \in Segments : received[r] > 0 => received'[r] > 0
    BY <2>1
  <2>3. ASSUME pc = "collect", NEW i \in 1..streamed PROVE received'[batch[i]] > 0
    <3>1. streamed \in Nat /\ streamed <= Len(batch) /\ received[batch[i]] > 0
      BY <2>3
    <3>2. i \in 1..Len(batch)
      BY <1>len, <3>1
    <3>3. batch[i] \in Segments
      BY <1>range, <3>2
    <3> QED
      BY <2>2, <3>1, <3>3
  <2> QED
    BY <2>1, <2>2, <2>3
<1>14. CASE CollectorUpDown
  BY <1>14, <1>same DEF CollectorUpDown, wire, result
<1>15. CASE UNCHANGED vars
  BY <1>15, <1>same DEF vars, wire, result
<1> QED
  BY <1>1, <1>2, <1>3, <1>4, <1>5, <1>6, <1>7, <1>8, <1>9, <1>10, <1>11, <1>12,
     <1>13, <1>14, <1>15
  DEF Next, TaskStep, CallReturns

LEMMA AlwaysAckInv == Spec => [](TypeInv /\ AckInv)
<1>1. Init => AckInv
  BY DEF Init, AckInv, ReadPrefix, AckedWasReceived
<1>2. TypeInv /\ AckInv /\ [Next]_vars => TypeInv' /\ AckInv'
  BY NextTypeInv, NextAckInv
<1> QED
  BY InitTypeInv, <1>1, <1>2, PTL DEF Spec

(* Whatever calls failed, were repeated or were cut short: a batch whose   *)
(* call returned Ok has been read by the collector, every segment of it.   *)
THEOREM AckedSegmentsWereReceived == Spec => []AckedWasReceived
BY AlwaysAckInv, PTL DEF AckInv

-----------------------------------------------------------------------------
(* Copies.                                                                 *)

(* What EachSegmentInOnePlace says of the batch and of the channel.        *)
LEMMA BatchBeforeQueue ==
  ASSUME TypeInv, EachSegmentInOnePlace
  PROVE  /\ Len(batch) \in Nat /\ Len(queue) \in Nat
         /\ \A i \in 1..Len(batch) :
              batch[i] \in Segments /\ batch[i] <= offered /\ batch[i] \notin dropped
         /\ \A i \in 1..Len(queue) : queue[i] \in Segments /\ queue[i] <= offered
         /\ \A i, j \in 1..Len(batch) : i < j => batch[i] < batch[j]
         /\ \A i, j \in 1..Len(queue) : i < j => queue[i] < queue[j]
         /\ \A i \in 1..Len(batch), j \in 1..Len(queue) : batch[i] < queue[j]
<1>1. /\ batch \in Seq(Segments) /\ queue \in Seq(Segments)
      /\ Len(batch) \in Nat /\ Len(queue) \in Nat
      /\ Pending \in Seq(Segments)
      /\ Len(Pending) = Len(batch) + Len(queue)
      /\ offered \in Nat
  BY PendingIsSeq DEF TypeInv, RTypeOK
<1>2. \A i \in 1..Len(batch) : i \in 1..Len(Pending) /\ batch[i] = Pending[i]
  BY <1>1, ConcatProperties DEF Pending
<1>3. ASSUME NEW i \in 1..Len(queue)
      PROVE  Len(batch) + i \in 1..Len(Pending) /\ queue[i] = Pending[Len(batch) + i]
  <2>1. /\ Len(batch) + i \in 1..Len(batch) + Len(queue)
        /\ ~(Len(batch) + i <= Len(batch))
        /\ Len(batch) + i - Len(batch) = i
    BY <1>1
  <2>2. Pending[Len(batch) + i] = queue[Len(batch) + i - Len(batch)]
    BY <1>1, <2>1, ConcatProperties DEF Pending
  <2> QED
    BY <1>1, <2>1, <2>2
<1>4. \A i \in 1..Len(Pending) :
        Pending[i] \in Segments /\ Pending[i] <= offered /\ Pending[i] \notin dropped
  <2> SUFFICES ASSUME NEW i \in 1..Len(Pending)
               PROVE  /\ Pending[i] \in Segments /\ Pending[i] <= offered
                      /\ Pending[i] \notin dropped
    OBVIOUS
  <2>1. Pending[i] \in Segments /\ Pending[i] \in Range(Pending)
    BY <1>1, ElementOfSeq, RangeEquality
  <2> QED
    BY <1>1, <2>1 DEF EachSegmentInOnePlace
<1>5. \A i, j \in 1..Len(Pending) : i < j => Pending[i] < Pending[j]
  BY DEF EachSegmentInOnePlace
<1>6. \A i, j \in 1..Len(queue) : i < j => queue[i] < queue[j]
  <2> SUFFICES ASSUME NEW i \in 1..Len(queue), NEW j \in 1..Len(queue), i < j
               PROVE  queue[i] < queue[j]
    OBVIOUS
  <2>1. Len(batch) + i < Len(batch) + j
    BY <1>1
  <2> QED
    BY <1>3, <1>5, <2>1
<1>7. \A i \in 1..Len(batch), j \in 1..Len(queue) : batch[i] < queue[j]
  <2> SUFFICES ASSUME NEW i \in 1..Len(batch), NEW j \in 1..Len(queue)
               PROVE  batch[i] < queue[j]
    OBVIOUS
  <2>1. i < Len(batch) + j
    BY <1>1
  <2> QED
    BY <1>2, <1>3, <1>5, <2>1
<1> QED
  BY <1>1, <1>2, <1>3, <1>4, <1>5, <1>6, <1>7

(* An aborted call adds at most one late copy of each segment that the     *)
(* collector has not read in this call, and none of any other.             *)
LEMMA AbortAddsOne ==
  ASSUME TypeInv, EachSegmentInOnePlace, streamed <= Len(batch), AbortCall
  PROVE  /\ late' \in [Segments -> Nat]
         /\ \A s \in Segments : late'[s] \in late[s]..(late[s] + 1)
         /\ \A s \in Segments :
              (\A i \in (streamed + 1)..Len(batch) : batch[i] # s) => late'[s] = late[s]
<1>1. PICK n \in streamed..Len(batch) :
        late' = [s \in Segments |->
                   IF s \in Range(SubSeq(batch, streamed + 1, n))
                   THEN late[s] + 1 ELSE late[s]]
  BY DEF AbortCall
<1> DEFINE cut == SubSeq(batch, streamed + 1, n)
<1>2. /\ Len(batch) \in Nat /\ batch \in Seq(Segments)
      /\ streamed \in Nat /\ n \in Nat /\ n <= Len(batch)
      /\ late \in [Segments -> Nat]
  BY BatchBeforeQueue DEF TypeInv, RTypeOK
<1>3. ASSUME NEW s, s \in Range(cut)
      PROVE  \E i \in (streamed + 1)..Len(batch) : batch[i] = s
  <2>1. \A i \in (streamed + 1)..n : batch[i] \in Segments
    BY <1>2, ElementOfSeq
  <2>2. /\ cut \in Seq(Segments)
        /\ Len(cut) = IF streamed + 1 <= n THEN n - (streamed + 1) + 1 ELSE 0
        /\ \A i \in 1..(n - (streamed + 1) + 1) : cut[i] = batch[streamed + 1 + i - 1]
    BY <1>2, <2>1, SubSeqProperties
  <2>3. Range(cut) = {cut[i] : i \in 1..Len(cut)}
    BY <2>2, RangeEquality
  <2> HIDE DEF cut
  <2>4. PICK i \in 1..Len(cut) : cut[i] = s
    BY <1>3, <2>3
  <2>5. i \in 1..(n - (streamed + 1) + 1)
    BY <1>2, <2>2, <2>4
  <2>6. streamed + 1 + i - 1 \in (streamed + 1)..Len(batch)
    BY <1>2, <2>5
  <2> QED
    BY <2>2, <2>4, <2>5, <2>6
<1>4. late' = [s \in Segments |-> IF s \in Range(cut) THEN late[s] + 1 ELSE late[s]]
  BY <1>1
<1> HIDE DEF cut
<1>5. /\ late' \in [Segments -> Nat]
      /\ \A s \in Segments : late'[s] \in late[s]..(late[s] + 1)
  BY <1>2, <1>4
<1>6. \A s \in Segments : s \notin Range(cut) => late'[s] = late[s]
  BY <1>4
<1> QED
  BY <1>3, <1>5, <1>6

LEMMA NextCopiesInv ==
  ASSUME TypeInv, TypeInv', EachSegmentInOnePlace, ReadPrefix, CopiesInv, [Next]_vars
  PROVE  CopiesInv'
<1> USE DEF CopiesInv, Copies, AtMostRetryNumCopies
<1>type. /\ offered \in Nat /\ attempt \in Nat /\ attempt <= RETRY_NUM - 1
         /\ RETRY_NUM \in Nat /\ streamed \in Nat
         /\ received \in [Segments -> Nat] /\ late \in [Segments -> Nat]
         /\ dropped \subseteq Segments
  BY ReporterAssumption DEF TypeInv, RTypeOK
<1>order. /\ Len(batch) \in Nat /\ Len(queue) \in Nat
          /\ \A i \in 1..Len(batch) :
               batch[i] \in Segments /\ batch[i] <= offered /\ batch[i] \notin dropped
          /\ \A i \in 1..Len(queue) : queue[i] \in Segments /\ queue[i] <= offered
          /\ \A i, j \in 1..Len(batch) : i < j => batch[i] < batch[j]
          /\ \A i, j \in 1..Len(queue) : i < j => queue[i] < queue[j]
          /\ \A i \in 1..Len(batch), j \in 1..Len(queue) : batch[i] < queue[j]
  BY BatchBeforeQueue
<1>apart. /\ \A j \in 1..Len(queue) : \A i \in 1..Len(batch) : batch[i] # queue[j]
          /\ \A s \in Segments : s > offered => \A i \in 1..Len(batch) : batch[i] # s
          /\ \A s \in dropped : \A i \in 1..Len(batch) : batch[i] # s
  BY <1>order, <1>type DEF Segments
(* A new batch is sent: nothing of it has been written yet.                *)
<1>send. ASSUME UNCHANGED <<offered, queue, dropped, batch, received, late>>,
                pc \in Filling,
                \/ pc' \in Filling
                \/ pc' = "collect" /\ attempt' = 0 /\ streamed' = 0
         PROVE  CopiesInv'
  BY <1>send, <1>order DEF Filling
(* An attempt has failed and every segment of the batch may have one more. *)
<1>fail. ASSUME UNCHANGED <<offered, queue, dropped, received, attempt>>, AttemptFailed,
                late' \in [Segments -> Nat],
                \A i \in 1..Len(batch) :
                  received[batch[i]] + late'[batch[i]] <= attempt + 1,
                \A s \in Segments :
                  (\A i \in 1..Len(batch) : batch[i] # s) => late'[s] = late[s]
         PROVE  CopiesInv'
  <2>1. ASSUME NEW s \in Segments PROVE received[s] + late'[s] <= RETRY_NUM
    <3>1. CASE \A i \in 1..Len(batch) : batch[i] # s
      BY <1>type, <1>fail, <3>1
    <3>2. CASE \E i \in 1..Len(batch) : batch[i] = s
      BY <1>type, <1>fail, <3>2
    <3> QED
      BY <3>1, <3>2
  <2>2. \A i \in 1..Len(queue) : late'[queue[i]] = late[queue[i]]
    BY <1>fail, <1>order, <1>apart
  <2>3. /\ \A s \in Segments : s > offered => late'[s] = late[s]
        /\ \A s \in dropped : late'[s] = late[s]
    BY <1>fail, <1>apart, <1>type
  <2>4. CASE batch' = <<>> /\ pc' = "top"
    BY <1>fail, <1>type, <1>order, <2>1, <2>2, <2>3, <2>4, EmptySeq DEF Filling
  <2>5. CASE batch' = batch /\ pc' = "backoff"
    BY <1>fail, <1>type, <1>order, <2>1, <2>2, <2>3, <2>5 DEF Filling
  <2> QED
    BY <1>fail, <2>4, <2>5 DEF AttemptFailed, NewVec, ReturnedCtx
<1>same. ASSUME UNCHANGED <<offered, queue, dropped, batch, received, late, pc, attempt,
                           streamed>>
         PROVE  CopiesInv'
  BY <1>same
<1>1. CASE ReportTrace
  <2>1. offered' = offered + 1 /\ offered + 1 \in Segments
    BY <1>1, <1>type, ReporterAssumption DEF ReportTrace, HasRoom, Segments
  <2>2. UNCHANGED <<batch, received, late, pc, attempt, streamed>>
    BY <1>1 DEF ReportTrace, HasRoom, wire
  <2>3. \A i \in 1..Len(queue') : Copies(queue'[i]) = 0
    <3>1. CASE queue' = queue
      BY <3>1
    <3>2. CASE queue' = Append(queue, offered + 1)
      <4>1. /\ Len(queue') = Len(queue) + 1
            /\ \A i \in 1..Len(queue) : queue'[i] = queue[i]
            /\ queue'[Len(queue) + 1] = offered + 1
        BY <2>1, <3>2, AppendProperties DEF TypeInv, RTypeOK
      <4>2. Copies(offered + 1) = 0
        BY <1>type, <2>1 DEF Segments
      <4> QED
        BY <1>order, <4>1, <4>2
    <3> QED
      BY <1>1, <3>1, <3>2 DEF ReportTrace, HasRoom
  <2>4. \A s \in Segments : s > offered' => Copies(s) = 0
    BY <1>type, <2>1 DEF Segments
  <2>5. \A s \in dropped' : Copies(s) = 0
    <3>1. Copies(offered + 1) = 0
      BY <1>type, <2>1 DEF Segments
    <3>2. dropped' \subseteq dropped \cup {offered + 1}
      BY <1>1 DEF ReportTrace, HasRoom
    <3> QED
      BY <3>1, <3>2
  <2> QED
    BY <2>2, <2>3, <2>4, <2>5
<1>2. CASE DropReporter
  BY <1>2, <1>same DEF DropReporter, wire
<1>3. CASE Retrieved
  <2>1. CASE pc \in {"retrieve", "reconnect"}
    BY <1>3, <2>1, <1>send DEF Retrieved, client, wire, Filling
  <2>2. CASE pc = "renew" /\ AttemptFailed
    BY <1>3, <2>2, <1>fail, <1>type DEF Retrieved, client, wire
  <2> QED
    BY <1>3, <2>1, <2>2 DEF Retrieved
<1>4. CASE LoopTop
  BY <1>4, <1>send DEF LoopTop, client, wire, Filling
<1>5. CASE Recv
  <2>1. /\ Len(queue) > 0 /\ pc \in Filling
        /\ UNCHANGED <<offered, dropped, received, late>>
    BY <1>5, EmptySeq DEF Recv, Push, TypeInv, RTypeOK, Filling
  <2>2. /\ Len(queue') = Len(queue) - 1
        /\ \A i \in 1..Len(queue') : queue'[i] = queue[i + 1]
        /\ Len(batch') = Len(batch) + 1
        /\ \A i \in 1..Len(batch) : batch'[i] = batch[i]
        /\ batch'[Len(batch) + 1] = queue[1]
    <3>1. Head(queue) = queue[1] /\ Head(queue) \in Segments
      BY <1>5, HeadTailProperties DEF Recv, Push, TypeInv, RTypeOK
    <3> QED
      BY <1>5, <3>1, HeadTailProperties, AppendProperties DEF Recv, Push, TypeInv, RTypeOK
  <2>3. \A i \in 1..Len(queue') : Copies(queue'[i]) = 0
    BY <1>order, <2>1, <2>2
  <2>4. \A i \in 1..Len(batch') : Copies(batch'[i]) = 0
    BY <1>order, <2>1, <2>2
  <2>5. \/ pc' = "top"
        \/ pc' = "collect" /\ attempt' = 0 /\ streamed' = 0
    BY <1>5 DEF Recv, Push, FlushOrLoop, IsFull
  <2> QED
    BY <2>1, <2>3, <2>4, <2>5 DEF Filling
<1>6. CASE RecvNone
  BY <1>6, <1>send DEF RecvNone, FlushOrLoop, IsFull, client, Filling
<1>7. CASE RecvTimeout
  BY <1>7, <1>send DEF RecvTimeout, VecIsEmpty, client, Filling
<1>8. CASE Backoff
  BY <1>8, <1>order, <1>type DEF Backoff, client, Filling
<1>9. CASE CollectOk
  BY <1>9, EmptySeq DEF CollectOk, NewVec, client, wire, Filling
<1>10. CASE CollectRetryable \/ CollectUnknown
  <2>1. pc = "collect" /\ streamed <= Len(batch) /\ AbortCall
    BY <1>10 DEF CollectRetryable, CollectUnknown, ReadPrefix
  <2>2. /\ late' \in [Segments -> Nat]
        /\ \A s \in Segments : late'[s] \in late[s]..(late[s] + 1)
        /\ \A s \in Segments :
             (\A i \in (streamed + 1)..Len(batch) : batch[i] # s) => late'[s] = late[s]
    BY <2>1, AbortAddsOne
  <2>3. ASSUME NEW i \in 1..Len(batch)
        PROVE  received[batch[i]] + late'[batch[i]] <= attempt + 1
    <3>1. CASE i <= streamed
      <4>1. \A j \in (streamed + 1)..Len(batch) : batch[j] # batch[i]
        BY <1>order, <1>type, <3>1 DEF Segments
      <4> QED
        BY <1>order, <1>type, <2>1, <2>2, <3>1, <4>1
    <3>2. CASE ~(i <= streamed)
      BY <1>order, <1>type, <2>1, <2>2, <3>2
    <3> QED
      BY <3>1, <3>2
  <2>4. ASSUME NEW s \in Segments, \A i \in 1..Len(batch) : batch[i] # s
        PROVE  late'[s] = late[s]
    BY <1>order, <1>type, <2>2, <2>4
  <2>5. CASE CollectRetryable
    BY <2>5, <1>fail, <2>2, <2>3, <2>4 DEF CollectRetryable, client
  <2>6. CASE CollectUnknown
    <3>1. UNCHANGED <<offered, queue, dropped, batch, received, attempt>> /\ pc' = "renew"
      BY <2>6 DEF CollectUnknown, client
    <3>2. \A i \in 1..Len(queue) : late'[queue[i]] = late[queue[i]]
      BY <1>order, <1>apart, <2>4
    <3>3. /\ \A s \in Segments : s > offered => late'[s] = late[s]
          /\ \A s \in dropped : late'[s] = late[s]
      BY <1>apart, <1>type, <2>4
    <3>4. ASSUME NEW s \in Segments PROVE received[s] + late'[s] <= RETRY_NUM
      <4>1. CASE \A i \in 1..Len(batch) : batch[i] # s
        BY <1>type, <2>4, <4>1
      <4>2. CASE \E i \in 1..Len(batch) : batch[i] = s
        BY <1>type, <2>2, <2>3, <4>2
      <4> QED
        BY <4>1, <4>2
    <3> QED
      BY <1>order, <1>type, <2>3, <3>1, <3>2, <3>3, <3>4 DEF Filling
  <2> QED
    BY <1>10, <2>5, <2>6
<1>12. CASE CollectorReads
  <2> DEFINE r == batch[streamed + 1]
  <2>1. /\ pc = "collect" /\ streamed + 1 \in 1..Len(batch) /\ r \in Segments
        /\ received' = [received EXCEPT ![r] = @ + 1]
        /\ streamed' = streamed + 1
        /\ UNCHANGED <<offered, queue, dropped, batch, late, pc, attempt>>
    BY <1>12, <1>order, <1>type DEF CollectorReads, client
  <2>2. \A s \in Segments : Copies(s)' = IF s = r THEN Copies(s) + 1 ELSE Copies(s)
    BY <1>type, <2>1
  <2>3. Copies(r) <= attempt /\ r <= offered /\ r \in Int
    BY <1>order, <1>type, <2>1 DEF Segments
  <2>4. \A i \in 1..Len(queue) : queue[i] # r
    BY <1>order, <2>1 DEF Segments
  <2>5. \A i \in 1..Len(batch) : i # streamed + 1 => batch[i] # r
    BY <1>order, <1>type, <2>1 DEF Segments
  <2>6. \A s \in Segments : Copies(s)' <= RETRY_NUM
    BY <1>type, <2>2, <2>3
  <2>7. /\ \A s \in Segments : s > offered => s # r
        /\ r \notin dropped
    BY <1>order, <1>type, <2>1, <2>3 DEF Segments
  <2>8. ASSUME NEW i \in 1..Len(batch)
        PROVE  Copies(batch[i])' <= IF i <= streamed + 1 THEN attempt + 1 ELSE attempt
    <3>1. CASE i = streamed + 1
      BY <1>type, <2>1, <2>2, <2>3, <3>1
    <3>2. CASE i # streamed + 1
      BY <1>order, <1>type, <2>1, <2>2, <2>5, <3>2
    <3> QED
      BY <3>1, <3>2
  <2> QED
    BY <1>order, <1>type, <2>1, <2>2, <2>4, <2>6, <2>7, <2>8 DEF Filling
<1>13. ASSUME NEW s \in Segments, CollectorReadsLate(s) PROVE CopiesInv'
  <2>1. /\ late[s] > 0
        /\ late' = [late EXCEPT ![s] = @ - 1]
        /\ received' = [received EXCEPT ![s] = @ + 1]
        /\ UNCHANGED <<offered, queue, dropped, batch, pc, attempt, streamed>>
    BY <1>13 DEF CollectorReadsLate, client
  <2>2. \A r \in Segments : Copies(r)' = Copies(r)
    BY <1>type, <2>1
  <2> QED
    BY <1>order, <1>type, <2>1, <2>2
<1>14. CASE CollectorUpDown
  BY <1>14, <1>same DEF CollectorUpDown, client, wire
<1>15. CASE UNCHANGED vars
  BY <1>15, <1>same DEF vars, client, wire
<1> QED
  BY <1>1, <1>2, <1>3, <1>4, <1>5, <1>6, <1>7, <1>8, <1>9, <1>10, <1>12, <1>13,
     <1>14, <1>15
  DEF Next, TaskStep, CallReturns

CollectorInv ==
  TypeInv /\ EachSegmentInOnePlace /\ AckInv /\ CopiesInv

LEMMA AlwaysCollectorInv == Spec => []CollectorInv
<1>1. Init => CopiesInv
  <2> SUFFICES ASSUME Init PROVE CopiesInv
    OBVIOUS
  <2>1. Len(queue) = 0 /\ Len(batch) = 0 /\ RETRY_NUM \in Nat
    BY EmptySeq, ReporterAssumption DEF Init
  <2> QED
    BY <2>1 DEF Init, CopiesInv, Copies, AtMostRetryNumCopies
<1>2. TypeInv /\ TypeInv' /\ EachSegmentInOnePlace /\ AckInv /\ CopiesInv /\ [Next]_vars
        => CopiesInv'
  BY NextCopiesInv DEF AckInv
<1> QED
  BY <1>1, <1>2, AlwaysAckInv, SegmentsInOnePlace, PTL DEF Spec, CollectorInv

(* At-least-once delivery is bounded: late copies included, the collector  *)
(* reads a segment at most RETRY_NUM times, for any batch, channel and     *)
(* pattern of failures.                                                    *)
THEOREM CopiesAreBounded == Spec => []AtMostRetryNumCopies
BY AlwaysCollectorInv, PTL DEF CollectorInv, CopiesInv

-----------------------------------------------------------------------------
(* Order.                                                                  *)

(* A segment in the batch that has been read comes after segments of the   *)
(* batch that have been read.                                              *)
LEMMA NextFirstReadInOrder ==
  ASSUME CollectorInv, FirstReadInOrder, [Next]_vars
  PROVE  FirstReadInOrder'
<1> USE DEF FirstReadInOrder
<1>inv. TypeInv /\ EachSegmentInOnePlace /\ AckInv /\ CopiesInv
  BY DEF CollectorInv
<1>type. /\ received \in [Segments -> Nat] /\ late \in [Segments -> Nat]
         /\ offered \in Nat /\ streamed \in Nat
  BY <1>inv DEF TypeInv, RTypeOK
(* What has been written to the wire, or is in the batch, has been offered *)
(* and accepted and is no longer in the channel.                           *)
<1>sent. ASSUME NEW t \in Segments, Copies(t) > 0 \/ t \in Range(batch)
         PROVE  t \in 1..offered /\ t \notin Range(queue) /\ t \notin dropped
  <2>1. /\ Range(queue) = {queue[i] : i \in 1..Len(queue)}
        /\ Range(batch) = {batch[i] : i \in 1..Len(batch)}
    BY <1>inv, RangeEquality DEF TypeInv, RTypeOK
  <2>2. CASE Copies(t) > 0
    <3>1. Copies(t) # 0
      BY <1>type, <2>2 DEF Copies
    <3> QED
      BY <1>inv, <1>type, <2>1, <3>1 DEF CopiesInv, Segments
  <2>3. CASE t \in Range(batch)
    <3>1. PICK i \in 1..Len(batch) : batch[i] = t
      BY <2>1, <2>3
    <3>2. /\ t <= offered /\ t \notin dropped
          /\ \A j \in 1..Len(queue) : t < queue[j] /\ queue[j] \in Segments
      BY <1>inv, <3>1, BatchBeforeQueue
    <3> QED
      BY <1>type, <2>1, <3>2 DEF Segments
  <2> QED
    BY <1>sent, <2>2, <2>3
(* A segment older than such a t has been read, refused or logged, unless  *)
(* it is in the batch.                                                     *)
<1>older. ASSUME NEW s \in Segments, NEW t \in Segments, s < t,
                 t \in 1..offered, t \notin Range(queue), t \notin dropped
          PROVE  \/ s \in Range(batch)
                 \/ received[s] > 0 \/ s \in dropped \/ s \in logged
  <2>1. s \in 1..offered /\ Range(Pending) = Range(batch) \cup Range(queue)
    BY <1>older, <1>type, <1>inv, PendingIsSeq DEF Segments
  <2>2. s \notin Range(queue)
    <3> SUFFICES ASSUME s \in Range(queue) PROVE FALSE
      OBVIOUS
    <3>1. t \in Range(batch) => FALSE
      <4>1. /\ Range(queue) = {queue[i] : i \in 1..Len(queue)}
            /\ Range(batch) = {batch[i] : i \in 1..Len(batch)}
        BY <1>inv, RangeEquality DEF TypeInv, RTypeOK
      <4>2. \A i \in 1..Len(batch), j \in 1..Len(queue) : batch[i] < queue[j]
        BY <1>inv, BatchBeforeQueue
      <4> QED
        BY <1>older, <4>1, <4>2 DEF Segments
    <3>2. PICK k \in 1..Len(Pending) : Pending[k] = s
      BY <1>inv, <2>1, PendingIsSeq, RangeEquality
    <3>3. t \in Settled
      BY <1>older, <1>inv, <2>1, <3>1 DEF EachSegmentInOnePlace
    <3>4. t < s
      BY <1>inv, <3>2, <3>3 DEF EachSegmentInOnePlace
    <3> QED
      BY <1>older, <3>4 DEF Segments
  <2>3. s \in acked => received[s] > 0
    BY <1>inv DEF AckInv, AckedWasReceived
  <2> QED
    BY <1>inv, <2>1, <2>2, <2>3 DEF EachSegmentInOnePlace, Settled
(* The collector reads r, whose predecessors in the batch it has read.     *)
<1>read. ASSUME NEW r \in Segments, Copies(r) > 0 \/ r \in Range(batch),
                received' = [received EXCEPT ![r] = @ + 1],
                UNCHANGED <<dropped, logged>>,
                \A s \in Range(batch) : s < r => received[s] > 0
         PROVE  FirstReadInOrder'
  <2> SUFFICES ASSUME NEW s \in Segments, NEW t \in Segments, s < t, received'[t] > 0
               PROVE  received'[s] > 0 \/ s \in dropped' \/ s \in logged'
    OBVIOUS
  <2>1. received[s] > 0 => received'[s] > 0
    BY <1>type, <1>read
  <2>2. CASE t = r
    <3>1. received[s] > 0 \/ s \in dropped \/ s \in logged
      BY <1>read, <1>sent, <1>older, <2>2
    <3> QED
      BY <1>read, <2>1, <3>1
  <2>3. CASE t # r
    BY <1>type, <1>read, <2>1, <2>3
  <2> QED
    BY <2>2, <2>3
<1>1. CASE CollectorReads
  <2> DEFINE r == batch[streamed + 1]
  <2>1. /\ pc = "collect" /\ streamed + 1 \in 1..Len(batch)
        /\ received' = [received EXCEPT ![r] = @ + 1]
        /\ UNCHANGED <<dropped, logged>>
    BY <1>1, <1>inv, <1>type, BatchBeforeQueue DEF CollectorReads, client, result
  <2>2. Range(batch) = {batch[i] : i \in 1..Len(batch)}
    BY <1>inv, RangeEquality DEF TypeInv, RTypeOK
  <2>3. r \in Segments /\ r \in Range(batch)
    BY <1>inv, <2>1, <2>2, BatchBeforeQueue
  <2>4. ASSUME NEW s \in Range(batch), s < r PROVE received[s] > 0
    <3>1. PICK i \in 1..Len(batch) : batch[i] = s
      BY <2>2
    <3>2. i <= streamed
      <4>1. /\ Len(batch) \in Nat
            /\ \A j \in 1..Len(batch) : batch[j] \in Segments
            /\ \A j, k \in 1..Len(batch) : j < k => batch[j] < batch[k]
        BY <1>inv, BatchBeforeQueue
      <4>2. ~(i > streamed + 1) /\ i # streamed + 1
        BY <2>1, <2>4, <3>1, <4>1 DEF Segments
      <4> QED
        BY <1>type, <4>1, <4>2
    <3> QED
      BY <1>inv, <1>type, <2>1, <3>1, <3>2 DEF AckInv, ReadPrefix
  <2> HIDE DEF r
  <2> QED
    BY <1>read, <2>1, <2>3, <2>4
<1>2. ASSUME NEW r \in Segments, CollectorReadsLate(r) PROVE FirstReadInOrder'
  <2>1. Copies(r) > 0
    BY <1>type, <1>2 DEF CollectorReadsLate, Copies
  <2> QED
    BY <1>2, <1>read, <2>1 DEF CollectorReadsLate, client, result
<1>3. ASSUME UNCHANGED received, dropped \subseteq dropped', logged \subseteq logged'
      PROVE  FirstReadInOrder'
  BY <1>3
<1>4. CASE ReportTrace
  BY <1>4, <1>3 DEF ReportTrace, HasRoom, wire, result
<1>5. CASE DropReporter
  BY <1>5, <1>3 DEF DropReporter, wire, result
<1>6. CASE TaskStep
  BY <1>6, <1>3 DEF TaskStep, Retrieved, AttemptFailed, NewVec, ReturnedCtx, LoopTop, Recv, Push, RecvNone,
                    RecvTimeout, VecIsEmpty, Backoff, client, wire, result
<1>7. CASE CallReturns
  BY <1>7, <1>3 DEF CallReturns, CollectOk, CollectRetryable, CollectUnknown,
                    AttemptFailed, NewVec, ReturnedCtx, client, wire, result
<1>8. CASE CollectorUpDown
  BY <1>8, <1>3 DEF CollectorUpDown, client, wire, result
<1>9. CASE UNCHANGED vars
  BY <1>9, <1>3 DEF vars, client, wire, result
<1> QED
  BY <1>1, <1>2, <1>4, <1>5, <1>6, <1>7, <1>8, <1>9 DEF Next

(* The first copies arrive in the order of report_trace: when the collector*)
(* has read a segment, it has read every older accepted one that was not   *)
(* logged to disk.                                                         *)
THEOREM FirstReadsAreInOrder == Spec => []FirstReadInOrder
<1>1. Init => FirstReadInOrder
  BY DEF Init, FirstReadInOrder
<1>2. CollectorInv /\ FirstReadInOrder /\ [Next]_vars => FirstReadInOrder'
  BY NextFirstReadInOrder
<1> QED
  BY <1>1, <1>2, AlwaysCollectorInv, PTL DEF Spec
=============================================================================
