-------------------------------- MODULE Agent --------------------------------
(***************************************************************************)
(* One process: the scopes of ContextManager over the static               *)
(* SKYWALKING_REPORTER (context_manager.rs), until the process ends.       *)
(*                                                                         *)
(* The step that finishes the first span of a scope calls report_trace:    *)
(* segment n of Reporter is reported[n].  Any other step of the code and   *)
(* any other step of the background task leave each other's state alone.   *)
(* The reporter is created by the first async_enter and is never dropped;  *)
(* nothing flushes it when the process ends.                               *)
(***************************************************************************)
EXTENDS ContextManager

CONSTANTS SKW_CHAN_SIZE, BATCH_LIMIT, RETRY_NUM

ASSUME AgentAssumption ==
  /\ SKW_CHAN_SIZE \in Nat \ {0}
  /\ BATCH_LIMIT \in Nat
  /\ RETRY_NUM \in Nat \ {0}
  /\ IsFiniteSet(Contexts)

VARIABLES
  offered, queue, senderAlive, dropped, pc, batch, nones, attempt,
  streamed, late, received, acked, logged, up,   \* those of Reporter
  running                                        \* the process has not ended

(* A context is reported at most once (ReportedOnce), so that the bound on *)
(* the number of segments is never reached.                                *)
R == INSTANCE ReporterProps WITH MaxSegments <- Cardinality(Contexts)

reporter == <<offered, queue, senderAlive, dropped, pc, batch, nones, attempt,
              streamed, late, received, acked, logged, up>>

avars == <<vars, reporter, running>>

-----------------------------------------------------------------------------
AInit == Init /\ R!Init /\ running = TRUE

(* The code of the scopes runs.                                            *)
Code ==
  /\ running
  /\ StructuredNext
  /\ IF reported' # reported THEN R!ReportTrace ELSE UNCHANGED reporter
  /\ UNCHANGED running

Created == \E c \in Contexts : phase[c] # "unentered"

(* The background task runs, or one of its calls returns.                  *)
Task == running /\ Created /\ R!TaskStep /\ UNCHANGED <<vars, running>>

TaskCall == running /\ R!CallReturns /\ UNCHANGED <<vars, running>>

(* The collector and the network, also after the process has ended: what it*)
(* has written may still arrive.                                           *)
Outside ==
  /\ \/ R!CollectorReads
     \/ \E s \in R!Segments : R!CollectorReadsLate(s)
     \/ R!CollectorUpDown
  /\ UNCHANGED <<vars, running>>

(* main returns, or the process is killed.  GLOBAL_RT and the reporter are *)
(* static and have no destructor that runs: scopes, channel and batch go.  *)
ProcessEnds == running /\ running' = FALSE /\ UNCHANGED <<vars, reporter>>

ANext == Code \/ Task \/ TaskCall \/ Outside \/ ProcessEnds

ASpec == AInit /\ [][ANext]_avars

AFairSpec == ASpec /\ WF_avars(Task)

-----------------------------------------------------------------------------
(* Properties.                                                             *)

(* The segment of a scope; 0: none was reported.                           *)
SegmentOf(c) ==
  IF \E n \in 1..Len(reported) : reported[n].ctx = c
  THEN CHOOSE n \in 1..Len(reported) : reported[n].ctx = c
  ELSE 0

Fate(c) ==
  LET n == SegmentOf(c) IN
  IF n = 0
  THEN CASE phase[c] = "unentered" -> "idle"
         [] phase[c] = "working" -> IF running THEN "tracing" ELSE "abandoned"
         [] OTHER -> "abandoned"
  ELSE CASE n \in dropped -> "refused"
         [] n \in acked -> "delivered"
         [] n \in logged -> "backedUp"
         [] OTHER -> IF running THEN "waiting" ELSE "lost"

(* The spans of a scope in the segments that the collector has read.       *)
Known(c) ==
  LET n == SegmentOf(c) IN
  IF n # 0 /\ received[n] > 0
  THEN {reported[n].spans[i].id : i \in 1..Len(reported[n].spans)}
  ELSE {}

(* The agent implements TraceFate.                                         *)
Ends == INSTANCE TraceFate WITH
  Scopes   <- Contexts,
  Capacity <- SKW_CHAN_SIZE,
  fate     <- [c \in Contexts |-> Fate(c)],
  size     <- [c \in Contexts |-> nextSeq[c] + 1],
  line     <- IF running
              THEN [i \in 1..Len(R!Pending) |-> reported[R!Pending[i]].ctx]
              ELSE <<>>,
  known    <- [c \in Contexts |-> Known(c)]

ImplementsTraceFate == Ends!FSpec

(* If the process goes on, and the collector stays reachable and answers,  *)
(* a complete scope does not wait for ever, whatever the structured code of*)
(* this and the other scopes does.                                         *)
EventuallySettled ==
  ([]running /\ <>[]up /\ []<>(pc # "collect")) =>
    \A c \in Contexts :
      (Fate(c) = "waiting") ~> (Fate(c) \in {"delivered", "backedUp"})
=============================================================================
