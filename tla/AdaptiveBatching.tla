--------------------------- MODULE AdaptiveBatching ---------------------------
(***************************************************************************)
(* One AdaptiveState (adaptive_send or adaptive_recv of BingerUdp) shared  *)
(* by any number of tasks.  A task takes the Mutex in two places:          *)
(* try_send_batch / try_recv_batch record an event after a successful      *)
(* platform call, send_batch / recv_batch record a WouldBlock and maybe    *)
(* adjust before they wait for readiness.  Each is one critical section.   *)
(*                                                                         *)
(* A receive that returns Ok(0) visits both places: a recvfrom loop on an  *)
(* empty socket, or any backend with a batch of capacity 0.  Between the   *)
(* two visits the task is counted in "pending" and other tasks may take    *)
(* the Mutex.                                                              *)
(***************************************************************************)
EXTENDS AdaptiveState

CONSTANTS
  Dirs,           (* the controllers looked at: of "send", of "recv"       *)
  Backends,       (* "syscall": one syscall per batch, "loop": one per     *)
                  (* datagram                                              *)
  InitialSizes,   (* values of Config.batch_size                           *)
  MaxTasks,       (* bound: attempts between the two critical sections     *)
  MaxEvents       (* bound: events counted within one interval             *)

ASSUME AdaptiveAssumption ==
  /\ Dirs \subseteq {"send", "recv"} /\ Backends \subseteq {"syscall", "loop"}
  /\ InitialSizes \subseteq Nat
  /\ MaxTasks \in Nat /\ MaxEvents \in Nat

VARIABLES
  dir, backend,  (* which side, on which kind of backend; never change     *)
  state,     (* the AdaptiveState behind the Mutex                         *)
  pending,   (* attempts that saw Ok(0), not yet recorded as WouldBlock    *)
  attempts,  (* history: attempts first recorded since the last adjustment *)
  repeats    (* history: ... and attempts recorded again                   *)

batchingVars == <<dir, backend, state, pending, attempts, repeats>>

BatchingInit ==
  /\ \E initial \in InitialSizes : state = new(initial)
  /\ dir \in Dirs /\ backend \in Backends
  /\ pending = 0
  /\ attempts = 0 /\ repeats = 0

(* Time passes: last_adjustment.elapsed() grows. *)
Tick ==
  /\ state.elapsed < ADJUSTMENT_INTERVAL
  /\ state' = [state EXCEPT !.elapsed = @ + 1]
  /\ UNCHANGED <<dir, backend, pending, attempts, repeats>>

(* try_send_batch / try_recv_batch: the platform call returned Ok(n), and  *)
(* the batch call returns it.                                              *)
RecordEvent ==
  /\ state.total_send_count < MaxEvents
  /\ state' = record_event(state)
  /\ attempts' = attempts + 1
  /\ UNCHANGED <<dir, backend, pending, repeats>>

(* send_batch / recv_batch: the critical section before wait_*(). *)
Blocked(first) ==
  LET counted == record_would_block(state) IN
  /\ AdjustmentDue(counted) \/ state.total_send_count < MaxEvents
  /\ state' = maybe_adjust(counted)
  /\ IF AdjustmentDue(counted)
     THEN attempts' = 0 /\ repeats' = 0
     ELSE IF first THEN attempts' = attempts + 1 /\ UNCHANGED repeats
     ELSE repeats' = repeats + 1 /\ UNCHANGED attempts
  /\ UNCHANGED <<dir, backend>>

(* The platform call returned Err(WouldBlock), which no loop does. *)
RecordWouldBlock ==
  /\ backend = "syscall"
  /\ Blocked(TRUE)
  /\ UNCHANGED pending

(* try_recv_batch returns Ok(0), which is recorded as an event (and the    *)
(* bound leaves room for the attempt that brings the adjustment) ...       *)
RecvEmpty ==
  /\ dir = "recv"
  /\ pending < MaxTasks
  /\ state.total_send_count <= MaxEvents
  /\ state' = record_event(state)
  /\ pending' = pending + 1
  /\ attempts' = attempts + 1
  /\ UNCHANGED <<dir, backend, repeats>>

(* ... and recv_batch then records the same attempt as a WouldBlock.       *)
RecvEmptyBlocked ==
  /\ pending > 0
  /\ pending' = pending - 1
  /\ Blocked(FALSE)

BatchingNext == Tick \/ RecordEvent \/ RecordWouldBlock \/ RecvEmpty \/ RecvEmptyBlocked

BatchingSpec == BatchingInit /\ [][BatchingNext]_batchingVars

(* The only fairness needed is that the clock advances. *)
FairBatchingSpec == BatchingSpec /\ WF_batchingVars(Tick)

-----------------------------------------------------------------------------
(***************************************************************************)
(* Properties.                                                             *)
(***************************************************************************)

(* recommended_batch_size() stays in [MIN_BATCH, MAX_BATCH] through every  *)
(* halving and growth, and the counters are naturals.                      *)
BatchingTypeOK ==
  /\ dir \in Dirs /\ backend \in Backends
  /\ state \in AdaptiveStates
  /\ pending \in Nat
  /\ attempts \in Nat /\ repeats \in Nat

(* The denominator of wb_rate counts every attempt since the last          *)
(* adjustment; what it counts twice is also in the numerator, and is an    *)
(* Ok(0) that recv_batch records again.  No send counts twice.             *)
CountsAttempts ==
  /\ state.total_send_count = attempts + repeats
  /\ repeats <= state.would_block_count
  /\ dir = "send" => repeats = 0

(* Sustained back-pressure is answered: if from some point on every        *)
(* attempt ends in WouldBlock, the size is eventually MIN_BATCH for good.  *)
ShrinksUnderPressure ==
  ( /\ <>[][~ RecordEvent /\ ~ RecvEmpty]_batchingVars
    /\ []<><<RecordWouldBlock>>_batchingVars )
  => <>[](state.target_size = MIN_BATCH)

(***************************************************************************)
(* What the documentation says, and the code does not do.                  *)
(***************************************************************************)

(* The doc of recommended_batch_size: "When the rate drops below 10%, the  *)
(* batch size is increased by 50%", up to MAX_BATCH; ADR-003, line 24: the *)
(* rate is one of "Total send attempts since last adjustment".  So an      *)
(* adjustment below 10% makes a size that is not the maximum larger; this  *)
(* excuses even those that counted every attempt once.  Violated: at size  *)
(* 1, (1 * 3) / 2 is 1, and an Ok(0), recorded by try_recv_batch and again *)
(* by recv_batch, is one attempt counted as two.                           *)
GrowsBelow10 ==
  [][LET counted == record_would_block(state)
         made    == IF RecordWouldBlock THEN attempts + 1 ELSE attempts IN
     ( /\ RecordWouldBlock \/ RecvEmptyBlocked
       /\ AdjustmentDue(counted) /\ RateBelow10(counted)
       /\ state.target_size < MAX_BATCH )
     => \/ state'.target_size > state.target_size
        \/ counted.total_send_count = made]_batchingVars
=============================================================================
