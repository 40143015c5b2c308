----------------------------- MODULE AdaptiveState -----------------------------
(***************************************************************************)
(* The adaptive batch-size controller of src/socket.rs (struct             *)
(* AdaptiveState), as operators on a record.  Every call of one of its     *)
(* methods happens inside one critical section of the Mutex that holds it. *)
(*                                                                         *)
(* The Instant last_adjustment is abstracted to the time elapsed since     *)
(* then, saturating at the adjustment interval: the code only ever asks    *)
(* whether the interval is over.                                           *)
(***************************************************************************)
EXTENDS Integers

CONSTANTS
  MIN_BATCH,            (* smallest target_size, 1 in the code             *)
  MAX_BATCH,            (* largest target_size, 1024 in the code           *)
  ADJUSTMENT_INTERVAL   (* clock ticks between adjustments, 100 ms         *)

ASSUME BatchBounds ==
  /\ MIN_BATCH = 1
  /\ MAX_BATCH \in Nat /\ MAX_BATCH >= MIN_BATCH
  /\ ADJUSTMENT_INTERVAL \in Nat \ {0}

AtLeast(x, lo) == IF x < lo THEN lo ELSE x
AtMost(x, hi)  == IF x > hi THEN hi ELSE x

Sizes == MIN_BATCH .. MAX_BATCH

AdaptiveStates ==
  [target_size : Sizes, would_block_count : Nat, total_send_count : Nat,
   elapsed : 0 .. ADJUSTMENT_INTERVAL]

new(initial) ==
  [target_size       |-> AtMost(AtLeast(initial, MIN_BATCH), MAX_BATCH),
   would_block_count |-> 0,
   total_send_count  |-> 0,
   elapsed           |-> 0]

record_would_block(s) ==
  [s EXCEPT !.would_block_count = @ + 1, !.total_send_count = @ + 1]

record_event(s) == [s EXCEPT !.total_send_count = @ + 1]

-----------------------------------------------------------------------------
(* Mutant: the comparison is turned round. *)
MutRateAbove30(s) == 10 * s.would_block_count < 3 * s.total_send_count

(* The two thresholds, wb_rate > 0.3 and wb_rate < 0.1, without division. *)
RateAbove30(s) == 10 * s.would_block_count > 3 * s.total_send_count
RateBelow10(s) == 10 * s.would_block_count < s.total_send_count

(* Mutant: no lower bound. *)
MutHalve(size) == size \div 2

Halve(size) == AtLeast(size \div 2, MIN_BATCH)
Grow(size)  == AtMost((size * 3) \div 2, MAX_BATCH)

Retarget(s) ==
  IF RateAbove30(s) THEN Halve(s.target_size)
  ELSE IF RateBelow10(s) /\ s.target_size < MAX_BATCH THEN Grow(s.target_size)
  ELSE s.target_size

(* The two early returns of maybe_adjust. *)
AdjustmentDue(s) ==
  /\ s.elapsed = ADJUSTMENT_INTERVAL
  /\ s.total_send_count # 0

(* Mutant: total_send_count is not reset. *)
MutMaybeAdjust(s) ==
  IF AdjustmentDue(s)
  THEN [s EXCEPT !.target_size = Retarget(s), !.would_block_count = 0, !.elapsed = 0]
  ELSE s

maybe_adjust(s) ==
  IF AdjustmentDue(s)
  THEN [target_size       |-> Retarget(s),
        would_block_count |-> 0,
        total_send_count  |-> 0,
        elapsed           |-> 0]
  ELSE s

recommended_size(s) == s.target_size
=============================================================================
