----------------------------- MODULE MCAccounting -----------------------------
(* Model-checking instance of Accounting. *)
EXTENDS Accounting, TLC
CONSTANTS t1, t2

MCTasks      == {t1, t2}
Symmetry     == Permutations(MCTasks)
BothDirs     == {"send", "recv"}
BothBackends == {"syscall", "loop"}
MCSizes      == {4}

(* State constraint.  snapshot() and reset() meet neither the clock of the *)
(* controller nor anything but the results of the calls, so interrupted    *)
(* syscalls, datagrams without a slot and the passing of time are explored *)
(* only while nobody watches.                                              *)
Plain ==
  backend = "syscall" =>
    /\ truth.made + truth.empty = truth.batches + truth.errors
    /\ truth.moved = truth.packets
WatchPlain == watches > 0 => Plain /\ state.elapsed = 0
=============================================================================
