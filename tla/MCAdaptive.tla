------------------------------ MODULE MCAdaptive ------------------------------
(* Model-checking instance of AdaptiveBatching. *)
EXTENDS AdaptiveBatching

BothDirs == {"send", "recv"}

(* The controller of a recvfrom loop does what this one does, less         *)
(* RecordWouldBlock; that of a sending loop only counts.                   *)
BatchSyscall == {"syscall"}

(* 0 and 9 are clamped into 1..8. *)
MCInitialSizes == {0, 3, 9}
=============================================================================
