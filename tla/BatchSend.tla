-------------------------------- MODULE BatchSend --------------------------------
(***************************************************************************)
(* What a batch send promises to its callers, whatever the platform.  A    *)
(* task submits a batch; the kernel takes the entries in order, some at a  *)
(* time; the call then ends in one of three ways:                          *)
(*                                                                         *)
(*  - it completes with a count, which is the number of entries taken, so  *)
(*    that the caller knows where to go on ("We chose to return Ok(sent)   *)
(*    with a partial count and let the caller retry", ADR-002);            *)
(*  - it is abandoned (the future is dropped at its await, or try_ reports *)
(*    WouldBlock) with nothing taken, so that the caller may start again;  *)
(*  - it fails, with nothing taken unless the backend is lossy.            *)
(***************************************************************************)
EXTENDS Integers, Sequences

CONSTANTS
  Tasks,         (* the callers                                            *)
  Lengths        (* lengths of the batches they submit                     *)

VARIABLES
  lossy,    (* an error may hide entries that were taken; never changes    *)
  status,   (* "new", "open", or how the last call ended                   *)
  length,   (* length of the submitted batch                               *)
  taken,    (* positions of the entries taken, in the order of taking      *)
  count     (* the count a completed call returned, else 0                 *)

sendVars == <<lossy, status, length, taken, count>>

Ends == {"completed", "abandoned", "failed"}

Init ==
  /\ lossy \in BOOLEAN
  /\ status = [t \in Tasks |-> "new"]
  /\ length = [t \in Tasks |-> 0]
  /\ taken  = [t \in Tasks |-> << >>]
  /\ count  = [t \in Tasks |-> 0]

Submit(t) ==
  /\ status[t] # "open"
  /\ status' = [status EXCEPT ![t] = "open"]
  /\ \E n \in Lengths : length' = [length EXCEPT ![t] = n]
  /\ taken' = [taken EXCEPT ![t] = << >>]
  /\ count' = [count EXCEPT ![t] = 0]
  /\ UNCHANGED lossy

Take(t) ==
  /\ status[t] = "open"
  /\ \E n \in Len(taken[t]) + 1 .. length[t] :
       taken' = [taken EXCEPT ![t] = [j \in 1 .. n |-> j]]
  /\ UNCHANGED <<lossy, status, length, count>>

End(t, how, n) ==
  /\ status[t] = "open"
  /\ status' = [status EXCEPT ![t] = how]
  /\ count' = [count EXCEPT ![t] = n]
  /\ UNCHANGED <<lossy, length, taken>>

Complete(t) == End(t, "completed", Len(taken[t]))
Abandon(t)  == taken[t] = << >> /\ End(t, "abandoned", 0)
Fail(t)     == (lossy \/ taken[t] = << >>) /\ End(t, "failed", 0)

Next ==
  \E t \in Tasks : Submit(t) \/ Take(t) \/ Complete(t) \/ Abandon(t) \/ Fail(t)

Spec == Init /\ [][Next]_sendVars
=============================================================================
