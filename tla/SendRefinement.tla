----------------------------- MODULE SendRefinement -----------------------------
(***************************************************************************)
(* SendPath, restricted to send_batch and try_send_batch, implements       *)
(* BatchSend: a call is open while its task is inside it, the entries      *)
(* taken are those the kernel accepted, and the count is the one the API   *)
(* call returned.                                                          *)
(***************************************************************************)
EXTENDS SendPath

Ended ==
  [None |-> "new", Ok |-> "completed", WouldBlock |-> "abandoned",
   Cancelled |-> "abandoned", Error |-> "failed"]

(* The refinement mapping. *)
Status == [t \in Tasks |-> IF pc[t] = "idle" THEN Ended[ret[t].kind] ELSE "open"]
Length == [t \in Tasks |-> Len(batch[t])]
Taken  == [t \in Tasks |-> [j \in DOMAIN accepted[t] |-> accepted[t][j].idx]]
Count  == [t \in Tasks |-> IF pc[t] = "idle" THEN ret[t].n ELSE 0]

Promise == INSTANCE BatchSend WITH
  Lengths <- {Len(b) : b \in Batches},
  lossy <- ~ Lossless, status <- Status, length <- Length, taken <- Taken, count <- Count

(* Every step of the send path, on every backend, is a step of BatchSend   *)
(* or leaves it unchanged: entries are taken in order and once, across     *)
(* retries and interleaved tasks, and a call ends only as promised.        *)
KeepsPromise == Promise!Spec
=============================================================================
