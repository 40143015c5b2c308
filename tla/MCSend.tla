-------------------------------- MODULE MCSend --------------------------------
(* Model-checking instances of SendPath. *)
EXTENDS SendRefinement, TLC
CONSTANTS t1, t2, a1, a2

MCTasks   == {t1, t2}
MCAddrs   == {a1, a2}
OneAddr   == {a1}
Symmetry  == Permutations(MCTasks)

BatchOps  == {"send_batch", "try_send_batch"}
AllOps    == BatchOps \cup SingleOps

Build(p, x, t) == [platform |-> p, batchSyscall |-> x, tokio |-> t, v6 |-> FALSE]

Linux     == {Build("linux", TRUE, TRUE)}
LinuxV6   == {[b EXCEPT !.v6 = TRUE] : b \in Linux}
NoTokio   == {Build("linux", TRUE, FALSE)}
Waiting   == Linux \cup NoTokio

(* macOS takes its loop on connected sockets also where it has sendmsg_x. *)
AllBuilds ==
  Linux \cup LinuxV6 \cup NoTokio \cup
  {Build("macos", TRUE, TRUE), Build("windows", FALSE, TRUE), Build("fallback", FALSE, TRUE)}

(* An empty batch, and one that is misaligned off the stack; batches       *)
(* longer than the send buffer and than the stack; one that is misaligned  *)
(* on Linux.                                                               *)
MCBatches    == {<< >>, <<NoAddr, a1>>}
LongBatches  == {<<a1>>, <<NoAddr, a1>>, <<a1, NoAddr, a1>>}
Misaligned   == {<<NoAddr, a1, a2>>}
=============================================================================
