-------------------------------- MODULE MCRecv --------------------------------
(* Model-checking instances of RecvPath. *)
EXTENDS RecvPath, TLC
CONSTANTS t1, t2

TwoTasks == {t1, t2}
Symmetry == Permutations(TwoTasks)

NoneOrThree == {0, 3}
TwoOrThree  == {2, 3}
Two         == {2}

BatchOps == {"recv_batch", "try_recv_batch"}
TryOnly  == {"try_recv_batch"}
AllOps   == BatchOps \cup {"recv_from"}

Build(x, c, g, t) == [batchSyscall |-> x, cmsgs |-> c, maxGro |-> g, tokio |-> t]

Gro       == {Build(TRUE, FALSE, 2, TRUE)}
Cmsg      == {Build(TRUE, TRUE, 1, TRUE)}
Loop      == {Build(FALSE, FALSE, 1, TRUE)}
GroOrLoop == Gro \cup Loop
AllBuilds == Gro \cup Cmsg \cup Loop \cup {Build(FALSE, FALSE, 1, FALSE)}
=============================================================================
