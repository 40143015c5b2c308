--------------------------------- MODULE MCGso ---------------------------------
(* Model-checking instance of GsoSend. *)
EXTENDS GsoSend, TLC
CONSTANTS t1

OneCaller  == {t1}
MCFamilies == {"v4", "v6"}
MCArgs == [ttl |-> {1}, gso |-> {0, 1}, gro |-> {0, 1}, pacing |-> {1},
           busy_poll |-> {0, 1}, timestamping |-> {0, 1}]
=============================================================================
