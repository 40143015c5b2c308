-------------------------------- MODULE MCPool --------------------------------
(* Model-checking instance of PooledSend. *)
EXTENDS PooledSend, TLC
CONSTANTS t1, t2, b1, b2, v1, v2

MCThreads == {t1, t2}
MCBuffers == {b1, b2}
MCValues  == {v1, v2}
Symmetry  == Permutations(MCThreads) \cup Permutations(MCBuffers) \cup Permutations(MCValues)
=============================================================================
