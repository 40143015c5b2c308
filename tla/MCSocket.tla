------------------------------- MODULE MCSocket -------------------------------
(* Model-checking instance of SocketObject. *)
EXTENDS SocketObject, TLC
CONSTANTS t1, t2, f1, f2

MCCallers  == {t1, t2}
MCFds      == {f1, f2}
Symmetry   == Permutations(MCCallers) \cup Permutations(MCFds)
MCFamilies == {"v4", "v6"}
MCBuilds   == {[tokio |-> TRUE, little |-> TRUE], [tokio |-> FALSE, little |-> FALSE],
               [tokio |-> FALSE, little |-> TRUE]}

(* Sizes: not configured, small, negative as a c_int, and too wide. *)
MCConfigs  == {[send_buf_size |-> None, recv_os_buf_size |-> 3],
               [send_buf_size |-> Modulus \div 2, recv_os_buf_size |-> Modulus + 1]}

MCArgs == [ttl |-> {0, 1, Modulus - 1}, gso |-> {0, 1}, gro |-> {0, 1}, pacing |-> {1},
           busy_poll |-> {1}, timestamping |-> {1}]

MCAddrs ==
  {[family |-> "AF_INET", ip |-> <<127, 0, 0, 1>>, port |-> <<31, 144>>],
   [family |-> "AF_INET", ip |-> <<10, 0, 0, 1>>, port |-> <<0, 53>>],
   [family |-> "AF_INET6", ip |-> [k \in 1 .. 16 |-> k], port |-> <<31, 144>>,
    flowinfo |-> <<0, 0, 0, 7>>, scope_id |-> <<0, 0, 0, 2>>]}
=============================================================================
