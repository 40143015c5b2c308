------------------------------- MODULE SockAddr -------------------------------
(***************************************************************************)
(* encode_sockaddr and decode_sockaddr (src/sockaddr/unix.rs, and the same *)
(* code in src/sockaddr/windows_impl.rs and src/platform/windows.rs): a    *)
(* std SocketAddr written into, and read from, the bytes of a              *)
(* sockaddr_storage.                                                       *)
(*                                                                         *)
(* An integer is the sequence of its bytes, the most significant first; a  *)
(* host that is little-endian keeps it in memory the other way round.  A   *)
(* SocketAddr is a record of its family, its octets and, as integers, its  *)
(* port, flow information and scope.                                       *)
(***************************************************************************)
EXTENDS Naturals, Sequences

Byte == 0 .. 255
Word(n) == [1 .. n -> Byte]

AddrsV4 == [family : {"AF_INET"}, ip : Word(4), port : Word(2)]
AddrsV6 == [family : {"AF_INET6"}, ip : Word(16), port : Word(2),
            flowinfo : Word(4), scope_id : Word(4)]
SocketAddrs == AddrsV4 \cup AddrsV6

Zeros(n) == [k \in 1 .. n |-> 0]

(* SocketAddrV4(UNSPECIFIED, 0), which decode_sockaddr falls back to. *)
Unspecified == [family |-> "AF_INET", ip |-> Zeros(4), port |-> Zeros(2)]

-----------------------------------------------------------------------------
(* swap_bytes(). *)
Swapped(w) == [k \in DOMAIN w |-> w[Len(w) + 1 - k]]

(* The bytes in memory of an integer, and the integer some bytes are       *)
(* (from_ne_bytes).                                                        *)
InMemory(little, w) == IF little THEN Swapped(w) ELSE w
FromMemory(little, m) == IF little THEN Swapped(m) ELSE m

(* to_be() and from_be(). *)
BigEndian(little, w) == IF little THEN Swapped(w) ELSE w

-----------------------------------------------------------------------------
(* A sockaddr_storage, with the members of sockaddr_in and of sockaddr_in6 *)
(* side by side: they share bytes, but each structure is written whole and *)
(* only the one written last is read.  Encoding leaves the other one's     *)
(* members as they were.                                                   *)
ZeroedStorage ==
  [ss_family |-> "AF_UNSPEC", port |-> Zeros(2), addr4 |-> Zeros(4),
   flowinfo |-> Zeros(4), addr6 |-> Zeros(16), scope_id |-> Zeros(4)]

(* Mutant: the port stays in host order. *)
MutEncodeV4(little, a, s) ==
  [s EXCEPT !.ss_family = "AF_INET", !.port = InMemory(little, a.port),
            !.addr4 = InMemory(little, FromMemory(little, a.ip))]

EncodeV4(little, a, s) ==
  [s EXCEPT !.ss_family = "AF_INET",
            !.port = InMemory(little, BigEndian(little, a.port)),
            !.addr4 = InMemory(little, FromMemory(little, a.ip))]

EncodeV6(little, a, s) ==
  [s EXCEPT !.ss_family = "AF_INET6",
            !.port = InMemory(little, BigEndian(little, a.port)),
            !.flowinfo = InMemory(little, a.flowinfo), !.addr6 = a.ip,
            !.scope_id = InMemory(little, a.scope_id)]

encode_sockaddr(little, a, s) ==
  IF a.family = "AF_INET" THEN EncodeV4(little, a, s) ELSE EncodeV6(little, a, s)

(* The length the kernel is told, or zero when it reported no address.     *)
AddrLen(a) == IF a.family = "AF_INET" THEN 16 ELSE 28

DecodeV4(little, s) ==
  [family |-> "AF_INET",
   ip |-> BigEndian(little, FromMemory(little, s.addr4)),
   port |-> BigEndian(little, FromMemory(little, s.port))]

DecodeV6(little, s) ==
  [family |-> "AF_INET6", ip |-> s.addr6,
   port |-> BigEndian(little, FromMemory(little, s.port)),
   flowinfo |-> FromMemory(little, s.flowinfo),
   scope_id |-> FromMemory(little, s.scope_id)]

decode_sockaddr(little, s, len) ==
  CASE len # 0 /\ s.ss_family = "AF_INET"  -> DecodeV4(little, s)
    [] len # 0 /\ s.ss_family = "AF_INET6" -> DecodeV6(little, s)
    [] OTHER                               -> Unspecified

-----------------------------------------------------------------------------
(* What the kernel makes of such bytes: port and address in network order, *)
(* the first byte being the most significant, whatever the host.           *)
KernelReads(s) ==
  IF s.ss_family = "AF_INET" THEN [ip |-> s.addr4, port |-> s.port]
  ELSE [ip |-> s.addr6, port |-> s.port]

Endpoint(a) == [ip |-> a.ip, port |-> a.port]
=============================================================================
