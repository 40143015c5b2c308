----------------------------- MODULE SocketObject -----------------------------
(***************************************************************************)
(* The life of a BingerUdp (src/socket.rs): from_std step by step with a   *)
(* failure at each, the calls on the live socket, and the drop, in a       *)
(* process whose other threads open and close descriptors meanwhile.       *)
(*                                                                         *)
(* BingerUdp keeps a copy of the descriptor's number beside whoever closes *)
(* it: the std socket until it is converted, then the tokio socket, or the *)
(* Drop of BingerUdp itself without the tokio feature.                     *)
(***************************************************************************)
EXTENDS SockAddr, SocketOptions

CONSTANTS
  Fds,        (* descriptor numbers                                        *)
  Builds,     (* [tokio, little]: the feature, the byte order of the host  *)
  Configs,    (* [send_buf_size, recv_os_buf_size], usize or None          *)
  MaxBuf,     (* largest size the kernel takes: wmem_max, rmem_max         *)
  MinBuf,     (* smallest buffer it keeps: SOCK_MIN_SNDBUF, SOCK_MIN_RCVBUF *)
  Addrs       (* SocketAddrs to connect to                                 *)

ASSUME ObjectAssumption ==
  /\ Builds \subseteq [tokio : BOOLEAN, little : BOOLEAN]
  /\ Configs \subseteq [send_buf_size : Nat \cup {None}, recv_os_buf_size : Nat \cup {None}]
  /\ MaxBuf \in Nat /\ MaxBuf < Modulus \div 4
  /\ MinBuf \in 1 .. 2 * MaxBuf
  /\ Addrs \subseteq SocketAddrs

VARIABLES
  build, config,  (* fixed                                                 *)
  table,    (* the process's descriptors: "free", "ours" or "other"        *)
  fd,       (* the number BingerUdp, or from_std, holds                    *)
  closers,  (* values whose destructor closes fd: "std", "tokio", "binger" *)
  stage,    (* "nonblocking", "sndbuf", "rcvbuf", "convert": next step of  *)
            (* from_std; "live"; "unwinding", "dropping"; "failed",        *)
            (* "dropped"                                                   *)
  sndbuf, rcvbuf,  (* the kernel's buffer sizes; None is its default       *)
  peer,     (* the sockaddr the kernel was given by connect()              *)
  asked_peer  (* history: the SocketAddr of that connect()                 *)

fixed == <<build, config>>
addrs == <<peer, asked_peer>>
socketVars ==
  <<build, config, table, fd, closers, stage, sndbuf, rcvbuf, peer, asked_peer,
    family, opt, pktinfo, asked, last, mixed, failed>>

SocketInit ==
  /\ build \in Builds /\ config \in Configs
  /\ fd \in Fds
  /\ table = [f \in Fds |-> IF f = fd THEN "ours" ELSE "free"]
  /\ closers = {"std"} /\ stage = "nonblocking"
  /\ sndbuf = None /\ rcvbuf = None
  /\ peer = ZeroedStorage /\ asked_peer = Unspecified
  /\ OptionsInit

-----------------------------------------------------------------------------
(* from_std.  An error of any step returns early and drops what is owned.  *)
Fails ==
  /\ stage \in {"nonblocking", "sndbuf", "rcvbuf", "convert"}
  /\ stage' = "unwinding"
  /\ UNCHANGED <<fixed, table, fd, closers, sndbuf, rcvbuf, addrs, optionVars>>

SetNonblocking ==
  /\ stage = "nonblocking"
  /\ stage' = "sndbuf"
  /\ UNCHANGED <<fixed, table, fd, closers, sndbuf, rcvbuf, addrs, optionVars>>

(* What the kernel makes of a size: it is unsigned, limited, doubled for   *)
(* its own bookkeeping and never less than the smallest buffer.            *)
BufferSize(v) ==
  LET taken == IF AsU32(v) < MaxBuf THEN AsU32(v) ELSE MaxBuf
  IN IF 2 * taken > MinBuf THEN 2 * taken ELSE MinBuf

(* Mutant: the buffer gets the size as it was cast. *)
MutConfigured(size, old) == IF size = None THEN old ELSE CInt(size)

(* A size that is configured goes to the kernel `as c_int`. *)
Configured(size, old) == IF size = None THEN old ELSE BufferSize(CInt(size))

SetSndBuf ==
  /\ stage = "sndbuf"
  /\ sndbuf' = Configured(config.send_buf_size, sndbuf)
  /\ stage' = "rcvbuf"
  /\ UNCHANGED <<fixed, table, fd, closers, rcvbuf, addrs, optionVars>>

(* Mutant: SO_SNDBUF again. *)
MutSetRcvBuf ==
  /\ stage = "rcvbuf"
  /\ sndbuf' = Configured(config.recv_os_buf_size, sndbuf)
  /\ stage' = "convert"
  /\ UNCHANGED <<fixed, table, fd, closers, rcvbuf, addrs, optionVars>>

SetRcvBuf ==
  /\ stage = "rcvbuf"
  /\ rcvbuf' = Configured(config.recv_os_buf_size, rcvbuf)
  /\ stage' = "convert"
  /\ UNCHANGED <<fixed, table, fd, closers, sndbuf, addrs, optionVars>>

(* Mutants: the std socket is borrowed, not consumed, and closes the       *)
(* descriptor when from_std returns; BingerUdp::drop closes it in a build  *)
(* with tokio, too.                                                        *)
MutConvertBorrows ==
  /\ stage = "convert"
  /\ closers' = IF build.tokio THEN {"tokio"} ELSE {"binger"}
  /\ table' = IF build.tokio THEN table ELSE [table EXCEPT ![fd] = "free"]
  /\ stage' = "live"
  /\ UNCHANGED <<fixed, fd, sndbuf, rcvbuf, addrs, optionVars>>
MutConvertTwice ==
  /\ stage = "convert"
  /\ closers' = IF build.tokio THEN {"tokio", "binger"} ELSE {"binger"}
  /\ stage' = "live"
  /\ UNCHANGED <<fixed, table, fd, sndbuf, rcvbuf, addrs, optionVars>>

(* The std socket is moved into the tokio socket, or gives up its          *)
(* descriptor to BingerUdp.                                                *)
Convert ==
  /\ stage = "convert"
  /\ closers' = IF build.tokio THEN {"tokio"} ELSE {"binger"}
  /\ stage' = "live"
  /\ UNCHANGED <<fixed, table, fd, sndbuf, rcvbuf, addrs, optionVars>>

-----------------------------------------------------------------------------
(* The live socket, used through & by any thread. *)
FamilyOf(a) == IF a.family = "AF_INET" THEN "v4" ELSE "v6"

(* connect(): raw_connect on a zeroed storage. *)
Connect(a) ==
  /\ stage = "live" /\ FamilyOf(a) = family
  /\ peer' = encode_sockaddr(build.little, a, ZeroedStorage)
  /\ asked_peer' = a
  /\ UNCHANGED <<fixed, table, fd, closers, stage, sndbuf, rcvbuf, optionVars>>

UseOptions ==
  /\ stage = "live"
  /\ OptionStep
  /\ UNCHANGED <<fixed, table, fd, closers, stage, sndbuf, rcvbuf, addrs>>

(* The drop takes the value: no call is under way. *)
Drop ==
  /\ stage = "live" /\ \A t \in Callers : pktinfo[t] = None
  /\ stage' = "dropping"
  /\ UNCHANGED <<fixed, table, fd, closers, sndbuf, rcvbuf, addrs, optionVars>>

(* A destructor closes the descriptor by its number. *)
Close(c) ==
  /\ stage \in {"unwinding", "dropping"} /\ c \in closers
  /\ table' = [table EXCEPT ![fd] = "free"]
  /\ closers' = closers \ {c}
  /\ UNCHANGED <<fixed, fd, stage, sndbuf, rcvbuf, addrs, optionVars>>

Gone ==
  /\ stage \in {"unwinding", "dropping"} /\ closers = {}
  /\ stage' = IF stage = "unwinding" THEN "failed" ELSE "dropped"
  /\ UNCHANGED <<fixed, table, fd, closers, sndbuf, rcvbuf, addrs, optionVars>>

(* The rest of the process opens and closes descriptors of its own. *)
Elsewhere(f) ==
  /\ table[f] # "ours"
  /\ table' = [table EXCEPT ![f] = IF @ = "free" THEN "other" ELSE "free"]
  /\ UNCHANGED <<fixed, fd, closers, stage, sndbuf, rcvbuf, addrs, optionVars>>

SocketNext ==
  \/ SetNonblocking \/ SetSndBuf \/ SetRcvBuf \/ Convert \/ Fails
  \/ UseOptions \/ Drop \/ Gone
  \/ \E a \in Addrs : Connect(a)
  \/ \E c \in {"std", "tokio", "binger"} : Close(c)
  \/ \E f \in Fds : Elsewhere(f)

SocketSpec == SocketInit /\ [][SocketNext]_socketVars

-----------------------------------------------------------------------------
(***************************************************************************)
(* Properties.                                                             *)
(***************************************************************************)
(* The socket is at a point of its life and its state has its types.       *)
SocketTypeOK ==
  /\ build \in Builds /\ config \in Configs
  /\ table \in [Fds -> {"free", "ours", "other"}] /\ fd \in Fds
  /\ closers \subseteq {"std", "tokio", "binger"}
  /\ stage \in {"nonblocking", "sndbuf", "rcvbuf", "convert", "live",
                "unwinding", "dropping", "failed", "dropped"}
  /\ {sndbuf, rcvbuf} \subseteq MinBuf .. 2 * MaxBuf \cup {None}
  /\ asked_peer \in SocketAddrs
  /\ OptionsTypeOK

(* The number BingerUdp holds is its socket's as long as it lives, and     *)
(* from_std that fails, like a drop, leaves no socket open behind it.      *)
OwnsDescriptor ==
  /\ stage \in {"nonblocking", "sndbuf", "rcvbuf", "convert", "live"} => table[fd] = "ours"
  /\ stage \in {"failed", "dropped"} => \A f \in Fds : table[f] # "ours"

(* BingerUdp closes no descriptor but its own, although its number may be  *)
(* given to another file as soon as it is closed: close_fd wants "a valid, *)
(* owned descriptor that has not already been closed".                     *)
ClosesOnlyItsOwn ==
  [][closers' # closers => \A f \in Fds : table[f] = "other" => table'[f] = "other"]_socketVars

(* A configured size reaches its own buffer, which then holds at least     *)
(* that much, or as much as the kernel gives anyone; also when it is       *)
(* negative `as c_int`.  A size that does not fit 32 bits is cut down, and *)
(* the buffer is any the kernel gives.                                     *)
BuffersAsConfigured ==
  stage = "live" =>
    \A sized \in {<<config.send_buf_size, sndbuf>>, <<config.recv_os_buf_size, rcvbuf>>} :
      CASE sized[1] = None     -> sized[2] = None
        [] sized[1] \in U32    -> sized[2] >= sized[1] \/ sized[2] = 2 * MaxBuf
        [] OTHER               -> sized[2] \in MinBuf .. 2 * MaxBuf

(* The kernel connects to the endpoint that was asked for, and every       *)
(* address the kernel reports back is decoded to what it was, on hosts of  *)
(* either byte order.                                                      *)
AddressesAgree ==
  asked_peer # Unspecified =>
    /\ KernelReads(peer) = Endpoint(asked_peer)
    /\ decode_sockaddr(build.little, peer, AddrLen(asked_peer)) = asked_peer
=============================================================================
