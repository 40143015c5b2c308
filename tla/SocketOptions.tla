----------------------------- MODULE SocketOptions -----------------------------
(***************************************************************************)
(* The option calls of BingerUdp (src/socket.rs) on Linux: set_ttl, ttl,   *)
(* set_gso, set_gro, set_pacing_rate, set_busy_poll, enable_timestamping   *)
(* and enable_pktinfo, by threads that share the socket.  Each is one      *)
(* setsockopt, but for enable_pktinfo, which makes two and returns early   *)
(* when the first fails.                                                   *)
(*                                                                         *)
(* u32 arguments cross to the kernel as c_int.  Two of the option numbers  *)
(* are spelled out in src/sys/unix.rs; what they mean to the kernel        *)
(* (include/uapi/asm-generic/socket.h, Linux 6.0 and later, with           *)
(* CAP_NET_RAW) and what it accepts is external.                           *)
(***************************************************************************)
EXTENDS Integers

CONSTANTS
  Callers,        (* threads that use the socket                           *)
  Families,       (* of the socket: "v4", "v6"                             *)
  Modulus,        (* 2^32, the width of u32 and of c_int                   *)
  MaxTtl,         (* largest time to live the kernel takes: 255            *)
  DefaultTtl,     (* and what -1 stands for: 64                            *)
  Args            (* u32 arguments, per call                               *)

ASSUME OptionsAssumption ==
  /\ Modulus \in Nat /\ Modulus % 2 = 0 /\ MaxTtl \in Nat
  /\ 0 < MaxTtl /\ MaxTtl < Modulus \div 2 /\ DefaultTtl \in 1 .. MaxTtl
  /\ Families \subseteq {"v4", "v6"}
  /\ \A c \in DOMAIN Args : Args[c] \subseteq 0 .. Modulus - 1
  /\ \A c \in {"gso", "gro", "timestamping"} : Args[c] \subseteq {0, 1}   (* bool *)
  /\ DOMAIN Args = {"ttl", "gso", "gro", "pacing", "busy_poll", "timestamping"}

U32 == 0 .. Modulus - 1

(* `x as c_int` and `v as u32`. *)
CInt(x)  == LET m == x % Modulus IN IF m >= Modulus \div 2 THEN m - Modulus ELSE m
AsU32(v) == v % Modulus

-----------------------------------------------------------------------------
(* The kernel's options, and the numbers the crate gives two of them. *)
Options == {"IP_TTL", "UDP_SEGMENT", "UDP_GRO", "SO_TIMESTAMPNS", "SO_BUSY_POLL",
            "SO_MAX_PACING_RATE", "SO_RCVMARK", "IP_PKTINFO", "IPV6_RECVPKTINFO"}

SO_BUSY_POLL       == 75
SO_MAX_PACING_RATE == 79

KernelOption(number) ==
  CASE number = 46 -> "SO_BUSY_POLL"
    [] number = 47 -> "SO_MAX_PACING_RATE"
    [] number = 75 -> "SO_RCVMARK"
    [] OTHER       -> "none"

Initially == [o \in Options |-> IF o = "IP_TTL" THEN DefaultTtl ELSE 0]

Accepts(family, o, v) ==
  CASE o = "IP_TTL"           -> v = -1 \/ v \in 1 .. MaxTtl
    [] o = "SO_BUSY_POLL"     -> v >= 0
    [] o = "UDP_SEGMENT"      -> v >= 0
    [] o = "IPV6_RECVPKTINFO" -> family = "v6"
    [] o = "none"             -> FALSE
    [] OTHER                  -> TRUE

Stored(o, v) ==
  CASE o = "IP_TTL"                                -> IF v = -1 THEN DefaultTtl ELSE v
    [] o \in {"SO_BUSY_POLL", "UDP_SEGMENT"}       -> v
    [] o = "SO_MAX_PACING_RATE"                    -> v
    [] OTHER                                       -> IF v = 0 THEN 0 ELSE 1

-----------------------------------------------------------------------------
VARIABLES
  family,     (* of the socket; never changes                              *)
  opt,        (* the kernel's options of the socket                        *)
  pktinfo,    (* per thread: the argument of its enable_pktinfo() between  *)
              (* the two setsockopts, or None                              *)
  (* history *)
  asked,      (* per call: its last accepted argument, or None             *)
  last,       (* argument of the last enable_pktinfo() to be called        *)
  mixed,      (* another enable_pktinfo() was under way then               *)
  failed      (* the last enable_pktinfo() to return returned an error     *)

optionVars == <<family, opt, pktinfo, asked, last, mixed, failed>>

None == -1

(* The calls that make one setsockopt. *)
Calls == {"ttl", "gso", "gro", "pacing", "busy_poll", "timestamping"}

OptionsInit ==
  /\ family \in Families
  /\ opt = Initially
  /\ pktinfo = [t \in Callers |-> None]
  /\ asked = [c \in Calls |-> None]
  /\ last = 0 /\ mixed = FALSE /\ failed = FALSE

OptionOf(call) ==
  CASE call = "ttl"          -> "IP_TTL"
    [] call = "gso"          -> "UDP_SEGMENT"
    [] call = "gro"          -> "UDP_GRO"
    [] call = "timestamping" -> "SO_TIMESTAMPNS"
    [] call = "busy_poll"    -> KernelOption(SO_BUSY_POLL)
    [] call = "pacing"       -> KernelOption(SO_MAX_PACING_RATE)

(* Mutant: the TTL goes through a narrower integer. *)
MutPassed(call, v) ==
  CASE call \in {"ttl", "busy_poll"} -> CInt(v % (MaxTtl + 1))
    [] OTHER                         -> v

(* The value handed to setsockopt: a u32 cast to c_int, the u32 itself, or *)
(* i32::from(bool).                                                        *)
Passed(call, v) ==
  CASE call \in {"ttl", "busy_poll"} -> CInt(v)
    [] OTHER                         -> v

SetOption(call, v) ==
  LET o == OptionOf(call)
      x == Passed(call, v)
  IN /\ IF Accepts(family, o, x)
        THEN /\ opt' = [opt EXCEPT ![o] = Stored(o, x)]
             /\ asked' = [asked EXCEPT ![call] = v]
        ELSE UNCHANGED <<opt, asked>>
     /\ UNCHANGED <<family, pktinfo, last, mixed, failed>>

(* ttl(). *)
ttl == AsU32(opt["IP_TTL"])

(* enable_pktinfo(v) sets IP_PKTINFO, *)
PktinfoFirst(t, v) ==
  /\ pktinfo[t] = None
  /\ opt' = [opt EXCEPT !["IP_PKTINFO"] = Stored("IP_PKTINFO", v)]
  /\ pktinfo' = [pktinfo EXCEPT ![t] = v]
  /\ last' = v
  /\ mixed' = (\E u \in Callers : pktinfo[u] # None)
  /\ UNCHANGED <<family, asked, failed>>

(* Mutant: the second option is always switched on. *)
MutPktinfoSecond(t) ==
  /\ pktinfo[t] # None
  /\ opt' = [opt EXCEPT !["IPV6_RECVPKTINFO"] =
              IF Accepts(family, "IPV6_RECVPKTINFO", 1) THEN 1 ELSE @]
  /\ pktinfo' = [pktinfo EXCEPT ![t] = None]
  /\ failed' = ~ Accepts(family, "IPV6_RECVPKTINFO", 1)
  /\ UNCHANGED <<family, asked, last, mixed>>

(* and then IPV6_RECVPKTINFO, which an IPv4 socket refuses: the call fails *)
(* with its first half done.                                               *)
PktinfoSecond(t) ==
  /\ pktinfo[t] # None
  /\ opt' = [opt EXCEPT !["IPV6_RECVPKTINFO"] =
              IF Accepts(family, "IPV6_RECVPKTINFO", pktinfo[t])
              THEN Stored("IPV6_RECVPKTINFO", pktinfo[t]) ELSE @]
  /\ pktinfo' = [pktinfo EXCEPT ![t] = None]
  /\ failed' = ~ Accepts(family, "IPV6_RECVPKTINFO", pktinfo[t])
  /\ UNCHANGED <<family, asked, last, mixed>>

OptionStep ==
  \/ \E c \in Calls : \E v \in Args[c] : SetOption(c, v)
  \/ \E t \in Callers : PktinfoSecond(t) \/ \E v \in {0, 1} : PktinfoFirst(t, v)

-----------------------------------------------------------------------------
(***************************************************************************)
(* Properties.                                                             *)
(***************************************************************************)
OptionsTypeOK ==
  /\ family \in Families
  /\ opt \in [Options -> Int]
  /\ pktinfo \in [Callers -> {None, 0, 1}]
  /\ asked \in [Calls -> U32 \cup {None}]
  /\ last \in {0, 1} /\ {mixed, failed} \subseteq BOOLEAN

(* The option that the documentation of a call names. *)
Documented(call) ==
  CASE call = "pacing"    -> "SO_MAX_PACING_RATE"
    [] call = "busy_poll" -> "SO_BUSY_POLL"
    [] OTHER              -> OptionOf(call)

InForce(call) == asked[call] # None => AsU32(opt[Documented(call)]) = asked[call]

(* A setting that was accepted is in force, whatever other calls followed  *)
(* and whatever its argument became on the way to a c_int.  There is one   *)
(* exception: set_ttl(u32::MAX) is -1 to the kernel and restores the       *)
(* default, so that ttl() does not return what set_ttl() was given.  The   *)
(* two calls with hand-written option numbers are left out.                *)
SettingsKept ==
  /\ \A c \in {"gso", "gro", "timestamping"} : InForce(c)
  /\ asked["ttl"] # None =>
       ttl = IF asked["ttl"] = Modulus - 1 THEN DefaultTtl ELSE asked["ttl"]

(* An enable_pktinfo() that returned Ok, and overlapped no other, left     *)
(* both options as it was asked to; calls that overlap may leave one on    *)
(* and the other off.                                                      *)
PktinfoPaired ==
  ((\A t \in Callers : pktinfo[t] = None) /\ ~ mixed /\ ~ failed) =>
    opt["IP_PKTINFO"] = last /\ opt["IPV6_RECVPKTINFO"] = last
=============================================================================
