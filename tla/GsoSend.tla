-------------------------------- MODULE GsoSend --------------------------------
(***************************************************************************)
(* Sending with segmentation offload on Linux: try_send_gso (and send_gso, *)
(* which retries it on WouldBlock) beside the plain sends, on a connected  *)
(* socket with room in its buffer, together with the option calls.         *)
(*                                                                         *)
(* Payloads are lengths in bytes, and a call puts a sequence of datagrams  *)
(* on the wire.  How the kernel reads the control buffer of a sendmsg, and *)
(* how it cuts a payload (net/ipv4/udp.c), is external.                    *)
(***************************************************************************)
EXTENDS SocketOptions, Sequences

CONSTANTS
  Lengths,      (* payloads                                                *)
  SegmentSizes, (* arguments of try_send_gso                               *)
  MaxSegments   (* UDP_MAX_SEGMENTS                                        *)

VARIABLE sent   (* the last send: datagrams asked for, datagrams on the wire *)

vars == <<family, opt, pktinfo, asked, last, mixed, failed, sent>>

Init == OptionsInit /\ sent = [want |-> <<>>, got |-> <<>>]

(* `length` bytes cut every `size` bytes. *)
Segments(length, size) ==
  [k \in 1 .. (length + size - 1) \div size |->
     IF k * size <= length THEN size ELSE length - (k - 1) * size]

(* The kernel's answer to a send with a segment size in force. *)
Wire(length, size) ==
  CASE size = 0 \/ length <= size     -> <<length>>
    [] length > size * MaxSegments    -> <<>>   (* EINVAL *)
    [] OTHER                          -> Segments(length, size)

(* A send_to, or an entry of a batch: the socket's own UDP_SEGMENT applies. *)
PlainSend(length) ==
  /\ sent' = [want |-> <<length>>, got |-> Wire(length, opt["UDP_SEGMENT"])]
  /\ UNCHANGED optionVars

(* msg_controllen, and the sizes of a cmsg that holds a u16 and of a bare  *)
(* cmsg header on 64-bit hosts.                                            *)
MsgControlLen == 64
CmsgSpaceU16  == 24
CmsgHeader    == 16

(* After the cmsg it was given, the kernel finds another header wherever   *)
(* one fits; a zeroed one has an impossible cmsg_len and fails the call.   *)
ControlWellFormed == MsgControlLen - CmsgSpaceU16 < CmsgHeader

try_send_gso(length, segment_size) ==
  /\ sent' = [want |-> IF length <= segment_size THEN <<length>>
                       ELSE Segments(length, segment_size),
              got  |-> IF ControlWellFormed THEN Wire(length, segment_size) ELSE <<>>]
  /\ UNCHANGED optionVars

Next ==
  \/ OptionStep /\ UNCHANGED sent
  \/ \E l \in Lengths : PlainSend(l)
  \/ \E l \in Lengths, s \in SegmentSizes : try_send_gso(l, s)

Spec == Init /\ [][Next]_vars

-----------------------------------------------------------------------------
(* Three statements on the optional Linux features, of which one at least  *)
(* is true: an accepted set_busy_poll is in force; enable_pktinfo works on *)
(* a socket bound to 0.0.0.0, as docs/API.md uses it; try_send_gso cuts    *)
(* its payload every segment_size bytes, and a plain send is one datagram. *)
(* Violated: one program can see all three fail.                           *)
FeaturesTakeEffect ==
  \/ InForce("busy_poll")
  \/ ~ failed
  \/ sent.got = sent.want
=============================================================================
