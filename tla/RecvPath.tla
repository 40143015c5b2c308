-------------------------------- MODULE RecvPath --------------------------------
(***************************************************************************)
(* The receive side of BingerUdp: recv_batch, try_recv_batch and recv_from *)
(* (src/socket.rs) over the platform backends, with the RecvBatchRaw each  *)
(* task reuses from call to call (src/batch.rs), the kernel's receive      *)
(* queue and Tokio's readiness flag.                                       *)
(*                                                                         *)
(* Datagrams are numbered in the order of their arrival.  A message of the *)
(* receive queue is a run first .. first + n - 1 of datagrams: n > 1 only  *)
(* when GRO has coalesced datagrams of one flow.  The source address and   *)
(* the ancillary data (timestamp, pktinfo) of a message are named by its   *)
(* first datagram; 0 is the initial buffer content, address or None.       *)
(* Lengths are counted in segments.  Metrics and adaptive batching are off.*)
(***************************************************************************)
EXTENDS Integers, Sequences, FiniteSets

CONSTANTS
  Tasks,         (* tasks or threads holding &BingerUdp                    *)
  Ops,           (* the entry points the tasks call                        *)
  Capacities,    (* capacities of the tasks' own receive batches           *)
  BufSize,       (* segments that fit a slot's buffer                      *)
  Builds,        (* the builds and hosts the program may run as            *)
  HardErrors,    (* receives may fail with an error other than WouldBlock  *)
  MaxDatagrams   (* bound: datagrams that arrive                           *)

AsyncOps == {"recv_batch", "recv_from"}

ASSUME RecvAssumption ==
  /\ Ops \subseteq {"recv_batch", "try_recv_batch", "recv_from"}
  /\ Capacities \subseteq Nat /\ BufSize \in Nat \ {0}
  /\ Builds \subseteq [batchSyscall : BOOLEAN, cmsgs : BOOLEAN,
                       maxGro : Nat \ {0}, tokio : BOOLEAN]
  /\ HardErrors \in BOOLEAN
  /\ MaxDatagrams \in Nat

VARIABLES
  build,      (* what the program is built for and runs on; never changes  *)
  (* the kernel and the Tokio driver *)
  arrived,    (* datagrams that have arrived                               *)
  queue,      (* the receive queue                                         *)
  metaOn,     (* timestamps and pktinfo are enabled on the socket          *)
  edge,       (* an edge-triggered readable event not yet polled           *)
  ready,      (* Tokio's readable readiness flag of the socket             *)
  (* each task *)
  pc,         (* where the task is                                         *)
  op,         (* its call                                                  *)
  slots, len, (* its RecvBatchRaw                                          *)
  msgs,       (* what the syscall(s) of this attempt returned              *)
  i, out_idx, (* locals of the loop over msgs                              *)
  ret,        (* what the platform call, then the API call, returned       *)
  (* history *)
  taken,      (* messages this call took from the queue                    *)
  clean       (* its batch was new, cleared since the last call, or held   *)
              (* no ancillary data                                         *)

kernel == <<build, arrived, queue, metaOn, edge, ready>>
batch  == <<slots, len>>
vars   == <<build, arrived, queue, metaOn, edge, ready, pc, op, slots, len,
            msgs, i, out_idx, ret, taken, clean>>

(* Whether recvmmsg or recvmsg_x is there (else: a recvfrom loop); whether *)
(* ancillary data is parsed (Linux with its features on); how many         *)
(* datagrams GRO coalesces (1: off); whether the tokio feature is on.      *)
BatchSyscall == build.batchSyscall
Cmsgs        == build.cmsgs
MaxGro       == build.maxGro
Tokio        == build.tokio

Ok(n)     == [kind |-> "Ok", n |-> n]
Failed(k) == [kind |-> k, n |-> 0]

EmptySlot ==
  [buf |-> [p \in 1 .. BufSize |-> 0], recv_len |-> 0, addr |-> 0, meta |-> 0]

with_capacity(c) == [s \in 1 .. c |-> EmptySlot]

capacity(t) == Len(slots[t])

Init ==
  /\ build \in Builds
  /\ arrived = 0
  /\ queue = << >>
  /\ metaOn = FALSE
  /\ edge = FALSE
  /\ ready = FALSE
  /\ pc      = [t \in Tasks |-> "idle"]
  /\ op      = [t \in Tasks |-> "none"]
  /\ slots \in [Tasks -> {with_capacity(c) : c \in Capacities}]
  /\ len     = [t \in Tasks |-> 0]
  /\ msgs    = [t \in Tasks |-> << >>]
  /\ i       = [t \in Tasks |-> 1]
  /\ out_idx = [t \in Tasks |-> 1]
  /\ ret     = [t \in Tasks |-> Failed("None")]
  /\ taken   = [t \in Tasks |-> << >>]
  /\ clean   = [t \in Tasks |-> TRUE]

-----------------------------------------------------------------------------
(***************************************************************************)
(* The kernel fills a slot's buffer from its start and truncates what does *)
(* not fit; what it does not write keeps its old content.                  *)
(***************************************************************************)
Segments(m) == [p \in 1 .. IF m.n <= BufSize THEN m.n ELSE BufSize |-> m.first + p - 1]

Write(buf, bytes) ==
  [p \in 1 .. BufSize |-> IF p <= Len(bytes) THEN bytes[p] ELSE buf[p]]

(* RecvBatchRaw::data *)
data(slot) == SubSeq(slot.buf, 1, slot.recv_len)

(* platform::try_recv_batch returns r and its locals go out of scope. *)
PlatformReturns(t, r) ==
  /\ pc' = [pc EXCEPT ![t] = "returned"]
  /\ ret' = [ret EXCEPT ![t] = r]
  /\ msgs' = [msgs EXCEPT ![t] = << >>]
  /\ i' = [i EXCEPT ![t] = 1]
  /\ out_idx' = [out_idx EXCEPT ![t] = 1]

-----------------------------------------------------------------------------
(* A call reuses the task's batch as the last call left it, or a new one;  *)
(* recv_from makes its own, with one slot.                                 *)
Call(t, o, reuse) ==
  /\ pc[t] = "idle"
  /\ reuse => o # "recv_from" /\ op[t] # "recv_from"
  /\ pc' = [pc EXCEPT ![t] = "attempt"]
  /\ op' = [op EXCEPT ![t] = o]
  /\ \/ reuse /\ UNCHANGED batch
     \/ /\ ~ reuse
        /\ \E c \in IF o = "recv_from" THEN {1} ELSE Capacities :
             slots' = [slots EXCEPT ![t] = with_capacity(c)]
        /\ len' = [len EXCEPT ![t] = 0]
  /\ ret' = [ret EXCEPT ![t] = Failed("None")]
  /\ taken' = [taken EXCEPT ![t] = << >>]
  /\ clean' = [clean EXCEPT ![t] =
       \/ ~ reuse \/ ret[t] = Failed("None")
       \/ \A s \in DOMAIN slots[t] : slots[t][s].meta = 0]
  /\ UNCHANGED <<kernel, msgs, i, out_idx>>

(* Mutant: only the lengths are cleared. *)
MutClear(t) ==
  /\ pc[t] = "idle" /\ op[t] # "recv_from" /\ ret[t] # Failed("None")
  /\ len' = [len EXCEPT ![t] = 0]
  /\ slots' = [slots EXCEPT ![t] = [s \in DOMAIN @ |-> [@[s] EXCEPT !.recv_len = 0]]]
  /\ ret' = [ret EXCEPT ![t] = Failed("None")]
  /\ taken' = [taken EXCEPT ![t] = << >>]
  /\ UNCHANGED <<kernel, clean, pc, op, msgs, i, out_idx>>

(* RecvBatchRaw::clear, between two calls: the buffers are retained. *)
Clear(t) ==
  /\ pc[t] = "idle" /\ op[t] # "recv_from" /\ ret[t] # Failed("None")
  /\ len' = [len EXCEPT ![t] = 0]
  /\ slots' = [slots EXCEPT ![t] = [s \in DOMAIN @ |->
                 [@[s] EXCEPT !.recv_len = 0, !.meta = 0]]]
  /\ ret' = [ret EXCEPT ![t] = Failed("None")]
  /\ taken' = [taken EXCEPT ![t] = << >>]
  /\ UNCHANGED <<kernel, clean, pc, op, msgs, i, out_idx>>

(* A batch of capacity zero receives nothing. *)
NoSlots(t) ==
  /\ pc[t] = "attempt" /\ capacity(t) = 0
  /\ PlatformReturns(t, Ok(0))
  /\ UNCHANGED <<kernel, clean, op, batch, taken>>

(***************************************************************************)
(* recvmmsg / recvmsg_x: the kernel moves one message after the other from *)
(* the queue to the slots; calls of other tasks may come in between.  It   *)
(* stops when the queue is empty, the slots are used up or an error        *)
(* occurs, and reports an error only when it has moved nothing.            *)
(***************************************************************************)
InSyscall(t) == pc[t] = "attempt" /\ capacity(t) > 0 /\ BatchSyscall

SyscallTakes(t) ==
  LET m == Head(queue)
      s == Len(msgs[t]) + 1 IN
  /\ InSyscall(t) /\ queue # << >> /\ s <= capacity(t)
  /\ queue' = Tail(queue)
  /\ slots' = [slots EXCEPT ![t][s].buf = Write(@, Segments(m))]
  /\ msgs' = [msgs EXCEPT ![t] = Append(@, [msg |-> m, meta |-> Cmsgs /\ metaOn])]
  /\ taken' = [taken EXCEPT ![t] = Append(@, m)]
  /\ UNCHANGED <<build, clean, arrived, metaOn, edge, ready, pc, op, len, i, out_idx, ret>>

SyscallEnds(t) ==
  /\ InSyscall(t) /\ msgs[t] # << >>
  /\ queue = << >> \/ Len(msgs[t]) = capacity(t) \/ HardErrors
  /\ pc' = [pc EXCEPT ![t] = "process"]
  /\ UNCHANGED <<kernel, clean, op, batch, msgs, i, out_idx, ret, taken>>

SyscallBlocks(t) ==
  /\ InSyscall(t) /\ msgs[t] = << >> /\ queue = << >>
  /\ PlatformReturns(t, Failed("WouldBlock"))
  /\ UNCHANGED <<kernel, clean, op, batch, taken>>

SyscallFails(t) ==
  /\ InSyscall(t) /\ msgs[t] = << >> /\ HardErrors
  /\ PlatformReturns(t, Failed("Error"))
  /\ UNCHANGED <<kernel, clean, op, batch, taken>>

(***************************************************************************)
(* The loop over the messages received, one turn per message.  Slot        *)
(* out_idx gets length, address and ancillary data; a coalesced message is *)
(* split: its first segment stays in slot out_idx, the others are copied   *)
(* to the slots that follow, as far as there are any.  All of it reads the *)
(* buffer of slot out_idx.                                                 *)
(***************************************************************************)

(* Slot out_idx before the split. *)
Filled(slot, r, total) ==
  [slot EXCEPT !.recv_len = total, !.addr = r.msg.first,
               !.meta = IF r.meta THEN r.msg.first ELSE @]

(* Segments that find a slot. *)
Split(c, first, total) == IF total <= c - first + 1 THEN total ELSE c - first + 1

(* Mutant: the first segment keeps the length of the whole message. *)
MutSplitSlots(ss, r, first, total) ==
  LET head == Filled(ss[first], r, total)
      last == first + Split(Len(ss), first, total) - 1
  IN  [s \in DOMAIN ss |->
        IF s = first THEN head
        ELSE IF s \in first + 1 .. last
        THEN [buf      |-> Write(ss[s].buf, <<head.buf[s - first + 1]>>),
              recv_len |-> 1, addr |-> r.msg.first, meta |-> head.meta]
        ELSE ss[s]]

SplitSlots(ss, r, first, total) ==
  LET head == Filled(ss[first], r, total)
      last == first + Split(Len(ss), first, total) - 1
  IN  [s \in DOMAIN ss |->
        IF s = first THEN [head EXCEPT !.recv_len = 1]
        ELSE IF s \in first + 1 .. last
        THEN [buf      |-> Write(ss[s].buf, <<head.buf[s - first + 1]>>),
              recv_len |-> 1, addr |-> r.msg.first, meta |-> head.meta]
        ELSE ss[s]]

AtMessage(t) == pc[t] = "process" /\ i[t] <= Len(msgs[t])

(* Mutant: out_idx is advanced once more than there are segments. *)
MutProcessMessage(t) ==
  LET r     == msgs[t][i[t]]
      first == out_idx[t]
      total == Len(Segments(r.msg)) IN
  /\ AtMessage(t) /\ first <= capacity(t)
  /\ slots' = [slots EXCEPT ![t] = SplitSlots(@, r, first, total)]
  /\ out_idx' = [out_idx EXCEPT ![t] = first + Split(capacity(t), first, total) + 1]
  /\ i' = [i EXCEPT ![t] = @ + 1]
  /\ UNCHANGED <<kernel, clean, pc, op, len, msgs, ret, taken>>

ProcessMessage(t) ==
  LET r     == msgs[t][i[t]]
      first == out_idx[t]
      total == Len(Segments(r.msg)) IN
  /\ AtMessage(t) /\ first <= capacity(t)
  /\ IF r.msg.n > 1
     THEN /\ slots' = [slots EXCEPT ![t] = SplitSlots(@, r, first, total)]
          /\ out_idx' = [out_idx EXCEPT ![t] = first + Split(capacity(t), first, total)]
     ELSE /\ slots' = [slots EXCEPT ![t][first] = Filled(@, r, total)]
          /\ out_idx' = [out_idx EXCEPT ![t] = first + 1]
  /\ i' = [i EXCEPT ![t] = @ + 1]
  /\ UNCHANGED <<kernel, clean, pc, op, len, msgs, ret, taken>>

(* set_recv_len(out_idx) indexes past the slots. *)
ProcessPanics(t) ==
  /\ AtMessage(t) /\ out_idx[t] > capacity(t)
  /\ pc' = [pc EXCEPT ![t] = "panicked"]
  /\ UNCHANGED <<kernel, clean, op, batch, msgs, i, out_idx, ret, taken>>

(* Mutants: len is one too large; a batch that is not full is WouldBlock.  *)
MutProcessEnds(t) ==
  /\ pc[t] = "process" /\ i[t] > Len(msgs[t])
  /\ len' = [len EXCEPT ![t] = out_idx[t]]
  /\ PlatformReturns(t, Ok(out_idx[t]))
  /\ UNCHANGED <<kernel, clean, op, slots, taken>>
MutProcessBlocks(t) ==
  /\ pc[t] = "process" /\ i[t] > Len(msgs[t])
  /\ len' = [len EXCEPT ![t] = out_idx[t] - 1]
  /\ PlatformReturns(t, IF out_idx[t] > capacity(t) THEN Ok(out_idx[t] - 1)
                        ELSE Failed("WouldBlock"))
  /\ UNCHANGED <<kernel, clean, op, slots, taken>>

ProcessEnds(t) ==
  /\ pc[t] = "process" /\ i[t] > Len(msgs[t])
  /\ len' = [len EXCEPT ![t] = out_idx[t] - 1]
  /\ PlatformReturns(t, Ok(out_idx[t] - 1))
  /\ UNCHANGED <<kernel, clean, op, slots, taken>>

(***************************************************************************)
(* The recvfrom loop (fallback.rs, fallback_recv of linux.rs, macos.rs     *)
(* without recvmsg_x, windows.rs): one datagram per slot, len updated each *)
(* time, no ancillary data.  recvfrom on a GRO socket returns the coalesced*)
(* message unsplit.                                                        *)
(***************************************************************************)
InLoop(t) == pc[t] = "attempt" /\ capacity(t) > 0 /\ ~ BatchSyscall

(* raw_recvfrom into a slot: the buffer, the length and the address. *)
Recvfrom(slot, m) ==
  [slot EXCEPT !.buf = Write(@, Segments(m)), !.recv_len = Len(Segments(m)),
               !.addr = m.first]

LoopTakes(t) ==
  LET m == Head(queue) IN
  /\ InLoop(t) /\ i[t] <= capacity(t) /\ queue # << >>
  /\ queue' = Tail(queue)
  /\ slots' = [slots EXCEPT ![t][i[t]] = Recvfrom(@, m)]
  /\ len' = [len EXCEPT ![t] = i[t]]
  /\ i' = [i EXCEPT ![t] = @ + 1]
  /\ taken' = [taken EXCEPT ![t] = Append(@, m)]
  /\ UNCHANGED <<build, clean, arrived, metaOn, edge, ready, pc, op, msgs, out_idx, ret>>

(* WouldBlock, or no slot left: the count so far, even if it is zero. *)
LoopEnds(t) ==
  /\ InLoop(t) /\ (queue = << >> \/ i[t] > capacity(t))
  /\ PlatformReturns(t, Ok(i[t] - 1))
  /\ UNCHANGED <<kernel, clean, op, batch, taken>>

LoopFails(t) ==
  /\ InLoop(t) /\ i[t] <= capacity(t) /\ HardErrors
  /\ PlatformReturns(t, Failed("Error"))
  /\ UNCHANGED <<kernel, clean, op, batch, taken>>

-----------------------------------------------------------------------------
(***************************************************************************)
(* The wrappers of socket.rs.  recv_batch takes Ok(0) for WouldBlock.      *)
(***************************************************************************)
(* Mutant: Ok(0) is returned. *)
MutMustWait(t) == op[t] \in AsyncOps /\ ret[t].kind = "WouldBlock"

MustWait(t) ==
  op[t] \in AsyncOps /\ (ret[t].kind = "WouldBlock" \/ ret[t] = Ok(0))

Finish(t) ==
  /\ pc[t] = "returned" /\ ~ MustWait(t)
  /\ pc' = [pc EXCEPT ![t] = "idle"]
  /\ UNCHANGED <<kernel, clean, op, batch, msgs, i, out_idx, ret, taken>>

(* wait_readable().await; without the tokio feature an error at once. *)
Block(t) ==
  /\ pc[t] = "returned" /\ MustWait(t)
  /\ \/ /\ Tokio
        /\ pc' = [pc EXCEPT ![t] = "waiting"]
        /\ UNCHANGED ret
     \/ /\ ~ Tokio
        /\ pc' = [pc EXCEPT ![t] = "idle"]
        /\ ret' = [ret EXCEPT ![t] = Failed("Error")]
  /\ UNCHANGED <<kernel, clean, op, batch, msgs, i, out_idx, taken>>

(* Mutant: the first waiter consumes the readiness. *)
MutResume(t) ==
  /\ pc[t] = "waiting" /\ ready
  /\ ready' = FALSE
  /\ pc' = [pc EXCEPT ![t] = "attempt"]
  /\ UNCHANGED <<build, clean, arrived, queue, metaOn, edge, op, batch, msgs, i, out_idx, ret, taken>>

(* readable() completes as soon as the readiness flag is set, and nothing  *)
(* clears that flag: see SendPath.                                         *)
Resume(t) ==
  /\ pc[t] = "waiting" /\ ready
  /\ pc' = [pc EXCEPT ![t] = "attempt"]
  /\ UNCHANGED <<kernel, clean, op, batch, msgs, i, out_idx, ret, taken>>

(* The wait ends early: the driver is gone, or the future is dropped.      *)
WaitEnds(t, kind) ==
  /\ pc[t] = "waiting"
  /\ kind = "Error" => HardErrors
  /\ pc' = [pc EXCEPT ![t] = "idle"]
  /\ ret' = [ret EXCEPT ![t] = Failed(kind)]
  /\ UNCHANGED <<kernel, clean, op, batch, msgs, i, out_idx, taken>>

-----------------------------------------------------------------------------
(* A message of n datagrams arrives. *)
Arrive(n) ==
  /\ arrived + n <= MaxDatagrams
  /\ queue' = Append(queue, [first |-> arrived + 1, n |-> n])
  /\ arrived' = arrived + n
  /\ edge' = TRUE
  /\ UNCHANGED <<build, clean, metaOn, ready, pc, op, batch, msgs, i, out_idx, ret, taken>>

DriverPolls ==
  /\ Tokio /\ edge
  /\ edge' = FALSE
  /\ ready' = TRUE
  /\ UNCHANGED <<build, clean, arrived, queue, metaOn, pc, op, batch, msgs, i, out_idx, ret, taken>>

(* enable_timestamping / enable_pktinfo, from any thread at any time.      *)
SetMeta ==
  /\ Cmsgs
  /\ metaOn' = ~ metaOn
  /\ UNCHANGED <<build, clean, arrived, queue, edge, ready, pc, op, batch, msgs, i, out_idx, ret, taken>>

(* What a task does once it is in a call, apart from being cancelled. *)
Progress(t) ==
  \/ NoSlots(t)
  \/ SyscallTakes(t) \/ SyscallEnds(t) \/ SyscallBlocks(t) \/ SyscallFails(t)
  \/ ProcessMessage(t) \/ ProcessPanics(t) \/ ProcessEnds(t)
  \/ LoopTakes(t) \/ LoopEnds(t) \/ LoopFails(t)
  \/ Finish(t) \/ Block(t) \/ Resume(t)

Next ==
  \/ \E t \in Tasks, o \in Ops, reuse \in BOOLEAN : Call(t, o, reuse)
  \/ \E t \in Tasks : Clear(t)
  \/ \E t \in Tasks : Progress(t)
  \/ \E t \in Tasks, kind \in {"Error", "Cancelled"} : WaitEnds(t, kind)
  \/ \E n \in 1 .. MaxGro : Arrive(n)
  \/ DriverPolls
  \/ SetMeta

Spec == Init /\ [][Next]_vars

(* Tasks in a call are scheduled and the driver polls. *)
FairSpec ==
  /\ Spec
  /\ \A t \in Tasks : WF_vars(Progress(t))
  /\ WF_vars(DriverPolls)

-----------------------------------------------------------------------------
(***************************************************************************)
(* Properties.                                                             *)
(***************************************************************************)
Kinds    == {"None", "Ok", "WouldBlock", "Error", "Cancelled"}
Messages == [first : Nat \ {0}, n : 1 .. MaxGro]
Slots    == [buf : [1 .. BufSize -> Nat], recv_len : 0 .. BufSize, addr : Nat, meta : Nat]

(* Lengths stay within the buffers, len within the capacity, and all       *)
(* indices within reach of the loops.                                      *)
TypeOK ==
  /\ build \in Builds
  /\ arrived \in Nat /\ queue \in Seq(Messages)
  /\ metaOn \in BOOLEAN /\ edge \in BOOLEAN /\ ready \in BOOLEAN
  /\ pc \in [Tasks -> {"idle", "attempt", "process", "returned", "waiting", "panicked"}]
  /\ op \in [Tasks -> Ops \cup {"none"}]
  /\ slots \in [Tasks -> Seq(Slots)]
  /\ msgs \in [Tasks -> Seq([msg : Messages, meta : BOOLEAN])]
  /\ i \in [Tasks -> Nat \ {0}] /\ out_idx \in [Tasks -> Nat \ {0}]
  /\ ret \in [Tasks -> [kind : Kinds, n : Nat]]
  /\ taken \in [Tasks -> Seq(Messages)] /\ clean \in [Tasks -> BOOLEAN]
  /\ len \in [Tasks -> Nat]
  /\ \A t \in Tasks : len[t] <= capacity(t) /\ Len(msgs[t]) <= capacity(t)

Datagrams(m) == m.first .. m.first + m.n - 1
Holds(t)     == UNION {Datagrams(taken[t][k]) : k \in DOMAIN taken[t]}

(* t's batch holds the datagrams t took, one per slot, in order of arrival *)
(* and each with the address of its sender.                                *)
Delivered(t) ==
  /\ len[t] = Cardinality(Holds(t))
  /\ \A k \in DOMAIN taken[t] : \A d \in Datagrams(taken[t][k]) :
       LET slot == slots[t][Cardinality({e \in Holds(t) : e <= d})] IN
       data(slot) = <<d>> /\ slot.addr = taken[t][k].first

(* Only the last message t took, if any, is coalesced, and it finds as     *)
(* many slots as it has segments.                                          *)
Separable(t) ==
  /\ \A k \in 1 .. Len(taken[t]) - 1 : taken[t][k].n = 1
  /\ Cardinality(Holds(t)) <= capacity(t)

(* However a call ends, the datagrams it took from the queue are in the    *)
(* caller's batch, and a count returned is the number of them: nothing the *)
(* kernel handed out is lost, mixed up with stale slots, or attributed to  *)
(* another sender, although the batch is reused and tasks interleave.  So  *)
(* much holds while no coalesced message is followed by another one.       *)
HandsOverAll ==
  \A t \in Tasks :
    (pc[t] = "idle" /\ Separable(t)) =>
      /\ taken[t] # << >> => Delivered(t)
      /\ ret[t].kind = "Ok" => ret[t].n = Cardinality(Holds(t))

(* recv_batch can be dropped at its await (select!, timeout) without       *)
(* losing a datagram, and WouldBlock means that nothing was received.      *)
CancelSafe ==
  \A t \in Tasks :
    (pc[t] = "waiting" \/ (pc[t] = "idle" /\ ret[t].kind \in {"Cancelled", "WouldBlock"}))
    => taken[t] = << >>

(* The loop over the messages leaves the slots, and panics, only when it   *)
(* meets a message behind one that was split.                              *)
NoPanic ==
  \A t \in Tasks :
    pc[t] = "panicked" => \E k \in 1 .. Len(taken[t]) - 1 : taken[t][k].n > 1

(* Two statements on the loop over the messages, of which one at least is  *)
(* true.  "SAFETY: i < n <= capacity": it indexes slots that are there.    *)
(* "coalesced GRO segments are split into individual RecvBatchRaw slots":  *)
(* as long as there are slots for all of them, whatever else is received.  *)
(* Violated by two receives in which a message follows a coalesced one.    *)
SplitsAll ==
  \/ \A t \in Tasks : pc[t] # "panicked"
  \/ \A t \in Tasks :
       ( /\ pc[t] = "idle" /\ taken[t] # << >>
         /\ Cardinality(Holds(t)) <= capacity(t) ) => Delivered(t)

(* recv_batch and recv_from return something, or an error that is not      *)
(* WouldBlock, also on the backends that report an empty queue as Ok(0).   *)
AsyncReceives ==
  \A t \in Tasks :
    (pc[t] = "idle" /\ op[t] \in AsyncOps) =>
      ret[t].kind # "WouldBlock" /\ ret[t] # Ok(0)

(* "timestamp for the packet at idx, if available": none, or that packet's *)
(* own, provided the batch was new or cleared since the last call.  A      *)
(* batch that is reused without clear() keeps what an earlier packet left  *)
(* in its slots.                                                           *)
MetadataIsOwn ==
  \A t \in Tasks :
    (pc[t] = "idle" /\ ret[t].kind = "Ok" /\ clean[t]) =>
      \A s \in 1 .. ret[t].n : slots[t][s].meta \in {0, slots[t][s].addr}

InCall(t) == pc[t] \in {"attempt", "process", "returned", "waiting"}

(* A task in a receive call does not sleep on a queue with datagrams in    *)
(* it: no wakeup is lost between WouldBlock and wait_readable.             *)
WakesUp ==
  \A t \in Tasks :
    (InCall(t) /\ queue # << >>) ~> (~ InCall(t) \/ queue = << >>)
=============================================================================
