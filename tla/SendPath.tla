-------------------------------- MODULE SendPath --------------------------------
(***************************************************************************)
(* The send side of BingerUdp: send_batch, try_send_batch, send_to and     *)
(* try_send_to (src/socket.rs) over the four platform backends             *)
(* (src/platform), for any number of tasks that share one socket, together *)
(* with the kernel's send buffer and Tokio's readiness flag.               *)
(*                                                                         *)
(* A batch is the sequence of the destinations of its entries, NoAddr for  *)
(* push_connected; entry i's payload is identified with i.  Metrics and    *)
(* adaptive batching are off, as in Config::default().                     *)
(***************************************************************************)
EXTENDS Integers, Sequences, FiniteSets

CONSTANTS
  Tasks,         (* tasks or threads holding &BingerUdp                    *)
  Addrs,         (* socket addresses                                       *)
  NoAddr,        (* None: no destination, or a socket with no peer         *)
  Zeroed,        (* an all-zero sockaddr_storage: its family is AF_UNSPEC  *)
  Batches,       (* the batches the tasks send                             *)
  Ops,           (* the entry points the tasks call                        *)
  Builds,        (* the builds and hosts the program may run as            *)
  MAX_STACK,     (* longest batch built in stack arrays, 64 in the code    *)
  SndBuf,        (* datagrams the kernel's send buffer holds               *)
  HardErrors     (* sends may fail with an error other than WouldBlock     *)

AsyncOps  == {"send_batch", "send_to"}
SingleOps == {"send_to", "try_send_to"}

ASSUME SendAssumption ==
  /\ NoAddr \notin Addrs /\ Zeroed \notin Addrs /\ Zeroed # NoAddr
  /\ Batches \subseteq Seq(Addrs \cup {NoAddr})
  /\ Ops \subseteq {"send_batch", "try_send_batch", "send_to", "try_send_to"}
  /\ Builds \subseteq [platform     : {"linux", "macos", "windows", "fallback"},
                       batchSyscall : BOOLEAN, tokio : BOOLEAN, v6 : BOOLEAN]
  /\ HardErrors \in BOOLEAN
  /\ MAX_STACK \in Nat /\ SndBuf \in Nat \ {0}

VARIABLES
  build,      (* what the program is built for and runs on; never changes  *)
  (* the kernel and the Tokio driver *)
  peer,       (* the connected peer, or NoAddr                             *)
  queued,     (* datagrams in the send buffer                              *)
  edge,       (* an edge-triggered writable event not yet polled           *)
  ready,      (* Tokio's writable readiness flag of the socket             *)
  (* each task *)
  pc,         (* where the task is                                         *)
  op, batch,  (* its call                                                  *)
  connected,  (* local of the per-packet loops, read once before the loop  *)
  i, sent,    (* locals of the per-packet loops                            *)
  ret,        (* what the platform call, then the API call, returned       *)
  (* history *)
  accepted,   (* per task: what the kernel took from the current call      *)
  fresh       (* tasks for which an event was polled since they blocked    *)

kernel  == <<build, peer, queued, edge, ready>>
locals  == <<i, sent>>
call    == <<op, batch, connected>>
vars    == <<build, peer, queued, edge, ready, pc, op, batch, connected, i,
             sent, ret, accepted, fresh>>

(* Which file of src/platform is compiled in; whether sendmmsg is not      *)
(* ENOSYS, or dlsym finds sendmsg_x; whether the tokio feature is on;      *)
(* whether the socket is an IPv6 one.                                      *)
Platform     == build.platform
BatchSyscall == build.batchSyscall
Tokio        == build.tokio
V6           == build.v6

Ok(n)      == [kind |-> "Ok", n |-> n]
Failed(k)  == [kind |-> k, n |-> 0]

Init ==
  /\ build \in Builds
  /\ peer = NoAddr
  /\ queued = 0
  /\ edge = TRUE          (* registration reports a writable socket *)
  /\ ready = FALSE
  /\ pc        = [t \in Tasks |-> "idle"]
  /\ op        = [t \in Tasks |-> "none"]
  /\ batch     = [t \in Tasks |-> << >>]
  /\ connected = [t \in Tasks |-> FALSE]
  /\ i         = [t \in Tasks |-> 1]
  /\ sent      = [t \in Tasks |-> 0]
  /\ ret       = [t \in Tasks |-> Failed("None")]
  /\ accepted  = [t \in Tasks |-> << >>]
  /\ fresh     = {}

-----------------------------------------------------------------------------
(***************************************************************************)
(* The message headers a batch syscall is given.  addr_idx counts the      *)
(* entries with a destination before entry j.  The stack path stores the   *)
(* k-th destination at addrs[k]; the Vec path (and macOS) pushes one       *)
(* storage per entry, zeroed when it has no destination, and then points   *)
(* entry j at addrs[addr_idx] all the same.                                *)
(***************************************************************************)
addr_idx(b, j) == Cardinality({k \in 1 .. j - 1 : b[k] # NoAddr})

VecAddrs(b) == [j \in DOMAIN b |-> IF b[j] = NoAddr THEN Zeroed ELSE b[j]]

(* Mutant: the stack path stores one address per entry, too. *)
MutStackAddrs(b) == VecAddrs(b)

StackAddrs(b) ==
  [k \in 1 .. addr_idx(b, Len(b) + 1) |->
     b[CHOOSE j \in DOMAIN b : b[j] # NoAddr /\ addr_idx(b, j) = k - 1]]

OnStack(b) == Platform = "linux" /\ Len(b) <= MAX_STACK

MsgNames(b) ==
  LET addrs == IF OnStack(b) THEN StackAddrs(b) ELSE VecAddrs(b) IN
  [j \in DOMAIN b |->
     IF b[j] = NoAddr THEN NoAddr ELSE addrs[addr_idx(b, j) + 1]]

(***************************************************************************)
(* The kernel (external): a send names a destination or relies on the      *)
(* peer; without either, or on macOS with an address on a connected socket *)
(* (EISCONN), it is refused.  A zeroed address is refused, too, but for an *)
(* IPv6 socket of Linux: udpv6_sendmsg takes AF_UNSPEC for no address.     *)
(***************************************************************************)
ZeroedIsNoAddr == Platform = "linux" /\ V6

Destination(name) ==
  IF name = NoAddr \/ (name = Zeroed /\ ZeroedIsNoAddr) THEN peer ELSE name

Deliverable(name) ==
  /\ Destination(name) \in Addrs
  /\ ~ (Platform = "macos" /\ peer # NoAddr /\ name # NoAddr)

Space == SndBuf - queued

(* Where a datagram goes that the kernel took.  sendmsg_x may report an    *)
(* unnamed one on a connected socket as sent and drop it (macos.rs:75).    *)
Reached(t, name, drops) ==
  IF drops /\ pc[t] = "syscall" /\ name = NoAddr THEN NoAddr ELSE Destination(name)

(* The kernel takes entries from .. from + Len(names) - 1 of t's batch. *)
Accept(t, from, names) ==
  /\ queued' = queued + Len(names)
  /\ \E drops \in BOOLEAN :
       accepted' = [accepted EXCEPT ![t] = @ \o
         [j \in 1 .. Len(names) |->
            [idx |-> from + j - 1, dest |-> Reached(t, names[j], drops)]]]

(* platform::try_send_batch returns r and its locals go out of scope. *)
PlatformReturns(t, r) ==
  /\ pc' = [pc EXCEPT ![t] = "returned"]
  /\ ret' = [ret EXCEPT ![t] = r]
  /\ i' = [i EXCEPT ![t] = 1]
  /\ sent' = [sent EXCEPT ![t] = 0]

-----------------------------------------------------------------------------
(***************************************************************************)
(* The calls.                                                              *)
(***************************************************************************)

(* A task calls an entry point; send_to and try_send_to build a one-entry  *)
(* batch with a destination.                                               *)
Call(t, o, b) ==
  /\ pc[t] = "idle"
  /\ o \in SingleOps => Len(b) = 1 /\ b[1] # NoAddr
  /\ pc' = [pc EXCEPT ![t] = "attempt"]
  /\ op' = [op EXCEPT ![t] = o]
  /\ batch' = [batch EXCEPT ![t] = b]
  /\ connected' = [connected EXCEPT ![t] = FALSE]
  /\ ret' = [ret EXCEPT ![t] = Failed("None")]
  /\ accepted' = [accepted EXCEPT ![t] = << >>]
  /\ UNCHANGED <<kernel, i, sent, fresh>>

(* platform::try_send_batch: nothing to send. *)
EmptyBatch(t) ==
  /\ pc[t] = "attempt" /\ batch[t] = << >>
  /\ PlatformReturns(t, Ok(0))
  /\ UNCHANGED <<kernel, call, accepted, fresh>>

(* is_connected(fd), read once: everywhere but on Linux with sendmmsg.     *)
(* macOS goes on to sendmsg_x only on an unconnected socket, all others to *)
(* the per-packet loop.                                                    *)
ReadConnected(t) ==
  /\ pc[t] = "attempt" /\ batch[t] # << >>
  /\ ~ (Platform = "linux" /\ BatchSyscall)
  /\ connected' = [connected EXCEPT ![t] = (peer # NoAddr)]
  /\ pc' = [pc EXCEPT ![t] =
              IF Platform = "macos" /\ peer = NoAddr /\ BatchSyscall
              THEN "syscall" ELSE "loop"]
  /\ i' = [i EXCEPT ![t] = 1]
  /\ sent' = [sent EXCEPT ![t] = 0]
  /\ UNCHANGED <<kernel, op, batch, ret, accepted, fresh>>

(***************************************************************************)
(* sendmmsg / sendmsg_x: the kernel takes a prefix of the messages and     *)
(* reports its length; it reports an error only when that prefix is empty. *)
(***************************************************************************)
AtBatchSyscall(t) ==
  \/ pc[t] = "syscall"
  \/ /\ pc[t] = "attempt" /\ batch[t] # << >>
     /\ Platform = "linux" /\ BatchSyscall

(* Mutants: the count is taken from the batch, not from the kernel; a      *)
(* partial send is reported as WouldBlock.                                 *)
MutTakes(t, k, r) ==
  LET names == MsgNames(batch[t]) IN
  /\ AtBatchSyscall(t)
  /\ k \in 1 .. Len(names) /\ k <= Space
  /\ \A j \in 1 .. k : Deliverable(names[j])
  /\ Accept(t, 1, SubSeq(names, 1, k))
  /\ PlatformReturns(t, IF k = Len(names) THEN Ok(k) ELSE r)
  /\ UNCHANGED <<build, peer, edge, ready, call, fresh>>
MutTakesAll(t, k)    == MutTakes(t, k, Ok(Len(batch[t])))
MutTakesBlocks(t, k) == MutTakes(t, k, Failed("WouldBlock"))

BatchSyscallTakes(t, k) ==
  LET names == MsgNames(batch[t]) IN
  /\ AtBatchSyscall(t)
  /\ k \in 1 .. Len(names) /\ k <= Space
  /\ \A j \in 1 .. k : Deliverable(names[j])
  /\ \/ k = Len(names) \/ k = Space \/ HardErrors
     \/ k < Len(names) /\ ~ Deliverable(names[k + 1])
  /\ Accept(t, 1, SubSeq(names, 1, k))
  /\ PlatformReturns(t, Ok(k))
  /\ UNCHANGED <<build, peer, edge, ready, call, fresh>>

(* Mutant: WouldBlock becomes Ok(0), as in the per-packet loops. *)
MutBatchSyscallBlocks(t) ==
  /\ AtBatchSyscall(t)
  /\ Space = 0 /\ Deliverable(MsgNames(batch[t])[1])
  /\ PlatformReturns(t, Ok(0))
  /\ UNCHANGED <<kernel, call, accepted, fresh>>

BatchSyscallBlocks(t) ==
  /\ AtBatchSyscall(t)
  /\ Space = 0 /\ Deliverable(MsgNames(batch[t])[1])
  /\ PlatformReturns(t, Failed("WouldBlock"))
  /\ UNCHANGED <<kernel, call, accepted, fresh>>

(* Mutant: the result -1 is not tested. *)
MutBatchSyscallFails(t) ==
  /\ AtBatchSyscall(t)
  /\ HardErrors \/ ~ Deliverable(MsgNames(batch[t])[1])
  /\ PlatformReturns(t, Ok(-1))
  /\ UNCHANGED <<kernel, call, accepted, fresh>>

BatchSyscallFails(t) ==
  /\ AtBatchSyscall(t)
  /\ HardErrors \/ ~ Deliverable(MsgNames(batch[t])[1])
  /\ PlatformReturns(t, Failed("Error"))
  /\ UNCHANGED <<kernel, call, accepted, fresh>>

(***************************************************************************)
(* The per-packet loop: fallback.rs, fallback_send of linux.rs, the two    *)
(* loops of macos.rs and the WSASendMsg loop of windows.rs.  A connected   *)
(* socket sends without an address.                                        *)
(***************************************************************************)
PacketName(t) == IF connected[t] THEN NoAddr ELSE batch[t][i[t]]

AtPacket(t) == pc[t] = "loop" /\ i[t] <= Len(batch[t])

LoopSends(t) ==
  /\ AtPacket(t)
  /\ Space > 0 /\ Deliverable(PacketName(t))
  /\ Accept(t, i[t], <<PacketName(t)>>)
  /\ i' = [i EXCEPT ![t] = @ + 1]
  /\ sent' = [sent EXCEPT ![t] = @ + 1]
  /\ UNCHANGED <<build, peer, edge, ready, pc, op, batch, connected, ret, fresh>>

(* Mutant: the packet that would block is counted. *)
MutLoopBlocks(t) ==
  /\ AtPacket(t)
  /\ Space = 0 /\ Deliverable(PacketName(t))
  /\ PlatformReturns(t, Ok(i[t]))
  /\ UNCHANGED <<kernel, call, accepted, fresh>>

(* A WouldBlock ends the loop with a count, even with a count of zero. *)
LoopBlocks(t) ==
  /\ AtPacket(t)
  /\ Space = 0 /\ Deliverable(PacketName(t))
  /\ PlatformReturns(t, Ok(sent[t]))
  /\ UNCHANGED <<kernel, call, accepted, fresh>>

(* Mutant: the Windows backend returns the error, too. *)
MutLoopFails(t) ==
  /\ AtPacket(t)
  /\ HardErrors \/ ~ Deliverable(PacketName(t))
  /\ PlatformReturns(t, Failed("Error"))
  /\ UNCHANGED <<kernel, call, accepted, fresh>>

(* Any other error is returned; only Windows prefers the count so far. *)
LoopFails(t) ==
  /\ AtPacket(t)
  /\ HardErrors \/ ~ Deliverable(PacketName(t))
  /\ PlatformReturns(t, IF Platform = "windows" /\ sent[t] > 0
                        THEN Ok(sent[t]) ELSE Failed("Error"))
  /\ UNCHANGED <<kernel, call, accepted, fresh>>

LoopEnds(t) ==
  /\ pc[t] = "loop" /\ i[t] > Len(batch[t])
  /\ PlatformReturns(t, Ok(sent[t]))
  /\ UNCHANGED <<kernel, call, accepted, fresh>>

-----------------------------------------------------------------------------
(***************************************************************************)
(* The wrappers of socket.rs.                                              *)
(***************************************************************************)

(* Mutants: send_batch sends a batch that was sent in part again; it hands *)
(* WouldBlock to the caller.                                               *)
MutFinishResends(t) ==
  /\ pc[t] = "returned" /\ ret[t].kind = "Ok"
  /\ pc' = [pc EXCEPT ![t] = IF ret[t].n < Len(batch[t]) THEN "attempt" ELSE "idle"]
  /\ fresh' = fresh \ {t}
  /\ UNCHANGED <<kernel, locals, call, ret, accepted>>
MutFinishAll(t) ==
  /\ pc[t] = "returned"
  /\ pc' = [pc EXCEPT ![t] = "idle"]
  /\ fresh' = fresh \ {t}
  /\ UNCHANGED <<kernel, locals, call, ret, accepted>>

(* The call returns what the platform returned; send_to and try_send_to    *)
(* drop the count and return Ok(buf.len()), that is: the datagram is sent. *)
Finish(t) ==
  /\ pc[t] = "returned"
  /\ ~ (op[t] \in AsyncOps /\ ret[t].kind = "WouldBlock")
  /\ pc' = [pc EXCEPT ![t] = "idle"]
  /\ ret' = [ret EXCEPT ![t] =
               IF op[t] \in SingleOps /\ @.kind = "Ok" THEN Ok(1) ELSE @]
  /\ fresh' = fresh \ {t}
  /\ UNCHANGED <<kernel, locals, call, accepted>>

(* Mutant: the readiness is cleared before the wait, whatever was polled   *)
(* since the syscall.                                                      *)
MutBlock(t) ==
  /\ pc[t] = "returned" /\ Tokio
  /\ op[t] \in AsyncOps /\ ret[t].kind = "WouldBlock"
  /\ pc' = [pc EXCEPT ![t] = "waiting"]
  /\ ready' = FALSE
  /\ UNCHANGED <<build, peer, queued, edge, locals, call, ret, accepted, fresh>>

(* send_batch on WouldBlock: wait_writable().await; without the tokio      *)
(* feature that is an error at once.                                       *)
Block(t) ==
  /\ pc[t] = "returned"
  /\ op[t] \in AsyncOps /\ ret[t].kind = "WouldBlock"
  /\ \/ /\ Tokio
        /\ pc' = [pc EXCEPT ![t] = "waiting"]
        /\ UNCHANGED <<ret, fresh>>
     \/ /\ ~ Tokio
        /\ pc' = [pc EXCEPT ![t] = "idle"]
        /\ ret' = [ret EXCEPT ![t] = Failed("Error")]
        /\ fresh' = fresh \ {t}
  /\ UNCHANGED <<kernel, locals, call, accepted>>

(* writable() completes as soon as the readiness flag is set.  Only an I/O *)
(* call made through Tokio clears that flag, and the backends make theirs  *)
(* on the raw descriptor, so no action here clears it.                     *)
Resume(t) ==
  /\ pc[t] = "waiting" /\ ready
  /\ pc' = [pc EXCEPT ![t] = "attempt"]
  /\ fresh' = fresh \ {t}
  /\ UNCHANGED <<kernel, locals, call, ret, accepted>>

(* The wait ends early: the driver is gone, or the future is dropped.      *)
WaitEnds(t, kind) ==
  /\ pc[t] = "waiting"
  /\ kind = "Error" => HardErrors
  /\ pc' = [pc EXCEPT ![t] = "idle"]
  /\ ret' = [ret EXCEPT ![t] = Failed(kind)]
  /\ fresh' = fresh \ {t}
  /\ UNCHANGED <<kernel, locals, call, accepted>>

-----------------------------------------------------------------------------
(* connect(), from any thread at any time. *)
Connect(a) ==
  /\ peer' = a
  /\ UNCHANGED <<build, queued, edge, ready, pc, locals, call, ret, accepted, fresh>>

(* The kernel transmits a datagram, which raises a writable edge ...       *)
Drain ==
  /\ queued > 0
  /\ queued' = queued - 1
  /\ edge' = TRUE
  /\ UNCHANGED <<build, peer, ready, pc, locals, call, ret, accepted, fresh>>

(* ... and the Tokio driver turns the edge into readiness.                 *)
DriverPolls ==
  /\ Tokio /\ edge
  /\ edge' = FALSE
  /\ ready' = TRUE
  /\ fresh' = {t \in Tasks : pc[t] \in {"returned", "waiting"}}
  /\ UNCHANGED <<build, peer, queued, pc, locals, call, ret, accepted>>

TakeStep(t) == \E k \in 1 .. SndBuf : BatchSyscallTakes(t, k)

(* What a task does once it is in a call, apart from being cancelled. *)
Progress(t) ==
  \/ EmptyBatch(t) \/ ReadConnected(t)
  \/ TakeStep(t) \/ BatchSyscallBlocks(t) \/ BatchSyscallFails(t)
  \/ LoopSends(t) \/ LoopBlocks(t) \/ LoopFails(t) \/ LoopEnds(t)
  \/ Finish(t) \/ Block(t) \/ Resume(t)

NewCall == \E t \in Tasks, o \in Ops, b \in Batches : Call(t, o, b)

Next ==
  \/ NewCall
  \/ \E t \in Tasks : Progress(t)
  \/ \E t \in Tasks, kind \in {"Error", "Cancelled"} : WaitEnds(t, kind)
  \/ \E a \in Addrs : Connect(a)
  \/ Drain
  \/ DriverPolls

Spec == Init /\ [][Next]_vars

(* Tasks in a call are scheduled, the kernel transmits, the driver polls. *)
FairSpec ==
  /\ Spec
  /\ \A t \in Tasks : WF_vars(Progress(t))
  /\ WF_vars(Drain) /\ WF_vars(DriverPolls)

-----------------------------------------------------------------------------
(***************************************************************************)
(* Properties.                                                             *)
(***************************************************************************)
Kinds == {"None", "Ok", "WouldBlock", "Error", "Cancelled"}

(* The kernel's buffer is never overfilled and every task is at one of the *)
(* points of the send path with locals of their types.                     *)
TypeOK ==
  /\ build \in Builds
  /\ peer \in Addrs \cup {NoAddr}
  /\ queued \in 0 .. SndBuf
  /\ edge \in BOOLEAN /\ ready \in BOOLEAN
  /\ pc \in [Tasks -> {"idle", "attempt", "syscall", "loop", "returned", "waiting"}]
  /\ op \in [Tasks -> Ops \cup {"none"}]
  /\ batch \in [Tasks -> Seq(Addrs \cup {NoAddr})]
  /\ connected \in [Tasks -> BOOLEAN]
  /\ i \in [Tasks -> Nat] /\ sent \in [Tasks -> Nat]
  /\ ret \in [Tasks -> [kind : Kinds, n : Nat]]
  /\ accepted \in [Tasks -> Seq([idx : Nat, dest : Addrs \cup {NoAddr}])]
  /\ fresh \in SUBSET Tasks

(* Whatever mixture of retries, partial sends, cancellations and other     *)
(* tasks a call meets, the kernel has taken a prefix of its batch: each    *)
(* entry at most once, in order, none skipped.                             *)
PrefixOnce ==
  \A t \in Tasks :
    /\ Len(accepted[t]) <= Len(batch[t])
    /\ \A j \in 1 .. Len(accepted[t]) : accepted[t][j].idx = j

(* The count that send_batch or try_send_batch returns with Ok is the      *)
(* number of entries the kernel took, so the caller knows where to go on.  *)
CountIsTruth ==
  \A t \in Tasks :
    (pc[t] = "idle" /\ ret[t].kind = "Ok" /\ op[t] \notin SingleOps)
    => ret[t].n = Len(accepted[t])

(* send_batch can be dropped at its await (select!, timeout) and can be    *)
(* retried after WouldBlock: at that point nothing of the batch has been   *)
(* sent.                                                                   *)
CancelSafe ==
  \A t \in Tasks :
    (pc[t] = "waiting" \/ (pc[t] = "idle" /\ ret[t].kind \in {"Cancelled", "WouldBlock"}))
    => accepted[t] = << >>

(* The backends whose errors hide nothing: sendmmsg reports an error only  *)
(* for the first entry, the Windows loop prefers the count.                *)
Lossless == Platform = "windows" \/ (Platform = "linux" /\ BatchSyscall)

(* On those backends an error return means that nothing was sent, so the   *)
(* caller may resend the whole batch without duplicating a datagram.       *)
ErrorMeansNothingSent ==
  Lossless =>
    \A t \in Tasks :
      (pc[t] = "idle" /\ ret[t].kind = "Error") => accepted[t] = << >>

(* The addresses of b are stored where its headers look for them: on the   *)
(* stack path always, on the Vec path and on macOS when no entry without a *)
(* destination comes before one with a destination.                        *)
Aligned(b) ==
  \/ OnStack(b)
  \/ \A j, k \in DOMAIN b : (j < k /\ b[k] # NoAddr) => b[j] # NoAddr

(* What the kernel took of t's batch, but for the entries without a        *)
(* destination, went where the entry says.  A per-packet loop that found   *)
(* the socket connected strips the addresses on purpose.                   *)
OwnDestinations(t) ==
  \A j \in 1 .. Len(accepted[t]) :
    LET e == accepted[t][j] IN
    (batch[t][e.idx] # NoAddr /\ ~ connected[t]) => e.dest = batch[t][e.idx]

(* A destination given to push() is the destination the kernel gets, also  *)
(* when another thread connects the socket in the middle of the call and   *)
(* when the address table is misaligned: the kernel then stops before the  *)
(* first wrong header.  Only where it takes a zeroed address for none does *)
(* this need an aligned batch.                                             *)
DestinationHonoured ==
  \A t \in Tasks : (ZeroedIsNoAddr => Aligned(batch[t])) => OwnDestinations(t)

(* send_batch and send_to handle WouldBlock internally: it is never what   *)
(* they return, not even without the tokio feature, when they cannot wait. *)
AsyncHidesWouldBlock ==
  \A t \in Tasks :
    (pc[t] = "idle" /\ op[t] \in AsyncOps) => ret[t].kind # "WouldBlock"

(* When send_to reports success, the kernel took the datagram.             *)
SendToSends ==
  \A t \in Tasks :
    (pc[t] = "idle" /\ ret[t].kind = "Ok" /\ op[t] \in SingleOps)
    => Len(accepted[t]) = 1

(* Two statements of the documentation, of which one at least is kept at   *)
(* every step.  batch.rs of an entry with an address: "the packet is sent  *)
(* to that specific address".  socket.rs of waiting "without busy-looping":*)
(* a task that blocked tries again only after the driver has polled an     *)
(* event that is newer than the block.  Violated on an IPv6 socket, by a   *)
(* misaligned batch of one task and the wait of another.                   *)
SendsAsDocumented ==
  [][ \/ \A t \in Tasks : OwnDestinations(t)
      \/ \A t \in Tasks : Resume(t) => t \in fresh ]_vars

(* If the callers stop making new calls, every outstanding call returns:   *)
(* no wakeup is lost between WouldBlock and wait_writable.                 *)
CallsReturn ==
  <>[][~ NewCall]_vars => \A t \in Tasks : <>[](pc[t] = "idle")
=============================================================================
