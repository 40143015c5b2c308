------------------------------- MODULE Accounting -------------------------------
(***************************************************************************)
(* What BingerUdp keeps about its own I/O: the counters of BingerMetrics   *)
(* (src/metrics.rs) and the adaptive controller, both updated by the       *)
(* wrappers try_send_batch / send_batch and try_recv_batch / recv_batch of *)
(* src/socket.rs around the platform call, while another thread takes      *)
(* snapshots of the counters and resets them.                              *)
(*                                                                         *)
(* The send and the receive side are the same code over disjoint counters  *)
(* and controllers, but for recv_batch taking Ok(0) for WouldBlock; "dir"  *)
(* says which one a behaviour is about.  The platform call is reduced to   *)
(* what SendPath and RecvPath show of it: its result, the datagrams it     *)
(* moved and the syscalls it made.                                         *)
(*                                                                         *)
(* The counters are relaxed atomics, each incremented, loaded or stored on *)
(* its own, here in program order: in another order no single counter or   *)
(* field of a snapshot could have a further value, and nothing is claimed  *)
(* of two of them while a call is under way.                               *)
(***************************************************************************)
EXTENDS AdaptiveState, FiniteSets, Sequences

CONSTANTS
  Tasks,         (* tasks or threads holding &BingerUdp                    *)
  Dirs,          (* the sides looked at: "send", "recv"                    *)
  Backends,      (* "syscall": one syscall per batch, "loop": one per      *)
                 (* datagram                                               *)
  MaxBatch,      (* entries or slots of a batch that has any               *)
  InitialSizes,  (* values of Config.batch_size                            *)
  MaxRetries,    (* bound: times one syscall is interrupted                *)
  MaxOverflow,   (* bound: datagrams of one receive that find no slot      *)
  MaxAttempts,   (* bound: platform calls                                  *)
  MaxWatches     (* bound: calls of snapshot() and reset()                 *)

ASSUME AccountingAssumption ==
  /\ Dirs \subseteq {"send", "recv"} /\ Backends \subseteq {"syscall", "loop"}
  /\ MaxBatch \in Nat \ {0} /\ MaxAttempts \in Nat /\ MaxWatches \in Nat
  /\ MaxRetries \in Nat /\ MaxOverflow \in Nat
  /\ InitialSizes \subseteq Nat

VARIABLES
  dir, backend,  (* which side, on which kind of backend; never change     *)
  counter,       (* BingerMetrics, the five counters of this side          *)
  state,         (* the AdaptiveState behind this side's Mutex             *)
  (* each task *)
  pc,            (* where the task is                                      *)
  op,            (* in try_*_batch or in *_batch, where it matters: when   *)
                 (* the result would make the latter wait                  *)
  ret,           (* what the platform call returned                        *)
  todo,          (* counters this call still has to increment              *)
  (* the thread that watches the counters *)
  watch,         (* the call it is in: "none", "snapshot" or "reset"       *)
  left,          (* loads or stores that call still has to make            *)
  snap,          (* the MetricsSnapshot so far                             *)
  (* history *)
  calls, watches,  (* platform calls, and calls of the watcher, so far     *)
  truth,         (* what happened since the last reset()                   *)
  clean,         (* no reset() overlapped a call that was counting         *)
  start,         (* the counters when snapshot() was called                *)
  since,         (* per counter: added since the last reset() was called   *)
  attempts, repeats  (* see AdaptiveBatching                               *)

tasks   == <<pc, op, ret, todo>>
watcher == <<watch, left, snap, start, watches>>
fixed   == <<dir, backend>>
history == <<calls, truth, clean>>
control == <<state, attempts, repeats>>
vars    == <<dir, backend, counter, state, pc, op, ret, todo, watch, left, snap,
             calls, watches, truth, clean, start, since, attempts, repeats>>

Counters == {"packets", "batches", "syscalls", "errors", "would_block"}

(* syscall_efficiency is computed from two further loads.  It is about     *)
(* sends whatever else is in the snapshot.                                 *)
Ratio  == {"ratio_packets", "ratio_syscalls"}
Fields == Counters \cup Ratio

StoreOrder == <<"packets", "batches", "syscalls", "errors", "would_block">>
LoadOrder  == IF dir = "send" THEN StoreOrder \o <<"ratio_packets", "ratio_syscalls">>
              ELSE StoreOrder

CounterOf(f) == CASE f = "ratio_packets"  -> "packets"
                  [] f = "ratio_syscalls" -> "syscalls"
                  [] OTHER                -> f

NoResult == [kind |-> "None", n |-> 0]
Zero    == [c \in Counters |-> 0]
NoTruth == [packets |-> 0, batches |-> 0, errors |-> 0, would_block |-> 0,
            made |-> 0, moved |-> 0, empty |-> 0]

Init ==
  /\ dir \in Dirs /\ backend \in Backends
  /\ counter = Zero
  /\ \E initial \in InitialSizes : state = new(initial)
  /\ pc   = [t \in Tasks |-> "idle"]
  /\ op   = [t \in Tasks |-> "none"]
  /\ ret  = [t \in Tasks |-> NoResult]
  /\ todo = [t \in Tasks |-> <<>>]
  /\ watch = "none" /\ left = <<>>
  /\ snap = <<>> /\ start = Zero
  /\ calls = 0 /\ watches = 0 /\ truth = NoTruth /\ clean = TRUE
  /\ since = Zero
  /\ attempts = 0 /\ repeats = 0

-----------------------------------------------------------------------------
(***************************************************************************)
(* The platform call.  A batch syscall moves some datagrams or fails, and  *)
(* retry_eintr repeats it when it is interrupted; a receive that splits    *)
(* coalesced messages breaks off when the slots are used up, with          *)
(* datagrams left over.  A loop stops at WouldBlock with the count so far, *)
(* even zero, and an error hides that count, except on Windows.  A batch   *)
(* without entries or slots returns at once.                               *)
(***************************************************************************)
Outcome(kind, n, moved, made) ==
  [kind |-> kind, n |-> n, moved |-> moved, made |-> made]

SyscallOutcomes ==
  LET Made == 1 .. 1 + MaxRetries IN
  {Outcome("Ok", n, n, m) : n \in 1 .. MaxBatch, m \in Made}
  \cup {Outcome(k, 0, 0, m) : k \in {"WouldBlock", "Error"}, m \in Made}

OverflowOutcomes ==
  {Outcome("Ok", MaxBatch, MaxBatch + lost, m) :
     lost \in 1 .. MaxOverflow, m \in 1 .. 1 + MaxRetries}

LoopOutcomes ==
  {Outcome("Ok", MaxBatch, MaxBatch, MaxBatch)}
  \cup {Outcome("Ok", n, n, n + 1) : n \in 0 .. MaxBatch - 1}
  \cup {Outcome("Error", 0, n, n + 1) : n \in 0 .. MaxBatch - 1}

Outcomes ==
  (IF backend = "loop" THEN LoopOutcomes
   ELSE IF dir = "recv" THEN SyscallOutcomes \cup OverflowOutcomes
   ELSE SyscallOutcomes)
  \cup {Outcome("Ok", 0, 0, 0)}

Counting(t) == pc[t] \in {"record", "count"}

Happened(r) ==
  LET one(b) == IF b THEN 1 ELSE 0 IN
  [packets     |-> truth.packets + r.n,
   batches     |-> truth.batches + one(r.kind = "Ok"),
   errors      |-> truth.errors + one(r.kind # "Ok"),
   would_block |-> truth.would_block + one(r.kind = "WouldBlock"),
   made        |-> truth.made + r.made,
   moved       |-> truth.moved + r.moved,
   empty       |-> truth.empty + one(r.made = 0)]

(* Mutant: an error is counted and then not returned. *)
MutIncrements(r) ==
  CASE r.kind = "Ok"         -> <<"packets", "batches", "syscalls">>
    [] r.kind = "WouldBlock" -> <<"errors", "would_block">>
    [] OTHER                 -> <<"errors", "packets", "batches", "syscalls">>

(* The counters a result is worth. *)
Increments(r) ==
  CASE r.kind = "Ok"         -> <<"packets", "batches", "syscalls">>
    [] r.kind = "WouldBlock" -> <<"errors", "would_block">>
    [] OTHER                 -> <<"errors">>

(* The async entry points wait on WouldBlock, and on the receive side also *)
(* on Ok(0).                                                               *)
WouldWait(r) ==
  \/ r.kind = "WouldBlock"
  \/ dir = "recv" /\ r.kind = "Ok" /\ r.n = 0

(* try_*_batch or *_batch is called, or the wait of an earlier attempt     *)
(* ends, and platform::try_*_batch returns; an Ok is recorded by the       *)
(* controller before it is counted.                                        *)
Attempt(t, o, r) ==
  /\ pc[t] = "idle" \/ (pc[t] = "waiting" /\ o # "try")
  /\ o \in (IF WouldWait(r) THEN {"try", "async"} ELSE {"either"})
  /\ calls < MaxAttempts
  /\ op' = [op EXCEPT ![t] = o]
  /\ pc' = [pc EXCEPT ![t] = IF r.kind = "Ok" THEN "record" ELSE "count"]
  /\ ret' = [ret EXCEPT ![t] = [kind |-> r.kind, n |-> r.n]]
  /\ todo' = [todo EXCEPT ![t] = Increments(r)]
  /\ calls' = calls + 1
  /\ truth' = Happened(r)
  /\ clean' = (clean /\ watch # "reset")
  /\ UNCHANGED <<fixed, counter, control, watcher, since>>

(* Critical section of the controller's Mutex: record_event(). *)
RecordEvent(t) ==
  /\ pc[t] = "record"
  /\ state' = record_event(state)
  /\ attempts' = attempts + 1
  /\ pc' = [pc EXCEPT ![t] = "count"]
  /\ UNCHANGED <<fixed, counter, repeats, op, ret, todo, watcher, history, since>>

Amount(t, c) == IF c = "packets" THEN ret[t].n ELSE 1

(* Mutant: the counter is stored, not added to. *)
MutIncrement(t) ==
  LET c == Head(todo[t]) IN
  /\ pc[t] = "count" /\ todo[t] # <<>>
  /\ counter' = [counter EXCEPT ![c] = Amount(t, c)]
  /\ since' = [since EXCEPT ![c] = @ + Amount(t, c)]
  /\ todo' = [todo EXCEPT ![t] = Tail(@)]
  /\ UNCHANGED <<fixed, control, pc, op, ret, watcher, history>>

(* inc_*: one fetch_add. *)
Increment(t) ==
  LET c == Head(todo[t]) IN
  /\ pc[t] = "count" /\ todo[t] # <<>>
  /\ counter' = [counter EXCEPT ![c] = @ + Amount(t, c)]
  /\ since' = [since EXCEPT ![c] = @ + Amount(t, c)]
  /\ todo' = [todo EXCEPT ![t] = Tail(@)]
  /\ UNCHANGED <<fixed, control, pc, op, ret, watcher, history>>

-----------------------------------------------------------------------------
MustWait(t) == op[t] = "async" /\ WouldWait(ret[t])

(* An Ok(0) that is recorded a second time, as a WouldBlock. *)
SeenEmpty(t) == ret[t].kind = "Ok"

Finish(t) ==
  /\ pc[t] = "count" /\ todo[t] = <<>> /\ ~ MustWait(t)
  /\ pc' = [pc EXCEPT ![t] = "idle"]
  /\ op' = [op EXCEPT ![t] = "none"]
  /\ ret' = [ret EXCEPT ![t] = NoResult]
  /\ UNCHANGED <<fixed, counter, control, todo, watcher, history, since>>

(* Mutant: an Ok(0) is not recorded as a WouldBlock. *)
MutBlock(t) ==
  /\ pc[t] = "count" /\ todo[t] = <<>> /\ MustWait(t)
  /\ state' = maybe_adjust(IF SeenEmpty(t) THEN state ELSE record_would_block(state))
  /\ pc' = [pc EXCEPT ![t] = "waiting"]
  /\ ret' = [ret EXCEPT ![t] = NoResult]
  /\ UNCHANGED <<fixed, counter, attempts, repeats, op, todo, watcher, history, since>>

(* Critical section: record_would_block(), maybe_adjust(); then the wait.  *)
Block(t) ==
  LET counted == record_would_block(state) IN
  /\ pc[t] = "count" /\ todo[t] = <<>> /\ MustWait(t)
  /\ state' = maybe_adjust(counted)
  /\ IF AdjustmentDue(counted) THEN attempts' = 0 /\ repeats' = 0
     ELSE IF SeenEmpty(t) THEN repeats' = repeats + 1 /\ UNCHANGED attempts
     ELSE attempts' = attempts + 1 /\ UNCHANGED repeats
  /\ pc' = [pc EXCEPT ![t] = "waiting"]
  /\ ret' = [ret EXCEPT ![t] = NoResult]
  /\ UNCHANGED <<fixed, counter, op, todo, watcher, history, since>>

(* The future is dropped while it waits. *)
Cancel(t) ==
  /\ pc[t] = "waiting"
  /\ pc' = [pc EXCEPT ![t] = "idle"]
  /\ op' = [op EXCEPT ![t] = "none"]
  /\ UNCHANGED <<fixed, counter, control, ret, todo, watcher, history, since>>

Tick ==
  /\ state.elapsed < ADJUSTMENT_INTERVAL
  /\ state' = [state EXCEPT !.elapsed = @ + 1]
  /\ UNCHANGED <<fixed, counter, attempts, repeats, tasks, watcher, history, since>>

-----------------------------------------------------------------------------
(***************************************************************************)
(* The watching thread.                                                    *)
(***************************************************************************)
SnapshotBegins ==
  /\ watch = "none" /\ watches < MaxWatches
  /\ watches' = watches + 1
  /\ watch' = "snapshot" /\ left' = LoadOrder
  /\ start' = counter
  /\ UNCHANGED <<fixed, counter, control, tasks, snap, history, since>>

(* Mutant: every field is loaded from packets_sent. *)
MutLoad ==
  /\ watch = "snapshot" /\ left # <<>>
  /\ snap' = [f \in DOMAIN snap \cup {Head(left)} |->
               IF f \in DOMAIN snap THEN snap[f] ELSE counter["packets"]]
  /\ left' = Tail(left)
  /\ UNCHANGED <<fixed, counter, control, tasks, watch, start, watches, history, since>>

Load ==
  /\ watch = "snapshot" /\ left # <<>>
  /\ snap' = [f \in DOMAIN snap \cup {Head(left)} |->
               IF f \in DOMAIN snap THEN snap[f] ELSE counter[CounterOf(f)]]
  /\ left' = Tail(left)
  /\ UNCHANGED <<fixed, counter, control, tasks, watch, start, watches, history, since>>

(* Mutant: one of the counters is left out. *)
MutResetBegins ==
  /\ watch = "none" /\ watches < MaxWatches
  /\ watches' = watches + 1
  /\ watch' = "reset" /\ left' = SubSeq(StoreOrder, 1, 4)
  /\ since' = Zero
  /\ truth' = NoTruth
  /\ clean' = (\A t \in Tasks : ~ Counting(t))
  /\ UNCHANGED <<fixed, counter, control, tasks, snap, start, calls>>

ResetBegins ==
  /\ watch = "none" /\ watches < MaxWatches
  /\ watches' = watches + 1
  /\ watch' = "reset" /\ left' = StoreOrder
  /\ since' = Zero
  /\ truth' = NoTruth
  /\ clean' = (\A t \in Tasks : ~ Counting(t))
  /\ UNCHANGED <<fixed, counter, control, tasks, snap, start, calls>>

Store ==
  /\ watch = "reset" /\ left # <<>>
  /\ counter' = [counter EXCEPT ![Head(left)] = 0]
  /\ left' = Tail(left)
  /\ UNCHANGED <<fixed, control, tasks, watch, snap, start, watches, history, since>>

WatchEnds ==
  /\ watch # "none" /\ left = <<>>
  /\ watch' = "none"
  /\ snap' = <<>> /\ start' = Zero
  /\ UNCHANGED <<fixed, counter, control, tasks, left, watches, history, since>>

-----------------------------------------------------------------------------
TaskStep(t) ==
  \/ \E o \in {"try", "async", "either"}, r \in Outcomes : Attempt(t, o, r)
  \/ RecordEvent(t) \/ Increment(t) \/ Finish(t) \/ Block(t) \/ Cancel(t)

WatchStep ==
  SnapshotBegins \/ Load \/ ResetBegins \/ Store \/ WatchEnds

Next == (\E t \in Tasks : TaskStep(t)) \/ Tick \/ WatchStep

Spec == Init /\ [][Next]_vars

-----------------------------------------------------------------------------
(***************************************************************************)
(* Properties.                                                             *)
(***************************************************************************)
(* Every task is at one of the points of the wrappers, and the counters,   *)
(* the controller and the watcher have their types.                        *)
TypeOK ==
  /\ dir \in Dirs /\ backend \in Backends
  /\ counter \in [Counters -> Nat] /\ since \in [Counters -> Nat]
  /\ start \in [Counters -> Nat]
  /\ state \in AdaptiveStates
  /\ pc \in [Tasks -> {"idle", "record", "count", "waiting"}]
  /\ op \in [Tasks -> {"none", "try", "async", "either"}]
  /\ ret \in [Tasks -> [kind : {"None", "Ok", "WouldBlock", "Error"}, n : Nat]]
  /\ todo \in [Tasks -> Seq(Counters)]
  /\ watch \in {"none", "snapshot", "reset"}
  /\ left \in Seq(IF watch = "reset" THEN Counters ELSE Fields)
  /\ DOMAIN snap \subseteq Fields /\ snap \in [DOMAIN snap -> Nat]
  /\ calls \in Nat /\ watches \in Nat /\ clean \in BOOLEAN
  /\ attempts \in Nat /\ repeats \in Nat

Quiet == watch # "reset" /\ \A t \in Tasks : ~ Counting(t)

(* Between calls the counters say what the calls returned: no increment is *)
(* lost or made twice, whatever interleaves, unless a reset() overlapped a *)
(* call that was counting.  WouldBlock counts as an error, and an Ok(0) as *)
(* a batch.                                                                *)
CountersAddUp ==
  (Quiet /\ clean) =>
    /\ counter.packets = truth.packets
    /\ counter.batches = truth.batches
    /\ counter.errors = truth.errors
    /\ counter.would_block = truth.would_block

(* What the counters say of the kernel: never more than it did.  Packets   *)
(* counted were moved, and every call that was counted, as a syscall or as *)
(* an error, made at least one syscall, unless its batch was empty.  On a  *)
(* batch syscall no datagram that was sent goes uncounted.                 *)
CountersMeetKernel ==
  (Quiet /\ clean) =>
    /\ counter.packets <= truth.moved
    /\ counter.syscalls + counter.errors <= truth.made + truth.empty
    /\ (dir = "send" /\ backend = "syscall") => counter.packets = truth.moved

(* snapshot() is not "point-in-time", but each of its fields is: a value   *)
(* the counter had between the call and the return, also the two operands  *)
(* of syscall_efficiency, which are loaded again.                          *)
SnapshotBounded ==
  watch = "snapshot" =>
    \A f \in DOMAIN snap :
      start[CounterOf(f)] <= snap[f] /\ snap[f] <= counter[CounterOf(f)]

(* reset() forgets everything: once it has returned, nothing counted       *)
(* before it was called is left in any counter, although calls count while *)
(* it runs.                                                                *)
ResetForgets ==
  watch # "reset" => \A c \in Counters : counter[c] <= since[c]

(* The wrappers drive the controller as AdaptiveBatching says, so what is  *)
(* shown there of the batch size holds of BingerUdp.                       *)
Controller ==
  INSTANCE AdaptiveBatching WITH
    pending   <- Cardinality({t \in Tasks :
                   pc[t] = "count" /\ MustWait(t) /\ SeenEmpty(t)}),
    MaxTasks  <- Cardinality(Tasks),
    MaxEvents <- 2 * MaxAttempts
DrivesController == Controller!BatchingSpec
=============================================================================
