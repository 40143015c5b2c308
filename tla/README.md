# A TLA+ model of binger-udp

`binger-udp` sends and receives UDP datagrams in batches: `BingerUdp` wraps a
non-blocking socket, hands whole batches to the kernel where the platform can
take them (`sendmmsg`/`recvmmsg` on Linux, `sendmsg_x`/`recvmsg_x` on macOS) and
loops over single datagrams elsewhere. `&self` methods may be called by any
number of tasks and threads at once. This directory models that concurrent
core, model-checks it with TLC and proves its main properties with TLAPS.

## Inventory

| Part | Source | State | Operations | What is hard about it |
|---|---|---|---|---|
| Send path | `socket.rs`, `platform/*` | send buffer, peer, readiness; per call: batch, `connected`, `i`, `sent` | `send_batch`, `try_send_batch`, `send_to`, `try_send_to`, `connect` | partial sends, retry after `WouldBlock`, dropped futures, errors half way, `connect` in the middle, four backends with one contract |
| Receive path | `socket.rs`, `platform/*`, `batch.rs` | receive queue, readiness; per call: slots, `len`, `i`, `out_idx` | `recv_batch`, `try_recv_batch`, `recv_from`, `clear`, `enable_timestamping`, `enable_pktinfo` | reused batches, GRO splitting in place, interleaved receivers, `Ok(0)` as `WouldBlock`, dropped futures |
| Adaptive batching | `socket.rs` `AdaptiveState` | size, two counters, clock, behind a `Mutex` | `record_event`, `record_would_block`, `maybe_adjust` | two critical sections per attempt, integer rounding, progress only on `WouldBlock` |
| Batch containers | `batch.rs` | slots, `len` | `push`, `clear`, `set_len`, ... | indices and lengths that unsafe code relies on |
| Metrics | `metrics.rs` | ten relaxed atomics | `inc_*`, `snapshot`, `reset` | torn snapshots, reset racing increments |
| Buffer pool | `bufs.rs` | lock-free bounded queue | `get`, `put`, `clone` | limits, contents of earlier owners, pointers into recycled buffers |
| Address conversion | `sockaddr/*` | none | `encode_sockaddr`, `decode_sockaddr`, raw calls | byte order |
| GSO sending | `socket.rs`, `linux.rs` | as send path | `try_send_gso`, `send_gso` | the control buffer, and options that act on other sends |
| Options, construction | `socket.rs` | socket options | `from_std`, `set_*`, `enable_*` | errors half way, who closes the descriptor, casts, option numbers |
| Configuration, platform selection, constants | `socket.rs`, `lib.rs`, `platform/mod.rs`, `sys/*` | none | builders, tables | nothing to check |

All parts but the last are modelled; of GSO sending only one attempt is, and
only in a run that shows a departure from the documentation. `PROJECT.json` lists
every part with its status, and the hazards line by line.

## Modules

| Module | Models |
|---|---|
| `SendPath` | the send path: tasks, backends, kernel buffer, Tokio readiness |
| `BatchSend` | abstract: what a batch send promises its caller |
| `SendRefinement` | the mapping from `SendPath` to `BatchSend` |
| `SendProofs` | theorems about `SendPath` |
| `SendRefinementProofs` | that `SendPath` implements `BatchSend`, and where its datagrams go |
| `RecvPath` | the receive path with the receive batches the tasks reuse |
| `RecvLemmas`, `RecvProofs` | the invariant of `RecvPath` and the steps that preserve it, and theorems about it |
| `RecvDelivery` | that a receive hands over what the kernel gave it |
| `AdaptiveState` | the methods of `AdaptiveState` as operators on a record |
| `AdaptiveBatching` | one controller shared by tasks: its critical sections |
| `Accounting` | the wrappers of `socket.rs` with the metrics and the controller, and a thread that calls `snapshot()` and `reset()` |
| `AccountingProofs` | theorems about snapshots and resets |
| `CounterProofs` | theorems about the sums of the counters, and that the wrappers drive the controller |
| `SendBatchRaw` | the send container: `push`, `entry`, `clear` as operators on a record |
| `PooledSend` | threads that share a `BufferPool` and push its buffers into send batches |
| `SockAddr` | `encode_sockaddr` and `decode_sockaddr` as operators |
| `SocketOptions` | the option calls on Linux |
| `SocketObject` | a `BingerUdp` from `from_std` to its drop, composed of `SockAddr` and `SocketOptions` |
| `SharedProofs` | theorems about what tasks share apart from the data: `AdaptiveBatching`, `PooledSend`, and `SocketObject` with `SockAddr` and `SocketOptions` |
| `GsoSend` | `try_send_gso` and plain sends beside the option calls |
| `MCSend`, `MCRecv`, `MCAdaptive`, `MCAccounting`, `MCPool`, `MCSocket`, `MCGso` | instances for TLC |

### The send path

A task is at a program point `pc[t]`: `idle`, `attempt` (entering
`platform::try_send_batch`), `syscall` (macOS, before `sendmsg_x`), `loop` (the
per-packet loop), `returned` (the platform call is back in `socket.rs`) or
`waiting` (in `wait_writable().await`). One action per step:

| Action | Code |
|---|---|
| `Call` | the four entry points; `send_to` and `try_send_to` build a one-entry batch |
| `EmptyBatch`, `ReadConnected` | the head of `platform::try_send_batch` |
| `BatchSyscallTakes/Blocks/Fails` | `sendmmsg`, `sendmsg_x` and what the code makes of the result |
| `LoopSends/Blocks/Fails/Ends` | one turn, or the end, of a per-packet loop |
| `Finish`, `Block` | the `match` of `send_batch`, and what `send_to` returns |
| `Resume`, `WaitEnds` | the wait ends: readiness, a dead driver, a dropped future |
| `Connect` | `connect()` from any thread |
| `Drain`, `DriverPolls` | external: the kernel transmits, Tokio's driver polls |

The variable `build` is chosen in `Init` from the constant `Builds` and never
changes: the backend, whether the batch syscall exists, whether the `tokio`
feature is on and whether the socket is an IPv6 one. One run thus covers every build. `fallback_send` of `linux.rs` is
the same code as `fallback.rs`.
A batch is the sequence of its destinations, and an entry's payload is its
position. Message headers are built as the code builds them: `MsgNames` follows
the two ways `addr_idx` is used, in stack arrays and in vectors. `accepted[t]`
is a history variable: what the kernel took from the current call, and for
which destination. The counts of the kernel are datagrams, not bytes.
Two things the kernel does to names are modelled because the code meets them. A
zeroed address (`AF_UNSPEC`) is refused, except by an IPv6 socket of Linux, which
takes it for no address and sends to the peer (`ZeroedIsNoAddr`). And `sendmsg_x` may
report a datagram without a name on a connected socket as sent and drop it (`Reached`),
as the comment at `macos.rs:75` says.

Readiness follows Tokio's contract: an edge makes the flag true, `writable()`
returns while it is true, and only an operation tried *through* Tokio clears
it. The backends use the raw descriptor, so nothing in the program clears it.

### The receive path

`recvmmsg` moves one message at a time from the queue to the slots, so that
several receivers interleave inside it; the loop over the received messages is
one step per message. A slot holds a buffer, `recv_len`, `addr` and the
ancillary data (timestamp and destination, which the code treats alike).
Datagrams are numbered as they arrive; GRO makes a message of several. The
split of a coalesced message is given in closed form (`SplitSlots`), reading
the buffer of slot `out_idx` as the code does. Indexing past the slots is the
program point `panicked`. `taken[t]` is the history of the call. `build` says
whether there is a batch syscall, whether ancillary data is switched on by the
callers, how many datagrams GRO may coalesce, and whether there is `tokio`.

### Adaptive batching

`last_adjustment` is the time since then, saturating at the interval, because
the code only asks whether the interval is over. The floating-point thresholds
are multiplied out. `pending` counts the tasks between the two critical sections
of an empty receive; `attempts` and `repeats` are histories since the last
adjustment: attempts, and second countings of the same attempt. `dir` and `backend`,
fixed in `Init`, say whose controller it is: any receive may return `Ok(0)` (a
`recvfrom` loop on an empty socket, every backend on a batch of capacity 0), and only
a batch syscall returns `WouldBlock`.

### Metrics and the wrappers

`Accounting` models `try_send_batch`/`send_batch` and `try_recv_batch`/`recv_batch`
around the platform call. The two sides are the same code over disjoint counters,
so `dir`, chosen in `Init`, says which one a behaviour is about. The platform call
is reduced to an `Outcome`: its result, the datagrams it moved and the syscalls it
made, as `SendPath` and `RecvPath` have them, with syscalls repeated after `EINTR` and
coalesced receives that do not fit the slots. Every `fetch_add`, every load of
`snapshot()` and every store of `reset()` is a step. `truth` is the history of what
happened since the last `reset()`, `since` what was added to each counter since
then; `clean` says that no `reset()` overlapped a call that was counting.
`Controller` is an instance of `AdaptiveBatching`, with `pending` mapped to the
number of tasks between the two critical sections: `DrivesController` shows that the
wrappers use the controller as that module says.

### Pool and send batches

In `PooledSend` a buffer is an allocation with contents (`mem`) and a visible length
(`vis`: nothing or all). `get()` is two actions, on a pool that is empty or not;
`put()` drops the buffer when the queue is full; a dropped buffer may be allocated
again. A slot of a batch holds the address only. What keeps the address valid is
the caller's obligation (ADR-002: pushed data outlives the send), which nothing
enforces: `Write`, `Put` and `DropBuffer` are free to break it, and the history variable
`careless` holds the threads that did since their last `clear()`. `pushed` is the
history of a batch since then.

### The socket

`from_std` is one step per system call, each of which may fail. `closers` is the
set of values whose destructor closes the descriptor; `table` is the process's
descriptor table, in which other threads open and close files, so that a number is
reused as soon as it is free. Without `tokio`, `BingerUdp` closes the number itself.
Addresses are sequences of bytes, and the host is little-endian or big-endian. In
`SocketOptions` the width of `u32` and `c_int` is the constant `Modulus`; option
numbers that `sys/unix.rs` spells out are kept as numbers, and `KernelOption` says
what they are to Linux. `enable_pktinfo` is two steps, and `failed` remembers whether
the last one to return was refused. A buffer size is limited, doubled and raised to a
minimum by the kernel (`BufferSize`).

## Runs

Runs that pass:

| Run | Question | Distinct states |
|---|---|---|
| `send_backends` | Two tasks on one socket, six builds (Linux, the same on IPv6 and without `tokio`, macOS, Windows, fallback), errors, `connect`, cancellation: each entry at most once and in order; counts true; cancel-safe; errors hide nothing where the backend is lossless; what the kernel takes goes where it was pushed to, except from a misaligned batch on an IPv6 socket of Linux; every backend implements `BatchSend` | 384,973 |
| `send_live` | `sendmmsg` with and without `tokio`, all entry points, longer batches: `send_to` sends what it reports; `WouldBlock` never reaches the callers of async sends; every outstanding send returns once no new calls are made | 46,256 |
| `recv_backends` | Two receivers on one queue, four builds (GRO, ancillary data, `recvfrom` loop with and without `tokio`), reused batches: what the kernel hands out is handed over, once, in order, with its sender; cancel-safe; async receives never return nothing; ancillary data is the packet's own in a new or cleared batch | 1,198,679 |
| `recv_live` | With GRO into two slots and with a `recvfrom` loop: the loop over the messages leaves the slots only behind a split message; nobody sleeps on a non-empty queue | 161,664 |
| `adaptive` | Size in range, attempts counted once but for `Ok(0)` receives, sustained pressure shrinks the size to 1 | 19,494 |
| `accounting` | Two tasks, both sides, both kinds of backend, while another thread takes a snapshot or resets; interrupted syscalls, and receives that overflow their slots: counters add up between calls and claim no more than the kernel did; fields of a snapshot are values of the time it ran; a reset forgets; the controller is driven as `AdaptiveBatching` says | 662,231 |
| `pool` | Two threads, careful or not, one pool, reused batches: no leftovers of an earlier owner; a batch holds its latest fill; its pointers lead to what was pushed unless its own thread was careless | 263,914 |
| `socket` | Construction with failures, two threads on the live socket, drop: the descriptor is owned and closed once; buffer sizes and settings survive their casts; addresses survive either byte order; an `enable_pktinfo` that returned `Ok` alone set both its options | 319,212 |

Runs in which the code departs from what its documentation says. Each property joins
statements of the documentation by "or", so that the run's last state, or last step,
breaks all of them at once; the findings of `PROJECT.json` quote the lines:

| Run | What happens |
|---|---|
| `send_documented` | beyond `MAX_STACK`, an entry with a destination behind one without gets a zeroed address, and on a connected IPv6 socket of Linux goes to the peer; and a blocked send retries without any new event |
| `recv_gro` | splitting a coalesced message overwrites a message received after it; and a message behind a split one indexes a slot past the capacity and panics, against the SAFETY comment at `linux.rs:250` |
| `adaptive_documented` | at size 1 a low `WouldBlock` rate does not increase the size; and in that rate an `Ok(0)` receive is counted twice among the attempts |
| `socket_features` | `set_busy_poll` sets option 75, which is `SO_RCVMARK` and not `SO_BUSY_POLL`; on an IPv4 socket `enable_pktinfo` fails, with half of it done; and `try_send_gso` is refused for the zeroed rest of its control buffer. The model also has plain sends cut into one-byte datagrams after `set_gso(true)`, and the number of `set_pacing_rate`, which the kernel refuses |

Some properties of the passing runs are weaker than the documentation would have
them, because that is what the code does; where a run above shows the difference it
is named:

- `SendToSends` is checked, and proved, for `sendmmsg` only: a per-packet loop turns
  `WouldBlock` on the first packet into `Ok(0)`, and `send_to` then reports a datagram
  as sent that is neither sent nor retried, against `socket.rs:665-666` and `:722`.
- `ShrinksUnderPressure` is about controllers that are told of `WouldBlock`. On the send
  side of a per-packet backend the loop hides it (`fallback.rs:22`), so that the size is
  never halved, against `socket.rs:974`.
- `WakesUp` is checked for batches with slots: `recv_batch` on a batch of capacity 0
  takes its `Ok(0)` for `WouldBlock` and never returns, whatever arrives.

- `CountIsTruth` allows a partial count with `Ok`; the doc of `send_batch`
  (`socket.rs:489-490`) says always `batch.len()`.
- `ErrorMeansNothingSent` is claimed for `Lossless` builds only: the per-packet
  Unix loops return an error after packets were sent, and the count is lost
  (ADR-002, lines 58-59).
- `HandsOverAll` is claimed for `Separable` calls only: after a coalesced message,
  `out_idx` can overwrite later messages (`recv_gro`). `NoPanic` says that this is
  also the only way past the slots (`recv_gro`, too).
- `CountsAttempts` has the term `repeats`: an `Ok(0)` receive is counted twice
  (`adaptive_documented`). With enough tasks in between this can also dilute the rate,
  so `ShrinksUnderPressure` assumes that no receive returns `Ok(0)` any more.
- `DestinationHonoured` leaves out misaligned batches where the kernel takes a zeroed
  address for none (`send_documented`). Elsewhere their headers are wrong, too, but the
  kernel refuses the first wrong one and the call ends there. Entries without a
  destination are not its subject: on macOS a `connect` between `is_connected` and
  `sendmsg_x` makes the call count datagrams that are dropped, which `macos.rs:75-76`
  means to avoid.
- `MetadataIsOwn` is claimed for batches that are new or were cleared: a batch
  reused without `clear()` may report the timestamp of an earlier packet.
- `CountersMeetKernel` has upper bounds: `send_syscalls` leaves failed and repeated
  syscalls out and counts empty batches, and a loop is one syscall to it, where
  `metrics.rs:60` has the number of syscalls made.
- `EntriesIntact` excepts careless threads: safe code may drop or overwrite data it has
  pushed, against the SAFETY comment at `linux.rs:60`; ADR-002, lines 41-43, leaves it to
  the documentation of `push()`, which does not mention it.
- `SnapshotBounded` is about each field alone: `snapshot()` is not the "point-in-time
  snapshot" of `metrics.rs:112`. `CountersAddUp` needs `clean`: a `reset()` during a
  call leaves counters that disagree.
- `NoLeftovers`: a buffer from a pool that is not empty has length 0, a fresh one has
  `buf_size` zero bytes, although `bufs.rs:45` says that returned buffers are cleared.
- `SettingsKept`: `set_ttl(u32::MAX)` restores the default. `BuffersAsConfigured`
  promises nothing but the limits for sizes of 2^32 and more, which wrap.
- `PktinfoPaired` is about calls that returned `Ok` (`socket_features`) and did not
  overlap another.

### Bounds

Two tasks: every property relates one task to the environment or to one
competitor. Two addresses where destinations matter, one where the run is about
order and counts. In `send_backends` an empty batch and a mixed batch of two
entries, from two tasks, against a send buffer of two, so that partial sends,
full buffers and stale destinations all occur; the batch is on the stack on Linux and
misaligned in the vectors of macOS. `send_live` has longer batches and a buffer of one.
`MAX_STACK` is 2 and batches have up to three entries, so that both the stack and the
vector path of Linux are taken. Receive batches of 0 or 3 slots (2 in `recv_live`, where splitting
runs past them) against 3 datagrams, GRO up to 2 per message, buffers that hold
exactly a coalesced message. `accounting` has two platform calls, so that two
calls overlap or follow each other, batches of up to two datagrams, one interruption
per syscall, one datagram too many and one snapshot or reset. Its state constraint
`WatchPlain` explores the clock, interruptions and surplus datagrams only while nobody
watches: `snapshot()` and `reset()` see none of them. The run ends when its calls are
used up, so deadlock is not checked; nor is it in `recv_gro`, where both threads may
have panicked.
`pool` has two buffers for a pool of one and batches of two, so that the pool
overflows, runs dry and a batch is refilled shorter than before (three buffers and a
pool of two, 11,331,660 states, show nothing else). `socket` has two
descriptor numbers and integers of 5 bits (`Modulus` 32), with sizes that are
absent, small, negative as a `c_int` and too wide. `socket_features` has one thread. The controller runs between 1 and 8, which has a
growth step cut off by the maximum and one lost to rounding, with at most 12
events per interval so that rates on both sides of 10% and 30% occur. Tasks, threads,
buffers and descriptors are symmetric in the safety runs and in the refinement, whose formulas treat all
tasks alike; the liveness runs use no symmetry.

### Fairness

`send_live`: weak fairness of each task's own steps inside a call (the runtime
polls a woken task), of the kernel transmitting and of the driver polling; none
for new calls, for `connect` or for cancellation. `recv_live`: the tasks and the
driver. `adaptive`: only that the clock advances. `send_documented` and
`adaptive_documented` use the fair specifications although a finite prefix refutes their
properties.

## Proofs

Each theorem holds for every value of the constants that satisfies the named
assumption of its module; hypotheses beyond that are said here.

### Send path (`SendProofs`, `SendRefinementProofs`)

For all sets of tasks and addresses, all batches, every backend and any buffer size
(`SendAssumption`):

- `SendTypeOK`, `SendPrefixOnce`, `SendCountIsTruth`, `SendCancelSafe`: the type
  invariant and three safety invariants.
- `SendErrorsLossless`: with `sendmmsg`, and on Windows, an error means that
  nothing was sent (`Lossless` is a condition inside the property).
- `SendHidesWouldBlock`: `send_batch` and `send_to` never return `WouldBlock`.
- `SendToSendsWithSendmmsg`: where there is `sendmmsg`, `send_to` sends what it
  reports. `WithSendmmsg` is part of the statement, because elsewhere it is false
  (see above).
- `SendDestination`: for batches of any length, datagrams go where they were pushed
  to, whoever connects the socket meanwhile; on an IPv6 socket of Linux from aligned
  batches only.
- `SendKeepsPromise`: `send_batch` and `try_send_batch` implement `BatchSend`. The
  hypothesis `Ops \cap SingleOps = {}` leaves out `send_to` and `try_send_to`, which
  report no count.

The first four are not inductive: they speak of a call that has returned, or only of
what was accepted, and say nothing of a task in the middle. `SendInv` adds what
holds there: before a syscall and while waiting nothing has been taken; in a
loop `sent` is the number of entries taken and `i` the next one; a platform call
that returned `Ok(n)` took `n` entries, one that returned `WouldBlock` none. The
step from there has one lemma per kind of action: those that take nothing
(`NoTakeSteps`, `WrapperSteps`, `EnvironmentSteps`), the batch syscall
(`TakesStep`), a turn of a loop (`LoopSendsStep`). `AppendEntries` is the fact
about sequences underneath: consecutive positions appended to a prefix give a
prefix. `ErrorInv` is a second invariant, on top of `SendInv`, for errors; it
needs that the build never changes (`BuildFixed`). A third one, per task, follows
`send_to` from its one-entry batch to its result.

The refinement rests on `SendInv`: `PrefixIs` says what the mapped history `Taken` is
(the numbers 1 to `n`), so that appending to it is the abstract step, and every action
is sorted into a beginning, a taking, an end or a stutter of `BatchSend`.

`SendDestination` carries `DestInv`: each accepted entry has its own destination, or
its batch goes to the peer. A batch whose headers are misaligned is the interesting
case: where a zeroed address is refused, the kernel stops at the first header that is
wrong, because that header has one (`DeliverableLaw`), and what it took before is right;
where it is not refused, `Refusable` asks for an aligned batch. That the stack path is
always right (`StackAddrs` holds the destination of entry `j` at `addr_idx`) and the
vector path is right up to the first entry without a destination rests on `addr_idx`
as a cardinality; the first wrong header exists by well-foundedness of the naturals
(`Least`).

### Adaptive batching (`SharedProofs`)

For all bounds with `MIN_BATCH = 1` and all intervals (`BatchBounds`,
`AdaptiveAssumption`): `AdaptiveTypeOK` (the size is always in range),
`AttemptsCounted` (the counter is exactly the attempts plus the repeated countings,
which are also among the `WouldBlock`s, and a send is never counted twice) and
`GrowthIsStrictAboveMin` (1 is the only size below the maximum that growth by half
leaves alone, so `adaptive_documented` shows the only exception).

### Metrics (`AccountingProofs`, `CounterProofs`)

For any number of tasks and calls:

- `SnapshotsAreBounded` and `ResetsForget` (a counter that `reset()` has passed holds
  only what was added since, and the others are still in its list).
- `CountersAlwaysAddUp`, `CountersAlwaysMeetKernel`: between calls the counters say
  what happened. Within a call they do not, so the invariant `CountInv` says what is
  missing: what the platform calls returned is the counter plus what the tasks have
  still on their lists (`Owed`). A sum over the tasks would need induction; `Owed` is
  instead the set of outstanding increments, one element per unit, and the sum its
  cardinality. A step then adds a finite set to it, or takes one element away
  (`EmptyLaw`, `UnitsLaw`). `TruthInv` relates the histories to each other.
- `DrivesAsPromised`: for a finite set of tasks (`IsFiniteSet(Tasks)`, without which
  `pending` is not a number) every step of the wrappers is a step of `AdaptiveBatching`
  or a stutter, so that the theorems about the controller hold of the wrappers.

### Receive path (`RecvLemmas`, `RecvProofs`, `RecvDelivery`)

For any tasks, builds, capacities and buffer sizes (`RecvAssumption`): `RecvTypeOK`,
`RecvCancelSafe`, `RecvReturnsSomething`, `RecvPanicsBehindSplit`, `RecvMetadataIsOwn`, and,
where the messages fit the buffers, `RecvHandsOverAll`. `RecvInv` adds what holds of a
task between two steps: how many messages a call has taken at each place, and that
`out_idx` does not fall behind `i`. On top of it:

- `NoPanic` needs `InPace`: in calls whose messages are uncoalesced but perhaps for the
  last one, `out_idx` and `i` move together.
- `MetadataIsOwn` needs `MetaInv`: a batch that was clean when the call began shows no
  ancillary data before the loop over the messages, and in the loop none from slot
  `out_idx` on. That a waiting call still has a clean batch is what carries the claim
  over a retry.
- `HandsOverAll` needs `Order` (the queue, and what each call took from it, are numbered
  upwards without overlap) and `HandInv`: before the loop the buffer of slot `k` holds
  message `k` whole; in it, slots below `out_idx` hold one datagram each, in order, and
  the messages from `i` on are still where the syscall put them; when the loop is over,
  `out_idx - 1` is the number of datagrams, or of slots if these are fewer. That a turn
  of the loop keeps this (`SpreadHands`) is the heart of the argument: the split reads
  the buffer of slot `out_idx`, which with `InPace` is the buffer of the message. The
  property speaks of cardinalities; `Counting` turns them into positions, because the
  numbers go up (`CountLaw`).

The hypothesis of `RecvHandsOverAll`, `Fits`, has two parts. A buffer holds a coalesced
message: its size is what the caller gave `RecvBatch`, and a kernel cuts off what does
not fit. And nothing is coalesced where the backend is a `recvfrom` loop, which has no
code to split a message. Every build of the runs satisfies it.

### Pool and socket (`SharedProofs`)

For any threads, buffers and capacities: `PoolTyped`, `RecycledAreClean`,
`BatchHoldsLatest`, `PointersStayValid`, from one invariant, `PoolInv`. Validity of the
pointers is not inductive by itself: it needs that the slots in use are what was pushed
(`SlotsFilled`) and that what a thread that is not careless pushed is still held by it
(`PushedIntact`), which in turn needs that no buffer is in two hands
(`ExclusiveBuffers`).

For any width, descriptors, addresses and arguments: `SocketTyped`,
`AddressRoundTrip` (for every address, both byte orders and any earlier contents of the
storage), `ConnectsAsAsked`, `DescriptorOwned` and `NothingElseClosed` (from
`OneCloser`: exactly one value would close the descriptor until it is closed),
`BuffersReached`, `SettingsStay` and `PktinfoTogether` (`PktinfoInv`: between the two
halves of the only call under way the first option is as asked).

### Only model-checked

All liveness (`CallsReturn`, `WakesUp`, `ShrinksUnderPressure`): fairness and ENABLED
are out of the prover's reach. Every safety property of the passing runs has a
theorem; hypotheses beyond the assumptions on the constants are the ones named above.

## Not modelled

- In `SendPath` and `RecvPath` metrics and adaptive batching are switched off, as in
  `Config::default()`; `Accounting` has them, with the platform call reduced to its
  outcome.
- `EINTR` on `sendmmsg`, which is not retried, is one of the errors of
  `HardErrors`. Payload bytes are not modelled.
- `Config` and `PlatformCaps` are setters and tables, `platform/mod.rs`,
  `sys/*` and the error type are selection and constants: there is no behaviour in
  them beyond what the modules take as constants.
- The retry loop of `send_gso` is the one of `send_batch` without the controller.
- Counters and `Instant` do not overflow. A `Vec` may reserve more than it was asked
  for, and `SendBatch<N>` then takes more than `N` entries; `Capacity` is what it
  reserved. `entry()` past `len` after `clear()` returns a stale slot where its
  documentation has it panic; no backend does that.
- Options and constants are those of Linux; `getsockname`, `getpeername` and
  the loading of `WSARecvMsg` are plain calls of the system.
