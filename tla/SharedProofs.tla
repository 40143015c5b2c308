------------------------------ MODULE SharedProofs ------------------------------
(***************************************************************************)
(* What the objects that tasks and threads share promise, for any number   *)
(* of them: the batch-size controller of AdaptiveBatching, the buffer pool *)
(* of PooledSend, and the socket itself, SocketObject.                     *)
(***************************************************************************)
EXTENDS AdaptiveBatching, PooledSend, SocketObject, TLAPS

(* The laws of sequences that the proofs below use. *)
LEMMA Lengths ==
  ASSUME NEW S, NEW q \in Seq(S)
  PROVE  /\ Len(q) \in Nat /\ DOMAIN q = 1 .. Len(q) /\ q \in [1 .. Len(q) -> S]
         /\ Len(q) = 0 <=> q = << >>
OBVIOUS

(* What Append leaves in place and what it adds. *)
LEMMA Appending ==
  ASSUME NEW S, NEW q \in Seq(S), NEW x \in S
  PROVE  /\ Append(q, x) \in Seq(S) /\ Len(Append(q, x)) = Len(q) + 1
         /\ Append(q, x)[Len(q) + 1] = x /\ \A k \in 1 .. Len(q) : Append(q, x)[k] = q[k]
OBVIOUS

(* The first element and the rest of a sequence that has one. *)
LEMMA HeadAndTail ==
  ASSUME NEW S, NEW q \in Seq(S), q # << >>
  PROVE  /\ Head(q) \in S /\ Tail(q) \in Seq(S) /\ Len(Tail(q)) = Len(q) - 1
         /\ \A k \in 1 .. Len(Tail(q)) : Tail(q)[k] = q[k + 1]
OBVIOUS

(* A prefix of a sequence. *)
LEMMA Prefix ==
  ASSUME NEW S, NEW q \in Seq(S), NEW n \in 0 .. Len(q)
  PROVE  /\ SubSeq(q, 1, n) \in Seq(S) /\ Len(SubSeq(q, 1, n)) = n
         /\ \A k \in 1 .. n : SubSeq(q, 1, n)[k] = q[k]
OBVIOUS

(* A function on 1 .. n is a sequence of n elements. *)
LEMMA FunctionIsSequence ==
  ASSUME NEW S, NEW n \in Nat, NEW f \in [1 .. n -> S]
  PROVE  f \in Seq(S) /\ Len(f) = n
OBVIOUS

(* AdaptiveBatching. *)

(* Both directions of the adjustment stay within the clamp of the code.    *)
LEMMA RetargetInRange ==
  ASSUME NEW size \in Sizes
  PROVE  Halve(size) \in Sizes /\ Grow(size) \in Sizes
BY BatchBounds DEF Sizes, Halve, Grow, AtLeast, AtMost

(* Growth is strict from 2 upwards and void at MIN_BATCH: the integer      *)
(* division in (target_size * 3 / 2) loses the half at exactly one size.   *)
THEOREM GrowthIsStrictAboveMin ==
  ASSUME NEW size \in Sizes, size < MAX_BATCH
  PROVE  Grow(size) > size <=> size # MIN_BATCH
BY BatchBounds DEF Sizes, Grow, AtMost

(* The Mutex-protected methods map controller states to controller states. *)
LEMMA MethodsTyped ==
  ASSUME NEW s \in AdaptiveStates
  PROVE  /\ record_would_block(s) \in AdaptiveStates
         /\ record_event(s) \in AdaptiveStates
         /\ maybe_adjust(s) \in AdaptiveStates
<1>1. \A t \in AdaptiveStates : record_event(t) \in AdaptiveStates
  BY DEF AdaptiveStates, record_event
<1>a. [s EXCEPT !.would_block_count = @ + 1] \in AdaptiveStates
  BY DEF AdaptiveStates
<1>b. record_would_block(s) = record_event([s EXCEPT !.would_block_count = @ + 1])
  BY ZenonT(30) DEF AdaptiveStates, record_would_block, record_event
<1>c. record_would_block(s) \in AdaptiveStates
  BY <1>1, <1>a, <1>b, ZenonT(30)
<1>2. Retarget(s) \in Sizes
  BY RetargetInRange, ZenonT(30) DEF Retarget, AdaptiveStates
<1>3. maybe_adjust(s) \in AdaptiveStates
  BY <1>2, BatchBounds DEF maybe_adjust, AdaptiveStates
<1>4. QED
  BY <1>1, <1>c, <1>3, ZenonT(30)

-----------------------------------------------------------------------------
(* The critical section that records a WouldBlock keeps the types.         *)
LEMMA BlockedTyped ==
  ASSUME BatchingTypeOK, NEW first \in BOOLEAN, Blocked(first)
  PROVE  /\ state' \in AdaptiveStates /\ attempts' \in Nat /\ repeats' \in Nat
         /\ UNCHANGED <<dir, backend>>
BY MethodsTyped DEF BatchingTypeOK, Blocked

(* recommended_batch_size() is always within [MIN_BATCH, MAX_BATCH], for   *)
(* every interleaving of the critical sections.                            *)
THEOREM AdaptiveTypeOK == BatchingSpec => []BatchingTypeOK
<1>1. BatchingInit => BatchingTypeOK
  BY BatchBounds, AdaptiveAssumption
  DEF BatchingInit, BatchingTypeOK, AdaptiveStates, new, AtLeast, AtMost, Sizes
<1>2. BatchingTypeOK /\ [BatchingNext]_batchingVars => BatchingTypeOK'
  <2> SUFFICES ASSUME BatchingTypeOK, [BatchingNext]_batchingVars PROVE BatchingTypeOK'
    BY ZenonT(30)
  <2>1. CASE Tick
    BY <2>1, BatchBounds DEF Tick, BatchingTypeOK, AdaptiveStates
  <2>2. CASE RecordEvent
    BY <2>2, MethodsTyped DEF RecordEvent, BatchingTypeOK
  <2>3. CASE RecordWouldBlock
    BY <2>3, BlockedTyped, ZenonT(30) DEF RecordWouldBlock, BatchingTypeOK
  <2>4. CASE RecvEmpty
    BY <2>4, MethodsTyped DEF RecvEmpty, BatchingTypeOK
  <2>5. CASE RecvEmptyBlocked
    <3>1. pending' \in Nat
      BY <2>5 DEF RecvEmptyBlocked, BatchingTypeOK
    <3> QED BY <2>5, <3>1, BlockedTyped, ZenonT(30)
            DEF RecvEmptyBlocked, BatchingTypeOK
  <2>6. CASE UNCHANGED batchingVars
    BY <2>6, ZenonT(30) DEF batchingVars, BatchingTypeOK
  <2>7. QED
    BY <2>1, <2>2, <2>3, <2>4, <2>5, <2>6, ZenonT(30) DEF BatchingNext
<1>3. QED
  BY <1>1, <1>2, PTL DEF BatchingSpec

(* Both ways to record a WouldBlock may adjust. *)
LEMMA BlockedAdjusts ==
  ASSUME NEW first, Blocked(first)
  PROVE  state' = maybe_adjust(record_would_block(state))
BY ZenonT(30) DEF Blocked

-----------------------------------------------------------------------------
(* CountsAttempts with what makes it inductive: only a receive is between  *)
(* the two critical sections.                                              *)
AttemptInv ==
  /\ BatchingTypeOK
  /\ CountsAttempts
  /\ dir = "send" => pending = 0

(* The critical section that records a WouldBlock counts it, as a first or *)
(* as a repeated record of its attempt, or starts a new interval.          *)
LEMMA BlockedCounts ==
  ASSUME BatchingTypeOK, CountsAttempts, NEW first \in BOOLEAN, Blocked(first),
         first \/ dir # "send"
  PROVE  CountsAttempts'
BY BlockedAdjusts DEF Blocked, maybe_adjust, CountsAttempts, record_would_block, BatchingTypeOK,
   AdaptiveStates

(* record_event, record_would_block and the reset in maybe_adjust count    *)
(* every attempt, and no attempt twice but a receive that returned Ok(0),  *)
(* whose second count is a WouldBlock, for any number of tasks and any     *)
(* interleaving.                                                           *)
THEOREM AttemptsCounted == BatchingSpec => []CountsAttempts
<1>1. BatchingInit => CountsAttempts /\ (dir = "send" => pending = 0)
  BY DEF BatchingInit, CountsAttempts, new
<1>2. ASSUME BatchingTypeOK, AttemptInv, [BatchingNext]_batchingVars
      PROVE  CountsAttempts' /\ (dir = "send" => pending = 0)'
  <2> USE DEF AttemptInv
  <2>1. CASE Tick
    BY <1>2, <2>1, ZenonT(30) DEF Tick, BatchingTypeOK, AdaptiveStates, CountsAttempts
  <2>2. CASE RecordEvent \/ RecvEmpty
    BY <1>2, <2>2 DEF RecordEvent, RecvEmpty, record_event, BatchingTypeOK, AdaptiveStates,
       CountsAttempts
  <2>3. CASE RecordWouldBlock
    BY <1>2, <2>3, BlockedCounts, BlockedTyped, ZenonT(30) DEF RecordWouldBlock
  <2>4. CASE RecvEmptyBlocked
    <3>1. dir # "send"
      BY <1>2, <2>4 DEF RecvEmptyBlocked, BatchingTypeOK
    <3> QED BY <1>2, <2>4, <3>1, BlockedCounts, BlockedTyped, ZenonT(30) DEF RecvEmptyBlocked
  <2>5. CASE UNCHANGED batchingVars
    BY <1>2, <2>5, ZenonT(30) DEF batchingVars, CountsAttempts
  <2>6. QED
    BY <1>2, <2>1, <2>2, <2>3, <2>4, <2>5, ZenonT(30) DEF BatchingNext
<1>3. QED
  BY <1>1, <1>2, AdaptiveTypeOK, PTL DEF BatchingSpec, AttemptInv

-----------------------------------------------------------------------------
(* PooledSend. *)

Slot    == [ptr : Buffers]
Content == Values \cup {Zero}
Batches == [slots : Seq(Slot), len : Nat]
Pushed  == [ptr : Buffers, bytes : Content]

(* A thread has not touched a buffer only while it holds it. *)
UntouchedHeld == \A t \in Threads : untouched[t] \subseteq held[t]

(* A buffer is in one place: with one thread, or once in the pool. *)
ExclusiveBuffers ==
  /\ \A j, k \in 1 .. Len(pool) : pool[j] = pool[k] => j = k
  /\ \A t \in Threads : held[t] \cap Pooled = {}
  /\ \A t, u \in Threads : t # u => held[t] \cap held[u] = {}

(* What a thread with care pushed is still held, and not overwritten. *)
PushedIntact ==
  \A t \in Threads \ careless : \A k \in 1 .. Len(pushed[t]) :
    pushed[t][k].ptr \in held[t] /\ mem[pushed[t][k].ptr] = pushed[t][k].bytes

(* The slots in use, and only those, are what was pushed. *)
SlotsFilled ==
  \A t \in Threads :
    /\ batch[t].len = Len(pushed[t]) /\ batch[t].len <= Capacity
    /\ batch[t].len <= Len(batch[t].slots)
    /\ \A k \in 1 .. batch[t].len : batch[t].slots[k].ptr = pushed[t][k].ptr

PoolInv ==
  /\ PoolTypeOK /\ ExclusiveBuffers /\ UntouchedHeld /\ NoLeftovers
  /\ SlotsFilled /\ PushedIntact

-----------------------------------------------------------------------------
(* push() on SendBatchRaw: a full batch is left alone, any other has the   *)
(* slot at its end, whether the slot is new or overwrites a stale one.     *)
LEMMA PushFills ==
  ASSUME NEW b \in Batches, NEW e \in Slot, b.len <= Len(b.slots)
  PROVE  /\ push(b, e) \in Batches
         /\ Full(b) => push(b, e) = b
         /\ ~ Full(b) =>
              /\ push(b, e).len = b.len + 1
              /\ push(b, e).len <= Capacity
              /\ push(b, e).len <= Len(push(b, e).slots)
              /\ \A k \in 1 .. b.len : push(b, e).slots[k] = b.slots[k]
              /\ push(b, e).slots[b.len + 1] = e
BY CapacityAssumption, Appending, Lengths DEF Batches, push, Full

(* entry(k) of an entry in use is the slot at its place. *)
LEMMA EntriesAreSlots ==
  ASSUME NEW S, NEW b \in [slots : Seq(S), len : Nat], b.len <= Len(b.slots),
         NEW k \in 1 .. b.len
  PROVE  Entries(b)[k] = b.slots[k]
BY Lengths, Prefix DEF Entries

-----------------------------------------------------------------------------
LEMMA PoolInvInit == PoolInit => PoolInv
BY CapacityAssumption, PoolAssumption DEF PoolInit, PoolTypeOK, with_capacity,
   ExclusiveBuffers, Pooled, UntouchedHeld, NoLeftovers, PushedIntact, SlotsFilled, PoolInv

-----------------------------------------------------------------------------
(* A step that leaves the pool and the buffers held alone keeps them apart. *)
LEMMA ExclusiveKept ==
  ASSUME ExclusiveBuffers, UNCHANGED <<pool, held>>
  PROVE  ExclusiveBuffers'
BY SMTT(30) DEF ExclusiveBuffers, Pooled

(* What was pushed stays as it was while its buffers are held and unwritten. *)
LEMMA IntactKept ==
  ASSUME PushedIntact, pushed' = pushed, careless \subseteq careless',
         \A u \in Threads \ careless' : \A k \in 1 .. Len(pushed[u]) :
           pushed[u][k].ptr \in held'[u] /\ mem'[pushed[u][k].ptr] = mem[pushed[u][k].ptr]
  PROVE  PushedIntact'
<1> SUFFICES ASSUME NEW u \in Threads \ careless', NEW k \in 1 .. Len(pushed[u])
             PROVE  /\ pushed[u][k].ptr \in held'[u]
                    /\ mem'[pushed[u][k].ptr] = pushed[u][k].bytes
  BY ZenonT(30) DEF PushedIntact
<1>1. mem[pushed[u][k].ptr] = pushed[u][k].bytes
  BY ZenonT(30) DEF PushedIntact
<1> QED BY <1>1, ZenonT(30)

(* After Touch a thread with care has not pushed the buffer touched. *)
LEMMA TouchMarks ==
  ASSUME PoolTypeOK, NEW t \in Threads, NEW b, Touch(t, b)
  PROVE  /\ careless \subseteq careless' /\ careless' \subseteq Threads
         /\ t \notin careless' => b \notin InBatch(t)
BY ZenonT(30) DEF Touch, PoolTypeOK

(* Letting a buffer go. *)
LEMMA LetGo ==
  ASSUME PoolInv, NEW t \in Threads, NEW b \in held[t], Touch(t, b),
         held' = [held EXCEPT ![t] = @ \ {b}], UNCHANGED <<mem, pushed>>
  PROVE  /\ PushedIntact'
         /\ \A u, w \in Threads : u # w => held'[u] \cap held'[w] = {}
         /\ \A u \in Threads : held'[u] \subseteq held[u] /\ b \notin held'[u]
<1>1. \A u \in Threads : held'[u] = IF u = t THEN held[t] \ {b} ELSE held[u]
  BY ZenonT(30) DEF PoolInv, PoolTypeOK
<1>2. \A u, w \in Threads : u # w => held[u] \cap held[w] = {}
  BY ZenonT(30) DEF PoolInv, ExclusiveBuffers
<1>0. careless \subseteq careless' /\ (t \notin careless' => b \notin InBatch(t))
  BY TouchMarks, ZenonT(30) DEF PoolInv
<1>3. ASSUME NEW u \in Threads \ careless', NEW k \in 1 .. Len(pushed[u])
      PROVE  pushed[u][k].ptr \in held'[u]
  <2>1. pushed[u][k].ptr \in held[u]
    BY <1>0, ZenonT(30) DEF PoolInv, PushedIntact
  <2>2. u = t => pushed[u][k].ptr # b
    BY <1>0, ZenonT(30) DEF InBatch
  <2>3. CASE u = t
    <3>1. held'[u] = held[u] \ {b}
      BY <1>1, <2>3, ZenonT(30)
    <3> QED BY <2>1, <2>2, <2>3, <3>1, ZenonT(30)
  <2>4. CASE u # t
    <3>1. held'[u] = held[u]
      BY <1>1, <2>4, ZenonT(30)
    <3> QED BY <2>1, <3>1, ZenonT(30)
  <2> QED BY <2>3, <2>4, ZenonT(30)
<1>4. PushedIntact'
  BY <1>0, <1>3, IntactKept, ZenonT(30) DEF PoolInv
<1>5. ASSUME NEW u \in Threads PROVE held'[u] \subseteq held[u] /\ b \notin held'[u]
  <2>1. CASE u = t
    <3>1. held'[u] = held[u] \ {b}
      BY <1>1, <2>1, ZenonT(30)
    <3> QED BY <3>1, ZenonT(30)
  <2>2. CASE u # t
    <3>1. held'[u] = held[u] /\ held[t] \cap held[u] = {}
      BY <1>1, <1>2, <2>2, ZenonT(30)
    <3> QED BY <3>1, ZenonT(30)
  <2> QED BY <2>1, <2>2, ZenonT(30)
<1>6. \A u, w \in Threads : u # w => held'[u] \cap held'[w] = {}
  BY <1>2, <1>5, ZenonT(30)
<1> QED BY <1>4, <1>5, <1>6, ZenonT(30)

(* One lemma per operation: it keeps PoolInv. *)
LEMMA GetRecycledKeeps ==
  ASSUME PoolInv, NEW t \in Threads, GetRecycled(t)
  PROVE  PoolInv'
<1> USE CapacityAssumption, PoolAssumption DEF GetRecycled
<1> DEFINE h == Head(pool)
<1>1. /\ h \in Buffers /\ h = pool[1] /\ Tail(pool) \in Seq(Buffers)
      /\ Len(pool) \in Nat \ {0} /\ Len(Tail(pool)) = Len(pool) - 1
      /\ \A k \in 1 .. Len(Tail(pool)) : Tail(pool)[k] = pool[k + 1]
  BY HeadAndTail, Lengths DEF PoolInv, PoolTypeOK
<1>2. PoolTypeOK'
  <2>1. pool' \in Seq(Buffers) /\ Len(pool') <= PoolCapacity
    BY <1>1 DEF PoolInv, PoolTypeOK
  <2> QED BY <1>1, <2>1, ZenonT(30) DEF PoolInv, PoolTypeOK
<1>3. h \in Pooled /\ \A u \in Threads : h \notin held[u]
  BY <1>1 DEF PoolInv, ExclusiveBuffers, Pooled
<1>4. ExclusiveBuffers'
  <2>1. \A j, k \in 1 .. Len(pool') : pool'[j] = pool'[k] => j = k
    BY <1>1 DEF PoolInv, ExclusiveBuffers
  <2>2. Pooled' \subseteq Pooled /\ h \notin Pooled'
    BY <1>1 DEF Pooled, PoolInv, ExclusiveBuffers
  <2>3. held' = [held EXCEPT ![t] = held[t] \cup {h}]
    BY ZenonT(30)
  <2>4. \A u \in Threads : held'[u] \cap Pooled' = {}
    BY <2>2, <2>3, SMTT(30) DEF PoolInv, PoolTypeOK, ExclusiveBuffers
  <2>5. \A u, w \in Threads : u # w => held'[u] \cap held'[w] = {}
    BY <1>3, <2>3, SMTT(30) DEF PoolInv, PoolTypeOK, ExclusiveBuffers
  <2> QED BY <2>1, <2>4, <2>5, ZenonT(30) DEF ExclusiveBuffers
<1>5. UntouchedHeld' /\ PushedIntact' /\ SlotsFilled'
  BY ZenonT(30) DEF PoolInv, PoolTypeOK, UntouchedHeld, PushedIntact, SlotsFilled
<1>6. NoLeftovers'
  BY <1>1, SMTT(30) DEF PoolInv, PoolTypeOK, NoLeftovers
<1> QED BY <1>2, <1>4, <1>5, <1>6, ZenonT(30) DEF PoolInv

LEMMA GetFreshKeeps ==
  ASSUME PoolInv, NEW t \in Threads, NEW b \in Buffers, GetFresh(t, b)
  PROVE  PoolInv'
<1> USE DEF GetFresh
<1>1. PoolTypeOK'
  BY ZenonT(30) DEF PoolInv, PoolTypeOK
<1>2. Pooled' = Pooled /\ b \notin Pooled /\ \A u \in Threads : b \notin held[u]
  BY ZenonT(30) DEF Allocated, Pooled
<1>3. ExclusiveBuffers'
  BY <1>2, SMTT(30) DEF PoolInv, PoolTypeOK, ExclusiveBuffers
<1>4. UntouchedHeld' /\ SlotsFilled'
  BY ZenonT(30) DEF PoolInv, PoolTypeOK, UntouchedHeld, SlotsFilled
<1>5. PushedIntact'
  BY <1>2 DEF PoolInv, PoolTypeOK, PushedIntact
<1>6. NoLeftovers'
  BY <1>2 DEF PoolInv, PoolTypeOK, UntouchedHeld, NoLeftovers
<1> QED BY <1>1, <1>3, <1>4, <1>5, <1>6, ZenonT(30) DEF PoolInv

LEMMA WriteKeeps ==
  ASSUME PoolInv, NEW t \in Threads, NEW b \in Buffers, NEW v \in Values, Write(t, b, v)
  PROVE  PoolInv'
<1> USE DEF Write
<1>0. /\ careless \subseteq careless' /\ careless' \subseteq Threads
      /\ t \notin careless' => b \notin InBatch(t)
  BY TouchMarks, ZenonT(30) DEF PoolInv
<1>1. PoolTypeOK'
  BY <1>0, ZenonT(30) DEF PoolInv, PoolTypeOK
<1>2. ExclusiveBuffers' /\ UntouchedHeld' /\ SlotsFilled'
  <2>1. ExclusiveBuffers'
    BY ExclusiveKept, ZenonT(30) DEF PoolInv
  <2>2. SlotsFilled'
    BY ZenonT(30) DEF PoolInv, SlotsFilled
  <2>3. UntouchedHeld'
    BY ZenonT(30) DEF PoolInv, PoolTypeOK, UntouchedHeld
  <2> QED BY <2>1, <2>2, <2>3, ZenonT(30)
<1>3. \A u \in Threads : u # t => b \notin held[u]
  BY ZenonT(30) DEF PoolInv, ExclusiveBuffers
<1>4. PushedIntact'
  <2>1. ASSUME NEW u \in Threads \ careless', NEW k \in 1 .. Len(pushed[u])
        PROVE  pushed[u][k].ptr \in held'[u] /\ mem'[pushed[u][k].ptr] = mem[pushed[u][k].ptr]
    <3>1. pushed[u][k].ptr \in held[u] /\ held[u] \subseteq Buffers
      BY <1>0, ZenonT(30) DEF PoolInv, PushedIntact, PoolTypeOK
    <3>2. u = t => pushed[u][k].ptr # b
      BY <1>0, ZenonT(30) DEF InBatch
    <3>3. pushed[u][k].ptr # b
      BY <1>3, <3>1, <3>2, ZenonT(30)
    <3> QED BY <3>1, <3>3, ZenonT(30) DEF PoolInv, PoolTypeOK
  <2> QED BY <1>0, <2>1, IntactKept, ZenonT(30) DEF PoolInv
<1>5. NoLeftovers'
  BY <1>3 DEF PoolInv, PoolTypeOK, UntouchedHeld, NoLeftovers
<1> QED BY <1>1, <1>2, <1>4, <1>5, ZenonT(30) DEF PoolInv

LEMMA DropBufferKeeps ==
  ASSUME PoolInv, NEW t \in Threads, NEW b \in Buffers, DropBuffer(t, b)
  PROVE  PoolInv'
<1> USE DEF DropBuffer
<1>0. careless' \subseteq Threads
  BY TouchMarks, ZenonT(30) DEF PoolInv
<1>1. PoolTypeOK' /\ SlotsFilled' /\ NoLeftovers'
  BY <1>0, ZenonT(30) DEF PoolInv, PoolTypeOK, SlotsFilled, NoLeftovers
<1>a. /\ PushedIntact' /\ \A u, w \in Threads : u # w => held'[u] \cap held'[w] = {}
      /\ \A u \in Threads : held'[u] \subseteq held[u]
  BY LetGo, ZenonT(30)
<1>2. ExclusiveBuffers'
  <2>1. pool' = pool /\ Pooled' = Pooled
    BY ZenonT(30) DEF Pooled
  <2>2. \A u \in Threads : held'[u] \cap Pooled' = {}
    BY <1>a, <2>1, ZenonT(30) DEF PoolInv, ExclusiveBuffers
  <2> QED BY <1>a, <2>1, <2>2, ZenonT(30) DEF PoolInv, ExclusiveBuffers
<1>3. UntouchedHeld'
  BY ZenonT(30) DEF PoolInv, PoolTypeOK, UntouchedHeld
<1> QED BY <1>1, <1>a, <1>2, <1>3, ZenonT(30) DEF PoolInv

LEMMA PutKeeps ==
  ASSUME PoolInv, NEW t \in Threads, NEW b \in Buffers, Put(t, b)
  PROVE  PoolInv'
<1> USE PoolAssumption DEF Put
<1>1. /\ pool' \in Seq(Buffers) /\ Len(pool') <= PoolCapacity
      /\ Len(pool) \in Nat /\ Len(pool') \in {Len(pool), Len(pool) + 1}
      /\ \A k \in 1 .. Len(pool) : pool'[k] = pool[k]
      /\ Len(pool') = Len(pool) + 1 => pool'[Len(pool) + 1] = b
  BY Appending, Lengths DEF PoolInv, PoolTypeOK
<1>2. PoolTypeOK'
  <2>1. careless' \subseteq Threads
    BY TouchMarks, ZenonT(30) DEF PoolInv
  <2> QED BY <1>1, <2>1, ZenonT(30) DEF PoolInv, PoolTypeOK
<1>3. b \notin Pooled /\ \A u \in Threads : u # t => b \notin held[u]
  BY ZenonT(30) DEF PoolInv, ExclusiveBuffers
<1>a. /\ PushedIntact' /\ \A u, w \in Threads : u # w => held'[u] \cap held'[w] = {}
      /\ \A u \in Threads : held'[u] \subseteq held[u] /\ b \notin held'[u]
  BY LetGo, ZenonT(30)
<1>4. \A j, k \in 1 .. Len(pool') : pool'[j] = pool'[k] => j = k
  BY <1>1, <1>3, SMTT(30) DEF PoolInv, ExclusiveBuffers, Pooled
<1>5. Pooled' \subseteq Pooled \cup {b}
  BY <1>1 DEF Pooled
<1>6. ExclusiveBuffers'
  <2>1. \A u \in Threads : held'[u] \cap Pooled' = {}
    <3>1. \A u \in Threads : held[u] \cap Pooled = {}
      BY ZenonT(30) DEF PoolInv, ExclusiveBuffers
    <3> HIDE DEF Put
    <3> SUFFICES ASSUME NEW u \in Threads, NEW x \in held'[u], x \in Pooled' PROVE FALSE
      BY ZenonT(30)
    <3>2. x \in Pooled \/ x = b
      BY <1>5, ZenonT(30)
    <3>3. x \in held[u] /\ x # b
      BY <1>a, ZenonT(30)
    <3> QED BY <3>1, <3>2, <3>3, ZenonT(30)
  <2>2. \A u, w \in Threads : u # w => held'[u] \cap held'[w] = {}
    BY <1>a, ZenonT(30)
  <2> QED BY <1>4, <2>1, <2>2, ZenonT(30) DEF ExclusiveBuffers
<1>7. UntouchedHeld' /\ SlotsFilled' /\ NoLeftovers'
  BY ZenonT(30) DEF PoolInv, PoolTypeOK, UntouchedHeld, SlotsFilled, NoLeftovers
<1> QED BY <1>2, <1>a, <1>6, <1>7, ZenonT(30) DEF PoolInv

LEMMA PushKeeps ==
  ASSUME PoolInv, NEW t \in Threads, NEW b \in Buffers, Push(t, b)
  PROVE  PoolInv'
<1> USE DEF Push
<1> DEFINE grown == push(batch[t], [ptr |-> b])
           item == [ptr |-> b, bytes |-> mem[b]]
<1>1. /\ batch[t] \in Batches /\ [ptr |-> b] \in Slot
      /\ batch[t].len <= Len(batch[t].slots)
      /\ item \in Pushed /\ pushed[t] \in Seq(Pushed)
  BY ZenonT(30) DEF PoolInv, PoolTypeOK, SlotsFilled, Batches, Slot, Pushed, Content
<1> HIDE DEF Slot, Pushed
<1>2. /\ grown \in Batches
      /\ Full(batch[t]) => grown = batch[t]
      /\ ~ Full(batch[t]) =>
           /\ grown.len = batch[t].len + 1 /\ grown.len <= Capacity
           /\ grown.len <= Len(grown.slots)
           /\ \A k \in 1 .. batch[t].len : grown.slots[k] = batch[t].slots[k]
           /\ grown.slots[batch[t].len + 1] = [ptr |-> b]
  <2> DEFINE old  == batch[t]
             slot == [ptr |-> b]
  <2>1. old \in Batches /\ slot \in Slot /\ old.len <= Len(old.slots)
    BY <1>1, ZenonT(30)
  <2> HIDE DEF old, slot, Push
  <2>2. /\ push(old, slot) \in Batches
        /\ Full(old) => push(old, slot) = old
        /\ ~ Full(old) =>
             /\ push(old, slot).len = old.len + 1 /\ push(old, slot).len <= Capacity
             /\ push(old, slot).len <= Len(push(old, slot).slots)
             /\ \A k \in 1 .. old.len : push(old, slot).slots[k] = old.slots[k]
             /\ push(old, slot).slots[old.len + 1] = slot
    BY <2>1, PushFills, ZenonT(30)
  <2> QED BY <2>2, ZenonT(30) DEF old, slot
<1>3. /\ Append(pushed[t], item) \in Seq(Pushed) /\ Len(pushed[t]) \in Nat
      /\ Len(Append(pushed[t], item)) = Len(pushed[t]) + 1
      /\ \A k \in 1 .. Len(pushed[t]) : Append(pushed[t], item)[k] = pushed[t][k]
      /\ Append(pushed[t], item)[Len(pushed[t]) + 1] = item
  <2>1. item \in Pushed /\ pushed[t] \in Seq(Pushed)
    BY <1>1, ZenonT(30)
  <2> HIDE DEF item, Push
  <2>2. Len(pushed[t]) \in Nat
    BY <2>1, Lengths, ZenonT(30)
  <2>3. /\ Append(pushed[t], item) \in Seq(Pushed)
        /\ Len(Append(pushed[t], item)) = Len(pushed[t]) + 1
        /\ Append(pushed[t], item)[Len(pushed[t]) + 1] = item
        /\ \A k \in 1 .. Len(pushed[t]) : Append(pushed[t], item)[k] = pushed[t][k]
    BY <2>1, Appending, SMTT(30)
  <2> QED BY <2>2, <2>3, ZenonT(30)
<1> HIDE DEF grown, item
<1>4. batch' = [batch EXCEPT ![t] = grown]
  BY ZenonT(30) DEF grown
<1>5. pushed' = IF Full(batch[t]) THEN pushed
                ELSE [pushed EXCEPT ![t] = Append(pushed[t], item)]
  BY ZenonT(30) DEF item
<1>6. PoolTypeOK'
  <2>1. batch' \in [Threads -> Batches]
    BY <1>2, <1>4, ZenonT(30) DEF PoolInv, PoolTypeOK, Batches, Slot
  <2>2. pushed' \in [Threads -> Seq(Pushed)]
    BY <1>3, <1>5, ZenonT(30) DEF PoolInv, PoolTypeOK, Pushed, Content
  <2> QED BY <2>1, <2>2, ZenonT(30) DEF PoolInv, PoolTypeOK, Batches, Slot, Pushed, Content
<1>a. UNCHANGED <<pool, held, mem, vis, untouched, careless>> /\ b \in held[t]
  BY ZenonT(30)
<1> HIDE DEF Push
<1>7. ExclusiveBuffers' /\ UntouchedHeld' /\ NoLeftovers'
  <2>1. ExclusiveBuffers'
    BY <1>a, ExclusiveKept, ZenonT(30) DEF PoolInv
  <2>2. UntouchedHeld' /\ NoLeftovers'
    BY <1>a, ZenonT(30) DEF PoolInv, UntouchedHeld, NoLeftovers
  <2> QED BY <2>1, <2>2, ZenonT(30)
<1>8. SlotsFilled'
  <2> SUFFICES ASSUME NEW u \in Threads
               PROVE  /\ batch'[u].len = Len(pushed'[u]) /\ batch'[u].len <= Capacity
                      /\ batch'[u].len <= Len(batch'[u].slots)
                      /\ \A k \in 1 .. batch'[u].len : batch'[u].slots[k].ptr = pushed'[u][k].ptr
    BY ZenonT(30) DEF SlotsFilled
  <2>1. CASE u # t \/ Full(batch[t])
    <3>1. batch'[u] = batch[u] /\ pushed'[u] = pushed[u]
      BY <2>1, <1>2, <1>4, <1>5, ZenonT(30) DEF PoolInv, PoolTypeOK
    <3>2. /\ batch[u].len = Len(pushed[u]) /\ batch[u].len <= Capacity
          /\ batch[u].len <= Len(batch[u].slots)
          /\ \A k \in 1 .. batch[u].len : batch[u].slots[k].ptr = pushed[u][k].ptr
      BY ZenonT(30) DEF PoolInv, SlotsFilled
    <3> QED BY <3>1, <3>2, ZenonT(30)
  <2>2. CASE u = t /\ ~ Full(batch[t])
    <3>1. batch'[u] = grown /\ pushed'[u] = Append(pushed[t], item)
      BY <2>2, <1>4, <1>5, ZenonT(30) DEF PoolInv, PoolTypeOK
    <3>2. batch[t].len = Len(pushed[t])
          /\ \A k \in 1 .. batch[t].len : batch[t].slots[k].ptr = pushed[t][k].ptr
      BY ZenonT(30) DEF PoolInv, SlotsFilled
    <3>3. item.ptr = b
      BY ZenonT(30) DEF item
    <3>4. batch[t].len \in Nat
      BY ZenonT(30) DEF PoolInv, PoolTypeOK
    <3>5. grown.len = Len(pushed'[u]) /\ grown.len <= Capacity /\ grown.len <= Len(grown.slots)
      BY <2>2, <3>1, <3>2, <1>2, <1>3, ZenonT(30)
    <3>6. ASSUME NEW k \in 1 .. grown.len PROVE grown.slots[k].ptr = pushed'[u][k].ptr
      <4>1. grown.len = batch[t].len + 1
        BY <1>2, <2>2, ZenonT(30)
      <4>2. k \in 1 .. batch[t].len \/ k = batch[t].len + 1
        BY <3>4, <4>1, SMTT(30)
      <4>3. CASE k \in 1 .. batch[t].len
        <5>1. grown.slots[k] = batch[t].slots[k] /\ pushed'[u][k] = pushed[t][k]
          BY <1>2, <1>3, <2>2, <3>1, <3>2, <4>3, ZenonT(30)
        <5> QED BY <3>2, <4>3, <5>1, ZenonT(30)
      <4>4. CASE k = batch[t].len + 1
        <5>1. grown.slots[k] = [ptr |-> b] /\ pushed'[u][k] = item
          BY <1>2, <1>3, <2>2, <3>1, <3>2, <4>4, ZenonT(30)
        <5>2. [ptr |-> b].ptr = b
          BY ZenonT(30)
        <5> QED BY <3>3, <5>1, <5>2, ZenonT(30)
      <4> QED BY <4>2, <4>3, <4>4, ZenonT(30)
    <3> QED BY <3>1, <3>5, <3>6, ZenonT(30)
  <2> QED BY <2>1, <2>2, ZenonT(30)
<1>9. PushedIntact'
  <2> SUFFICES ASSUME NEW u \in Threads \ careless, NEW k \in 1 .. Len(pushed'[u])
               PROVE  /\ pushed'[u][k].ptr \in held'[u]
                      /\ mem'[pushed'[u][k].ptr] = pushed'[u][k].bytes
    BY <1>a, ZenonT(30) DEF PushedIntact
  <2>0. \A v \in Threads \ careless : \A j \in 1 .. Len(pushed[v]) :
          pushed[v][j].ptr \in held'[v] /\ mem'[pushed[v][j].ptr] = pushed[v][j].bytes
    BY <1>a, ZenonT(30) DEF PoolInv, PushedIntact
  <2>1. CASE u # t \/ Full(batch[t])
    <3>1. pushed'[u] = pushed[u]
      BY <2>1, <1>5, ZenonT(30) DEF PoolInv, PoolTypeOK
    <3> QED BY <2>0, <3>1, ZenonT(30)
  <2>2. CASE u = t /\ ~ Full(batch[t])
    <3>1. pushed'[u] = Append(pushed[t], item)
      BY <2>2, <1>5, ZenonT(30) DEF PoolInv, PoolTypeOK
    <3>2. k \in 1 .. Len(pushed[t]) + 1
      BY <1>3, <3>1, ZenonT(30)
    <3>3. k \in 1 .. Len(pushed[t]) \/ k = Len(pushed[t]) + 1
      BY <1>3, <3>2, SMTT(30)
    <3>4. CASE k \in 1 .. Len(pushed[t])
      <4>1. pushed'[u][k] = pushed[t][k]
        BY <1>3, <3>1, <3>4, ZenonT(30)
      <4> QED BY <2>0, <2>2, <3>4, <4>1, ZenonT(30)
    <3>5. CASE k = Len(pushed[t]) + 1
      <4>1. pushed'[u][k] = item
        BY <1>3, <3>1, <3>5, ZenonT(30)
      <4>2. item.ptr = b /\ item.bytes = mem[b]
        BY ZenonT(30) DEF item
      <4> QED BY <1>a, <2>2, <4>1, <4>2, ZenonT(30)
    <3> QED BY <3>3, <3>4, <3>5, ZenonT(30)
  <2> QED BY <2>1, <2>2, ZenonT(30)
<1> QED BY <1>6, <1>7, <1>8, <1>9, ZenonT(30) DEF PoolInv

LEMMA ClearKeeps ==
  ASSUME PoolInv, NEW t \in Threads, Clear(t)
  PROVE  PoolInv'
<1>a. batch[t] \in [slots : Seq([ptr : Buffers]), len : Nat]
  BY ZenonT(30) DEF PoolInv, PoolTypeOK
<1>b. \A S : << >> \in Seq(S)
  OBVIOUS
<1> USE CapacityAssumption DEF Clear, clear
<1>0. clear(batch[t]) \in [slots : Seq([ptr : Buffers]), len : Nat]
  BY <1>a, ZenonT(30)
<1>1. PoolTypeOK'
  BY <1>0, <1>b, ZenonT(30) DEF PoolInv, PoolTypeOK
<1>2. ExclusiveBuffers' /\ UntouchedHeld' /\ NoLeftovers'
  <2>1. ExclusiveBuffers'
    BY ExclusiveKept, ZenonT(30) DEF PoolInv
  <2>2. UntouchedHeld' /\ NoLeftovers'
    BY ZenonT(30) DEF PoolInv, UntouchedHeld, NoLeftovers
  <2> QED BY <2>1, <2>2, ZenonT(30)
<1>3. Len(batch[t].slots) \in Nat
  BY Lengths, ZenonT(30) DEF PoolInv, PoolTypeOK
<1>4. SlotsFilled' /\ PushedIntact'
  BY <1>3, SMTT(30) DEF PoolInv, PoolTypeOK, SlotsFilled, PushedIntact
<1> QED BY <1>1, <1>2, <1>4, ZenonT(30) DEF PoolInv

LEMMA PoolStep == PoolInv /\ [PoolNext]_poolVars => PoolInv'
<1> SUFFICES ASSUME PoolInv, [PoolNext]_poolVars PROVE PoolInv' BY ZenonT(30)
<1>1. CASE UNCHANGED poolVars
  <2> USE <1>1 DEF poolVars
  <2>1. PoolTypeOK' /\ UntouchedHeld' /\ NoLeftovers'
    BY ZenonT(30) DEF PoolInv, PoolTypeOK, UntouchedHeld, NoLeftovers
  <2>2. ExclusiveBuffers'
    BY ExclusiveKept, ZenonT(30) DEF PoolInv
  <2>3. SlotsFilled' /\ PushedIntact'
    BY ZenonT(30) DEF PoolInv, SlotsFilled, PushedIntact
  <2> QED BY <2>1, <2>2, <2>3, ZenonT(30) DEF PoolInv
<1>2. CASE PoolNext
  BY <1>2, GetRecycledKeeps, GetFreshKeeps, WriteKeeps, PutKeeps, DropBufferKeeps, PushKeeps,
     ClearKeeps, ZenonT(30)
     DEF PoolNext
<1> QED BY <1>1, <1>2, ZenonT(30)

-----------------------------------------------------------------------------
(* However get(), put(), push() and clear() interleave, the pool is within *)
(* its capacity and every slot of every batch holds a buffer.              *)
THEOREM PoolTyped == PoolSpec => []PoolTypeOK
<1>1. PoolInv => PoolTypeOK
  BY ZenonT(30) DEF PoolInv
<1> QED BY <1>1, PoolInvInit, PoolStep, PTL DEF PoolSpec

(* get() shows nothing an earlier owner wrote, for every sequence of       *)
(* get(), put(), drops and writes.                                         *)
THEOREM RecycledAreClean == PoolSpec => []NoLeftovers
<1>1. PoolInv => NoLeftovers
  BY ZenonT(30) DEF PoolInv
<1> QED BY <1>1, PoolInvInit, PoolStep, PTL DEF PoolSpec

(* However often a SendBatchRaw is filled and cleared, its entries are the *)
(* ones pushed since the last clear(), in order and at most Capacity.      *)
THEOREM BatchHoldsLatest == PoolSpec => []FillIsLatest
<1>1. PoolInv => FillIsLatest
  <2> SUFFICES ASSUME PoolInv, NEW t \in Threads, NEW k \in 1 .. batch[t].len
               PROVE  Entries(batch[t])[k].ptr = pushed[t][k].ptr
    BY ZenonT(30) DEF PoolInv, SlotsFilled, FillIsLatest
  <2>1. batch[t] \in [slots : Seq([ptr : Buffers]), len : Nat] /\ batch[t].len <= Len(batch[t].slots)
    BY ZenonT(30) DEF PoolInv, PoolTypeOK, SlotsFilled
  <2>2. Entries(batch[t])[k] = batch[t].slots[k]
    BY <2>1, EntriesAreSlots, ZenonT(30)
  <2> QED BY <2>2, ZenonT(30) DEF PoolInv, SlotsFilled
<1> QED BY <1>1, PoolInvInit, PoolStep, PTL DEF PoolSpec

(* The pointers a backend dereferences still lead to the bytes that were   *)
(* pushed, unless the thread itself wrote, put back or dropped one of the  *)
(* buffers since clear(): what other threads do, with or without care, and *)
(* what the pool recycles does not reach them.                             *)
THEOREM PointersStayValid == PoolSpec => []EntriesIntact
<1>1. PoolInv => EntriesIntact
  <2> SUFFICES ASSUME PoolInv, NEW t \in Threads \ careless, NEW k \in 1 .. batch[t].len
               PROVE  /\ Entries(batch[t])[k].ptr \in held[t]
                      /\ mem[Entries(batch[t])[k].ptr] = pushed[t][k].bytes
    BY ZenonT(30) DEF EntriesIntact, Intact
  <2>1. batch[t] \in [slots : Seq([ptr : Buffers]), len : Nat] /\ batch[t].len <= Len(batch[t].slots)
    BY ZenonT(30) DEF PoolInv, PoolTypeOK, SlotsFilled
  <2>2. Entries(batch[t])[k] = batch[t].slots[k]
    BY <2>1, EntriesAreSlots, ZenonT(30)
  <2> QED BY <2>2, SMTT(30) DEF PoolInv, SlotsFilled, PushedIntact
<1> QED BY <1>1, PoolInvInit, PoolStep, PTL DEF PoolSpec

-----------------------------------------------------------------------------
(* Byte order.  A word of n bytes is a sequence of that length, and        *)
(* swapping it twice gives it back.                                        *)
LEMMA WordLen ==
  ASSUME NEW n \in Nat, NEW w \in Word(n)
  PROVE  Len(w) = n /\ DOMAIN w = 1 .. n
BY FunctionIsSequence, Lengths, ZenonT(30) DEF Word

LEMMA SwapTwice ==
  ASSUME NEW n \in Nat, NEW w \in Word(n)
  PROVE  Swapped(w) \in Word(n) /\ Swapped(Swapped(w)) = w
BY WordLen DEF Swapped, Word

(* to_be() leaves the bytes in network order in memory; from_be() and      *)
(* from_ne_bytes() undo to_be() and the store.                             *)
LEMMA BytesRoundTrip ==
  ASSUME NEW n \in Nat, NEW w \in Word(n), NEW little \in BOOLEAN
  PROVE  /\ InMemory(little, BigEndian(little, w)) = w
         /\ BigEndian(little, FromMemory(little, w)) = w
         /\ InMemory(little, FromMemory(little, w)) = w
         /\ FromMemory(little, InMemory(little, w)) = w
BY SwapTwice, ZenonT(30) DEF InMemory, BigEndian, FromMemory

Storages ==
  [ss_family : {"AF_UNSPEC", "AF_INET", "AF_INET6"}, port : Word(2), addr4 : Word(4),
   flowinfo : Word(4), addr6 : Word(16), scope_id : Word(4)]

(* encode_sockaddr and decode_sockaddr are inverse on every address, on a  *)
(* host of either byte order and whatever the storage held before, and the *)
(* kernel reads the endpoint that was meant.                               *)
THEOREM AddressRoundTrip ==
  ASSUME NEW little \in BOOLEAN, NEW a \in SocketAddrs, NEW s \in Storages
  PROVE  /\ decode_sockaddr(little, encode_sockaddr(little, a, s), AddrLen(a)) = a
         /\ KernelReads(encode_sockaddr(little, a, s)) = Endpoint(a)
BY BytesRoundTrip DEF AddrsV4, encode_sockaddr, EncodeV4, Storages, AddrLen, decode_sockaddr,
   DecodeV4, KernelReads, Endpoint, AddrsV6, EncodeV6, DecodeV6, SocketAddrs

-----------------------------------------------------------------------------
(* `as c_int` and back: the kernel, reading the c_int as unsigned, sees    *)
(* the low 32 bits.                                                        *)
LEMMA CastBack ==
  ASSUME NEW x \in Nat
  PROVE  /\ CInt(x) \in Int /\ AsU32(CInt(x)) = x % Modulus /\ AsU32(CInt(x)) \in U32
         /\ x \in U32 => AsU32(x) = x /\ x % Modulus = x
BY OptionsAssumption DEF CInt, U32, AsU32

(* A time to live that the kernel accepts is the u32 it was cast from, or  *)
(* the default.                                                            *)
LEMMA TtlKept ==
  ASSUME NEW v \in U32, CInt(v) = -1 \/ CInt(v) \in 1 .. MaxTtl
  PROVE  AsU32(Stored("IP_TTL", CInt(v))) = IF v = Modulus - 1 THEN DefaultTtl ELSE v
<1>1. /\ Modulus \in Nat /\ Modulus > 0 /\ Modulus \div 2 \in Nat
      /\ MaxTtl \in Nat /\ MaxTtl < Modulus \div 2 /\ DefaultTtl \in 1 .. MaxTtl
      /\ 2 * (Modulus \div 2) = Modulus
  BY OptionsAssumption
<1>2. v \in 0 .. Modulus - 1 /\ v % Modulus = v
  BY <1>1 DEF U32
<1>3. CInt(v) = IF v >= Modulus \div 2 THEN v - Modulus ELSE v
  BY <1>2, ZenonT(30) DEF CInt
<1>4. DefaultTtl % Modulus = DefaultTtl
  BY <1>1
<1>5. CASE v = Modulus - 1
  BY <1>1, <1>3, <1>4, <1>5 DEF Stored, AsU32
<1>6. CASE v # Modulus - 1
  <2>1. CInt(v) = v /\ v # -1
    BY <1>1, <1>2, <1>3, <1>6
  <2> QED BY <1>2, <1>6, <2>1, ZenonT(30) DEF Stored, AsU32
<1> QED BY <1>5, <1>6, ZenonT(30)

LEMMA StoredInt ==
  ASSUME NEW o, NEW x \in Int PROVE Stored(o, x) \in Int
BY OptionsAssumption DEF Stored

LEMMA PassedInt ==
  ASSUME NEW c \in Calls, NEW v \in Args[c]
  PROVE  v \in U32 /\ v \in Nat /\ Passed(c, v) \in Int
BY OptionsAssumption, CastBack DEF Calls, U32, Passed

LEMMA BufferSizeBounded ==
  ASSUME NEW size, size \in Nat, NEW old
  PROVE  Configured(size, old) \in MinBuf .. 2 * MaxBuf
<1>1. AsU32(CInt(size)) \in Nat
  BY CastBack, OptionsAssumption DEF U32
<1>2. BufferSize(CInt(size)) \in MinBuf .. 2 * MaxBuf
  <2> DEFINE m == AsU32(CInt(size))
  <2>1. m \in Nat
    BY <1>1
  <2> HIDE DEF m
  <2>2. \A taken \in 0 .. MaxBuf :
          (IF 2 * taken > MinBuf THEN 2 * taken ELSE MinBuf) \in MinBuf .. 2 * MaxBuf
    BY ObjectAssumption
  <2>3. (IF m < MaxBuf THEN m ELSE MaxBuf) \in 0 .. MaxBuf
    BY <2>1, ObjectAssumption
  <2> QED BY <2>2, <2>3, ZenonT(30) DEF m, BufferSize
<1>3. size # None
  BY DEF None
<1> QED BY <1>2, <1>3, ZenonT(30) DEF Configured

-----------------------------------------------------------------------------
LEMMA TypeInit == SocketInit => SocketTypeOK
<1> SUFFICES ASSUME SocketInit PROVE SocketTypeOK BY ZenonT(30)
<1>1. Unspecified \in SocketAddrs
  BY DEF Unspecified, SocketAddrs, AddrsV4, Word, Zeros, Byte
<1>2. OptionsTypeOK
  <2>1. Initially \in [Options -> Int]
    BY OptionsAssumption DEF Initially
  <2> QED BY <2>1, ZenonT(30) DEF SocketInit, OptionsInit, OptionsTypeOK, None
<1> QED BY <1>1, <1>2, ZenonT(30) DEF SocketInit, SocketTypeOK

LEMMA OptionsTypeStep ==
  ASSUME OptionsTypeOK, OptionStep PROVE OptionsTypeOK'
<1>1. ASSUME NEW c \in Calls, NEW v \in Args[c], SetOption(c, v) PROVE OptionsTypeOK'
  BY <1>1, PassedInt, StoredInt DEF SetOption, OptionsTypeOK
<1>2. ASSUME NEW t \in Callers, NEW v \in {0, 1}, PktinfoFirst(t, v) PROVE OptionsTypeOK'
  <2>1. Stored("IP_PKTINFO", v) \in Int
    BY StoredInt
  <2> QED BY <1>2, <2>1, ZenonT(30) DEF PktinfoFirst, OptionsTypeOK
<1>3. ASSUME NEW t \in Callers, PktinfoSecond(t) PROVE OptionsTypeOK'
  <2>1. pktinfo[t] \in Int /\ Stored("IPV6_RECVPKTINFO", pktinfo[t]) \in Int
    BY StoredInt DEF OptionsTypeOK, None
  <2> QED BY <1>3, <2>1, ZenonT(30) DEF PktinfoSecond, OptionsTypeOK
<1> QED BY <1>1, <1>2, <1>3, ZenonT(30) DEF OptionStep

LEMMA TypeStep == SocketTypeOK /\ [SocketNext]_socketVars => SocketTypeOK'
<1> SUFFICES ASSUME SocketTypeOK, [SocketNext]_socketVars PROVE SocketTypeOK' BY ZenonT(30)
<1> USE DEF SocketTypeOK, fixed, addrs
<1>1. CASE UseOptions
  BY <1>1, OptionsTypeStep, ZenonT(30) DEF UseOptions
<1>2. CASE UNCHANGED optionVars
  <2>1. OptionsTypeOK'
    BY <1>2, ZenonT(30) DEF OptionsTypeOK, optionVars
  <2>2. CASE SetNonblocking \/ Fails \/ Drop \/ Gone \/ Convert
    BY <2>1, <2>2, ZenonT(30) DEF SetNonblocking, Fails, Drop, Gone, Convert
  <2>3. CASE SetSndBuf \/ SetRcvBuf
    <3>1. {config.send_buf_size, config.recv_os_buf_size} \subseteq Nat \cup {None}
      BY ObjectAssumption, ZenonT(30)
    <3>2. \A size \in Nat \cup {None}, old \in MinBuf .. 2 * MaxBuf \cup {None} :
            Configured(size, old) \in MinBuf .. 2 * MaxBuf \cup {None}
      BY BufferSizeBounded, ZenonT(30) DEF Configured
    <3>3. {sndbuf', rcvbuf'} \subseteq MinBuf .. 2 * MaxBuf \cup {None}
      <4> DEFINE BufSizes == MinBuf .. 2 * MaxBuf \cup {None}
      <4>1. sndbuf \in BufSizes /\ rcvbuf \in BufSizes
        BY ZenonT(30)
      <4>2. Configured(config.send_buf_size, sndbuf) \in BufSizes
            /\ Configured(config.recv_os_buf_size, rcvbuf) \in BufSizes
        BY <3>1, <3>2, <4>1, ZenonT(30)
      <4> HIDE DEF BufSizes, SocketTypeOK
      <4>3. sndbuf' \in BufSizes /\ rcvbuf' \in BufSizes
        BY <2>3, <4>1, <4>2, ZenonT(30) DEF SetSndBuf, SetRcvBuf
      <4> QED BY <4>3, ZenonT(30) DEF BufSizes
    <3> QED BY <2>1, <2>3, <3>3, ZenonT(30) DEF SetSndBuf, SetRcvBuf
  <2>4. ASSUME NEW a \in Addrs, Connect(a) PROVE SocketTypeOK'
    BY <2>1, <2>4, ObjectAssumption, ZenonT(30) DEF Connect
  <2>5. ASSUME NEW c \in {"std", "tokio", "binger"}, Close(c) PROVE SocketTypeOK'
    BY <2>1, <2>5, ZenonT(30) DEF Close
  <2>6. ASSUME NEW f \in Fds, Elsewhere(f) PROVE SocketTypeOK'
    BY <2>1, <2>6, ZenonT(30) DEF Elsewhere
  <2>7. CASE UNCHANGED socketVars
    BY <2>1, <2>7, ZenonT(30) DEF socketVars
  <2> HIDE DEF SocketTypeOK
  <2>8. CASE UseOptions
    BY <2>8, <1>1, ZenonT(30)
  <2> QED BY <2>2, <2>3, <2>4, <2>5, <2>6, <2>7, <2>8, ZenonT(30) DEF SocketNext
<1>3. UseOptions \/ UNCHANGED optionVars
  BY ZenonT(30) DEF SocketNext, SetNonblocking, SetSndBuf, SetRcvBuf, Convert, Fails, Drop, Gone, Connect, Close,
         Elsewhere, socketVars, optionVars
<1> QED BY <1>1, <1>2, <1>3, ZenonT(30)

(* Construction, setsockopt, connect() and the drop keep the socket well   *)
(* formed, whatever arguments the setters are given: what is read back of  *)
(* a buffer size is at most the limit of the kernel, and of an option a    *)
(* value of its type.                                                      *)
THEOREM SocketTyped == SocketSpec => []SocketTypeOK
BY TypeInit, TypeStep, PTL DEF SocketSpec

-----------------------------------------------------------------------------
(* Descriptors.  What makes the ownership inductive: there is at most one  *)
(* value left that closes the descriptor, and it is there exactly as long  *)
(* as the descriptor is the socket's.                                      *)
Building == {"nonblocking", "sndbuf", "rcvbuf", "convert"}
Ending   == {"unwinding", "dropping"}

OneCloser ==
  /\ \A f \in Fds : table[f] = "ours" => f = fd
  /\ stage \in Building \cup {"live"} \cup Ending =>
       \/ table[fd] = "ours" /\ \E c \in {"std", "tokio", "binger"} : closers = {c}
       \/ stage \in Ending /\ table[fd] # "ours" /\ closers = {}
  /\ stage \in {"failed", "dropped"} => table[fd] # "ours" /\ closers = {}

LEMMA OneCloserStep == SocketTypeOK /\ OneCloser /\ [SocketNext]_socketVars => OneCloser'
<1> SUFFICES ASSUME SocketTypeOK, OneCloser, [SocketNext]_socketVars PROVE OneCloser' BY ZenonT(30)
<1> USE DEF OneCloser, Building, Ending, fixed, addrs
<1>1. CASE SetNonblocking \/ SetSndBuf \/ SetRcvBuf \/ Fails
  BY <1>1, ZenonT(30) DEF SetNonblocking, SetSndBuf, SetRcvBuf, Fails
<1>2. CASE Convert
  BY <1>2, ZenonT(30) DEF Convert
<1>3. CASE UseOptions \/ \E a \in Addrs : Connect(a)
  BY <1>3, ZenonT(30) DEF UseOptions, Connect
<1>4. CASE Drop \/ Gone
  BY <1>4, ZenonT(30) DEF Drop, Gone
<1>5. ASSUME NEW c \in {"std", "tokio", "binger"}, Close(c) PROVE OneCloser'
  BY <1>5, ZenonT(30) DEF Close, SocketTypeOK
<1>6. ASSUME NEW f \in Fds, Elsewhere(f) PROVE OneCloser'
  BY <1>6, ZenonT(30) DEF Elsewhere, SocketTypeOK
<1>7. CASE UNCHANGED socketVars
  BY <1>7, ZenonT(30) DEF socketVars
<1> HIDE DEF OneCloser
<1> QED BY <1>1, <1>2, <1>3, <1>4, <1>5, <1>6, <1>7, ZenonT(30) DEF SocketNext

LEMMA OneCloserAlways == SocketSpec => [](SocketTypeOK /\ OneCloser)
<1>1. SocketInit => OneCloser
  BY ZenonT(30) DEF SocketInit, OneCloser, Building, Ending
<1> QED BY <1>1, TypeInit, TypeStep, OneCloserStep, PTL DEF SocketSpec

(* from_std that fails at any step, and a drop, close the socket; until    *)
(* then the number BingerUdp holds is its own.                             *)
THEOREM DescriptorOwned == SocketSpec => []OwnsDescriptor
<1>1. OneCloser => OwnsDescriptor
  BY ZenonT(30) DEF OneCloser, OwnsDescriptor, Building, Ending
<1> QED BY <1>1, OneCloserAlways, PTL

(* No descriptor is closed twice: close_fd never hits a file the process   *)
(* opened meanwhile under the same number.                                 *)
THEOREM NothingElseClosed == SocketSpec => ClosesOnlyItsOwn
<1>1. SocketTypeOK /\ OneCloser /\ [SocketNext]_socketVars =>
        [closers' # closers => \A f \in Fds : table[f] = "other" => table'[f] = "other"]_socketVars
  BY ZenonT(30) DEF Close, SocketTypeOK, OneCloser, Building, Ending, Convert, SocketNext, SetNonblocking,
     SetSndBuf, SetRcvBuf, Fails, UseOptions, Connect, Drop, Gone, Elsewhere
<1> QED BY <1>1, OneCloserAlways, PTL DEF SocketSpec, ClosesOnlyItsOwn

-----------------------------------------------------------------------------
(* connect().  The kernel holds the encoding of the last address. *)
PeerEncoded ==
  asked_peer # Unspecified => peer = encode_sockaddr(build.little, asked_peer, ZeroedStorage)

(* Whatever address connect() is given, the kernel connects to it, and     *)
(* decode_sockaddr reads it back.                                          *)
THEOREM ConnectsAsAsked == SocketSpec => []AddressesAgree
<1>1. SocketInit => PeerEncoded
  BY ZenonT(30) DEF SocketInit, PeerEncoded
<1>2. PeerEncoded /\ [SocketNext]_socketVars => PeerEncoded'
  <2> SUFFICES ASSUME PeerEncoded, [SocketNext]_socketVars PROVE PeerEncoded' BY ZenonT(30)
  <2>1. ASSUME NEW a \in Addrs, Connect(a) PROVE PeerEncoded'
    BY <2>1, ZenonT(30) DEF Connect, PeerEncoded, fixed
  <2>2. CASE UNCHANGED <<build, peer, asked_peer>>
    BY <2>2, ZenonT(30) DEF PeerEncoded
  <2>3. (\E a \in Addrs : Connect(a)) \/ UNCHANGED <<build, peer, asked_peer>>
    BY ZenonT(30) DEF SocketNext, SetNonblocking, SetSndBuf, SetRcvBuf, Convert, Fails, UseOptions, Drop, Gone,
           Close, Elsewhere, socketVars, fixed, addrs
  <2> QED BY <2>1, <2>2, <2>3, ZenonT(30)
<1>3. SocketTypeOK /\ PeerEncoded => AddressesAgree
  <2> SUFFICES ASSUME SocketTypeOK, PeerEncoded, asked_peer # Unspecified
               PROVE  /\ KernelReads(peer) = Endpoint(asked_peer)
                      /\ decode_sockaddr(build.little, peer, AddrLen(asked_peer)) = asked_peer
    BY ZenonT(30) DEF AddressesAgree
  <2>1. ZeroedStorage \in Storages
    <3>1. Zeros(2) \in Word(2) /\ Zeros(4) \in Word(4) /\ Zeros(16) \in Word(16)
      BY DEF Zeros, Word, Byte
    <3> QED BY <3>1, ZenonT(30) DEF ZeroedStorage, Storages
  <2>2. build.little \in BOOLEAN /\ asked_peer \in SocketAddrs
    BY ObjectAssumption, ZenonT(30) DEF SocketTypeOK
  <2>3. peer = encode_sockaddr(build.little, asked_peer, ZeroedStorage)
    BY ZenonT(30) DEF PeerEncoded
  <2> QED BY <2>1, <2>2, <2>3, AddressRoundTrip, ZenonT(30)
<1> QED BY <1>1, <1>2, <1>3, TypeInit, TypeStep, PTL DEF SocketSpec

-----------------------------------------------------------------------------
(* Buffers.  Each size is set by its own step of from_std, and only then.  *)
Reached(size, buf) ==
  CASE size = None     -> buf = None
    [] size \in U32    -> buf >= size \/ buf = 2 * MaxBuf
    [] OTHER           -> buf \in MinBuf .. 2 * MaxBuf

BuffersSet ==
  /\ stage \in {"nonblocking", "sndbuf"} => sndbuf = None
  /\ stage \in {"nonblocking", "sndbuf", "rcvbuf"} => rcvbuf = None
  /\ stage \in {"rcvbuf", "convert", "live"} => Reached(config.send_buf_size, sndbuf)
  /\ stage \in {"convert", "live"} => Reached(config.recv_os_buf_size, rcvbuf)

LEMMA ConfiguredReaches ==
  ASSUME NEW size \in Nat \cup {None}
  PROVE  Reached(size, Configured(size, None))
BY OptionsAssumption, ObjectAssumption, CastBack, BufferSizeBounded DEF U32, None, Reached,
   Configured, BufferSize

(* A size that fits 32 bits reaches its own buffer, which holds as much as *)
(* it says or as the kernel gives, for every Config.                       *)
THEOREM BuffersReached == SocketSpec => []BuffersAsConfigured
<1>1. SocketInit => BuffersSet
  BY ZenonT(30) DEF SocketInit, BuffersSet
<1>2. SocketTypeOK /\ BuffersSet /\ [SocketNext]_socketVars => BuffersSet'
  <2> SUFFICES ASSUME SocketTypeOK, BuffersSet, [SocketNext]_socketVars PROVE BuffersSet' BY ZenonT(30)
  <2>1. /\ Reached(config.send_buf_size, Configured(config.send_buf_size, None))
        /\ Reached(config.recv_os_buf_size, Configured(config.recv_os_buf_size, None))
    BY ConfiguredReaches, ObjectAssumption, ZenonT(30) DEF SocketTypeOK
  <2> USE DEF BuffersSet, fixed
  <2>2. CASE SetSndBuf
    BY <2>1, <2>2, ZenonT(30) DEF SetSndBuf
  <2>3. CASE SetRcvBuf
    BY <2>1, <2>3, ZenonT(30) DEF SetRcvBuf
  <2>4. CASE SetNonblocking \/ Fails \/ Convert \/ Drop \/ Gone
    BY <2>4, ZenonT(30) DEF SetNonblocking, Fails, Convert, Drop, Gone
  <2>5. CASE UNCHANGED <<config, stage, sndbuf, rcvbuf>>
    BY <2>5, ZenonT(30)
  <2>6. \/ SetSndBuf \/ SetRcvBuf \/ SetNonblocking \/ Fails \/ Convert \/ Drop \/ Gone
        \/ UNCHANGED <<config, stage, sndbuf, rcvbuf>>
    BY ZenonT(30) DEF SocketNext, UseOptions, Connect, Close, Elsewhere, socketVars
  <2> QED BY <2>2, <2>3, <2>4, <2>5, <2>6, ZenonT(30)
<1>3. BuffersSet => BuffersAsConfigured
  BY DEF BuffersAsConfigured, Reached, BuffersSet
<1> QED BY <1>1, <1>2, <1>3, TypeInit, TypeStep, PTL DEF SocketSpec

-----------------------------------------------------------------------------
(* Options.  Only UseOptions touches them. *)
LEMMA OptionsOnlyByOptionStep ==
  ASSUME [SocketNext]_socketVars PROVE OptionStep \/ UNCHANGED optionVars
BY ZenonT(30) DEF SocketNext, SetNonblocking, SetSndBuf, SetRcvBuf, Convert, Fails, UseOptions, Drop, Gone,
       Connect, Close, Elsewhere, socketVars, optionVars

(* Between the two setsockopts of the only enable_pktinfo() under way, the *)
(* first option is as asked and the second is about to be.                 *)
PktinfoInv ==
  /\ ~ mixed =>
       /\ opt["IP_PKTINFO"] = last
       /\ \A t \in Callers : pktinfo[t] \in {None, last}
       /\ ((\A t \in Callers : pktinfo[t] = None) /\ ~ failed) =>
            opt["IPV6_RECVPKTINFO"] = last

LEMMA PktinfoStep ==
  ASSUME OptionsTypeOK, PktinfoInv, OptionStep PROVE PktinfoInv'
<1>1. ASSUME NEW c \in Calls, NEW v \in Args[c], SetOption(c, v) PROVE PktinfoInv'
  BY <1>1 DEF OptionOf, Calls, KernelOption, SO_BUSY_POLL, SO_MAX_PACING_RATE, SetOption,
     OptionsTypeOK, Options, PktinfoInv
<1>2. ASSUME NEW t \in Callers, NEW v \in {0, 1}, PktinfoFirst(t, v) PROVE PktinfoInv'
  BY <1>2 DEF Stored, PktinfoFirst, OptionsTypeOK, Options, None, PktinfoInv
<1>3. ASSUME NEW t \in Callers, PktinfoSecond(t) PROVE PktinfoInv'
  BY <1>3, OptionsAssumption, ZenonT(30) DEF PktinfoSecond, OptionsTypeOK, Stored, Accepts,
     Options, PktinfoInv
<1> QED BY <1>1, <1>2, <1>3, ZenonT(30) DEF OptionStep

(* An enable_pktinfo() that returned Ok and overlapped no other left both  *)
(* options as asked, for any number of threads.                            *)
THEOREM PktinfoTogether == SocketSpec => []PktinfoPaired
<1>1. SocketInit => PktinfoInv
  BY ZenonT(30) DEF SocketInit, OptionsInit, Initially, Options, PktinfoInv
<1>2. SocketTypeOK /\ PktinfoInv /\ [SocketNext]_socketVars => PktinfoInv'
  BY OptionsOnlyByOptionStep, PktinfoStep, ZenonT(30) DEF optionVars, PktinfoInv, SocketTypeOK
<1>3. PktinfoInv => PktinfoPaired
  BY ZenonT(30) DEF PktinfoInv, PktinfoPaired
<1> QED BY <1>1, <1>2, <1>3, TypeInit, TypeStep, PTL DEF SocketSpec

(* An accepted setting is what the kernel keeps for it. *)
LEMMA SettingsStep ==
  ASSUME OptionsTypeOK, SettingsKept, OptionStep PROVE SettingsKept'
<1> DEFINE Bools == {"gso", "gro", "timestamping"}
<1>0. /\ OptionOf("gso") = "UDP_SEGMENT" /\ OptionOf("gro") = "UDP_GRO"
      /\ OptionOf("timestamping") = "SO_TIMESTAMPNS" /\ OptionOf("ttl") = "IP_TTL"
      /\ OptionOf("busy_poll") = "SO_RCVMARK" /\ OptionOf("pacing") = "none"
      /\ \A c \in Bools : Documented(c) = OptionOf(c)
  BY DEF OptionOf, KernelOption, SO_BUSY_POLL, SO_MAX_PACING_RATE, Documented
<1>1. ASSUME NEW c \in Calls, NEW v \in Args[c], SetOption(c, v) PROVE SettingsKept'
  BY <1>0, <1>1, OptionsAssumption, PassedInt, CastBack, TtlKept, SMTT(30) DEF SetOption,
     SettingsKept, InForce, ttl, Accepts, Options, Calls, Passed, Stored, OptionsTypeOK
<1>2. ASSUME NEW t \in Callers, PktinfoSecond(t) \/ \E v \in {0, 1} : PktinfoFirst(t, v)
      PROVE  SettingsKept'
  <2>1. asked' = asked /\ \A p \in Options \ {"IP_PKTINFO", "IPV6_RECVPKTINFO"} : opt'[p] = opt[p]
    BY <1>2, ZenonT(30) DEF PktinfoFirst, PktinfoSecond, OptionsTypeOK
  <2>2. /\ \A c \in Bools : opt'[Documented(c)] = opt[Documented(c)]
        /\ opt'["IP_TTL"] = opt["IP_TTL"]
    BY <1>0, <2>1, ZenonT(30) DEF Options
  <2> QED BY <2>1, <2>2, ZenonT(30) DEF SettingsKept, InForce, ttl
<1> QED BY <1>1, <1>2, ZenonT(30) DEF OptionStep

(* The settings of set_gso, set_gro, enable_timestamping and set_ttl stay  *)
(* as accepted, for every u32 and whatever the other threads set.          *)
THEOREM SettingsStay == SocketSpec => []SettingsKept
<1>1. SocketInit => SettingsKept
  BY ZenonT(30) DEF SocketInit, OptionsInit, SettingsKept, InForce, Calls
<1>2. SocketTypeOK /\ SettingsKept /\ [SocketNext]_socketVars => SettingsKept'
  BY OptionsOnlyByOptionStep, SettingsStep, ZenonT(30) DEF optionVars, SettingsKept, InForce, ttl,
     SocketTypeOK
<1> QED BY <1>1, <1>2, TypeInit, TypeStep, PTL DEF SocketSpec
=============================================================================
