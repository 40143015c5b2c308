------------------------------ MODULE PooledSend ------------------------------
(***************************************************************************)
(* Threads that take buffers from one BufferPool (src/bufs.rs, shared by   *)
(* cloning), fill them, push them into their own send batch, send, clear   *)
(* the batch and give the buffers back.  Nothing but the callers' care     *)
(* ties a pushed pointer to its buffer: docs/adr/ADR-002 asks that pushed  *)
(* data outlive the send, and push() takes no lifetime that would enforce  *)
(* it.  A thread may do without; the history variable careless says so.    *)
(*                                                                         *)
(* A buffer is an allocation.  Its bytes are one value: Zero, or what a    *)
(* thread wrote, of which the first len are visible (none or all).         *)
(***************************************************************************)
EXTENDS SendBatchRaw, FiniteSets

CONSTANTS
  Threads,
  Buffers,       (* addresses the allocator hands out                      *)
  Values, Zero,  (* contents                                               *)
  PoolCapacity   (* capacity of the ArrayQueue                             *)

ASSUME PoolAssumption ==
  /\ PoolCapacity \in Nat \ {0}   (* ArrayQueue::new panics on zero *)
  /\ Zero \notin Values

VARIABLES
  pool,      (* the ArrayQueue, oldest buffer first                        *)
  held,      (* per thread: the BytesMut values it owns                    *)
  mem, vis,  (* per allocation: its bytes, and whether len shows them      *)
  batch,     (* per thread: its SendBatchRaw                               *)
  (* history *)
  pushed,    (* per thread: slots and bytes pushed since the last clear()  *)
  untouched, (* per thread: buffers not written since get()                *)
  careless   (* threads that wrote, put back or dropped a buffer that was  *)
             (* in their batch, since their last clear()                   *)

poolVars == <<pool, held, mem, vis, batch, pushed, untouched, careless>>

Pooled    == {pool[k] : k \in 1 .. Len(pool)}
Allocated == Pooled \cup UNION {held[t] : t \in Threads}

InBatch(t) == {pushed[t][k].ptr : k \in 1 .. Len(pushed[t])}

(* t changes or gives away b, which it may have pushed and not yet cleared. *)
Touch(t, b) == careless' = IF b \in InBatch(t) THEN careless \cup {t} ELSE careless

PoolInit ==
  /\ pool = <<>>
  /\ held = [t \in Threads |-> {}]
  /\ mem = [b \in Buffers |-> Zero] /\ vis = [b \in Buffers |-> FALSE]
  /\ batch = [t \in Threads |-> with_capacity]
  /\ pushed = [t \in Threads |-> <<>>]
  /\ untouched = [t \in Threads |-> {}]
  /\ careless = {}

-----------------------------------------------------------------------------
(* Mutant: the recycled buffer is not cleared. *)
MutGetRecycled(t) ==
  /\ pool # <<>>
  /\ pool' = Tail(pool)
  /\ held' = [held EXCEPT ![t] = @ \cup {Head(pool)}]
  /\ untouched' = [untouched EXCEPT ![t] = @ \cup {Head(pool)}]
  /\ UNCHANGED <<mem, vis, batch, pushed, careless>>

(* get() on a pool that is not empty: pop, clear. *)
GetRecycled(t) ==
  /\ pool # <<>>
  /\ pool' = Tail(pool)
  /\ held' = [held EXCEPT ![t] = @ \cup {Head(pool)}]
  /\ vis' = [vis EXCEPT ![Head(pool)] = FALSE]
  /\ untouched' = [untouched EXCEPT ![t] = @ \cup {Head(pool)}]
  /\ UNCHANGED <<mem, batch, pushed, careless>>

(* get() on an empty pool: a new allocation, zeroed and all visible.       *)
GetFresh(t, b) ==
  /\ pool = <<>>
  /\ b \in Buffers \ Allocated
  /\ held' = [held EXCEPT ![t] = @ \cup {b}]
  /\ mem' = [mem EXCEPT ![b] = Zero] /\ vis' = [vis EXCEPT ![b] = TRUE]
  /\ untouched' = [untouched EXCEPT ![t] = @ \cup {b}]
  /\ UNCHANGED <<pool, batch, pushed, careless>>

(* The caller clears the buffer and fills it. *)
Write(t, b, v) ==
  /\ b \in held[t] /\ Touch(t, b)
  /\ mem' = [mem EXCEPT ![b] = v] /\ vis' = [vis EXCEPT ![b] = TRUE]
  /\ untouched' = [untouched EXCEPT ![t] = @ \ {b}]
  /\ UNCHANGED <<pool, held, batch, pushed>>

(* Mutant: the pool grows with whatever comes back. *)
MutPut(t, b) ==
  /\ b \in held[t] /\ Touch(t, b)
  /\ held' = [held EXCEPT ![t] = @ \ {b}]
  /\ pool' = Append(pool, b)
  /\ untouched' = [untouched EXCEPT ![t] = @ \ {b}]
  /\ UNCHANGED <<mem, vis, batch, pushed>>

(* put(): pushed, or dropped when the pool is full. *)
Put(t, b) ==
  /\ b \in held[t] /\ Touch(t, b)
  /\ held' = [held EXCEPT ![t] = @ \ {b}]
  /\ pool' = IF Len(pool) < PoolCapacity THEN Append(pool, b) ELSE pool
  /\ untouched' = [untouched EXCEPT ![t] = @ \ {b}]
  /\ UNCHANGED <<mem, vis, batch, pushed>>

(* The caller drops a buffer; the allocator may hand it out again. *)
DropBuffer(t, b) ==
  /\ b \in held[t] /\ Touch(t, b)
  /\ held' = [held EXCEPT ![t] = @ \ {b}]
  /\ untouched' = [untouched EXCEPT ![t] = @ \ {b}]
  /\ UNCHANGED <<pool, mem, vis, batch, pushed>>

(* push() or push_connected() of all the visible bytes of a buffer. *)
Push(t, b) ==
  LET full == Full(batch[t]) IN
  /\ b \in held[t] /\ vis[b]
  /\ batch' = [batch EXCEPT ![t] = push(@, [ptr |-> b])]
  /\ pushed' = IF full THEN pushed
               ELSE [pushed EXCEPT ![t] = Append(@, [ptr |-> b, bytes |-> mem[b]])]
  /\ UNCHANGED <<pool, held, mem, vis, untouched, careless>>

(* clear(), after which the caller's buffers are its own again. *)
Clear(t) ==
  /\ batch' = [batch EXCEPT ![t] = clear(@)]
  /\ pushed' = [pushed EXCEPT ![t] = <<>>]
  /\ careless' = careless \ {t}
  /\ UNCHANGED <<pool, held, mem, vis, untouched>>

PoolNext ==
  \E t \in Threads :
    \/ GetRecycled(t) \/ Clear(t)
    \/ \E b \in Buffers :
         \/ GetFresh(t, b) \/ Put(t, b) \/ DropBuffer(t, b) \/ Push(t, b)
         \/ \E v \in Values : Write(t, b, v)

PoolSpec == PoolInit /\ [][PoolNext]_poolVars

-----------------------------------------------------------------------------
(***************************************************************************)
(* Properties.                                                             *)
(***************************************************************************)
(* The pool never exceeds its capacity and the batches hold slots.         *)
PoolTypeOK ==
  /\ pool \in Seq(Buffers) /\ Len(pool) <= PoolCapacity
  /\ held \in [Threads -> SUBSET Buffers]
  /\ mem \in [Buffers -> Values \cup {Zero}] /\ vis \in [Buffers -> BOOLEAN]
  /\ batch \in [Threads -> [slots : Seq([ptr : Buffers]), len : Nat]]
  /\ pushed \in [Threads -> Seq([ptr : Buffers, bytes : Values \cup {Zero}])]
  /\ untouched \in [Threads -> SUBSET Buffers] /\ careless \subseteq Threads

(* "Returned buffers are cleared before being handed out": what get()      *)
(* returned shows nothing an earlier owner wrote, although the bytes are   *)
(* still there.                                                            *)
NoLeftovers ==
  \A t \in Threads : \A b \in untouched[t] : vis[b] => mem[b] = Zero

(* The batch holds exactly what was pushed since the last clear(), in      *)
(* order and never more than its capacity, whatever stale slots an earlier *)
(* fill left behind.                                                       *)
FillIsLatest ==
  \A t \in Threads :
    /\ batch[t].len = Len(pushed[t]) /\ batch[t].len <= Capacity
    /\ batch[t].len <= Len(batch[t].slots)
    /\ \A k \in 1 .. batch[t].len : Entries(batch[t])[k].ptr = pushed[t][k].ptr

(* A backend that dereferences the pointers of t's batch reads the bytes   *)
(* that were pushed.                                                       *)
Intact(t) ==
  \A k \in 1 .. batch[t].len :
    LET b == Entries(batch[t])[k].ptr IN
    b \in held[t] /\ mem[b] = pushed[t][k].bytes

(* Only a thread's own carelessness damages its batch: no other thread,    *)
(* careless or not, no recycling through the pool and no stale slot of an  *)
(* earlier fill gets between push() and send_batch().                      *)
EntriesIntact == \A t \in Threads : t \in careless \/ Intact(t)
=============================================================================
