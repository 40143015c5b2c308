----------------------------- MODULE SendBatchRaw -----------------------------
(***************************************************************************)
(* The container behind SendBatch<N> (src/batch.rs).  A slot holds the     *)
(* address of the pushed bytes, not the bytes.  clear() only resets len:   *)
(* the slots stay, their pointers dangling, and push() overwrites them.    *)
(***************************************************************************)
EXTENDS Naturals, Sequences

CONSTANT Capacity   (* N: SendBatch::<N>::new() reserves that many slots   *)

ASSUME CapacityAssumption == Capacity \in Nat

with_capacity == [slots |-> <<>>, len |-> 0]

(* Mutant: one slot too many. *)
MutFull(b) == b.len > Capacity

Full(b) == b.len >= Capacity

(* Mutant: the slot is appended whatever has been cleared. *)
MutPush(b, slot) ==
  IF Full(b) THEN b
  ELSE [slots |-> Append(b.slots, slot), len |-> b.len + 1]

(* Err(BatchFull) leaves the batch alone. *)
push(b, slot) ==
  IF Full(b) THEN b
  ELSE [slots |-> IF Len(b.slots) <= b.len THEN Append(b.slots, slot)
                  ELSE [b.slots EXCEPT ![b.len + 1] = slot],
        len |-> b.len + 1]

(* What the backends read: entry(0) .. entry(len - 1). *)
Entries(b) == SubSeq(b.slots, 1, b.len)

clear(b) == [b EXCEPT !.len = 0]
=============================================================================
