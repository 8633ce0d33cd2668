-------------------------------- MODULE Ring --------------------------------
(***************************************************************************)
(* The single-producer single-consumer ring of src/ivc/ring.c, at the      *)
(* granularity of its accesses to shared memory.  The producer runs        *)
(* axivc_ring_try_push_slot over and over; the consumer runs               *)
(* axivc_ring_try_peek_slot and then either axivc_ring_pop_slot or nothing *)
(* (axivc_message_peek_meta and a refused frame leave the slot in place).  *)
(*                                                                         *)
(* head and tail are u32 counters that wrap at IndexMod (2^32 in the       *)
(* code); a slot is SlotWords memory words, and memcpy moves one word per  *)
(* step, so a reader that overlapped a writer would see a torn slot.  Each *)
(* step is one access to memory the other side may touch; accesses to      *)
(* memory that only the acting side writes are merged into it.             *)
(***************************************************************************)
EXTENDS Integers, Sequences

CONSTANTS
  RingCapacity,   \* AXIVC_RING_CAPACITY
  IndexMod,       \* 2^32, the number of values of a u32 index
  SlotWords,      \* words that one memcpy of AXIVC_SLOT_SIZE bytes moves
  Word,           \* the values of a word
  ZeroWord        \* the word memset writes

(* 32 divides 2^32: without this the slot index of a counter would jump    *)
(* when the counter wraps.  IndexMod > RingCapacity keeps "full" and       *)
(* "empty" apart.                                                          *)
ASSUME RingAssumption ==
  /\ RingCapacity \in Nat \ {0}
  /\ IndexMod \in Nat
  /\ IndexMod > RingCapacity
  /\ IndexMod % RingCapacity = 0
  /\ SlotWords \in Nat \ {0}
  /\ ZeroWord \in Word

VARIABLES
  head,     \* ring->head: next slot to consume, written by the consumer only
  tail,     \* ring->tail: next slot to fill, written by the producer only
  slots,    \* ring->slots
  prod,     \* the producer inside axivc_ring_try_push_slot
  cons,     \* the consumer inside axivc_ring_try_peek_slot
  pushed    \* what the producer's last try_push returned

vars == <<head, tail, slots, prod, cons, pushed>>

Index == 0 .. (IndexMod - 1)
SlotIndex == 0 .. (RingCapacity - 1)
Slot == [1 .. SlotWords -> Word]
ZeroSlot == [w \in 1 .. SlotWords |-> ZeroWord]

(* (u32)(tail - head): the number of published slots.                      *)
Used(t, h) == (t - h) % IndexMod

\* Mutants: "full" one slot too late, and one slot too early.
IsFullLate(t, h) == Used(t, h) > RingCapacity
IsFullEarly(t, h) == Used(t, h) >= RingCapacity - 1

IsFull(t, h) == Used(t, h) >= RingCapacity

SlotOf(i) == i % RingCapacity

\* Mutant: a counter that does not wrap.
SuccUnbounded(i) == i + 1

Succ(i) == (i + 1) % IndexMod

TypeOK ==
  /\ head \in Index
  /\ tail \in Index
  /\ slots \in [SlotIndex -> Slot]
  /\ prod \in [pc : {"idle", "copy", "publish"}, slot : Slot,
               word : 1 .. (SlotWords + 1)]
  /\ cons \in [pc : {"idle", "copy", "peeked"}, slot : Slot,
               word : 1 .. (SlotWords + 1)]
  /\ pushed \in {"none", "ok", "full"}

-----------------------------------------------------------------------------
(* axivc_ring_initialize: an empty ring with zeroed slots.                 *)
Init ==
  /\ head = 0
  /\ tail = 0
  /\ slots = [i \in SlotIndex |-> ZeroSlot]
  /\ prod = [pc |-> "idle", slot |-> ZeroSlot, word |-> 1]
  /\ cons = [pc |-> "idle", slot |-> ZeroSlot, word |-> 1]
  /\ pushed = "none"

-----------------------------------------------------------------------------
(* Producer: axivc_ring_try_push_slot.                                     *)

\* Load head with acquire; there is room.
PushBegin(s) ==
  /\ prod.pc = "idle"
  /\ ~IsFull(tail, head)
  /\ prod' = [pc |-> "copy", slot |-> s, word |-> 1]
  /\ pushed' = "none"
  /\ UNCHANGED <<head, tail, slots, cons>>

\* Load head with acquire; the ring is full and the push returns false.
PushFull ==
  /\ prod.pc = "idle"
  /\ IsFull(tail, head)
  /\ pushed' = "full"
  /\ UNCHANGED <<head, tail, slots, prod, cons>>

\* One word of memcpy(ring->slots[tail % capacity], slot, AXIVC_SLOT_SIZE).
PushCopy ==
  /\ prod.pc = "copy"
  /\ slots' = [slots EXCEPT ![SlotOf(tail)][prod.word] = prod.slot[prod.word]]
  /\ prod' = [prod EXCEPT !.word = @ + 1,
                          !.pc = IF prod.word = SlotWords THEN "publish"
                                                          ELSE "copy"]
  /\ UNCHANGED <<head, tail, cons, pushed>>

\* smp_store_release(&ring->tail, tail + 1).
PushPublish ==
  /\ prod.pc = "publish"
  /\ tail' = Succ(tail)
  /\ prod' = [prod EXCEPT !.pc = "idle"]
  /\ pushed' = "ok"
  /\ UNCHANGED <<head, slots, cons>>

-----------------------------------------------------------------------------
(* Consumer: axivc_ring_try_peek_slot, then axivc_ring_pop_slot or not.    *)

\* Load tail with acquire; an empty ring makes the peek return false, which
\* changes nothing.
PeekBegin ==
  /\ cons.pc = "idle"
  /\ head # tail
  /\ cons' = [cons EXCEPT !.pc = "copy", !.word = 1]
  /\ UNCHANGED <<head, tail, slots, prod, pushed>>

\* One word of memcpy(slot, ring->slots[head % capacity], AXIVC_SLOT_SIZE).
PeekCopy ==
  /\ cons.pc = "copy"
  /\ cons' = [cons EXCEPT !.slot[cons.word] = slots[SlotOf(head)][cons.word],
                          !.word = @ + 1,
                          !.pc = IF cons.word = SlotWords THEN "peeked"
                                                          ELSE "copy"]
  /\ UNCHANGED <<head, tail, slots, prod, pushed>>

\* smp_store_release(&ring->head, head + 1), after a successful peek.
Pop ==
  /\ cons.pc = "peeked"
  /\ head' = Succ(head)
  /\ cons' = [cons EXCEPT !.pc = "idle"]
  /\ UNCHANGED <<tail, slots, prod, pushed>>

\* The caller of the peek refuses the slot or only wanted to look at it.
Keep ==
  /\ cons.pc = "peeked"
  /\ cons' = [cons EXCEPT !.pc = "idle"]
  /\ UNCHANGED <<head, tail, slots, prod, pushed>>

-----------------------------------------------------------------------------
Next ==
  \/ \E s \in Slot : PushBegin(s)
  \/ PushFull
  \/ PushCopy
  \/ PushPublish
  \/ PeekBegin
  \/ PeekCopy
  \/ Pop
  \/ Keep

Spec == Init /\ [][Next]_vars

-----------------------------------------------------------------------------
(* Race freedom.  The slot the producer is filling is never the slot the   *)
(* consumer is copying out, although neither holds a lock: this is what    *)
(* the acquire and release accesses to head and tail are for (ring.h:16).  *)
(* It is also what makes the interleaving semantics used here adequate for *)
(* the weakly ordered machine: the plain accesses never race.              *)
NoSlotRace ==
  (prod.pc = "copy" /\ cons.pc = "copy") => SlotOf(tail) # SlotOf(head)

(* The published slots, oldest first.                                      *)
Contents ==
  [i \in 1 .. Used(tail, head) |-> slots[SlotOf(head + (i - 1))]]

Queue == INSTANCE SlotQueue WITH
  Capacity <- RingCapacity,
  queue <- Contents,
  peeked <- IF cons.pc = "peeked" THEN <<cons.slot>> ELSE <<>>

(* The ring implements the bounded queue: whole slots, oldest first, none  *)
(* lost, duplicated, overwritten or torn, "full" reported exactly when     *)
(* RingCapacity slots are published, across the wrap of both counters.     *)
ImplementsSlotQueue == Queue!Spec
=============================================================================
