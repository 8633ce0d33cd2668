----------------------------- MODULE SlotQueue -----------------------------
(***************************************************************************)
(* What the opaque-slot ring of src/ivc/ring.c promises its two users: a   *)
(* bounded first-in first-out queue of whole slots.                        *)
(*                                                                         *)
(*  - the producer's push either appends one complete slot or reports that *)
(*    the queue is full, and it reports that only when it is full;         *)
(*  - the consumer's peek hands out the oldest slot, complete, and leaves  *)
(*    it in place;                                                         *)
(*  - a pop removes exactly the slot that was peeked.                      *)
(***************************************************************************)
EXTENDS Naturals, Sequences

CONSTANTS
  Capacity,   \* number of slots the queue can hold
  Slot        \* the values a slot can have

VARIABLES
  queue,      \* the published, not yet consumed slots, oldest first
  pushed,     \* outcome of the producer's last push: "none", "ok" or "full"
  peeked      \* <<s>> while the consumer holds a peeked slot s, else <<>>

vars == <<queue, pushed, peeked>>

Init ==
  /\ queue = <<>>
  /\ pushed = "none"
  /\ peeked = <<>>

Push(s) ==
  /\ Len(queue) < Capacity
  /\ queue' = Append(queue, s)
  /\ pushed' = "ok"
  /\ UNCHANGED peeked

PushFull ==
  /\ Len(queue) = Capacity
  /\ pushed' = "full"
  /\ UNCHANGED <<queue, peeked>>

\* The producer starts its next push: the old outcome is forgotten.
PushAgain ==
  /\ pushed' = "none"
  /\ UNCHANGED <<queue, peeked>>

Peek ==
  /\ queue # <<>>
  /\ peeked = <<>>
  /\ peeked' = <<Head(queue)>>
  /\ UNCHANGED <<queue, pushed>>

\* The consumer gives the peeked slot up without consuming it.
Keep ==
  /\ peeked # <<>>
  /\ peeked' = <<>>
  /\ UNCHANGED <<queue, pushed>>

Pop ==
  /\ peeked # <<>>
  /\ queue # <<>>
  /\ peeked = <<Head(queue)>>
  /\ queue' = Tail(queue)
  /\ peeked' = <<>>
  /\ UNCHANGED pushed

Next ==
  \/ \E s \in Slot : Push(s)
  \/ PushFull
  \/ PushAgain
  \/ Peek
  \/ Keep
  \/ Pop

Spec == Init /\ [][Next]_vars
============================================================================
