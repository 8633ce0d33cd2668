--------------------------- MODULE MessageChannel ---------------------------
(***************************************************************************)
(* What one direction of an established channel promises the applications *)
(* that write and read its device files: a fail-stop FIFO of messages.     *)
(*                                                                         *)
(*  - a write that returns success has committed one whole message;        *)
(*  - a read that returns a message returns the oldest committed one that  *)
(*    was not yet read, whole and unaltered;                               *)
(*  - either end may break for good: a broken writing end commits nothing  *)
(*    more, a broken reading end delivers nothing more.  Nothing else may  *)
(*    be lost, duplicated, reordered or merged.                            *)
(***************************************************************************)
EXTENDS Naturals, Sequences

CONSTANT Message      \* the messages an application can write

VARIABLES
  accepted,   \* committed messages in the order of their commit
  delivered,  \* messages handed to the reading application, in order
  writable,   \* FALSE once the writing end is broken
  readable    \* FALSE once the reading end is broken

vars == <<accepted, delivered, writable, readable>>

Init ==
  /\ accepted = <<>>
  /\ delivered = <<>>
  /\ writable = TRUE
  /\ readable = TRUE

Accept(m) ==
  /\ writable
  /\ accepted' = Append(accepted, m)
  /\ UNCHANGED <<delivered, writable, readable>>

Deliver ==
  /\ readable
  /\ Len(delivered) < Len(accepted)
  /\ delivered' = Append(delivered, accepted[Len(delivered) + 1])
  /\ UNCHANGED <<accepted, writable, readable>>

BreakWriter ==
  /\ writable' = FALSE
  /\ UNCHANGED <<accepted, delivered, readable>>

BreakReader ==
  /\ readable' = FALSE
  /\ UNCHANGED <<accepted, delivered, writable>>

Next ==
  \/ \E m \in Message : Accept(m)
  \/ Deliver
  \/ BreakWriter
  \/ BreakReader

Spec == Init /\ [][Next]_vars
=============================================================================
