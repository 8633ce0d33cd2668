------------------------------ MODULE MessageV1 ------------------------------
(***************************************************************************)
(* The frame format and the two protocol state machines of AxVisor IV      *)
(* Message V1, src/ivc/message.c: pure operators on the sender record, the *)
(* receiver record and one ring slot.  Module Transfer drives them.        *)
(*                                                                         *)
(* A slot is a record of its header fields and its payload bytes; a flag   *)
(* byte is the set of its set bits.  An error is the name of its errno,    *)
(* and OK stands for 0.                                                    *)
(***************************************************************************)
EXTENDS Integers, Sequences

CONSTANTS
  FragmentCapacity,   \* AXIVC_FRAGMENT_CAPACITY: payload bytes of one slot
  MaxMessageId        \* ~0ULL, the last usable message id

ASSUME MessageAssumption ==
  /\ FragmentCapacity \in Nat \ {0}
  /\ MaxMessageId \in Nat \ {0}

OK == "OK"
Version == 1                          \* AXIVC_MESSAGE_VERSION_V1
HeaderLen == 24                       \* AXIVC_V1_HEADER_LEN
SlotSize == HeaderLen + FragmentCapacity
KnownFlags == {"FIRST", "LAST", "ABORT"}

-----------------------------------------------------------------------------
(* Frame codec.                                                            *)

(* axivc_validate_frame_shape: ABORT carries no payload and no FIRST/LAST; *)
(* an empty message is one FIRST|LAST frame without payload; every other   *)
(* frame carries payload.                                                  *)
ShapeOK(message_len, fragment_len, flags) ==
  IF "ABORT" \in flags
  THEN flags \cap {"FIRST", "LAST"} = {} /\ fragment_len = 0
  ELSE IF message_len = 0
       THEN {"FIRST", "LAST"} \subseteq flags /\ fragment_len = 0
       ELSE fragment_len # 0

(* axivc_encode_frame succeeds.                                            *)
EncodeOK(id, len, flags, fragment) ==
  /\ id # 0
  /\ Len(fragment) <= FragmentCapacity
  /\ ShapeOK(len, Len(fragment), flags)

(* The slot axivc_encode_frame writes.                                     *)
Encode(id, len, flags, fragment) ==
  [version |-> Version, flags |-> flags, header_len |-> HeaderLen,
   fragment_len |-> Len(fragment), message_id |-> id, message_len |-> len,
   fragment |-> fragment]

(* The error axivc_decode_frame returns for a slot, checks in its order.   *)
DecodeError(slot) ==
  CASE slot.version # Version -> "EPROTONOSUPPORT"
    [] /\ slot.version = Version
       /\ \/ ~(slot.flags \subseteq KnownFlags)
          \/ slot.header_len # HeaderLen
          \/ slot.fragment_len > SlotSize - slot.header_len
          \/ slot.message_id = 0
          \/ ~ShapeOK(slot.message_len, slot.fragment_len, slot.flags)
         -> "EPROTO"
    [] OTHER -> OK

First(slot) == "FIRST" \in slot.flags
Last(slot) == "LAST" \in slot.flags
Abort(slot) == "ABORT" \in slot.flags

-----------------------------------------------------------------------------
(* Sender.                                                                 *)

(* axivc_message_sender_init.                                              *)
SenderInit ==
  [next_message_id |-> 1, sending |-> FALSE, id |-> 0, len |-> 0,
   sent |-> 0, published_any |-> FALSE]

(* The error axivc_message_start returns.                                  *)
StartError(tx) ==
  IF tx.sending THEN "EBUSY"
  ELSE IF tx.next_message_id = 0 THEN "EOVERFLOW"
  ELSE OK

\* Mutant: the ids wrap around, skipping 0.
StartWraps(tx, message_len) ==
  [next_message_id |-> IF tx.next_message_id = MaxMessageId
                       THEN 1 ELSE tx.next_message_id + 1,
   sending |-> TRUE, id |-> tx.next_message_id, len |-> message_len,
   sent |-> 0, published_any |-> FALSE]

(* The sender after a successful axivc_message_start.  The id space does   *)
(* not wrap: 0 marks it exhausted.                                         *)
Start(tx, message_len) ==
  [next_message_id |-> IF tx.next_message_id = MaxMessageId
                       THEN 0 ELSE tx.next_message_id + 1,
   sending |-> TRUE, id |-> tx.next_message_id, len |-> message_len,
   sent |-> 0, published_any |-> FALSE]

(* The flags of the next data frame when it carries n bytes.               *)
DataFlags(tx, n) ==
  (IF tx.published_any THEN {} ELSE {"FIRST"})
    \cup (IF tx.sent + n = tx.len THEN {"LAST"} ELSE {})

(* axivc_publish_empty_message, whose one frame is FIRST and LAST: sent    *)
(* and published_any are left alone.                                       *)
PushedEmpty(tx) == [tx EXCEPT !.sending = FALSE]

(* The sender after a data frame of n bytes was pushed: one round of the   *)
(* loop of axivc_message_try_write.                                        *)
Pushed(tx, n) ==
  IF tx.len = 0
  THEN PushedEmpty(tx)
  ELSE [tx EXCEPT !.sent = @ + n, !.published_any = TRUE,
                  !.sending = (tx.sent + n # tx.len)]

(* The sender after axivc_message_try_abort gave the message up.           *)
Aborted(tx) == [tx EXCEPT !.sending = FALSE]

AbortSlot(tx) == Encode(tx.id, tx.len, {"ABORT"}, <<>>)

-----------------------------------------------------------------------------
(* Receiver.                                                               *)

(* axivc_message_receiver_init.                                            *)
ReceiverInit ==
  [state |-> "IDLE", id |-> 0, len |-> 0, received |-> 0, errno |-> OK]

(* axivc_receiver_fail and axivc_message_receiver_poison.                  *)
Poisoned(rx, error) == [rx EXCEPT !.state = "FAILED", !.errno = error]

(* The error axivc_message_peek_meta finds in the slot at the ring head    *)
(* when no message is being received.                                      *)
PeekMetaError(slot) ==
  IF DecodeError(slot) # OK THEN DecodeError(slot)
  ELSE IF Abort(slot) \/ ~First(slot) THEN "EPROTO"
  ELSE OK

\* Mutant: the announced length does not bound the fragments.
TransitionErrorUnbounded(rx, slot) ==
  IF \/ rx.state = "IDLE" /\ (Abort(slot) \/ ~First(slot))
     \/ /\ rx.state # "IDLE"
        /\ \/ First(slot)
           \/ slot.message_id # rx.id
           \/ slot.message_len # rx.len
  THEN "EPROTO" ELSE OK

(* axivc_validate_transition refuses a decoded frame.  The guard against   *)
(* u64 overflow of the sum is implied here by the comparison with len.     *)
TransitionError(rx, slot) ==
  LET idle == rx.state = "IDLE"
      len == IF idle THEN slot.message_len ELSE rx.len
      received == (IF idle THEN 0 ELSE rx.received) + slot.fragment_len
  IN  IF \/ idle /\ (Abort(slot) \/ ~First(slot))
         \/ /\ ~idle
            /\ \/ First(slot)
               \/ slot.message_id # rx.id
               \/ slot.message_len # rx.len
         \/ /\ ~Abort(slot)
            /\ \/ received > len
               \/ Last(slot) /\ received # len
      THEN "EPROTO" ELSE OK

(* What axivc_process_available_slots finds wrong with the head slot.      *)
SlotError(rx, slot) ==
  IF DecodeError(slot) # OK THEN DecodeError(slot)
  ELSE TransitionError(rx, slot)

(* The receiver after the transition: the message in progress is the one   *)
(* the FIRST frame announced; LAST and ABORT end it.                       *)
Transition(rx, slot) ==
  LET idle == rx.state = "IDLE"
  IN  [state |-> IF Last(slot) \/ Abort(slot) THEN "IDLE" ELSE "RECEIVING",
       id |-> IF idle THEN slot.message_id ELSE rx.id,
       len |-> IF idle THEN slot.message_len ELSE rx.len,
       received |-> (IF idle THEN 0 ELSE rx.received) + slot.fragment_len,
       errno |-> rx.errno]
=============================================================================
