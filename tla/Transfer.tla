------------------------------ MODULE Transfer ------------------------------
(***************************************************************************)
(* One direction of an established channel: the threads of one guest       *)
(* inside axivc_send_message and the threads of the other guest inside     *)
(* axivc_recv_message (src/ivc/ivc.c), with the ring between them.         *)
(*                                                                         *)
(* The ring is the bounded queue of whole slots that module Ring is shown  *)
(* to implement.  A step is what a thread does up to and including its one *)
(* access to the ring; the endpoint records are only touched under their   *)
(* mutex.  Time is abstract: a thread that polls a full (or empty) ring    *)
(* may find its deadline passed at any poll.  hvc_notify_channel only      *)
(* wakes the other guest and changes nothing here.                         *)
(*                                                                         *)
(* Message bytes are pairs <<call, position>>, so that every byte ever     *)
(* written is different from every other.                                  *)
(***************************************************************************)
EXTENDS MessageV1

CONSTANTS
  Writers,        \* threads writing the device file of the sending endpoint
  Readers,        \* threads reading the device file of the other endpoint
  RingCapacity,   \* AXIVC_RING_CAPACITY
  Lengths,        \* the lengths of messages that are written
  ReadSizes,      \* the buffer sizes that are read with
  PeerSendsEmpty, \* the sender is a peer that starts empty messages
  AlienSlots,     \* slots that a peer with another implementation publishes
  MaxCalls,       \* bound: writes and alien slots in a behaviour
  MaxTxResets,    \* bound: re-initialisations of the sending endpoint
  MaxRxResets,    \* bound: re-initialisations of the receiving endpoint
  NoThread        \* holder of a mutex that is free

Byte == Nat \X Nat

(* Every slot either side of a channel could ever see in the ring.  The    *)
(* fragment is the fragment_len bytes behind the header; a fragment_len    *)
(* beyond the end of the slot says nothing about the bytes.                *)
Slot ==
  {s \in [version : Nat, flags : SUBSET (KnownFlags \cup {"UNKNOWN"}),
          header_len : Nat, fragment_len : Nat, message_id : Nat,
          message_len : Nat, fragment : Seq(Byte)] :
     s.fragment_len <= FragmentCapacity => Len(s.fragment) = s.fragment_len}

ASSUME TransferAssumption ==
  /\ RingCapacity \in Nat \ {0}
  /\ Lengths \subseteq Nat
  /\ ReadSizes \subseteq Nat \ {0}
  /\ PeerSendsEmpty \in BOOLEAN
  /\ MaxCalls \in Nat
  /\ MaxTxResets \in Nat
  /\ MaxRxResets \in Nat
  /\ AlienSlots \subseteq Slot
  /\ NoThread \notin Writers \cup Readers

VARIABLES
  ring,       \* the published slots, oldest first
  tx,         \* endpoint->tx of the sending guest
  txError,    \* endpoint->tx_error
  txLock,     \* holder of endpoint->tx_lock
  wr,         \* each writer inside axivc_send_message
  rx,         \* endpoint->rx of the receiving guest
  rxLock,     \* holder of endpoint->rx_lock
  rd,         \* each reader inside axivc_recv_message
  calls,      \* number of writes so far; identifies a write
  txResets,   \* number of re-initialisations so far
  rxResets,
  accepted,   \* history: messages whose write returned success
  delivered   \* history: messages a read completed

writing == <<tx, txError, txLock, wr, txResets, accepted>>
reading == <<rx, rxLock, rd, rxResets, delivered>>
vars == <<ring, writing, reading, calls>>

(* The bytes of the message that write number c of n bytes sends.          *)
Payload(c, n) == [i \in 1 .. n |-> <<c, i>>]

WriterIdle == [pc |-> "idle", call |-> 0, len |-> 0, sent |-> 0]

ReaderIdle ==
  [pc |-> "idle", count |-> 0, len |-> 0, buf |-> <<>>, out |-> <<>>,
   took |-> FALSE, complete |-> FALSE]

(* pc      "lock": waiting for the mutex;  "send", "read": in the transfer *)
(*         loop;  "abort": in axivc_abort_send;  "copy": about to          *)
(*         copy_to_user what one axivc_message_try_read returned           *)
(* sent    bytes of the user's buffer already sent                         *)
(* count   the size of the user's buffer;  len: meta.len                   *)
(* buf     bytes already copied to the user;  out: the fragment buffer     *)
(* took    the current try_read has consumed a slot (consumed_slots > 0)   *)
Writer == [pc : {"idle", "lock", "send", "abort"}, call : Nat, len : Nat,
           sent : Nat]

Reader == [pc : {"idle", "lock", "read", "copy"}, count : Nat, len : Nat,
           buf : Seq(Byte), out : Seq(Byte), took : BOOLEAN,
           complete : BOOLEAN]

Sender == [next_message_id : 0 .. MaxMessageId, sending : BOOLEAN,
           id : 0 .. MaxMessageId, len : Nat, sent : Nat,
           published_any : BOOLEAN]

Errno == {OK, "EPROTO", "EPROTONOSUPPORT", "EFAULT", "ETIMEDOUT",
          "ERESTARTSYS"}

Receiver == [state : {"IDLE", "RECEIVING", "FAILED"}, id : Nat, len : Nat,
             received : Nat, errno : Errno]

TypeOK ==
  /\ ring \in Seq(Slot)
  /\ Len(ring) <= RingCapacity
  /\ tx \in Sender
  /\ txError \in {OK, "EPIPE"}
  /\ txLock \in Writers \cup {NoThread}
  /\ wr \in [Writers -> Writer]
  /\ rx \in Receiver
  /\ rxLock \in Readers \cup {NoThread}
  /\ rd \in [Readers -> Reader]
  /\ calls \in 0 .. MaxCalls
  /\ txResets \in 0 .. MaxTxResets
  /\ rxResets \in 0 .. MaxRxResets
  /\ accepted \in Seq(Seq(Byte))
  /\ delivered \in Seq(Seq(Byte))

-----------------------------------------------------------------------------
(* Both guests have run axivc_endpoint_init on a ring the publisher        *)
(* initialised.                                                            *)
Init ==
  /\ ring = <<>>
  /\ tx = SenderInit
  /\ txError = OK
  /\ txLock = NoThread
  /\ wr = [w \in Writers |-> WriterIdle]
  /\ rx = ReceiverInit
  /\ rxLock = NoThread
  /\ rd = [r \in Readers |-> ReaderIdle]
  /\ calls = 0
  /\ txResets = 0
  /\ rxResets = 0
  /\ accepted = <<>>
  /\ delivered = <<>>

RingFull == Len(ring) >= RingCapacity

-----------------------------------------------------------------------------
(* axivc_send_message and axivc_abort_send.                                *)

(* The system call returns, releasing tx_lock if this writer holds it.     *)
WriteReturn(w) ==
  /\ wr' = [wr EXCEPT ![w] = WriterIdle]
  /\ txLock' = IF txLock = w THEN NoThread ELSE txLock

\* A write of n bytes enters.  axivc_send_message refuses an empty one
\* before it touches anything; other senders of Message V1 do not.
WriteCall(w, n) ==
  /\ wr[w].pc = "idle"
  /\ calls < MaxCalls
  /\ n # 0 \/ PeerSendsEmpty
  /\ calls' = calls + 1
  /\ wr' = [wr EXCEPT ![w] = [pc |-> "lock", call |-> calls + 1, len |-> n,
                             sent |-> 0]]
  /\ UNCHANGED <<ring, tx, txError, txLock, txResets, accepted, reading>>

\* mutex_lock_interruptible is interrupted by a signal.
TxInterrupted(w) ==
  /\ wr[w].pc = "lock"
  /\ WriteReturn(w)
  /\ UNCHANGED <<ring, tx, txError, txResets, accepted, reading, calls>>

\* The lock is taken and given back: a sticky tx_error, or
\* axivc_message_start fails.
TxRefused(w) ==
  /\ wr[w].pc = "lock"
  /\ txLock = NoThread
  /\ txError # OK \/ StartError(tx) # OK
  /\ WriteReturn(w)
  /\ UNCHANGED <<ring, tx, txError, txResets, accepted, reading, calls>>

\* The lock is taken and axivc_message_start succeeds.
TxStart(w) ==
  /\ wr[w].pc = "lock"
  /\ txLock = NoThread
  /\ txError = OK
  /\ StartError(tx) = OK
  /\ txLock' = w
  /\ tx' = Start(tx, wr[w].len)
  /\ wr' = [wr EXCEPT ![w].pc = "send"]
  /\ UNCHANGED <<ring, txError, txResets, accepted, reading, calls>>

(* The bytes that the next round of the loop copies from the user.         *)
Chunk(w) ==
  LET left == wr[w].len - wr[w].sent
      n == IF left < FragmentCapacity THEN left ELSE FragmentCapacity
  IN  SubSeq(Payload(wr[w].call, wr[w].len), wr[w].sent + 1, wr[w].sent + n)

(* axivc_encode_frame takes the next data frame.                           *)
Encodable(w) ==
  EncodeOK(tx.id, tx.len, DataFlags(tx, Len(Chunk(w))), Chunk(w))

\* copy_from_user faults, or the frame is refused.
TxFault(w) ==
  /\ wr[w].pc = "send"
  /\ Chunk(w) # <<>> \/ ~Encodable(w)
  /\ wr' = [wr EXCEPT ![w].pc = "abort"]
  /\ UNCHANGED <<ring, tx, txError, txLock, txResets, accepted, reading, calls>>

\* axivc_message_try_write publishes the chunk; the last one ends the call.
TxPush(w) ==
  LET chunk == Chunk(w)
      n == Len(chunk)
  IN  /\ wr[w].pc = "send"
      /\ Encodable(w)
      /\ ~RingFull
      /\ ring' = Append(ring, Encode(tx.id, tx.len, DataFlags(tx, n), chunk))
      /\ tx' = Pushed(tx, n)
      /\ IF Pushed(tx, n).sending
         THEN /\ wr' = [wr EXCEPT ![w].sent = @ + n]
              /\ UNCHANGED <<txLock, accepted>>
         ELSE /\ WriteReturn(w)
              /\ accepted' =
                   Append(accepted, Payload(wr[w].call, wr[w].len))
      /\ UNCHANGED <<txError, txResets, reading, calls>>

\* The ring is full and the deadline has passed (-ETIMEDOUT) or a signal
\* ends msleep_interruptible (-ERESTARTSYS).
TxGiveUp(w) ==
  /\ wr[w].pc = "send"
  /\ RingFull
  /\ wr' = [wr EXCEPT ![w].pc = "abort"]
  /\ UNCHANGED <<ring, tx, txError, txLock, txResets, accepted, reading, calls>>

\* Mutant: a message is forgotten although some of it was published.
TxAbortSilent(w) ==
  /\ wr[w].pc = "abort"
  /\ tx' = Aborted(tx)
  /\ WriteReturn(w)
  /\ UNCHANGED <<ring, txError, txResets, accepted, reading, calls>>

\* axivc_message_try_abort, nothing was published: forget the message.
TxAbortLocal(w) ==
  /\ wr[w].pc = "abort"
  /\ ~tx.published_any
  /\ tx' = Aborted(tx)
  /\ WriteReturn(w)
  /\ UNCHANGED <<ring, txError, txResets, accepted, reading, calls>>

\* axivc_message_try_abort publishes an ABORT frame.
TxAbortPush(w) ==
  /\ wr[w].pc = "abort"
  /\ tx.published_any
  /\ ~RingFull
  /\ ring' = Append(ring, AbortSlot(tx))
  /\ tx' = Aborted(tx)
  /\ WriteReturn(w)
  /\ UNCHANGED <<txError, txResets, accepted, reading, calls>>

\* Mutants: the failed abort is not recorded; the retry goes on after it
\* was recorded; the retry has no deadline.
TxAbortUnrecorded(w) ==
  /\ wr[w].pc = "abort"
  /\ tx.published_any
  /\ RingFull
  /\ WriteReturn(w)
  /\ UNCHANGED <<ring, tx, txError, txResets, accepted, reading, calls>>

TxAbortContinues(w) ==
  /\ wr[w].pc = "abort"
  /\ tx.published_any
  /\ RingFull
  /\ txError' = "EPIPE"
  /\ UNCHANGED <<ring, tx, txLock, wr, txResets, accepted, reading, calls>>

TxAbortForever(w) ==
  /\ wr[w].pc = "abort"
  /\ tx.published_any
  /\ RingFull
  /\ UNCHANGED vars

\* The ring stays full until the second deadline: the endpoint is broken
\* and its sender stays in the middle of the message.
TxAbortGiveUp(w) ==
  /\ wr[w].pc = "abort"
  /\ tx.published_any
  /\ RingFull
  /\ txError' = "EPIPE"
  /\ WriteReturn(w)
  /\ UNCHANGED <<ring, tx, txResets, accepted, reading, calls>>

-----------------------------------------------------------------------------
(* axivc_recv_message.                                                     *)

(* The system call returns, releasing rx_lock if this reader holds it.     *)
ReadReturn(r) ==
  /\ rd' = [rd EXCEPT ![r] = ReaderIdle]
  /\ rxLock' = IF rxLock = r THEN NoThread ELSE rxLock

(* The reader gets the lock and runs axivc_message_peek_meta.              *)
Entering(r) ==
  /\ rd[r].pc = "lock"
  /\ rxLock = NoThread

\* A read with a buffer of n bytes enters; one of 0 bytes returns 0 at once.
ReadCall(r, n) ==
  /\ rd[r].pc = "idle"
  /\ rd' = [rd EXCEPT ![r] = [ReaderIdle EXCEPT !.pc = "lock", !.count = n]]
  /\ UNCHANGED <<ring, rx, rxLock, rxResets, delivered, writing, calls>>

\* mutex_lock_interruptible is interrupted by a signal.
RxInterrupted(r) ==
  /\ rd[r].pc = "lock"
  /\ ReadReturn(r)
  /\ UNCHANGED <<ring, rx, rxResets, delivered, writing, calls>>

\* Mutant: the read returns 0 without looking at the ring.
RxNothingAlways(r) ==
  /\ Entering(r)
  /\ ReadReturn(r)
  /\ UNCHANGED <<ring, rx, rxResets, delivered, writing, calls>>

\* The receiver is poisoned, or there is no message: the read returns the
\* old error or 0.
RxNothing(r) ==
  /\ Entering(r)
  /\ rx.state = "FAILED" \/ (rx.state = "IDLE" /\ ring = <<>>)
  /\ ReadReturn(r)
  /\ UNCHANGED <<ring, rx, rxResets, delivered, writing, calls>>

\* The head slot does not start a message: axivc_receiver_fail.
RxRefuse(r) ==
  /\ Entering(r)
  /\ rx.state = "IDLE"
  /\ ring # <<>>
  /\ PeekMetaError(Head(ring)) # OK
  /\ rx' = Poisoned(rx, PeekMetaError(Head(ring)))
  /\ ReadReturn(r)
  /\ UNCHANGED <<ring, rxResets, delivered, writing, calls>>

\* Mutant: a poisoned receiver is asked for the next message.
MetaAvailableFailed ==
  \/ rx.state = "RECEIVING"
  \/ ring # <<>> /\ PeekMetaError(Head(ring)) = OK

(* axivc_message_peek_meta reports a message, of MetaLen bytes.            *)
MetaAvailable ==
  \/ rx.state = "RECEIVING"
  \/ rx.state = "IDLE" /\ ring # <<>> /\ PeekMetaError(Head(ring)) = OK

MetaLen == IF rx.state = "RECEIVING" THEN rx.len ELSE Head(ring).message_len

\* The message is longer than the buffer: -EMSGSIZE, nothing is consumed.
RxTooSmall(r) ==
  /\ Entering(r)
  /\ MetaAvailable
  /\ MetaLen > rd[r].count
  /\ ReadReturn(r)
  /\ UNCHANGED <<ring, rx, rxResets, delivered, writing, calls>>

\* The transfer loop starts.
RxStart(r) ==
  /\ Entering(r)
  /\ MetaAvailable
  /\ MetaLen <= rd[r].count
  /\ rd' = [rd EXCEPT ![r].pc = "read", ![r].len = MetaLen]
  /\ rxLock' = r
  /\ UNCHANGED <<ring, rx, rxResets, delivered, writing, calls>>

(* axivc_process_available_slots can consume the head slot now.            *)
Consumable(r) ==
  /\ ring # <<>>
  /\ SlotError(rx, Head(ring)) = OK
  /\ ~(Abort(Head(ring)) /\ rd[r].took)
  /\ Head(ring).fragment_len <= FragmentCapacity - Len(rd[r].out)

\* Mutant: an ABORT frame completes the message.
RxTakeAbortAsLast(r) ==
  LET slot == Head(ring)
      ends == Last(slot) \/ Abort(slot)
  IN  /\ rd[r].pc = "read"
      /\ Consumable(r)
      /\ ring' = Tail(ring)
      /\ rx' = Transition(rx, slot)
      /\ rd' = [rd EXCEPT ![r].out = @ \o slot.fragment,
                         ![r].took = TRUE,
                         ![r].complete = ends,
                         ![r].pc = IF ends THEN "copy" ELSE "read"]
      /\ UNCHANGED <<rxLock, rxResets, delivered, writing, calls>>

\* One round of axivc_process_available_slots: copy the fragment, pop the
\* slot, commit the transition.  ABORT ends the read with -ECONNRESET.
RxTake(r) ==
  LET slot == Head(ring)
  IN  /\ rd[r].pc = "read"
      /\ Consumable(r)
      /\ ring' = Tail(ring)
      /\ rx' = Transition(rx, slot)
      /\ IF Abort(slot)
         THEN ReadReturn(r)
         ELSE /\ rd' = [rd EXCEPT ![r].out = @ \o slot.fragment,
                                 ![r].took = TRUE,
                                 ![r].complete = Last(slot),
                                 ![r].pc = IF Last(slot) THEN "copy"
                                                         ELSE "read"]
              /\ UNCHANGED rxLock
      /\ UNCHANGED <<rxResets, delivered, writing, calls>>

\* Slots were consumed and the next one cannot be: try_read returns what it
\* has and leaves a bad frame for the next call to report.
RxReturn(r) ==
  /\ rd[r].pc = "read"
  /\ rd[r].took
  /\ ~Consumable(r)
  /\ rd' = [rd EXCEPT ![r].pc = "copy"]
  /\ UNCHANGED <<ring, rx, rxLock, rxResets, delivered, writing, calls>>

\* The first slot of a try_read is bad: axivc_receiver_fail.
RxFail(r) ==
  /\ rd[r].pc = "read"
  /\ ~rd[r].took
  /\ ring # <<>>
  /\ SlotError(rx, Head(ring)) # OK
  /\ rx' = Poisoned(rx, SlotError(rx, Head(ring)))
  /\ ReadReturn(r)
  /\ UNCHANGED <<ring, rxResets, delivered, writing, calls>>

\* Mutant: the read gives up without poisoning the receiver.
RxGiveUpSound(r, error) ==
  /\ rd[r].pc = "read"
  /\ ~rd[r].took
  /\ ring = <<>>
  /\ ReadReturn(r)
  /\ UNCHANGED <<ring, rx, rxResets, delivered, writing, calls>>

\* The ring is empty in the middle of a message and the deadline has passed
\* or a signal ends the sleep.
RxGiveUp(r, error) ==
  /\ rd[r].pc = "read"
  /\ ~rd[r].took
  /\ ring = <<>>
  /\ rx' = Poisoned(rx, error)
  /\ ReadReturn(r)
  /\ UNCHANGED <<ring, rxResets, delivered, writing, calls>>

\* copy_to_user succeeds; a complete message ends the read.  For an empty
\* message the read reports -EOPNOTSUPP, recorded as the message <<>>.
RxCopy(r) ==
  /\ rd[r].pc = "copy"
  /\ IF rd[r].complete
     THEN /\ delivered' = Append(delivered, rd[r].buf \o rd[r].out)
          /\ ReadReturn(r)
     ELSE /\ rd' = [rd EXCEPT ![r].pc = "read", ![r].took = FALSE,
                             ![r].buf = @ \o rd[r].out, ![r].out = <<>>]
          /\ UNCHANGED <<rxLock, delivered>>
  /\ UNCHANGED <<ring, rx, rxResets, writing, calls>>

\* Mutant: the fault does not poison the receiver.
RxCopyFaultSound(r) ==
  /\ rd[r].pc = "copy"
  /\ rd[r].out # <<>>
  /\ ReadReturn(r)
  /\ UNCHANGED <<ring, rx, rxResets, delivered, writing, calls>>

\* copy_to_user faults after the slots are gone: the receiver is poisoned.
RxCopyFault(r) ==
  /\ rd[r].pc = "copy"
  /\ rd[r].out # <<>>
  /\ rx' = Poisoned(rx, "EFAULT")
  /\ ReadReturn(r)
  /\ UNCHANGED <<ring, rxResets, delivered, writing, calls>>

-----------------------------------------------------------------------------
(* Around the transfer.                                                    *)

\* The subscriber unsubscribes and subscribes again.  Its endpoint is new,
\* the ring in shared memory keeps what it holds.  Unsubscribing fails with
\* EBUSY while a file is open, so no thread is inside a call.
ResetTx ==
  /\ txResets < MaxTxResets
  /\ \A w \in Writers : wr[w].pc = "idle"
  /\ txResets' = txResets + 1
  /\ tx' = SenderInit
  /\ txError' = OK
  /\ UNCHANGED <<ring, txLock, wr, accepted, reading, calls>>

ResetRx ==
  /\ rxResets < MaxRxResets
  /\ \A r \in Readers : rd[r].pc = "idle"
  /\ rxResets' = rxResets + 1
  /\ rx' = ReceiverInit
  /\ UNCHANGED <<ring, rxLock, rd, delivered, writing, calls>>

\* A peer that does not run this code publishes a slot of its own making.
AlienPush(slot) ==
  /\ calls < MaxCalls
  /\ ~RingFull
  /\ calls' = calls + 1
  /\ ring' = Append(ring, slot)
  /\ UNCHANGED <<writing, reading>>

-----------------------------------------------------------------------------
(* What a writer inside the call does without any outside event.           *)
TxEnter(w) == TxRefused(w) \/ TxStart(w)
TxStep(w) ==
  \/ TxPush(w)
  \/ TxGiveUp(w)
  \/ TxAbortLocal(w)
  \/ TxAbortPush(w)
  \/ TxAbortGiveUp(w)

RxEnter(r) == RxNothing(r) \/ RxRefuse(r) \/ RxTooSmall(r) \/ RxStart(r)
RxStep(r) ==
  \/ RxTake(r)
  \/ RxReturn(r)
  \/ RxFail(r)
  \/ RxCopy(r)
  \/ RxGiveUp(r, "ETIMEDOUT")

Next ==
  \/ \E w \in Writers :
       \/ \E n \in Lengths : WriteCall(w, n)
       \/ TxInterrupted(w)
       \/ TxEnter(w)
       \/ TxFault(w)
       \/ TxStep(w)
  \/ \E r \in Readers :
       \/ \E n \in ReadSizes : ReadCall(r, n)
       \/ RxInterrupted(r)
       \/ RxEnter(r)
       \/ RxCopyFault(r)
       \/ RxGiveUp(r, "ERESTARTSYS")
       \/ RxStep(r)
  \/ ResetTx
  \/ ResetRx
  \/ \E slot \in AlienSlots : AlienPush(slot)

Spec == Init /\ [][Next]_vars

(* A thread inside a system call keeps running; a mutex is not withheld    *)
(* from a waiter forever (Linux hands it over after a bounded wait).       *)
Running ==
  /\ \A w \in Writers : WF_vars(TxStep(w)) /\ SF_vars(TxEnter(w))
  /\ \A r \in Readers : WF_vars(RxStep(r)) /\ SF_vars(RxEnter(r))

(* A buffer of n bytes holds every message.                                *)
Ample(n) == \A m \in Lengths : m <= n

(* The receiving application keeps coming back with such a buffer,         *)
(* whatever smaller ones it tries in between, and not every one of those   *)
(* calls is interrupted by a signal while it waits for the mutex.  Strong  *)
(* fairness: a small read or a signal disables the large read for a while. *)
KeepsReading ==
  \A r \in Readers :
    /\ SF_vars(\E n \in ReadSizes : Ample(n) /\ ReadCall(r, n))
    /\ SF_vars(Ample(rd[r].count) /\ RxEnter(r))

LiveSpec == Spec /\ Running

-----------------------------------------------------------------------------
(* Safety.                                                                 *)

(* A finished write leaves a finished message: whenever no thread is in    *)
(* axivc_send_message and the endpoint is not broken, the last slot put    *)
(* into the ring ends its message (LAST or ABORT), or the receiver has     *)
(* already seen that end.  Every exit of axivc_send_message (fault,        *)
(* timeout, signal, full ring while aborting) must keep this; ivc.c:455.   *)
NoDanglingMessage ==
  (txLock = NoThread /\ txError = OK) =>
    /\ ~tx.sending
    /\ IF ring = <<>> THEN rx.state # "RECEIVING"
                      ELSE Last(ring[Len(ring)]) \/ Abort(ring[Len(ring)])

(* The id of the i-th frame in the ring, and the one the receiver knows.   *)
IdAt(i) == IF i = 0 THEN rx.id ELSE ring[i].message_id

(* No message id stands for two messages: "the session must be             *)
(* re-established instead of risking aliased message ids" (message.c:54).  *)
(* From the message the receiver knows over the frames in the ring to the  *)
(* sender's message the ids only go up, and a frame that opens a message   *)
(* has a new one, also when the ids run out and when messages are given up *)
(* before a frame of them is out.                                          *)
IdsAreFresh ==
  /\ TypeOK
  /\ \A i \in 1 .. Len(ring) :
       /\ IdAt(i - 1) <= IdAt(i)
       /\ First(ring[i]) => IdAt(i - 1) < IdAt(i)
  /\ IdAt(Len(ring)) <= tx.id

(* Two ends that both run this code never disagree on the protocol: what   *)
(* one encodes the other decodes and accepts, whichever calls fail or time *)
(* out in between, so a receiver is only ever poisoned by a local fault,   *)
(* timeout or signal.                                                      *)
NoProtocolError == rx.errno \notin {"EPROTO", "EPROTONOSUPPORT"}

(* A read never writes past the user's buffer and never past the fragment  *)
(* buffer on the kernel stack, whatever the peer puts into the ring, and   *)
(* a completed read returns exactly as many bytes as the message announced *)
(* (message.c:301, message.c:381, ivc.c:594).                              *)
BufferBound ==
  \A r \in Readers :
    /\ Len(rd[r].out) <= FragmentCapacity
    /\ Len(rd[r].buf) + Len(rd[r].out) <= rd[r].count
    /\ rd[r].complete => Len(rd[r].buf) + Len(rd[r].out) = rd[r].len

(* A poisoned receiver stays poisoned with its first error, consumes no    *)
(* slot and completes no read, until the endpoint is initialised again:    *)
(* "later calls keep returning the same error" (message.h:57).             *)
PoisonIsFinal ==
  [][(rx.state = "FAILED" /\ rxResets' = rxResets) =>
        /\ rx' = rx
        /\ delivered' = delivered
        /\ Len(ring') >= Len(ring)]_vars

(* After an abort that did not fit the endpoint publishes nothing more:    *)
(* a new message after the unfinished one would be misread by the peer     *)
(* (ivc.c:466, ivc.c:488).                                                 *)
SendErrorIsFinal ==
  [][(txError # OK /\ txResets' = txResets) =>
        /\ txError' = txError
        /\ accepted' = accepted
        /\ Len(ring') <= Len(ring)]_vars

(* A byte of this code's writers, as against a slot of AlienPush.          *)
OwnMessage(m) == m # <<>> /\ \A k \in DOMAIN m : m[k][1] # 0

(* Re-initialising the ends in mid-conversation, and slots that a peer     *)
(* puts in between, may lose messages but never corrupt one: what reads    *)
(* complete, unless it carries foreign bytes, are messages whose writes    *)
(* succeeded, each at most once and in the order they were written,        *)
(* although message ids start at 1 again and old frames are still in the   *)
(* ring (ivc.c:357).                                                       *)
DeliveredInOrder ==
  LET own == {i \in DOMAIN delivered : OwnMessage(delivered[i])}
  IN  \E f \in [own -> DOMAIN accepted] :
        /\ \A i \in own : delivered[i] = accepted[f[i]]
        /\ \A i, j \in own : i < j => f[i] < f[j]

-----------------------------------------------------------------------------
(* Implementation of the abstract channel.                                 *)

Channel == INSTANCE MessageChannel WITH
  Message <- {Payload(c, n) : c \in 1 .. MaxCalls, n \in Lengths},
  writable <- (txError = OK),
  readable <- (rx.state # "FAILED")

(* The two adapters and the ring implement the fail-stop message channel:  *)
(* fragmentation, reassembly, aborts and faults never lose, duplicate,     *)
(* reorder or merge messages, and breaking an end is the only other thing  *)
(* that can happen.                                                        *)
ImplementsMessageChannel == Channel!Spec

-----------------------------------------------------------------------------
(* Liveness.                                                               *)

(* Every write and every read of the device returns, even if the peer      *)
(* stops in the middle of a message or never drains the ring.              *)
CallsReturn ==
  /\ \A w \in Writers : (wr[w].pc # "idle") ~> (wr[w].pc = "idle")
  /\ \A r \in Readers : (rd[r].pc # "idle") ~> (rd[r].pc = "idle")

(* A receiver is never "stranded forever in the partial logical message"   *)
(* (ivc.c:455): it reaches its end, an ABORT or an error.                  *)
NotStranded == (rx.state = "RECEIVING") ~> (rx.state # "RECEIVING")

(* If the receiving application keeps reading, every message whose write   *)
(* succeeded is delivered, unless the receiver is poisoned: a read with    *)
(* too small a buffer leaves the message for the next one (ivc.c:566).     *)
AcceptedIsDelivered ==
  KeepsReading =>
    \A n \in 1 .. MaxCalls :
      (Len(accepted) >= n) ~> (Len(delivered) >= n \/ rx.state = "FAILED")
=============================================================================
