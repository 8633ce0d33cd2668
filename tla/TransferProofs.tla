--------------------------- MODULE TransferProofs ---------------------------
(***************************************************************************)
(* Proofs about module Transfer, for every number of threads, ring size,   *)
(* fragment size and message length: the locks and the two ends first,     *)
(* then the stream of slots between them.                                  *)
(***************************************************************************)
EXTENDS Transfer, SequenceTheorems, TLAPS

-----------------------------------------------------------------------------
(* The inductive invariant.                                                *)

(* What tx_lock protects: exactly the thread in the transfer loop or in    *)
(* axivc_abort_send holds it, its message is the one the sender record     *)
(* describes, and the endpoint is not broken.  Without a holder no message *)
(* is in progress, unless an abort failed.                                 *)
WriterInv(w) ==
  /\ wr[w].sent <= wr[w].len
  /\ wr[w].pc \in {"send", "abort"} <=> txLock = w
  /\ txLock # w => wr[w].sent = 0
  /\ txLock = w => tx.sending /\ txError = OK
  /\ wr[w].pc = "send" => tx.len = wr[w].len /\ tx.sent = wr[w].sent

SenderInv ==
  /\ tx.sending => txLock # NoThread \/ txError # OK
  /\ \A w \in Writers : WriterInv(w)

(* What rx_lock protects: exactly the thread in the transfer loop holds    *)
(* it, the receiver is not poisoned, and the bytes the thread has put into *)
(* the two buffers are the ones the receiver has counted.  A thread that   *)
(* has not consumed anything yet still finds the frame it peeked at.       *)
ReaderInv(r) ==
  /\ rd[r].pc \in {"read", "copy"} <=> rxLock = r
  /\ rxLock # r =>
       /\ rd[r].buf = <<>> /\ rd[r].out = <<>>
       /\ ~rd[r].took /\ ~rd[r].complete
  /\ rxLock = r =>
       /\ rx.state # "FAILED"
       /\ rd[r].len <= rd[r].count
       /\ Len(rd[r].out) <= FragmentCapacity
  /\ (rd[r].pc = "read" /\ rx.state = "IDLE") =>
       /\ rd[r].buf = <<>> /\ rd[r].out = <<>>
       /\ ~rd[r].took /\ ~rd[r].complete
       /\ ring # <<>>
       /\ PeekMetaError(Head(ring)) = OK
       /\ Head(ring).message_len = rd[r].len
  /\ (rxLock = r /\ rx.state = "RECEIVING") =>
       /\ ~rd[r].complete
       /\ rx.len = rd[r].len
       /\ rx.received = Len(rd[r].buf) + Len(rd[r].out)
       /\ rx.received <= rx.len
  /\ (rd[r].pc = "copy" /\ rx.state = "IDLE") =>
       rd[r].complete /\ Len(rd[r].buf) + Len(rd[r].out) = rd[r].len

ReceiverInv ==
  /\ rxLock = NoThread => rx.state # "RECEIVING"
  /\ \A r \in Readers : ReaderInv(r)

TransferInv == TypeOK /\ SenderInv /\ ReceiverInv

(* The end of the ring is the end of a message exactly when the sender is  *)
(* not in the middle of one; a receiver in the middle of a message has the *)
(* rest of it before it, in the ring or at the sender.                     *)
InMessage == tx.sending /\ tx.published_any

BoundaryInv ==
  /\ ring # <<>> =>
       (Last(ring[Len(ring)]) \/ Abort(ring[Len(ring)]) <=> ~InMessage)
  /\ (ring = <<>> /\ rx.state = "RECEIVING") => InMessage

-----------------------------------------------------------------------------
(* Sequences and frames.                                                   *)

(* Appending to a sequence keeps its head.                                 *)
LEMMA AppendSlot ==
  ASSUME NEW s \in Seq(Slot), NEW e \in Slot
  PROVE  /\ Append(s, e) \in Seq(Slot)
         /\ Len(Append(s, e)) = Len(s) + 1
         /\ Append(s, e) # <<>>
         /\ Append(s, e)[Len(Append(s, e))] = e
         /\ s # <<>> => Head(Append(s, e)) = Head(s)
  <1> DEFINE t == Append(s, e)
  <1>1. /\ t \in Seq(Slot) /\ t # <<>>
        /\ Len(t) = Len(s) + 1
        /\ \A i \in 1 .. Len(s) : t[i] = s[i]
        /\ t[Len(s) + 1] = e
    BY AppendProperties
  <1>2. Len(s) \in Nat /\ (s # <<>> => Len(s) # 0)
    BY LenProperties, EmptySeq
  <1> HIDE DEF t
  <1>3. t[Len(t)] = e
    BY <1>1
  <1>4. s # <<>> => t[1] = s[1]
    BY <1>1, <1>2
  <1>5. s # <<>> => Head(t) = Head(s)
    <2>1. s # <<>> => Head(s) = s[1]
      BY HeadTailProperties
    <2>2. Head(t) = t[1]
      BY <1>1, HeadTailProperties
    <2> QED
      BY <1>4, <2>1, <2>2, Zenon
  <1> QED
    BY <1>1, <1>3, <1>5, Zenon DEF t

(* The last element of an extended sequence.                               *)
LEMMA AppendEnd ==
  ASSUME NEW s \in Seq(Slot), NEW e, NEW t, t = Append(s, e)
  PROVE  t # <<>> /\ t[Len(t)] = e
  OBVIOUS

(* The head of a ring that is not empty, and what is left behind it.       *)
LEMMA HeadTail ==
  ASSUME NEW s \in Seq(Slot), s # <<>>
  PROVE  /\ Head(s) \in Slot
         /\ Tail(s) \in Seq(Slot)
         /\ Len(Tail(s)) = Len(s) - 1
         /\ Len(s) \in Nat /\ Len(s) # 0
         /\ Tail(s) = <<>> => Head(s) = s[Len(s)]
         /\ Tail(s) # <<>> => Tail(s)[Len(Tail(s))] = s[Len(s)]
  <1> DEFINE t == Tail(s)
  <1>1. /\ Head(s) \in Slot /\ t \in Seq(Slot)
        /\ Len(t) = Len(s) - 1
        /\ \A i \in 1 .. Len(t) : t[i] = s[i + 1]
    BY HeadTailProperties
  <1>2. Len(s) \in Nat /\ Len(s) # 0 /\ Head(s) = s[1]
    OBVIOUS
  <1> HIDE DEF t
  <1>3. t = <<>> => Len(s) = 1
    BY <1>1, <1>2
  <1>4. t # <<>> => t[Len(t)] = s[Len(s)]
    <2>1. t # <<>> => Len(t) \in 1 .. Len(t)
      BY <1>1
    <2> QED
      BY <1>1, <1>2, <2>1
  <1> QED
    BY <1>1, <1>2, <1>3, <1>4 DEF t

(* The payload of a write is a sequence of as many bytes.                  *)
LEMMA PayloadType ==
  ASSUME NEW c \in Nat, NEW n \in Nat
  PROVE  Payload(c, n) \in Seq(Byte) /\ Len(Payload(c, n)) = n
  BY DEF Payload, Byte

(* What the loop of axivc_send_message hands to axivc_message_try_write:   *)
(* no more than a fragment and no more than is left of the message.        *)
LEMMA ChunkType ==
  ASSUME TypeOK, NEW w \in Writers, WriterInv(w)
  PROVE  /\ Chunk(w) \in Seq(Byte)
         /\ Len(Chunk(w)) \in Nat
         /\ Len(Chunk(w)) <= FragmentCapacity
         /\ wr[w].sent + Len(Chunk(w)) <= wr[w].len
         /\ wr[w].sent \in Nat /\ wr[w].len \in Nat /\ wr[w].call \in Nat
  <1> DEFINE s == Payload(wr[w].call, wr[w].len)
             left == wr[w].len - wr[w].sent
             n == IF left < FragmentCapacity THEN left ELSE FragmentCapacity
  <1>1. wr[w].sent \in Nat /\ wr[w].len \in Nat /\ wr[w].call \in Nat
    BY DEF TypeOK, Writer
  <1>2. /\ n \in Nat /\ n <= FragmentCapacity /\ wr[w].sent + n <= wr[w].len
        /\ FragmentCapacity \in Nat
    BY <1>1, MessageAssumption DEF WriterInv
  <1>3. s \in Seq(Byte) /\ Len(s) = wr[w].len
    BY <1>1, PayloadType
  <1>4. Chunk(w) = SubSeq(s, wr[w].sent + 1, wr[w].sent + n)
    BY DEF Chunk
  <1> HIDE DEF s, n
  <1>5. Chunk(w) \in Seq(Byte) /\ Len(Chunk(w)) = n
    <2>1. \A i \in (wr[w].sent + 1) .. (wr[w].sent + n) : s[i] \in Byte
      BY <1>1, <1>2, <1>3
    <2> DEFINE m == wr[w].sent + 1
               k == wr[w].sent + n
    <2>2. /\ m \in Int /\ k \in Int /\ k - m + 1 = n
          /\ m <= k <=> n # 0
      BY <1>1, <1>2
    <2> HIDE DEF m, k
    <2>3. /\ SubSeq(s, m, k) \in Seq(Byte)
          /\ Len(SubSeq(s, m, k)) = IF m <= k THEN k - m + 1 ELSE 0
      BY <2>1, <2>2, SubSeqProperties DEF m, k
    <2>4. Chunk(w) = SubSeq(s, m, k)
      BY <1>4 DEF m, k
    <2> QED
      BY <1>2, <2>2, <2>3, <2>4
  <1> QED
    BY <1>1, <1>2, <1>5

(* A frame this code encodes is a slot.                                    *)
LEMMA EncodeType ==
  ASSUME NEW id \in Nat, NEW len \in Nat, NEW flags \in SUBSET KnownFlags,
         NEW fragment \in Seq(Byte)
  PROVE  Encode(id, len, flags, fragment) \in Slot
  BY DEF Encode, Slot, Version, HeaderLen, KnownFlags

-----------------------------------------------------------------------------
(* The steps of one side leave the other side's invariant alone.           *)

(* A writer's step only appends to the ring: the slot a reader has peeked  *)
(* at stays at its head.                                                   *)
LEMMA ReceiverKept ==
  ASSUME TypeOK, ReceiverInv, UNCHANGED <<rx, rxLock, rd>>,
         ring' = ring \/ \E s \in Slot : ring' = Append(ring, s)
  PROVE  ReceiverInv'
  <1>1. ring # <<>> => ring' # <<>> /\ Head(ring') = Head(ring)
    BY AppendSlot DEF TypeOK
  <1>2. ASSUME NEW r \in Readers PROVE ReaderInv(r)'
    BY <1>1 DEF ReceiverInv, ReaderInv
  <1> QED
    BY <1>2 DEF ReceiverInv

(* A reader's step does not touch what tx_lock protects.                   *)
LEMMA SenderKept ==
  ASSUME SenderInv, UNCHANGED writing
  PROVE  SenderInv'
  BY DEF SenderInv, WriterInv, writing

(* The initial state.                                                      *)
LEMMA TransferInit == Init => TransferInv
  <1> SUFFICES ASSUME Init PROVE TransferInv
    OBVIOUS
  <1> USE TransferAssumption, MessageAssumption DEF Init
  <1>1. tx \in Sender /\ rx \in Receiver
    BY DEF SenderInit, ReceiverInit, Sender, Receiver, Errno, OK
  <1>2. wr \in [Writers -> Writer] /\ rd \in [Readers -> Reader]
    BY DEF WriterIdle, ReaderIdle, Writer, Reader
  <1>3. TypeOK
    BY <1>1, <1>2 DEF TypeOK, OK
  <1>4. SenderInv
    BY DEF SenderInv, WriterInv, WriterIdle, SenderInit
  <1>5. ReceiverInv
    BY DEF ReceiverInv, ReaderInv, ReaderIdle, ReceiverInit
  <1> QED
    BY <1>3, <1>4, <1>5 DEF TransferInv

-----------------------------------------------------------------------------
(* Steps of a writer.                                                      *)

(* A writer that returns leaves its own record idle and the lock free; if  *)
(* it held the lock, the message must be over or the endpoint broken.      *)
LEMMA WriteReturnInv ==
  ASSUME TypeOK, SenderInv, NEW w \in Writers, WriteReturn(w),
         txLock # w => UNCHANGED <<tx, txError>>,
         txLock = w => (tx'.sending => txError' # OK)
  PROVE  /\ SenderInv'
         /\ wr' \in [Writers -> Writer]
         /\ txLock' \in Writers \cup {NoThread}
  <1> USE TransferAssumption DEF WriteReturn
  <1>1. WriterIdle \in Writer
    BY DEF WriterIdle, Writer
  <1>2. /\ wr' \in [Writers -> Writer]
        /\ txLock' \in Writers \cup {NoThread}
    BY <1>1 DEF TypeOK
  <1>3. ASSUME NEW v \in Writers PROVE WriterInv(v)'
    <2>1. CASE v = w
      BY <2>1 DEF TypeOK, SenderInv, WriterInv, WriterIdle
    <2>2. CASE v # w
      <3>1. wr'[v] = wr[v]
        BY <2>2 DEF TypeOK
      <3>2. CASE txLock = w
        BY <2>2, <3>1, <3>2 DEF SenderInv, WriterInv
      <3>3. CASE txLock # w
        BY <2>2, <3>1, <3>3 DEF SenderInv, WriterInv
      <3> QED
        BY <3>2, <3>3
    <2> QED
      BY <2>1, <2>2
  <1>4. tx'.sending => txLock' # NoThread \/ txError' # OK
    BY DEF SenderInv
  <1> QED
    BY <1>2, <1>3, <1>4 DEF SenderInv

(* Every step of axivc_send_message and axivc_abort_send keeps the         *)
(* invariant.                                                              *)
LEMMA WriterStep ==
  ASSUME TransferInv, NEW w \in Writers,
         \/ \E n \in Lengths : WriteCall(w, n)
         \/ TxInterrupted(w) \/ TxEnter(w) \/ TxFault(w) \/ TxStep(w)
  PROVE  TransferInv'
  <1> USE TransferAssumption, MessageAssumption DEF TransferInv
  <1> DEFINE Goal == TypeOK' /\ SenderInv' /\ ReceiverInv'
  <1>a. /\ wr[w] \in Writer /\ WriterInv(w)
        /\ UNCHANGED reading => UNCHANGED <<rx, rxLock, rd, rxResets, delivered>>
    BY DEF TypeOK, SenderInv, reading
  <1>1. ASSUME NEW n \in Lengths, WriteCall(w, n) PROVE Goal
    <2>1. n \in Nat /\ calls + 1 \in 0 .. MaxCalls /\ calls + 1 \in Nat
      BY <1>1 DEF WriteCall, TypeOK
    <2>2. wr' \in [Writers -> Writer]
      BY <1>1, <2>1 DEF WriteCall, TypeOK, Writer
    <2>3. TypeOK'
      BY <1>1, <1>a, <2>1, <2>2 DEF WriteCall, TypeOK
    <2>4. ASSUME NEW v \in Writers PROVE WriterInv(v)'
      BY <1>1, <1>a, <2>1 DEF WriteCall, TypeOK, SenderInv, WriterInv
    <2>5. SenderInv'
      BY <1>1, <2>4 DEF WriteCall, SenderInv
    <2> QED
      BY <1>1, <1>a, <2>3, <2>5, ReceiverKept DEF WriteCall
  <1>2. CASE TxInterrupted(w) \/ TxRefused(w)
    <2>1. /\ WriteReturn(w) /\ txLock # w
          /\ UNCHANGED <<ring, tx, txError, txResets, accepted, reading, calls>>
      BY <1>2, <1>a DEF TxInterrupted, TxRefused, WriterInv
    <2>2. /\ SenderInv' /\ wr' \in [Writers -> Writer]
          /\ txLock' \in Writers \cup {NoThread}
      BY <2>1, WriteReturnInv
    <2>3. TypeOK'
      BY <1>a, <2>1, <2>2 DEF TypeOK
    <2> QED
      BY <1>a, <2>1, <2>2, <2>3, ReceiverKept
  <1>3. CASE TxStart(w)
    <2>1. tx' \in Sender /\ tx'.sending /\ tx'.len = wr[w].len /\ tx'.sent = 0
      <3> DEFINE i == tx.next_message_id
                 j == IF i = MaxMessageId THEN 0 ELSE i + 1
      <3>1. i \in 0 .. MaxMessageId /\ j \in 0 .. MaxMessageId
        BY DEF TypeOK, Sender
      <3>2. wr[w].len \in Nat
        BY <1>a DEF Writer
      <3>3. tx' = [next_message_id |-> j, sending |-> TRUE, id |-> i,
                   len |-> wr[w].len, sent |-> 0, published_any |-> FALSE]
        BY <1>3 DEF TxStart, Start
      <3> HIDE DEF i, j
      <3> QED
        BY <3>1, <3>2, <3>3 DEF Sender
    <2>2. wr' \in [Writers -> Writer]
      BY <1>3, <1>a DEF TxStart, TypeOK, Writer
    <2>3. TypeOK'
      BY <1>3, <1>a, <2>1, <2>2 DEF TxStart, TypeOK
    <2>4. ASSUME NEW v \in Writers PROVE WriterInv(v)'
      <3>1. wr[w].pc = "lock" /\ wr[w].sent = 0
        BY <1>3, <1>a DEF TxStart, WriterInv
      <3>2. CASE v = w
        BY <1>3, <1>a, <2>1, <3>1, <3>2 DEF TxStart, TypeOK, WriterInv
      <3>3. CASE v # w
        BY <1>3, <3>3 DEF TxStart, TypeOK, SenderInv, WriterInv
      <3> QED
        BY <3>2, <3>3
    <2>5. SenderInv'
      BY <1>3, <2>4 DEF TxStart, SenderInv
    <2> QED
      BY <1>3, <1>a, <2>3, <2>5, ReceiverKept DEF TxStart
  <1>4. CASE TxFault(w) \/ TxGiveUp(w)
    <2>1. /\ wr[w].pc = "send"
          /\ wr' = [wr EXCEPT ![w].pc = "abort"]
          /\ UNCHANGED <<ring, tx, txError, txLock, txResets, accepted,
                         reading, calls>>
      BY <1>4 DEF TxFault, TxGiveUp
    <2>2. wr' \in [Writers -> Writer]
      BY <2>1, <1>a DEF TypeOK, Writer
    <2>3. TypeOK'
      BY <1>a, <2>1, <2>2 DEF TypeOK
    <2>4. ASSUME NEW v \in Writers PROVE WriterInv(v)'
      BY <1>a, <2>1 DEF TypeOK, SenderInv, WriterInv
    <2>5. SenderInv'
      BY <2>1, <2>4 DEF SenderInv
    <2> QED
      BY <1>a, <2>1, <2>3, <2>5, ReceiverKept
  <1>5. CASE TxPush(w)
    <2> DEFINE n == Len(Chunk(w))
               s == Encode(tx.id, tx.len, DataFlags(tx, n), Chunk(w))
    <2>1. /\ n \in Nat /\ Chunk(w) \in Seq(Byte)
          /\ wr[w].sent + n <= wr[w].len
          /\ wr[w].call \in Nat /\ wr[w].len \in Nat /\ wr[w].sent \in Nat
      BY <1>a, ChunkType
    <2>2. s \in Slot
      <3>1. tx.id \in Nat /\ tx.len \in Nat
        BY DEF TypeOK, Sender
      <3>2. DataFlags(tx, n) \in SUBSET KnownFlags
        BY DEF DataFlags, KnownFlags
      <3> QED
        BY <2>1, <3>1, <3>2, EncodeType
    <2>3. /\ wr[w].pc = "send" /\ ~RingFull
          /\ ring' = Append(ring, s) /\ tx' = Pushed(tx, n)
          /\ txLock = w
          /\ UNCHANGED <<txError, txResets, reading, calls>>
      BY <1>5, <1>a DEF TxPush, WriterInv
    <2> HIDE DEF n, s
    <2>4. /\ tx' \in Sender
          /\ tx'.sending => tx'.len = tx.len /\ tx'.sent = tx.sent + n
      <3>1. tx \in Sender /\ tx.sent \in Nat /\ tx.sent + n \in Nat
        BY <2>1 DEF TypeOK, Sender
      <3>2. CASE tx.len = 0
        BY <2>3, <3>1, <3>2 DEF Pushed, PushedEmpty, Sender
      <3>3. CASE tx.len # 0
        <4>1. tx' = [tx EXCEPT !.sent = tx.sent + n, !.published_any = TRUE,
                               !.sending = (tx.sent + n # tx.len)]
          BY <2>3, <3>3 DEF Pushed
        <4>2. (tx.sent + n # tx.len) \in BOOLEAN
          OBVIOUS
        <4> QED
          BY <3>1, <4>1, <4>2 DEF Sender
      <3> QED
        BY <3>2, <3>3
    <2>5. ring' \in Seq(Slot) /\ Len(ring') <= RingCapacity
      BY <2>2, <2>3, AppendSlot DEF TypeOK, RingFull
    <2>6. CASE tx'.sending
      <3>1. wr' = [wr EXCEPT ![w].sent = @ + n] /\ UNCHANGED <<txLock, accepted>>
        BY <1>5, <2>3, <2>6 DEF TxPush, n
      <3>2. wr' \in [Writers -> Writer]
        <4>1. wr \in [Writers -> Writer] /\ wr[w].sent + n \in Nat
          BY <2>1 DEF TypeOK
        <4>2. wr' = [wr EXCEPT ![w] = [wr[w] EXCEPT !.sent = wr[w].sent + n]]
          BY <3>1, <4>1
        <4>3. [wr[w] EXCEPT !.sent = wr[w].sent + n] \in Writer
          BY <1>a, <4>1 DEF Writer
        <4> QED
          BY <4>1, <4>2, <4>3
      <3>3. TypeOK'
        BY <1>a, <2>3, <2>4, <2>5, <3>1, <3>2 DEF TypeOK
      <3>4. ASSUME NEW v \in Writers PROVE WriterInv(v)'
        <4>1. CASE v = w
          <5>1. /\ wr'[w].sent = wr[w].sent + n /\ wr'[w].len = wr[w].len
                /\ wr'[w].pc = "send"
            BY <1>a, <2>3, <3>1 DEF TypeOK, Writer
          <5> QED
            BY <1>a, <2>1, <2>3, <2>4, <2>6, <3>1, <4>1, <5>1 DEF WriterInv
        <4>2. CASE v # w
          <5>1. wr'[v] = wr[v]
            BY <3>1, <4>2 DEF TypeOK
          <5> QED
            BY <2>3, <3>1, <4>2, <5>1 DEF SenderInv, WriterInv
        <4> QED
          BY <4>1, <4>2
      <3>5. SenderInv'
        BY <2>3, <3>1, <3>4 DEF SenderInv
      <3> QED
        BY <1>a, <2>2, <2>3, <3>3, <3>5, ReceiverKept
    <2>7. CASE ~tx'.sending
      <3>1. /\ WriteReturn(w)
            /\ accepted' = Append(accepted, Payload(wr[w].call, wr[w].len))
        BY <1>5, <2>3, <2>7 DEF TxPush, n
      <3>2. /\ SenderInv' /\ wr' \in [Writers -> Writer]
            /\ txLock' \in Writers \cup {NoThread}
        BY <2>3, <2>7, <3>1, WriteReturnInv
      <3>3. accepted' \in Seq(Seq(Byte))
        <4>1. Payload(wr[w].call, wr[w].len) \in Seq(Byte)
          BY <2>1, PayloadType
        <4> QED
          BY <3>1, <4>1 DEF TypeOK
      <3>4. TypeOK'
        BY <1>a, <2>3, <2>4, <2>5, <3>2, <3>3 DEF TypeOK
      <3> QED
        BY <1>a, <2>2, <2>3, <3>2, <3>4, ReceiverKept
    <2> QED
      BY <2>6, <2>7
  <1>6. CASE TxAbortLocal(w) \/ TxAbortPush(w) \/ TxAbortGiveUp(w)
    <2>1. /\ WriteReturn(w) /\ txLock = w
          /\ ~tx'.sending \/ txError' # OK
          /\ tx' \in Sender /\ txError' \in {OK, "EPIPE"}
          /\ UNCHANGED <<txResets, accepted, reading, calls>>
      BY <1>6, <1>a
      DEF TxAbortLocal, TxAbortPush, TxAbortGiveUp, Aborted, TypeOK, Sender,
          WriterInv, OK
    <2>2. AbortSlot(tx) \in Slot
      <3>1. tx.id \in Nat /\ tx.len \in Nat /\ <<>> \in Seq(Byte)
        BY DEF TypeOK, Sender
      <3>2. {"ABORT"} \in SUBSET KnownFlags
        BY DEF KnownFlags
      <3> QED
        BY <3>1, <3>2, EncodeType DEF AbortSlot
    <2>3. \/ ring' = ring
          \/ ~RingFull /\ ring' = Append(ring, AbortSlot(tx))
      BY <1>6 DEF TxAbortLocal, TxAbortPush, TxAbortGiveUp
    <2>4. ring' \in Seq(Slot) /\ Len(ring') <= RingCapacity
      <3>1. CASE ring' = ring
        BY <3>1 DEF TypeOK
      <3>2. CASE ~RingFull /\ ring' = Append(ring, AbortSlot(tx))
        BY <2>2, <3>2, AppendSlot DEF TypeOK, RingFull
      <3> QED
        BY <2>3, <3>1, <3>2
    <2>5. /\ SenderInv' /\ wr' \in [Writers -> Writer]
          /\ txLock' \in Writers \cup {NoThread}
      BY <2>1, WriteReturnInv
    <2>6. TypeOK'
      BY <1>a, <2>1, <2>4, <2>5 DEF TypeOK
    <2> QED
      BY <1>a, <2>1, <2>2, <2>3, <2>5, <2>6, ReceiverKept
  <1> QED
    BY <1>1, <1>2, <1>3, <1>4, <1>5, <1>6 DEF TxEnter, TxStep

-----------------------------------------------------------------------------
(* Steps of a reader.                                                      *)

(* The codec reports an errno of the kernel's, and accepts no frame whose  *)
(* payload does not fit into a slot.                                       *)
LEMMA DecodeFacts ==
  ASSUME NEW s \in Slot
  PROVE  /\ DecodeError(s) \in {OK, "EPROTO", "EPROTONOSUPPORT"}
         /\ DecodeError(s) = OK =>
              /\ s.fragment_len <= FragmentCapacity
              /\ Len(s.fragment) = s.fragment_len
              /\ ShapeOK(s.message_len, s.fragment_len, s.flags)
  <1>1. /\ s.version \in Nat /\ s.header_len \in Nat /\ s.fragment_len \in Nat
        /\ s.fragment_len <= FragmentCapacity =>
             Len(s.fragment) = s.fragment_len
    BY DEF Slot
  <1>2. DecodeError(s) = OK =>
          /\ s.header_len = HeaderLen
          /\ ~(s.fragment_len > SlotSize - s.header_len)
    BY DEF DecodeError, OK
  <1>3. SlotSize - HeaderLen = FragmentCapacity /\ FragmentCapacity \in Nat
    BY MessageAssumption DEF SlotSize, HeaderLen
  <1>4. DecodeError(s) = OK =>
          ShapeOK(s.message_len, s.fragment_len, s.flags)
    BY <1>1 DEF DecodeError, OK
  <1>5. DecodeError(s) \in {OK, "EPROTO", "EPROTONOSUPPORT"}
    BY DEF DecodeError
  <1> QED
    BY <1>1, <1>2, <1>3, <1>4, <1>5

(* The checks of the receiver report one of the errors it can store.       *)
LEMMA SlotErrorType ==
  ASSUME NEW s \in Slot
  PROVE  PeekMetaError(s) \in Errno /\ SlotError(rx, s) \in Errno
  BY DecodeFacts DEF PeekMetaError, SlotError, TransitionError, Errno, OK

(* axivc_message_receiver_poison leaves a failed receiver.                 *)
LEMMA PoisonedType ==
  ASSUME TypeOK, NEW e \in Errno
  PROVE  Poisoned(rx, e) \in Receiver /\ Poisoned(rx, e).state = "FAILED"
  BY DEF TypeOK, Poisoned, Receiver

(* A reader that returns leaves its own record idle and the lock free; the *)
(* receiver is not in the middle of a message unless another reader has    *)
(* it.                                                                     *)
LEMMA ReadReturnInv ==
  ASSUME TypeOK, ReceiverInv, NEW r \in Readers, ReadReturn(r),
         rxLock \notin {r, NoThread} => UNCHANGED <<rx, ring>>,
         rxLock \in {r, NoThread} => rx'.state # "RECEIVING"
  PROVE  /\ ReceiverInv'
         /\ rd' \in [Readers -> Reader]
         /\ rxLock' \in Readers \cup {NoThread}
  <1> USE TransferAssumption DEF ReadReturn
  <1>1. ReaderIdle \in Reader
    BY DEF ReaderIdle, Reader
  <1>2. /\ rd' \in [Readers -> Reader]
        /\ rxLock' \in Readers \cup {NoThread}
    BY <1>1 DEF TypeOK
  <1>3. ASSUME NEW q \in Readers PROVE ReaderInv(q)'
    <2>1. CASE q = r
      <3>1. rd'[q] = ReaderIdle /\ rxLock' # q
        BY <2>1 DEF TypeOK
      <3> QED
        <4>1. /\ rd'[q].pc = "idle" /\ rd'[q].buf = <<>>
              /\ rd'[q].out = <<>>
              /\ rd'[q].took = FALSE /\ rd'[q].complete = FALSE
          BY <3>1 DEF ReaderIdle
        <4> QED
          BY <3>1, <4>1 DEF ReaderInv
    <2>2. CASE q # r
      <3>1. rd'[q] = rd[q] /\ ReaderInv(q)
        BY <2>2 DEF TypeOK, ReceiverInv
      <3>2. CASE rxLock \in {r, NoThread}
        <4>1. rxLock # q /\ rxLock' # q
          BY <2>2, <3>2
        <4> QED
          BY <3>1, <4>1 DEF ReaderInv
      <3>3. CASE rxLock \notin {r, NoThread}
        BY <3>1, <3>3 DEF ReaderInv
      <3> QED
        BY <3>2, <3>3
    <2> QED
      BY <2>1, <2>2
  <1>4. rxLock' = NoThread => rx'.state # "RECEIVING"
    BY DEF TypeOK
  <1> QED
    BY <1>2, <1>3, <1>4 DEF ReceiverInv

(* One round of axivc_process_available_slots, from the frame that starts  *)
(* the message or from any later one.                                      *)
LEMMA TakeFacts ==
  ASSUME TransferInv, NEW r \in Readers, RxTake(r)
  PROVE  LET slot == Head(ring)
             out == rd[r].out \o slot.fragment
             got == Len(rd[r].buf) + Len(out)
         IN  /\ slot \in Slot /\ rx' \in Receiver /\ rxLock = r
             /\ out \in Seq(Byte) /\ Len(out) <= FragmentCapacity
             /\ rx'.state = (IF Last(slot) \/ Abort(slot) THEN "IDLE"
                                                          ELSE "RECEIVING")
             /\ ~Abort(slot) =>
                  /\ rx'.len = rd[r].len /\ rx'.received = got
                  /\ got <= rd[r].len
                  /\ Last(slot) => got = rd[r].len
             /\ ~rd[r].complete
  <1> USE TransferAssumption, MessageAssumption DEF TransferInv
  <1> DEFINE slot == Head(ring)
             out == rd[r].out \o slot.fragment
             got == Len(rd[r].buf) + Len(out)
             idle == rx.state = "IDLE"
             before == IF idle THEN 0 ELSE rx.received
  <1>1. /\ rd[r].pc = "read" /\ rxLock = r /\ ReaderInv(r)
        /\ rd[r] \in Reader /\ rx \in Receiver /\ Consumable(r)
        /\ rx.state \in {"IDLE", "RECEIVING"}
        /\ rx' = Transition(rx, slot)
    BY DEF RxTake, ReceiverInv, ReaderInv, TypeOK, Receiver
  <1>2. /\ ring # <<>> /\ SlotError(rx, slot) = OK
        /\ slot.fragment_len <= FragmentCapacity - Len(rd[r].out)
    BY <1>1 DEF Consumable
  <1>3. slot \in Slot
    BY <1>2, HeadTail DEF TypeOK
  <1>4. /\ slot.fragment \in Seq(Byte) /\ slot.message_len \in Nat
        /\ slot.message_id \in Nat /\ slot.fragment_len \in Nat
    BY <1>3 DEF Slot
  <1> HIDE DEF slot
  <1>5. DecodeError(slot) = OK /\ TransitionError(rx, slot) = OK
    BY <1>2 DEF SlotError
  <1>6. Len(slot.fragment) = slot.fragment_len
    BY <1>3, <1>5, DecodeFacts
  <1>7. rd[r].out \in Seq(Byte) /\ rd[r].buf \in Seq(Byte) /\ rd[r].len \in Nat
    BY <1>1 DEF Reader
  <1>8. /\ out \in Seq(Byte)
        /\ Len(out) = Len(rd[r].out) + slot.fragment_len
        /\ Len(rd[r].out) \in Nat /\ Len(rd[r].buf) \in Nat
    <2>1. Len(rd[r].out) \in Nat /\ Len(rd[r].buf) \in Nat
      BY <1>7, LenProperties
    <2>2. out \in Seq(Byte) /\ Len(out) = Len(rd[r].out) + Len(slot.fragment)
      BY <1>4, <1>7, ConcatProperties
    <2> QED
      BY <1>6, <2>1, <2>2
  <1> HIDE DEF out
  <1>9. Len(out) <= FragmentCapacity
    BY <1>2, <1>4, <1>8
  <1>10. /\ before = Len(rd[r].buf) + Len(rd[r].out)
         /\ (IF idle THEN slot.message_len ELSE rx.len) = rd[r].len
         /\ ~rd[r].complete
    <2>1. CASE idle
      <3>1. rd[r].buf = <<>> /\ rd[r].out = <<>>
        BY <1>1, <2>1 DEF ReaderInv
      <3>2. Len(rd[r].buf) = 0 /\ Len(rd[r].out) = 0
        BY <3>1, EmptySeq
      <3> QED
        BY <1>1, <2>1, <3>2 DEF ReaderInv, slot
    <2>2. CASE ~idle
      BY <1>1, <2>2 DEF ReaderInv
    <2> QED
      BY <2>1, <2>2
  <1>11. before \in Nat /\ before + slot.fragment_len = got
    <2> DEFINE b == Len(rd[r].buf)
               o == Len(rd[r].out)
               g == Len(out)
    <2>1. /\ b \in Nat /\ o \in Nat /\ slot.fragment_len \in Nat
          /\ g = o + slot.fragment_len /\ before = b + o
      BY <1>4, <1>8, <1>10
    <2> HIDE DEF b, o, g, before
    <2>2. before \in Nat /\ before + slot.fragment_len = b + g
      BY <2>1
    <2> QED
      BY <2>2 DEF b, g
  <1>12. ~Abort(slot) =>
           /\ before + slot.fragment_len <= rd[r].len
           /\ Last(slot) => before + slot.fragment_len = rd[r].len
    <2>1. before \in Nat
      BY <1>11
    <2>2. ~Abort(slot) =>
            /\ ~(before + slot.fragment_len > rd[r].len)
            /\ ~(Last(slot) /\ before + slot.fragment_len # rd[r].len)
      BY <1>5, <1>10 DEF TransitionError, OK
    <2> QED
      BY <1>4, <1>7, <2>1, <2>2
  <1> HIDE DEF before
  <1>13. got = before + slot.fragment_len
    BY <1>11
  <1>14. /\ rx'.state = (IF Last(slot) \/ Abort(slot) THEN "IDLE"
                                                      ELSE "RECEIVING")
         /\ rx'.len = rd[r].len
         /\ rx'.received = before + slot.fragment_len
    BY <1>1, <1>10 DEF Transition, before
  <1>15. rx' \in Receiver
    <2>1. before + slot.fragment_len \in Nat
      BY <1>4, <1>11
    <2> QED
      BY <1>1, <1>4, <2>1 DEF Transition, Receiver, before
  <1> QED
    BY <1>1, <1>3, <1>8, <1>9, <1>10, <1>12, <1>13, <1>14, <1>15 DEF slot, out

(* Every step of axivc_recv_message keeps the invariant.                   *)
LEMMA ReaderStep ==
  ASSUME TransferInv, NEW r \in Readers,
         \/ \E n \in ReadSizes : ReadCall(r, n)
         \/ RxInterrupted(r) \/ RxEnter(r) \/ RxCopyFault(r)
         \/ RxGiveUp(r, "ERESTARTSYS") \/ RxStep(r)
  PROVE  TransferInv'
  <1> USE TransferAssumption, MessageAssumption DEF TransferInv
  <1> DEFINE Goal == TypeOK' /\ SenderInv' /\ ReceiverInv'
  <1>a. /\ rd[r] \in Reader /\ ReaderInv(r) /\ rx \in Receiver
        /\ UNCHANGED writing =>
             UNCHANGED <<tx, txError, txLock, wr, txResets, accepted>>
    BY DEF TypeOK, ReceiverInv, writing
  <1>1. ASSUME NEW n \in ReadSizes, ReadCall(r, n) PROVE Goal
    <2>1. rd' = [rd EXCEPT ![r] = [ReaderIdle EXCEPT !.pc = "lock", !.count = n]]
      BY <1>1 DEF ReadCall
    <2>2. [ReaderIdle EXCEPT !.pc = "lock", !.count = n] \in Reader
      <3>1. n \in Nat /\ <<>> \in Seq(Byte)
        OBVIOUS
      <3> QED
        BY <3>1 DEF ReaderIdle, Reader
    <2>3. rd' \in [Readers -> Reader]
      BY <2>1, <2>2 DEF TypeOK
    <2>4. TypeOK'
      BY <1>1, <1>a, <2>3 DEF ReadCall, TypeOK
    <2>5. ASSUME NEW q \in Readers PROVE ReaderInv(q)'
      <3>1. CASE q = r
        <4>1. /\ rd'[r].pc = "lock" /\ rd'[r].buf = <<>>
              /\ rd'[r].out = <<>>
              /\ rd'[r].took = FALSE /\ rd'[r].complete = FALSE
          BY <2>1 DEF ReaderIdle, TypeOK
        <4>2. rxLock # r /\ UNCHANGED <<ring, rx, rxLock>>
          BY <1>1, <1>a DEF ReadCall, ReaderInv
        <4> QED
          BY <3>1, <4>1, <4>2 DEF ReaderInv
      <3>2. CASE q # r
        <4>1. rd'[q] = rd[q] /\ UNCHANGED <<ring, rx, rxLock>> /\ ReaderInv(q)
          BY <1>1, <2>1, <3>2 DEF ReadCall, TypeOK, ReceiverInv
        <4> QED
          BY <4>1 DEF ReaderInv
      <3> QED
        BY <3>1, <3>2
    <2>6. ReceiverInv'
      BY <1>1, <2>5 DEF ReadCall, ReceiverInv
    <2> QED
      BY <1>1, <2>4, <2>6, SenderKept DEF ReadCall
  <1>2. CASE RxInterrupted(r) \/ RxNothing(r) \/ RxTooSmall(r)
    <2>1. /\ ReadReturn(r) /\ rxLock # r
          /\ UNCHANGED <<ring, rx, rxResets, delivered, writing, calls>>
      BY <1>2, <1>a
      DEF RxInterrupted, RxNothing, RxTooSmall, Entering, ReaderInv
    <2>2. /\ ReceiverInv' /\ rd' \in [Readers -> Reader]
          /\ rxLock' \in Readers \cup {NoThread}
      BY <2>1, ReadReturnInv DEF ReceiverInv
    <2>3. TypeOK'
      BY <1>a, <2>1, <2>2 DEF TypeOK
    <2> QED
      BY <2>1, <2>2, <2>3, SenderKept
  <1>3. CASE \/ RxRefuse(r) \/ RxFail(r) \/ RxCopyFault(r)
             \/ RxGiveUp(r, "ERESTARTSYS") \/ RxGiveUp(r, "ETIMEDOUT")
    <2>1. /\ ReadReturn(r) /\ rxLock \in {r, NoThread}
          /\ UNCHANGED <<ring, rxResets, delivered, writing, calls>>
      BY <1>3, <1>a
      DEF RxRefuse, RxFail, RxCopyFault, RxGiveUp, Entering, ReaderInv
    <2>2. \E e \in Errno : rx' = Poisoned(rx, e)
      <3>1. ring # <<>> => Head(ring) \in Slot
        BY HeadTail DEF TypeOK
      <3>2. CASE RxRefuse(r)
        BY <3>1, <3>2, SlotErrorType DEF RxRefuse
      <3>3. CASE RxFail(r)
        BY <3>1, <3>3, SlotErrorType DEF RxFail
      <3>4. CASE \/ RxCopyFault(r) \/ RxGiveUp(r, "ERESTARTSYS")
                 \/ RxGiveUp(r, "ETIMEDOUT")
        BY <3>4 DEF RxCopyFault, RxGiveUp, Errno
      <3> QED
        BY <1>3, <3>2, <3>3, <3>4
    <2>3. rx' \in Receiver /\ rx'.state = "FAILED"
      BY <2>2, PoisonedType
    <2>4. /\ ReceiverInv' /\ rd' \in [Readers -> Reader]
          /\ rxLock' \in Readers \cup {NoThread}
      BY <2>1, <2>3, ReadReturnInv
    <2>5. TypeOK'
      BY <1>a, <2>1, <2>3, <2>4 DEF TypeOK
    <2> QED
      BY <2>1, <2>4, <2>5, SenderKept
  <1>4. CASE RxStart(r)
    <2>1. /\ rd[r].pc = "lock" /\ rxLock = NoThread /\ rxLock' = r
          /\ rx.state = "IDLE" /\ ring # <<>>
          /\ PeekMetaError(Head(ring)) = OK
          /\ MetaLen = Head(ring).message_len /\ MetaLen <= rd[r].count
          /\ UNCHANGED <<ring, rx, rxResets, delivered, writing, calls>>
      BY <1>4 DEF RxStart, Entering, MetaAvailable, MetaLen, ReceiverInv
    <2>2. MetaLen \in Nat
      BY <2>1, HeadTail DEF TypeOK, Slot
    <2>3. rd' = [rd EXCEPT ![r] = [rd[r] EXCEPT !.pc = "read", !.len = MetaLen]]
      BY <1>4 DEF RxStart, TypeOK
    <2>4. [rd[r] EXCEPT !.pc = "read", !.len = MetaLen] \in Reader
      BY <1>a, <2>2 DEF Reader
    <2>5. rd' \in [Readers -> Reader]
      BY <2>3, <2>4 DEF TypeOK
    <2>6. TypeOK'
      BY <1>a, <2>1, <2>5 DEF TypeOK
    <2>7. ASSUME NEW q \in Readers PROVE ReaderInv(q)'
      <3>1. CASE q = r
        <4>1. /\ rd'[r].pc = "read" /\ rd'[r].len = MetaLen
              /\ rd'[r].buf = <<>> /\ rd'[r].out = <<>>
              /\ rd'[r].count = rd[r].count
              /\ rd'[r].took = rd[r].took /\ ~rd'[r].complete
          BY <1>a, <2>1, <2>3 DEF TypeOK, Reader, ReaderInv
        <4>2. ~rd[r].took /\ Len(rd'[r].out) = 0
          BY <1>a, <2>1, <4>1, EmptySeq DEF ReaderInv
        <4> QED
          BY <2>1, <3>1, <4>1, <4>2 DEF ReaderInv
      <3>2. CASE q # r
        <4>1. rd'[q] = rd[q] /\ ReaderInv(q) /\ rxLock # q /\ rxLock' # q
          BY <2>1, <2>3, <3>2 DEF TypeOK, ReceiverInv
        <4> QED
          BY <4>1 DEF ReaderInv
      <3> QED
        BY <3>1, <3>2
    <2>8. ReceiverInv'
      BY <2>1, <2>7 DEF ReceiverInv
    <2> QED
      BY <2>1, <2>6, <2>8, SenderKept
  <1>5. CASE RxTake(r)
    <2> DEFINE slot == Head(ring)
               out == rd[r].out \o slot.fragment
    <2>1. /\ slot \in Slot /\ rx' \in Receiver /\ rxLock = r
          /\ out \in Seq(Byte) /\ Len(out) <= FragmentCapacity
          /\ rx'.state = (IF Last(slot) \/ Abort(slot) THEN "IDLE"
                                                       ELSE "RECEIVING")
          /\ ~Abort(slot) =>
               /\ rx'.len = rd[r].len
               /\ rx'.received = Len(rd[r].buf) + Len(out)
               /\ Len(rd[r].buf) + Len(out) <= rd[r].len
               /\ Last(slot) => Len(rd[r].buf) + Len(out) = rd[r].len
          /\ ~rd[r].complete
      BY <1>5, TakeFacts
    <2>2. /\ rd[r].pc = "read" /\ ring # <<>> /\ ring' = Tail(ring)
          /\ UNCHANGED <<rxResets, delivered, writing, calls>>
      BY <1>5 DEF RxTake, Consumable
    <2>3. ring' \in Seq(Slot) /\ Len(ring') <= RingCapacity
      BY <2>2, HeadTail DEF TypeOK
    <2>4. CASE Abort(slot)
      <3>1. ReadReturn(r)
        BY <1>5, <2>4 DEF RxTake
      <3>2. /\ ReceiverInv' /\ rd' \in [Readers -> Reader]
            /\ rxLock' \in Readers \cup {NoThread}
        BY <2>1, <2>4, <3>1, ReadReturnInv
      <3>3. TypeOK'
        BY <1>a, <2>1, <2>2, <2>3, <3>2 DEF TypeOK
      <3> QED
        BY <2>2, <3>2, <3>3, SenderKept
    <2>5. CASE ~Abort(slot)
      <3> DEFINE new == [rd[r] EXCEPT !.out = out, !.took = TRUE,
                           !.complete = Last(slot),
                           !.pc = IF Last(slot) THEN "copy" ELSE "read"]
      <3>1. rd' = [rd EXCEPT ![r] = new] /\ rxLock' = r
        BY <1>5, <2>1, <2>5 DEF RxTake, TypeOK
      <3> HIDE DEF slot, out
      <3>2. new \in Reader
        <4>1. /\ Last(slot) \in BOOLEAN /\ out \in Seq(Byte)
              /\ (IF Last(slot) THEN "copy" ELSE "read") \in {"copy", "read"}
          BY <2>1 DEF Last
        <4> QED
          BY <1>a, <4>1 DEF Reader
      <3>3. /\ new.out = out /\ new.buf = rd[r].buf /\ new.len = rd[r].len
            /\ new.count = rd[r].count /\ new.complete = Last(slot)
            /\ new.pc = IF Last(slot) THEN "copy" ELSE "read"
        BY <1>a DEF Reader
      <3> HIDE DEF new
      <3>4. rd' \in [Readers -> Reader] /\ rd'[r] = new
        BY <3>1, <3>2 DEF TypeOK
      <3>5. TypeOK'
        BY <1>a, <2>1, <2>2, <2>3, <3>1, <3>4 DEF TypeOK
      <3>6. ASSUME NEW q \in Readers PROVE ReaderInv(q)'
        <4>1. CASE q = r
          <5>1. rd[r].len <= rd[r].count
            BY <1>a, <2>1 DEF ReaderInv
          <5>2. CASE Last(slot)
            BY <2>1, <2>5, <3>1, <3>3, <3>4, <4>1, <5>1, <5>2 DEF ReaderInv
          <5>3. CASE ~Last(slot)
            BY <2>1, <2>5, <3>1, <3>3, <3>4, <4>1, <5>1, <5>3 DEF ReaderInv
          <5> QED
            BY <5>2, <5>3
        <4>2. CASE q # r
          <5>1. rd'[q] = rd[q] /\ ReaderInv(q) /\ rxLock # q /\ rxLock' # q
            BY <2>1, <3>1, <4>2 DEF TypeOK, ReceiverInv
          <5> QED
            BY <5>1 DEF ReaderInv
        <4> QED
          BY <4>1, <4>2
      <3>7. ReceiverInv'
        BY <3>1, <3>6 DEF ReceiverInv
      <3> QED
        BY <2>2, <3>5, <3>7, SenderKept
    <2> QED
      BY <2>4, <2>5
  <1>6. CASE RxReturn(r)
    <2>1. /\ rd[r].pc = "read" /\ rd[r].took /\ rxLock = r
          /\ rd' = [rd EXCEPT ![r] = [rd[r] EXCEPT !.pc = "copy"]]
          /\ UNCHANGED <<ring, rx, rxLock, rxResets, delivered, writing, calls>>
      BY <1>6, <1>a DEF RxReturn, TypeOK, ReaderInv
    <2>2. rx.state = "RECEIVING"
      BY <1>a, <2>1 DEF ReaderInv, Receiver
    <2>3. rd' \in [Readers -> Reader]
      BY <1>a, <2>1 DEF TypeOK, Reader
    <2>4. TypeOK'
      BY <1>a, <2>1, <2>3 DEF TypeOK
    <2>5. ASSUME NEW q \in Readers PROVE ReaderInv(q)'
      <3>1. CASE q = r
        <4>1. /\ rd'[r].pc = "copy" /\ rd'[r].out = rd[r].out
              /\ rd'[r].buf = rd[r].buf /\ rd'[r].len = rd[r].len
              /\ rd'[r].count = rd[r].count /\ rd'[r].complete = rd[r].complete
          BY <1>a, <2>1 DEF TypeOK, Reader
        <4> QED
          BY <1>a, <2>1, <2>2, <3>1, <4>1 DEF ReaderInv
      <3>2. CASE q # r
        <4>1. rd'[q] = rd[q] /\ ReaderInv(q)
          BY <2>1, <3>2 DEF TypeOK, ReceiverInv
        <4> QED
          BY <2>1, <4>1 DEF ReaderInv
      <3> QED
        BY <3>1, <3>2
    <2>6. ReceiverInv'
      BY <2>1, <2>5 DEF ReceiverInv
    <2> QED
      BY <2>1, <2>4, <2>6, SenderKept
  <1>7. CASE RxCopy(r)
    <2> DEFINE all == rd[r].buf \o rd[r].out
    <2>1. /\ rd[r].pc = "copy" /\ rxLock = r
          /\ UNCHANGED <<ring, rx, rxResets, writing, calls>>
      BY <1>7, <1>a DEF RxCopy, ReaderInv
    <2>2. /\ all \in Seq(Byte)
          /\ Len(all) = Len(rd[r].buf) + Len(rd[r].out)
      BY <1>a, ConcatProperties DEF Reader
    <2>3. CASE rd[r].complete
      <3>1. ReadReturn(r) /\ delivered' = Append(delivered, all)
        BY <1>7, <2>3 DEF RxCopy
      <3>2. rx'.state # "RECEIVING"
        BY <1>a, <2>1, <2>3 DEF ReaderInv
      <3>3. /\ ReceiverInv' /\ rd' \in [Readers -> Reader]
            /\ rxLock' \in Readers \cup {NoThread}
        BY <2>1, <3>1, <3>2, ReadReturnInv
      <3> HIDE DEF all
      <3>4. delivered' \in Seq(Seq(Byte))
        BY <2>2, <3>1 DEF TypeOK
      <3>5. TypeOK'
        BY <1>a, <2>1, <3>3, <3>4 DEF TypeOK
      <3> QED
        BY <2>1, <3>3, <3>5, SenderKept
    <2>4. CASE ~rd[r].complete
      <3> DEFINE new == [rd[r] EXCEPT !.pc = "read", !.took = FALSE,
                                      !.buf = all, !.out = <<>>]
      <3>1. rd' = [rd EXCEPT ![r] = new] /\ UNCHANGED <<rxLock, delivered>>
        BY <1>7, <2>4 DEF RxCopy, TypeOK
      <3>2. rx.state = "RECEIVING"
        BY <1>a, <2>1, <2>4 DEF ReaderInv, Receiver
      <3> HIDE DEF all
      <3>3. new \in Reader
        <4>1. all \in Seq(Byte) /\ <<>> \in Seq(Byte)
          BY <2>2
        <4> QED
          BY <1>a, <4>1 DEF Reader
      <3>4. /\ new.out = <<>> /\ new.buf = all /\ new.len = rd[r].len
            /\ new.count = rd[r].count /\ new.complete = rd[r].complete
            /\ new.pc = "read"
        BY <1>a DEF Reader
      <3> HIDE DEF new
      <3>5. rd' \in [Readers -> Reader] /\ rd'[r] = new
        BY <3>1, <3>3 DEF TypeOK
      <3>6. TypeOK'
        BY <1>a, <2>1, <3>1, <3>5 DEF TypeOK
      <3>7. ASSUME NEW q \in Readers PROVE ReaderInv(q)'
        <4>1. CASE q = r
          <5>1. Len(new.out) = 0 /\ Len(new.buf) = Len(all) /\ Len(all) \in Nat
            BY <2>2, <3>4, EmptySeq, LenProperties
          <5>2. Len(new.buf) + Len(new.out) = Len(rd[r].buf) + Len(rd[r].out)
            BY <2>2, <5>1
          <5>3. /\ rx.len = rd[r].len /\ rx.received <= rx.len
                /\ rx.received = Len(rd[r].buf) + Len(rd[r].out)
                /\ rd[r].len <= rd[r].count
            BY <1>a, <2>1, <3>2 DEF ReaderInv
          <5>4. /\ rd'[r].pc = "read" /\ rd'[r].len = rd[r].len
                /\ rd'[r].count = rd[r].count /\ ~rd'[r].complete
                /\ rd'[r].buf = new.buf /\ rd'[r].out = new.out
                /\ rx'.state = "RECEIVING" /\ rxLock' = r /\ rx' = rx
            BY <2>1, <2>4, <3>1, <3>2, <3>4, <3>5
          <5>5. 0 <= FragmentCapacity
            OBVIOUS
          <5>6. /\ Len(rd'[r].out) <= FragmentCapacity
                /\ rx'.received = Len(rd'[r].buf) + Len(rd'[r].out)
            BY <5>1, <5>2, <5>3, <5>4, <5>5, Zenon
          <5> QED
            BY <4>1, <5>3, <5>4, <5>6 DEF ReaderInv
        <4>2. CASE q # r
          <5>1. rd'[q] = rd[q] /\ ReaderInv(q)
            BY <3>1, <4>2 DEF TypeOK, ReceiverInv
          <5> QED
            BY <2>1, <3>1, <5>1 DEF ReaderInv
        <4> QED
          BY <4>1, <4>2
      <3>8. ReceiverInv'
        BY <2>1, <3>1, <3>7 DEF ReceiverInv
      <3> QED
        BY <2>1, <3>6, <3>8, SenderKept
    <2> QED
      BY <2>3, <2>4
  <1> QED
    BY <1>1, <1>2, <1>3, <1>4, <1>5, <1>6, <1>7 DEF RxEnter, RxStep

-----------------------------------------------------------------------------
(* The invariant holds throughout.                                         *)

(* So does a subscriber that leaves and comes back, since no thread is     *)
(* inside a call then.                                                     *)
LEMMA ResetStep ==
  ASSUME TransferInv, ResetTx \/ ResetRx
  PROVE  TransferInv'
  <1> USE TransferAssumption, MessageAssumption DEF TransferInv
  <1>1. CASE ResetTx
    <2>1. /\ tx' = SenderInit /\ txError' = OK /\ txResets' = txResets + 1
          /\ txResets < MaxTxResets
          /\ UNCHANGED <<ring, txLock, wr, accepted, calls>>
          /\ UNCHANGED <<rx, rxLock, rd, rxResets, delivered>>
      BY <1>1 DEF ResetTx, reading
    <2>2. tx' \in Sender /\ ~tx'.sending
      BY <2>1 DEF SenderInit, Sender
    <2>3. TypeOK'
      BY <2>1, <2>2 DEF TypeOK
    <2>4. ASSUME NEW w \in Writers PROVE WriterInv(w)' /\ txLock # w
      BY <1>1, <2>1 DEF ResetTx, SenderInv, WriterInv
    <2>5. SenderInv'
      BY <2>2, <2>4 DEF SenderInv
    <2> QED
      BY <2>1, <2>3, <2>5, ReceiverKept
  <1>2. CASE ResetRx
    <2>1. /\ rx' = ReceiverInit /\ rxResets' = rxResets + 1
          /\ rxResets < MaxRxResets
          /\ UNCHANGED <<ring, rxLock, rd, delivered, calls>>
          /\ UNCHANGED writing
          /\ UNCHANGED <<tx, txError, txLock, wr, txResets, accepted>>
      BY <1>2 DEF ResetRx, writing
    <2>2. rx' \in Receiver /\ rx'.state = "IDLE"
      BY <2>1 DEF ReceiverInit, Receiver, Errno
    <2>3. TypeOK'
      BY <2>1, <2>2 DEF TypeOK
    <2>4. ASSUME NEW r \in Readers PROVE ReaderInv(r)'
      <3>1. rd[r].pc = "idle" /\ rxLock # r /\ ReaderInv(r)
        BY <1>2 DEF ResetRx, ReceiverInv, ReaderInv
      <3> QED
        BY <2>1, <3>1 DEF ReaderInv
    <2>5. ReceiverInv'
      BY <2>2, <2>4 DEF ReceiverInv
    <2> QED
      BY <2>1, <2>3, <2>5, SenderKept
  <1> QED
    BY <1>1, <1>2

(* So does a slot of a peer that does not run this code.                   *)
LEMMA AlienStep ==
  ASSUME TransferInv, NEW slot \in AlienSlots, AlienPush(slot)
  PROVE  TransferInv'
  <1> USE TransferAssumption DEF TransferInv
  <1>1. /\ slot \in Slot /\ ~RingFull /\ ring' = Append(ring, slot)
        /\ calls < MaxCalls /\ calls' = calls + 1
        /\ UNCHANGED writing
        /\ UNCHANGED <<tx, txError, txLock, wr, txResets, accepted>>
        /\ UNCHANGED <<rx, rxLock, rd, rxResets, delivered>>
    BY DEF AlienPush, writing, reading
  <1>2. ring' \in Seq(Slot) /\ Len(ring') <= RingCapacity
    BY <1>1, AppendSlot DEF TypeOK, RingFull
  <1>3. TypeOK'
    BY <1>1, <1>2 DEF TypeOK
  <1> QED
    BY <1>1, <1>3, SenderKept, ReceiverKept

(* Every step keeps the invariant.                                         *)
LEMMA TransferStep == TransferInv /\ [Next]_vars => TransferInv'
  <1> SUFFICES ASSUME TransferInv, [Next]_vars PROVE TransferInv'
    OBVIOUS
  <1>1. CASE UNCHANGED vars
    <2>1. /\ UNCHANGED <<ring, writing, calls>>
          /\ UNCHANGED <<tx, txError, txLock, wr, txResets, accepted>>
          /\ UNCHANGED <<rx, rxLock, rd, rxResets, delivered>>
      BY <1>1 DEF vars, writing, reading
    <2>2. TypeOK'
      BY <2>1 DEF TransferInv, TypeOK
    <2> QED
      BY <2>1, <2>2, SenderKept, ReceiverKept DEF TransferInv
  <1>2. CASE Next
    BY <1>2, WriterStep, ReaderStep, ResetStep, AlienStep DEF Next
  <1> QED
    BY <1>1, <1>2

(* The inductive invariant.                                                *)
THEOREM TransferInvariant == Spec => []TransferInv
  BY TransferInit, TransferStep, PTL DEF Spec

(* The endpoint records, the ring and the threads keep their types, in     *)
(* particular the message id stays a u64 value and the ring never holds    *)
(* more than its capacity, for every instance.                             *)
THEOREM TransferTypeCorrect == Spec => []TypeOK
  <1>1. TransferInv => TypeOK
    BY DEF TransferInv
  <1> QED
    BY <1>1, TransferInvariant, PTL

(* No read overruns the user's buffer or the fragment buffer, and a        *)
(* completed read has the announced length, whatever slots the peer        *)
(* publishes.                                                              *)
THEOREM BuffersBounded == Spec => []BufferBound
  <1>1. TransferInv => BufferBound
    <2> SUFFICES ASSUME TransferInv, NEW r \in Readers
                 PROVE  /\ Len(rd[r].out) <= FragmentCapacity
                        /\ Len(rd[r].buf) + Len(rd[r].out) <= rd[r].count
                        /\ rd[r].complete =>
                             Len(rd[r].buf) + Len(rd[r].out) = rd[r].len
      BY DEF BufferBound
    <2> USE MessageAssumption
    <2>1. /\ rd[r] \in Reader /\ ReaderInv(r) /\ rx.state \in
               {"IDLE", "RECEIVING", "FAILED"}
          /\ rd[r].count \in Nat /\ rd[r].len \in Nat
      BY DEF TransferInv, TypeOK, ReceiverInv, Reader, Receiver
    <2>2. rd[r].buf = <<>> => Len(rd[r].buf) = 0
      BY EmptySeq
    <2>3. rd[r].out = <<>> => Len(rd[r].out) = 0
      BY EmptySeq
    <2>4. CASE rd[r].buf = <<>> /\ rd[r].out = <<>> /\ ~rd[r].complete
      BY <2>1, <2>2, <2>3, <2>4
    <2>5. CASE rxLock = r /\ rx.state = "RECEIVING"
      <3>1. /\ rx.received = Len(rd[r].buf) + Len(rd[r].out)
            /\ Len(rd[r].out) <= FragmentCapacity /\ ~rd[r].complete
        BY <2>1, <2>5 DEF ReaderInv
      <3>2. rx.received <= rd[r].len /\ rd[r].len <= rd[r].count
        BY <2>1, <2>5 DEF ReaderInv
      <3>3. rx.received <= rd[r].count
        <4>1. rx.received \in Nat /\ rd[r].count \in Nat /\ rd[r].len \in Nat
          BY <2>1 DEF TransferInv, TypeOK, Receiver
        <4> QED
          BY <3>2, <4>1
      <3> QED
        BY <3>1, <3>3, Zenon
    <2>6. CASE rd[r].pc = "copy" /\ rx.state = "IDLE"
      BY <2>1, <2>6, LenProperties DEF ReaderInv, Reader
    <2> QED
      BY <2>1, <2>4, <2>5, <2>6 DEF ReaderInv
  <1> QED
    BY <1>1, TransferInvariant, PTL

(* A poisoned receiver keeps its first error, consumes no slot and         *)
(* completes no read until the endpoint is initialised again.              *)
THEOREM PoisonFinal == Spec => PoisonIsFinal
  <1>1. ASSUME TransferInv, [Next]_vars, rx.state = "FAILED",
               rxResets' = rxResets
        PROVE  rx' = rx /\ delivered' = delivered /\ Len(ring') >= Len(ring)
    <2> USE TransferAssumption
    <2>1. \A r \in Readers : rd[r].pc \notin {"read", "copy"}
      BY <1>1 DEF TransferInv, ReceiverInv, ReaderInv
    <2>2. ring \in Seq(Slot) /\ Len(ring) >= Len(ring)
      BY <1>1, LenProperties DEF TransferInv, TypeOK
    <2>3. ASSUME NEW r \in Readers,
                 \/ \E n \in ReadSizes : ReadCall(r, n)
                 \/ RxInterrupted(r) \/ RxEnter(r) \/ RxCopyFault(r)
                 \/ RxGiveUp(r, "ERESTARTSYS") \/ RxStep(r)
          PROVE  rx' = rx /\ delivered' = delivered /\ ring' = ring
      BY <1>1, <2>1, <2>3
      DEF ReadCall, RxInterrupted, RxEnter, RxNothing, RxRefuse, RxTooSmall,
          RxStart, MetaAvailable, RxCopyFault, RxGiveUp, RxStep, RxTake,
          RxReturn, RxFail, RxCopy
    <2>4. ASSUME NEW w \in Writers,
                 \/ \E n \in Lengths : WriteCall(w, n)
                 \/ TxInterrupted(w) \/ TxEnter(w) \/ TxFault(w) \/ TxStep(w)
          PROVE  rx' = rx /\ delivered' = delivered
      BY <2>4
      DEF WriteCall, TxInterrupted, TxEnter, TxRefused, TxStart, TxFault,
          TxStep, TxPush, TxGiveUp, TxAbortLocal, TxAbortPush, TxAbortGiveUp,
          reading
    <2>5. ASSUME NEW w \in Writers,
                 \/ \E n \in Lengths : WriteCall(w, n)
                 \/ TxInterrupted(w) \/ TxEnter(w) \/ TxFault(w) \/ TxStep(w)
          PROVE  ring' = ring \/ \E s : ring' = Append(ring, s)
      BY <2>5
      DEF WriteCall, TxInterrupted, TxEnter, TxRefused, TxStart, TxFault,
          TxStep, TxPush, TxGiveUp, TxAbortLocal, TxAbortPush, TxAbortGiveUp
    <2>6. \A s : Len(Append(ring, s)) >= Len(ring)
      BY <2>2
    <2>7. CASE ResetTx \/ UNCHANGED vars
      BY <2>2, <2>7 DEF ResetTx, reading, vars
    <2>8. CASE ResetRx
      BY <1>1, <2>8 DEF ResetRx, TransferInv, TypeOK
    <2>9. ASSUME NEW slot \in AlienSlots, AlienPush(slot)
          PROVE  rx' = rx /\ delivered' = delivered /\ Len(ring') >= Len(ring)
      BY <2>6, <2>9 DEF AlienPush, reading
    <2> QED
      BY <1>1, <2>2, <2>3, <2>4, <2>5, <2>6, <2>7, <2>8, <2>9 DEF Next
  <1>2. TransferInv /\ [Next]_vars =>
          [(rx.state = "FAILED" /\ rxResets' = rxResets) =>
              /\ rx' = rx
              /\ delivered' = delivered
              /\ Len(ring') >= Len(ring)]_vars
    BY <1>1
  <1> QED
    BY <1>2, TransferInvariant, PTL DEF Spec, PoisonIsFinal

(* After an abort that did not fit, an endpoint publishes nothing more.    *)
(* The peer on the other side runs the same code and has no slots of its   *)
(* own making.                                                             *)
THEOREM SendErrorFinal ==
  ASSUME AlienSlots = {}
  PROVE  Spec => SendErrorIsFinal
  <1>1. ASSUME TransferInv, [Next]_vars, txError # OK, txResets' = txResets
        PROVE  /\ txError' = txError /\ accepted' = accepted
               /\ Len(ring') <= Len(ring)
    <2> USE TransferAssumption
    <2>1. \A w \in Writers : wr[w].pc \notin {"send", "abort"}
      BY <1>1 DEF TransferInv, SenderInv, WriterInv
    <2>2. ring \in Seq(Slot) /\ Len(ring) <= Len(ring)
      BY <1>1, LenProperties DEF TransferInv, TypeOK
    <2>3. ASSUME NEW w \in Writers,
                 \/ \E n \in Lengths : WriteCall(w, n)
                 \/ TxInterrupted(w) \/ TxEnter(w) \/ TxFault(w) \/ TxStep(w)
          PROVE  txError' = txError /\ accepted' = accepted /\ ring' = ring
      BY <1>1, <2>1, <2>3
      DEF WriteCall, TxInterrupted, TxEnter, TxRefused, TxStart, TxFault,
          TxStep, TxPush, TxGiveUp, TxAbortLocal, TxAbortPush, TxAbortGiveUp
    <2>4. ASSUME NEW r \in Readers,
                 \/ \E n \in ReadSizes : ReadCall(r, n)
                 \/ RxInterrupted(r) \/ RxEnter(r) \/ RxCopyFault(r)
                 \/ RxGiveUp(r, "ERESTARTSYS") \/ RxStep(r)
          PROVE  /\ txError' = txError /\ accepted' = accepted
                 /\ ring' = ring \/ (ring # <<>> /\ ring' = Tail(ring))
      BY <2>4
      DEF ReadCall, RxInterrupted, RxEnter, RxNothing, RxRefuse, RxTooSmall,
          RxStart, RxCopyFault, RxGiveUp, RxStep, RxTake, Consumable,
          RxReturn, RxFail, RxCopy, writing
    <2>5. ring # <<>> => Len(Tail(ring)) <= Len(ring)
      BY <2>2, HeadTail
    <2>6. CASE ResetTx
      BY <1>1, <2>6 DEF ResetTx, TransferInv, TypeOK
    <2>7. CASE ResetRx \/ UNCHANGED vars
      BY <2>2, <2>7 DEF ResetRx, writing, vars
    <2> QED
      BY <1>1, <2>2, <2>3, <2>4, <2>5, <2>6, <2>7 DEF Next
  <1>2. TransferInv /\ [Next]_vars =>
          [(txError # OK /\ txResets' = txResets) =>
              /\ txError' = txError
              /\ accepted' = accepted
              /\ Len(ring') <= Len(ring)]_vars
    BY <1>1
  <1> QED
    BY <1>2, TransferInvariant, PTL DEF Spec, SendErrorIsFinal

-----------------------------------------------------------------------------
(* The boundary between messages.                                          *)

(* Every step keeps the boundary, as long as the sending end is not re-    *)
(* initialised and both ends run this code.                                *)
LEMMA BoundaryStep ==
  ASSUME AlienSlots = {}, MaxTxResets = 0,
         TransferInv, BoundaryInv, [Next]_vars
  PROVE  BoundaryInv'
  <1> USE TransferAssumption DEF TransferInv
  <1>1. ASSUME UNCHANGED <<ring, tx>>,
               rx' = rx \/ rx'.state # "RECEIVING"
        PROVE  BoundaryInv'
    BY <1>1 DEF BoundaryInv, InMessage
  <1>2. ASSUME NEW w \in Writers,
               \/ \E n \in Lengths : WriteCall(w, n)
               \/ TxInterrupted(w) \/ TxRefused(w) \/ TxFault(w) \/ TxGiveUp(w)
               \/ TxAbortGiveUp(w)
        PROVE  BoundaryInv'
    BY <1>1, <1>2
    DEF WriteCall, TxInterrupted, TxRefused, TxFault, TxGiveUp, TxAbortGiveUp,
        reading
  <1>3. ASSUME NEW w \in Writers, TxStart(w) \/ TxAbortLocal(w)
        PROVE  BoundaryInv'
    <2>1. /\ UNCHANGED <<ring, rx>> /\ ~InMessage /\ ~InMessage'
      BY <1>3
      DEF TxStart, Start, StartError, OK, TxAbortLocal, Aborted, InMessage,
          reading, TypeOK, Sender
    <2> QED
      BY <2>1 DEF BoundaryInv
  <1>4. ASSUME NEW w \in Writers, TxAbortPush(w) PROVE BoundaryInv'
    <2>1. ring' = Append(ring, AbortSlot(tx)) /\ ~InMessage'
      BY <1>4 DEF TxAbortPush, Aborted, InMessage, TypeOK, Sender
    <2>2. ring' # <<>> /\ ring'[Len(ring')] = AbortSlot(tx)
      BY <2>1 DEF TypeOK
    <2>3. Abort(AbortSlot(tx))
      BY DEF Abort, AbortSlot, Encode
    <2> QED
      BY <2>1, <2>2, <2>3 DEF BoundaryInv, Abort, Last
  <1>5. ASSUME NEW w \in Writers, TxPush(w) PROVE BoundaryInv'
    <2> DEFINE n == Len(Chunk(w))
               s == Encode(tx.id, tx.len, DataFlags(tx, n), Chunk(w))
    <2>1. /\ ring' = Append(ring, s) /\ tx' = Pushed(tx, n)
          /\ tx.len = wr[w].len /\ tx.sent = wr[w].sent /\ WriterInv(w)
      BY <1>5 DEF TxPush, SenderInv, WriterInv
    <2>2. /\ n \in Nat /\ tx.sent + n <= tx.len
          /\ tx.sent \in Nat /\ tx.len \in Nat /\ tx \in Sender
      BY <2>1, ChunkType DEF TypeOK
    <2> HIDE DEF n, s
    <2>3. ring' # <<>> /\ ring'[Len(ring')] = s
      <3>1. ring \in Seq(Slot) /\ ring' = Append(ring, s)
        BY <2>1 DEF TypeOK
      <3> QED
        BY <3>1, AppendEnd
    <2>4. ~Abort(s) /\ (Last(s) <=> tx.sent + n = tx.len)
      BY DEF Abort, Last, Encode, DataFlags, s
    <2>5. InMessage' <=> tx.sent + n # tx.len
      <3>1. CASE tx.len = 0
        <4>1. tx.sent + n = tx.len
          BY <2>2, <3>1
        <4>2. ~tx'.sending
          BY <2>1, <2>2, <3>1 DEF Pushed, PushedEmpty, Sender
        <4> QED
          BY <4>1, <4>2 DEF InMessage
      <3>2. CASE tx.len # 0
        <4>1. tx'.published_any /\ (tx'.sending <=> tx.sent + n # tx.len)
          BY <2>1, <2>2, <3>2 DEF Pushed, Sender
        <4> QED
          BY <4>1 DEF InMessage
      <3> QED
        BY <3>1, <3>2
    <2> QED
      BY <2>3, <2>4, <2>5 DEF BoundaryInv, Last, Abort
  <1>6. ASSUME NEW r \in Readers,
               \/ \E n \in ReadSizes : ReadCall(r, n)
               \/ RxInterrupted(r) \/ RxEnter(r) \/ RxReturn(r) \/ RxCopy(r)
               \/ RxCopyFault(r) \/ RxFail(r) \/ RxGiveUp(r, "ERESTARTSYS")
               \/ RxGiveUp(r, "ETIMEDOUT")
        PROVE  BoundaryInv'
    <2>1. UNCHANGED <<ring, tx>>
      BY <1>6
      DEF ReadCall, RxInterrupted, RxEnter, RxNothing, RxRefuse, RxTooSmall,
          RxStart, RxReturn, RxCopy, RxCopyFault, RxFail, RxGiveUp, writing
    <2>2. rx' = rx \/ \E e : rx' = Poisoned(rx, e)
      BY <1>6
      DEF ReadCall, RxInterrupted, RxEnter, RxNothing, RxRefuse, RxTooSmall,
          RxStart, RxReturn, RxCopy, RxCopyFault, RxFail, RxGiveUp
    <2>3. rx' = rx \/ rx'.state # "RECEIVING"
      BY <2>2 DEF Poisoned, TypeOK, Receiver
    <2> QED
      BY <1>1, <2>1, <2>3
  <1>7. ASSUME NEW r \in Readers, RxTake(r) PROVE BoundaryInv'
    <2>1. /\ ring # <<>> /\ ring' = Tail(ring) /\ tx' = tx
          /\ rx'.state = "RECEIVING" => ~(Last(Head(ring)) \/ Abort(Head(ring)))
      BY <1>7 DEF RxTake, Consumable, Transition, writing
    <2>2. /\ Tail(ring) = <<>> => Head(ring) = ring[Len(ring)]
          /\ Tail(ring) # <<>> => Tail(ring)[Len(Tail(ring))] = ring[Len(ring)]
      BY <2>1, HeadTail DEF TypeOK
    <2>3. /\ Last(ring[Len(ring)]) \/ Abort(ring[Len(ring)]) <=> ~InMessage
          /\ InMessage' = InMessage
      BY <2>1 DEF BoundaryInv, InMessage
    <2>4. CASE ring' = <<>>
      BY <2>1, <2>2, <2>3, <2>4 DEF BoundaryInv
    <2>5. CASE ring' # <<>>
      <3>1. ring'[Len(ring')] = ring[Len(ring)]
        BY <2>1, <2>2, <2>5
      <3> QED
        BY <2>3, <2>5, <3>1 DEF BoundaryInv, Last, Abort
    <2> QED
      BY <2>4, <2>5
  <1>8. CASE ResetTx
    BY <1>8 DEF ResetTx, TypeOK
  <1>9. CASE ResetRx
    BY <1>1, <1>9 DEF ResetRx, ReceiverInit, writing
  <1>10. CASE UNCHANGED vars
    BY <1>1, <1>10 DEF vars, writing, reading
  <1> QED
    BY <1>2, <1>3, <1>4, <1>5, <1>6, <1>7, <1>8, <1>9, <1>10
    DEF Next, TxEnter, TxStep, RxStep

(* Every exit of axivc_send_message leaves a finished message or a broken  *)
(* endpoint, as long as the sending end is not re-initialised and both     *)
(* ends run this code.                                                     *)
THEOREM MessagesEnd ==
  ASSUME AlienSlots = {}, MaxTxResets = 0
  PROVE  Spec => []NoDanglingMessage
  <1>1. Init => BoundaryInv
    BY DEF Init, BoundaryInv, ReceiverInit
  <1>2. TransferInv /\ BoundaryInv /\ [Next]_vars => BoundaryInv'
    BY BoundaryStep
  <1>3. TransferInv /\ BoundaryInv => NoDanglingMessage
    BY DEF TransferInv, SenderInv, BoundaryInv, InMessage, NoDanglingMessage
  <1> QED
    BY <1>1, <1>2, <1>3, TransferInvariant, PTL DEF Spec

-----------------------------------------------------------------------------
(* The ids.                                                                *)

(* The sender's next id is one it has not used yet, or there is none; a    *)
(* message of which nothing is out yet has an id no frame has.             *)
MessageIdsInv ==
  /\ IdsAreFresh
  /\ tx.next_message_id \in {0, tx.id + 1}
  /\ tx.sending /\ ~tx.published_any => IdAt(Len(ring)) < tx.id

(* The ids are numbers.                                                    *)
LEMMA IdTypes ==
  ASSUME TypeOK
  PROVE  /\ \A i \in 0 .. Len(ring) : IdAt(i) \in Nat
         /\ tx.id \in Nat /\ tx.next_message_id \in Nat
         /\ Len(ring) \in Nat
  <1> USE MessageAssumption
  <1>1. Len(ring) \in Nat /\ \A i \in 1 .. Len(ring) : ring[i] \in Slot
    BY LenProperties, ElementOfSeq DEF TypeOK
  <1>2. \A s \in Slot : s.message_id \in Nat
    BY DEF Slot
  <1>3. rx.id \in Nat /\ tx.id \in Nat /\ tx.next_message_id \in Nat
    BY DEF TypeOK, Receiver, Sender
  <1> QED
    BY <1>1, <1>2, <1>3 DEF IdAt

(* A frame of the sender's message goes into the ring.                     *)
LEMMA IdsPushed ==
  ASSUME TypeOK, TypeOK', MessageIdsInv, NEW s \in Slot,
         ring' = Append(ring, s),
         rx' = rx, s.message_id = tx.id, tx'.id = tx.id,
         tx'.next_message_id = tx.next_message_id,
         First(s) => IdAt(Len(ring)) < tx.id,
         tx'.sending => tx'.published_any
  PROVE  MessageIdsInv'
  <1>0. PICK n \in Nat : n = Len(ring)
    BY IdTypes
  <1>1. /\ Len(ring') = n + 1 /\ ring'[n + 1] = s
        /\ \A i \in 1 .. n : ring'[i] = ring[i]
    BY <1>0, AppendProperties, LenProperties DEF TypeOK
  <1>2. IdAt(n) <= tx.id
    BY <1>0 DEF MessageIdsInv, IdsAreFresh
  <1>3. /\ \A i \in 0 .. n : IdAt(i)' = IdAt(i)
        /\ IdAt(n + 1)' = tx.id
    BY <1>1 DEF IdAt
  <1>4. ASSUME NEW i \in 1 .. (n + 1)
        PROVE  /\ IdAt(i - 1)' <= IdAt(i)'
               /\ First(ring'[i]) => IdAt(i - 1)' < IdAt(i)'
    <2>1. CASE i = n + 1
      <3>1. i - 1 = n /\ n \in 0 .. n
        BY <1>1, <2>1
      <3> QED
        BY <1>0, <1>1, <1>2, <1>3, <2>1, <3>1, IdTypes
    <2>2. CASE i \in 1 .. n
      <3>1. i - 1 \in 0 .. n /\ i \in 0 .. n
        BY <1>1, <2>2
      <3> QED
        BY <1>0, <1>1, <1>3, <2>2, <3>1 DEF MessageIdsInv, IdsAreFresh
    <2> QED
      BY <1>1, <2>1, <2>2
  <1>5. IdAt(Len(ring))' <= tx'.id
    <2>1. IdAt(Len(ring))' = IdAt(n + 1)'
      BY <1>1 DEF IdAt
    <2> QED
      BY <1>3, <2>1, IdTypes
  <1>6. tx'.next_message_id \in {0, tx'.id + 1}
    BY DEF MessageIdsInv
  <1>7. IdsAreFresh'
    BY <1>1, <1>4, <1>5 DEF IdsAreFresh
  <1> QED
    BY <1>6, <1>7 DEF MessageIdsInv

(* The receiver takes a frame and with it the frame's id.                  *)
LEMMA IdsTaken ==
  ASSUME TypeOK, TypeOK', MessageIdsInv, ring # <<>>, ring' = Tail(ring),
         rx'.id = Head(ring).message_id, tx' = tx
  PROVE  MessageIdsInv'
  <1>0. PICK n \in Nat : n = Len(ring)
    BY IdTypes
  <1>1. /\ n # 0 /\ Len(ring') = n - 1 /\ Head(ring) = ring[1]
        /\ \A i \in 1 .. (n - 1) : ring'[i] = ring[i + 1]
    BY <1>0, HeadTailProperties, LenProperties, EmptySeq DEF TypeOK
  <1>2. \A i \in 0 .. (n - 1) : IdAt(i)' = IdAt(i + 1)
    BY <1>1 DEF IdAt
  <1>3. ASSUME NEW i \in 1 .. (n - 1)
        PROVE  /\ IdAt(i - 1)' <= IdAt(i)'
               /\ First(ring'[i]) => IdAt(i - 1)' < IdAt(i)'
    <2>1. /\ i + 1 \in 1 .. n /\ i - 1 \in 0 .. (n - 1) /\ i \in 0 .. (n - 1)
          /\ (i + 1) - 1 = i /\ (i - 1) + 1 = i
      BY <1>1
    <2>2. /\ IdAt((i + 1) - 1) <= IdAt(i + 1)
          /\ First(ring[i + 1]) => IdAt((i + 1) - 1) < IdAt(i + 1)
      BY <1>0, <2>1 DEF MessageIdsInv, IdsAreFresh
    <2> QED
      BY <1>1, <1>2, <2>1, <2>2
  <1>4. IdAt(Len(ring))' = IdAt(n)
    <2>1. n - 1 \in 0 .. (n - 1) /\ (n - 1) + 1 = n
      BY <1>1
    <2>2. IdAt(n - 1)' = IdAt((n - 1) + 1)
      BY <1>2, <2>1
    <2> QED
      BY <1>1, <2>1, <2>2 DEF IdAt
  <1>5. IdsAreFresh'
    BY <1>0, <1>1, <1>3, <1>4 DEF MessageIdsInv, IdsAreFresh
  <1> QED
    BY <1>0, <1>4, <1>5 DEF MessageIdsInv

(* Every step keeps the order of the ids.                                  *)
LEMMA IdsStep ==
  ASSUME AlienSlots = {}, MaxTxResets = 0,
         TransferInv, MessageIdsInv, [Next]_vars
  PROVE  MessageIdsInv'
  <1> USE TransferAssumption, MessageAssumption
  <1>1. /\ TypeOK /\ TypeOK' /\ SenderInv /\ tx \in Sender /\ rx \in Receiver
    <2>1. TransferInv'
      BY TransferStep
    <2> QED
      BY <2>1 DEF TransferInv, TypeOK
  <1>2. ASSUME ring' = ring, rx'.id = rx.id, tx' = tx PROVE MessageIdsInv'
    BY <1>1, <1>2 DEF MessageIdsInv, IdsAreFresh, IdAt
  <1>3. ASSUME NEW w \in Writers,
               \/ \E n \in Lengths : WriteCall(w, n)
               \/ TxInterrupted(w) \/ TxRefused(w) \/ TxFault(w) \/ TxGiveUp(w)
               \/ TxAbortGiveUp(w)
        PROVE  MessageIdsInv'
    <2>1. UNCHANGED <<ring, rx, tx>>
      BY <1>3
      DEF WriteCall, TxInterrupted, TxRefused, TxFault, TxGiveUp,
          TxAbortGiveUp, reading
    <2> QED
      BY <1>2, <2>1
  <1>4. ASSUME NEW w \in Writers, TxStart(w) PROVE MessageIdsInv'
    <2>1. /\ UNCHANGED <<ring, rx>> /\ tx.next_message_id = tx.id + 1
          /\ tx' = Start(tx, wr[w].len)
      BY <1>4 DEF TxStart, StartError, MessageIdsInv, OK, reading
    <2>2. /\ tx'.id = tx.id + 1 /\ tx'.next_message_id \in {0, tx'.id + 1}
      BY <2>1 DEF Start
    <2>3. IdAt(Len(ring)) < tx'.id /\ IdAt(Len(ring)) <= tx'.id
      <3>1. IdAt(Len(ring)) <= tx.id
        BY DEF MessageIdsInv, IdsAreFresh
      <3>2. IdAt(Len(ring)) \in Nat /\ tx.id \in Nat
        BY <1>1, IdTypes
      <3> QED
        BY <2>2, <3>1, <3>2
    <2> QED
      BY <1>1, <2>1, <2>2, <2>3 DEF MessageIdsInv, IdsAreFresh, IdAt
  <1>5. ASSUME NEW w \in Writers, TxAbortLocal(w) PROVE MessageIdsInv'
    <2>1. /\ UNCHANGED <<ring, rx>> /\ tx'.id = tx.id /\ ~tx'.sending
          /\ tx'.next_message_id = tx.next_message_id
      BY <1>1, <1>5 DEF TxAbortLocal, Aborted, Sender, reading
    <2> QED
      BY <1>1, <2>1 DEF MessageIdsInv, IdsAreFresh, IdAt
  <1>6. ASSUME NEW w \in Writers, TxAbortPush(w) PROVE MessageIdsInv'
    <2> DEFINE s == AbortSlot(tx)
    <2>1. /\ ring' = Append(ring, s) /\ rx' = rx
          /\ tx'.id = tx.id /\ ~tx'.sending
          /\ tx'.next_message_id = tx.next_message_id
      BY <1>1, <1>6 DEF TxAbortPush, Aborted, Sender, reading
    <2>2. /\ s \in Slot /\ s.message_id = tx.id /\ ~First(s)
      <3>1. /\ tx.id \in Nat /\ tx.len \in Nat /\ <<>> \in Seq(Byte)
            /\ {"ABORT"} \in SUBSET KnownFlags
        BY <1>1 DEF Sender, KnownFlags
      <3>2. s \in Slot
        BY <3>1, EncodeType DEF AbortSlot
      <3> QED
        BY <3>2 DEF AbortSlot, Encode, First
    <2> HIDE DEF s
    <2> QED
      BY <1>1, <2>1, <2>2, IdsPushed
  <1>7. ASSUME NEW w \in Writers, TxPush(w) PROVE MessageIdsInv'
    <2> DEFINE n == Len(Chunk(w))
               s == Encode(tx.id, tx.len, DataFlags(tx, n), Chunk(w))
    <2>1. /\ ring' = Append(ring, s) /\ tx' = Pushed(tx, n) /\ rx' = rx
          /\ wr[w].pc = "send"
      BY <1>7 DEF TxPush, reading
    <2>2. tx.sending
      BY <1>1, <2>1 DEF SenderInv, WriterInv
    <2>3. s \in Slot
      <3>1. tx.id \in Nat /\ tx.len \in Nat /\ Chunk(w) \in Seq(Byte)
        BY <1>1, ChunkType DEF SenderInv, Sender
      <3>2. DataFlags(tx, n) \in SUBSET KnownFlags
        BY DEF DataFlags, KnownFlags
      <3> QED
        BY <3>1, <3>2, EncodeType
    <2>4. s.message_id = tx.id /\ (First(s) => ~tx.published_any)
      BY DEF Encode, First, DataFlags
    <2> HIDE DEF s, n
    <2>5. First(s) => IdAt(Len(ring)) < tx.id
      BY <2>2, <2>4 DEF MessageIdsInv
    <2>6. /\ tx'.id = tx.id /\ tx'.next_message_id = tx.next_message_id
          /\ tx'.sending => tx'.published_any
      BY <1>1, <2>1 DEF Pushed, PushedEmpty, Sender
    <2> QED
      BY <1>1, <2>1, <2>3, <2>4, <2>5, <2>6, IdsPushed
  <1>8. ASSUME NEW r \in Readers,
               \/ \E n \in ReadSizes : ReadCall(r, n)
               \/ RxInterrupted(r) \/ RxEnter(r) \/ RxReturn(r) \/ RxCopy(r)
               \/ RxCopyFault(r) \/ RxFail(r) \/ RxGiveUp(r, "ERESTARTSYS")
               \/ RxGiveUp(r, "ETIMEDOUT")
        PROVE  MessageIdsInv'
    <2>1. UNCHANGED <<ring, tx>>
      BY <1>8
      DEF ReadCall, RxInterrupted, RxEnter, RxNothing, RxRefuse, RxTooSmall,
          RxStart, RxReturn, RxCopy, RxCopyFault, RxFail, RxGiveUp, writing
    <2>2. rx' = rx \/ \E e : rx' = Poisoned(rx, e)
      BY <1>8
      DEF ReadCall, RxInterrupted, RxEnter, RxNothing, RxRefuse, RxTooSmall,
          RxStart, RxReturn, RxCopy, RxCopyFault, RxFail, RxGiveUp
    <2>3. rx'.id = rx.id
      BY <1>1, <2>2 DEF Poisoned, Receiver
    <2> QED
      BY <1>2, <2>1, <2>3
  <1>9. ASSUME NEW r \in Readers, RxTake(r) PROVE MessageIdsInv'
    <2>1. /\ ring # <<>> /\ ring' = Tail(ring) /\ tx' = tx
          /\ rx' = Transition(rx, Head(ring))
          /\ SlotError(rx, Head(ring)) = OK
      BY <1>9 DEF RxTake, Consumable, writing
    <2>2. rx.state # "IDLE" => rx.id = Head(ring).message_id
      BY <2>1 DEF SlotError, TransitionError, OK
    <2>3. rx'.id = Head(ring).message_id
      BY <2>1, <2>2 DEF Transition
    <2> QED
      BY <1>1, <2>1, <2>3, IdsTaken
  <1>10. CASE ResetTx
    BY <1>1, <1>10 DEF ResetTx, TypeOK
  <1>11. CASE ResetRx
    <2>1. ring' = ring /\ tx' = tx /\ rx'.id = 0
      BY <1>11 DEF ResetRx, ReceiverInit, writing
    <2>2. /\ \A i \in 1 .. Len(ring) : IdAt(i)' = IdAt(i)
          /\ IdAt(0)' = 0 /\ IdAt(0) \in Nat /\ Len(ring) \in Nat
          /\ \A i \in 0 .. Len(ring) : IdAt(i) \in Nat
          /\ tx.id \in Nat
      BY <1>1, <2>1, IdTypes DEF IdAt
    <2>3. \A i \in 0 .. Len(ring) : IdAt(i)' \in Nat /\ IdAt(i)' <= IdAt(i)
      BY <2>2
    <2>4. ASSUME NEW i \in 1 .. Len(ring)
          PROVE  /\ IdAt(i - 1)' <= IdAt(i)'
                 /\ First(ring'[i]) => IdAt(i - 1)' < IdAt(i)'
      <3>1. i - 1 \in 0 .. Len(ring) /\ i \in 0 .. Len(ring)
        BY <2>2
      <3>2. /\ IdAt(i - 1) <= IdAt(i)
            /\ First(ring[i]) => IdAt(i - 1) < IdAt(i)
        BY DEF MessageIdsInv, IdsAreFresh
      <3>3. /\ IdAt(i - 1)' <= IdAt(i - 1) /\ IdAt(i)' = IdAt(i)
            /\ IdAt(i - 1)' \in Nat /\ IdAt(i - 1) \in Nat /\ IdAt(i) \in Nat
        BY <2>2, <2>3, <3>1
      <3> QED
        BY <2>1, <3>2, <3>3
    <2>5. /\ IdAt(Len(ring))' <= tx'.id
          /\ tx'.sending /\ ~tx'.published_any => IdAt(Len(ring))' < tx'.id
      <3>1. /\ IdAt(Len(ring))' <= IdAt(Len(ring))
            /\ IdAt(Len(ring))' \in Nat /\ IdAt(Len(ring)) \in Nat
        <4>1. Len(ring) \in 0 .. Len(ring)
          BY <2>2
        <4>2. IdAt(Len(ring))' = IF Len(ring) = 0 THEN 0 ELSE IdAt(Len(ring))
          BY <2>1, <2>2, <4>1 DEF IdAt
        <4> QED
          BY <2>2, <4>1, <4>2
      <3> QED
        BY <2>1, <2>2, <3>1 DEF MessageIdsInv, IdsAreFresh
    <2>6. IdsAreFresh'
      BY <1>1, <2>1, <2>4, <2>5 DEF IdsAreFresh
    <2> QED
      BY <2>1, <2>5, <2>6 DEF MessageIdsInv
  <1>12. CASE UNCHANGED vars
    BY <1>2, <1>12 DEF vars, writing, reading
  <1> QED
    BY <1>3, <1>4, <1>5, <1>6, <1>7, <1>8, <1>9, <1>10, <1>11, <1>12
    DEF Next, TxEnter, TxStep, RxStep

(* No id is used for two messages, for every size of the id space, as long *)
(* as the sending end is not re-initialised and both ends run this code;   *)
(* the receiving end may start over in the middle.                         *)
THEOREM IdsFresh ==
  ASSUME AlienSlots = {}, MaxTxResets = 0
  PROVE  Spec => []IdsAreFresh
  <1>1. Init => MessageIdsInv
    <2> SUFFICES ASSUME Init PROVE MessageIdsInv
      OBVIOUS
    <2>1. /\ TypeOK /\ Len(ring) = 0 /\ tx.id = 0 /\ tx.next_message_id = 1
          /\ ~tx.sending /\ rx.id = 0
      BY TransferInit, EmptySeq
      DEF Init, TransferInv, SenderInit, ReceiverInit
    <2> QED
      BY <2>1 DEF MessageIdsInv, IdsAreFresh, IdAt
  <1>2. TransferInv /\ MessageIdsInv /\ [Next]_vars => MessageIdsInv'
    BY IdsStep
  <1>3. MessageIdsInv => IdsAreFresh
    BY DEF MessageIdsInv
  <1> QED
    BY <1>1, <1>2, <1>3, TransferInvariant, PTL DEF Spec

-----------------------------------------------------------------------------
(* The stream of slots in the ring.  Between two ends that run this code,  *)
(* and are not re-initialised in the conversation, no protocol error       *)
(* occurs, and the adapters and the ring implement MessageChannel.  With   *)
(* slots of other peers and re-initialised ends, messages may be lost, but *)
(* are neither mixed nor reordered.                                        *)

(* A place in the stream of slots, before or behind a slot in the ring:    *)
(* st     "between" messages, or "inside" the one that call sends as       *)
(*        message id, of len bytes, off of them before this place          *)
(* done   how many messages have ended with LAST before this place         *)
Place == [st : {"between", "inside"}, call : Nat, id : Nat, len : Nat,
          off : Nat, done : Nat]

(* The bytes of the message in progress that lie before place c.           *)
From(c) == IF c.st = "inside" THEN c.off ELSE 0

(* The bytes of a write from position m + 1 to position n.                 *)
Bytes(call, m, n) == [i \in 1 .. (n - m) |-> <<call, m + i>>]

(* The flags of the data frame between c and d.                            *)
FlagsOf(c, d) ==
  (IF c.st = "inside" THEN {} ELSE {"FIRST"})
    \cup (IF d.off = d.len THEN {"LAST"} ELSE {})

(* Slot s lies between places c and d.  It aborts the message c is inside  *)
(* of, or carries the next bytes of d's message; the last bytes are those  *)
(* of a message whose write returned success, the done-th such.            *)
Aborts(c, s, d) ==
  /\ c.st = "inside" /\ c.id # 0
  /\ s = Encode(c.id, c.len, {"ABORT"}, <<>>)
  /\ d.st = "between" /\ d.done = c.done

Carries(acc, c, s, d) ==
  /\ c.st = "inside" => d.call = c.call /\ d.id = c.id /\ d.len = c.len
  /\ From(c) <= d.off /\ d.off <= d.len
  /\ EncodeOK(d.id, d.len, FlagsOf(c, d), Bytes(d.call, From(c), d.off))
  /\ s = Encode(d.id, d.len, FlagsOf(c, d), Bytes(d.call, From(c), d.off))
  /\ IF d.off = d.len
     THEN /\ d.st = "between" /\ d.done = c.done + 1
          /\ d.done <= Len(acc)
          /\ acc[d.done] = Payload(d.call, d.len)
     ELSE d.st = "inside" /\ d.done = c.done

Link(acc, c, s, d) == Aborts(c, s, d) \/ Carries(acc, c, s, d)

Links(acc) ==
  {t \in Place \X Slot \X Place : Link(acc, t[1], t[2], t[3])}

(* The slots of queue q lead from c to d along the triples of relation L;  *)
(* at[k] is the place behind the k-th of them.                             *)
Chain(P, L, q, c, d) ==
  \E at \in [0 .. Len(q) -> P] :
    /\ at[0] = c /\ at[Len(q)] = d
    /\ \A k \in 1 .. Len(q) : <<at[k - 1], q[k], at[k]>> \in L

Leads(acc, q, c, d) == Chain(Place, Links(acc), q, c, d)

(* The place the receiver has reached: what the thread in the transfer     *)
(* loop has collected are the first bytes of the message, and the next     *)
(* accepted message when it is complete.                                   *)
ReaderAt(r, c) ==
  /\ rx.state = "RECEIVING" =>
       rd[r].buf \o rd[r].out = Payload(c.call, c.off)
  /\ ~rd[r].complete => c.done = Len(delivered)
  /\ rd[r].complete =>
       /\ c.done = Len(delivered) + 1
       /\ c.done <= Len(accepted)
       /\ rd[r].buf \o rd[r].out = accepted[c.done]

AtReceiver(c) ==
  /\ rx.state = "IDLE" => c.st = "between"
  /\ rx.state = "RECEIVING" =>
       c.st = "inside" /\ c.id = rx.id /\ c.len = rx.len /\ c.off = rx.received
  /\ rxLock = NoThread => c.done = Len(delivered)
  /\ \A r \in Readers : rxLock = r => ReaderAt(r, c)

(* The place the sender has reached.                                       *)
AtSender(d) ==
  /\ d.done = Len(accepted)
  /\ ~InMessage => d.st = "between"
  /\ InMessage =>
       /\ d.st = "inside"
       /\ d.id = tx.id /\ d.len = tx.len /\ d.off = tx.sent
       /\ \A w \in Writers : txLock = w => d.call = wr[w].call

(* What a writer knows of its message.                                     *)
CallsInv ==
  /\ tx.sending => tx.id # 0
  /\ tx.sending /\ ~tx.published_any => tx.sent = 0
  /\ \A w \in Writers : wr[w].pc # "idle" =>
       wr[w].call \in 1 .. MaxCalls /\ wr[w].len \in Lengths

(* Unless the receiver is poisoned, the slots of the ring lead from the    *)
(* place the receiver has reached to the place the sender has reached.     *)
StreamInv ==
  rx.state # "FAILED" =>
    \E c, d \in Place :
      AtReceiver(c) /\ Leads(accepted, ring, c, d) /\ AtSender(d)

ChannelInv == TransferInv /\ CallsInv /\ NoProtocolError /\ StreamInv

-----------------------------------------------------------------------------
(* Frames and places.                                                      *)

(* A part of a write's payload is a sequence of as many bytes.             *)
LEMMA BytesType ==
  ASSUME NEW call \in Nat, NEW m \in Nat, NEW n \in Nat, m <= n
  PROVE  Bytes(call, m, n) \in Seq(Byte) /\ Len(Bytes(call, m, n)) = n - m
  BY DEF Bytes, Byte

(* What axivc_encode_frame accepts, axivc_decode_frame accepts.            *)
LEMMA EncodedDecodes ==
  ASSUME NEW id \in Nat, NEW len \in Nat, NEW flags \in SUBSET KnownFlags,
         NEW fragment \in Seq(Byte), EncodeOK(id, len, flags, fragment)
  PROVE  DecodeError(Encode(id, len, flags, fragment)) = OK
  <1> DEFINE s == Encode(id, len, flags, fragment)
  <1>1. /\ s.version = Version /\ s.flags = flags /\ s.header_len = HeaderLen
        /\ s.fragment_len = Len(fragment) /\ s.message_id = id
        /\ s.message_len = len
    BY DEF Encode
  <1>2. /\ id # 0 /\ Len(fragment) <= FragmentCapacity
        /\ ShapeOK(len, Len(fragment), flags) /\ Len(fragment) \in Nat
    BY LenProperties DEF EncodeOK
  <1> HIDE DEF s
  <1>3. ~(s.fragment_len > SlotSize - s.header_len)
    BY <1>1, <1>2, MessageAssumption DEF SlotSize, HeaderLen
  <1>4. DecodeError(s) = OK
    BY <1>1, <1>2, <1>3 DEF DecodeError
  <1> QED
    BY <1>4 DEF s

(* A frame of the stream decodes; at a place between messages it starts a  *)
(* message.                                                                *)
LEMMA LinkDecodes ==
  ASSUME NEW acc, NEW c \in Place, NEW d \in Place, NEW s,
         Link(acc, c, s, d)
  PROVE  /\ DecodeError(s) = OK
         /\ c.st = "between" => PeekMetaError(s) = OK
  <1>1. /\ c.id \in Nat /\ c.len \in Nat /\ d.id \in Nat /\ d.len \in Nat
        /\ c.off \in Nat /\ d.off \in Nat /\ d.call \in Nat
        /\ c.st \in {"between", "inside"} /\ From(c) \in Nat
    BY DEF Place, From
  <1>2. CASE Aborts(c, s, d)
    <2>1. /\ <<>> \in Seq(Byte) /\ Len(<<>>) = 0
          /\ {"ABORT"} \in SUBSET KnownFlags
      BY DEF KnownFlags
    <2>2. EncodeOK(c.id, c.len, {"ABORT"}, <<>>)
      BY <1>2, <2>1, MessageAssumption DEF Aborts, EncodeOK, ShapeOK
    <2>3. DecodeError(s) = OK
      BY <1>1, <1>2, <2>1, <2>2, EncodedDecodes DEF Aborts
    <2> QED
      BY <1>2, <2>3 DEF Aborts
  <1>3. CASE Carries(acc, c, s, d)
    <2> DEFINE g == Bytes(d.call, From(c), d.off)
               f == FlagsOf(c, d)
    <2>1. /\ g \in Seq(Byte) /\ f \in SUBSET KnownFlags
          /\ EncodeOK(d.id, d.len, f, g) /\ s = Encode(d.id, d.len, f, g)
      BY <1>1, <1>3, BytesType DEF Carries, FlagsOf, KnownFlags
    <2>2. s.flags = f
      BY <2>1 DEF Encode
    <2>3. DecodeError(s) = OK
      <3> HIDE DEF f, g
      <3> QED
        BY <1>1, <2>1, EncodedDecodes
    <2>4. ~Abort(s) /\ (c.st = "between" => First(s))
      BY <2>2 DEF Abort, First, FlagsOf
    <2> QED
      BY <2>3, <2>4 DEF PeekMetaError
  <1> QED
    BY <1>2, <1>3 DEF Link

(* A frame of the stream is one the receiver at its place accepts.         *)
LEMMA LinkAccepted ==
  ASSUME NEW acc, NEW c \in Place, NEW d \in Place, NEW s,
         Link(acc, c, s, d), NEW v \in Receiver, v.state # "FAILED",
         v.state = "IDLE" => c.st = "between",
         v.state = "RECEIVING" =>
           /\ c.st = "inside" /\ c.id = v.id
           /\ c.len = v.len /\ c.off = v.received
  PROVE  SlotError(v, s) = OK
  <1>1. /\ c.id \in Nat /\ c.len \in Nat /\ d.id \in Nat /\ d.len \in Nat
        /\ c.off \in Nat /\ d.off \in Nat /\ d.call \in Nat
        /\ c.st \in {"between", "inside"} /\ From(c) \in Nat
        /\ v.state \in {"IDLE", "RECEIVING"}
    BY DEF Place, From, Receiver
  <1>2. (v.state = "IDLE") = (c.st = "between")
    BY <1>1
  <1>3. CASE Aborts(c, s, d)
    <2>1. /\ s.flags = {"ABORT"}
          /\ s.message_id = c.id /\ s.message_len = c.len
      BY <1>3 DEF Aborts, Encode
    <2>2. /\ Abort(s) /\ ~First(s)
          /\ v.state # "IDLE" /\ v.id = c.id /\ v.len = c.len
      BY <1>1, <1>3, <2>1 DEF Abort, First, Aborts
    <2>3. TransitionError(v, s) = OK
      BY <2>1, <2>2 DEF TransitionError
    <2> QED
      BY <2>3, LinkDecodes DEF SlotError
  <1>4. CASE Carries(acc, c, s, d)
    <2> DEFINE g == Bytes(d.call, From(c), d.off)
    <2>1. /\ s.flags = FlagsOf(c, d) /\ s.message_id = d.id
          /\ s.message_len = d.len /\ s.fragment_len = d.off - From(c)
      BY <1>1, <1>4, BytesType DEF Carries, Encode
    <2>2. /\ ~Abort(s) /\ (First(s) <=> c.st = "between")
          /\ (Last(s) <=> d.off = d.len)
      BY <1>1, <2>1 DEF Abort, First, Last, FlagsOf
    <2>3. From(c) = IF v.state = "IDLE" THEN 0 ELSE v.received
      BY <1>1 DEF From
    <2>4. From(c) + s.fragment_len = d.off /\ d.off <= d.len
      BY <1>1, <1>4, <2>1 DEF Carries
    <2>5. v.state # "IDLE" => d.id = v.id /\ d.len = v.len
      BY <1>1, <1>4 DEF Carries
    <2>6. TransitionError(v, s) = OK
      BY <1>1, <2>1, <2>2, <2>3, <2>4, <2>5 DEF TransitionError
    <2> QED
      BY <2>6, LinkDecodes DEF SlotError
  <1> QED
    BY <1>3, <1>4 DEF Link

-----------------------------------------------------------------------------
(* Queues of slots.                                                        *)

(* An empty ring leads from a place to itself.                             *)
LEMMA ChainEmpty ==
  ASSUME NEW P, NEW L, NEW c \in P
  PROVE  Chain(P, L, <<>>, c, c)
  <1> DEFINE at == [k \in 0 .. 0 |-> c]
  <1>1. at \in [0 .. 0 -> P] /\ at[0] = c
    OBVIOUS
  <1>2. Len(<<>>) = 0 /\ 1 .. 0 = {}
    OBVIOUS
  <1> HIDE DEF at
  <1>3. /\ at \in [0 .. Len(<<>>) -> P]
        /\ at[0] = c /\ at[Len(<<>>)] = c
        /\ 1 .. Len(<<>>) = {}
    BY <1>1, <1>2
  <1> QED
    BY <1>3, Zenon DEF Chain

(* A slot published behind the last place leads on to the next one.        *)
LEMMA ChainAppend ==
  ASSUME NEW P, NEW L, NEW q \in Seq(Slot), NEW c \in P, NEW d \in P,
         NEW e \in P, NEW s \in Slot, Chain(P, L, q, c, d),
         <<d, s, e>> \in L
  PROVE  Chain(P, L, Append(q, s), c, e)
  <1> DEFINE p == Append(q, s)
             n == Len(q)
  <1>1. PICK at \in [0 .. Len(q) -> P] :
               /\ at[0] = c /\ at[n] = d
               /\ \A k \in 1 .. n : <<at[k - 1], q[k], at[k]>> \in L
    BY DEF Chain
  <1>2. /\ n \in Nat /\ Len(p) = n + 1 /\ p[n + 1] = s
        /\ \A k \in 1 .. n : p[k] = q[k]
    BY AppendProperties, LenProperties
  <1> HIDE DEF p, n
  <1> DEFINE b == [k \in 0 .. (n + 1) |-> IF k = n + 1 THEN e ELSE at[k]]
  <1>3. b \in [0 .. Len(p) -> P] /\ b[0] = c /\ b[Len(p)] = e
    BY <1>1, <1>2 DEF n
  <1>4. ASSUME NEW k \in 1 .. Len(p) PROVE <<b[k - 1], p[k], b[k]>> \in L
    <2>1. CASE k = n + 1
      <3>1. b[k - 1] = d /\ p[k] = s /\ b[k] = e
        BY <1>1, <1>2, <2>1
      <3> QED
        BY <3>1
    <2>2. CASE k # n + 1
      <3>1. k \in 1 .. n /\ b[k - 1] = at[k - 1] /\ p[k] = q[k] /\ b[k] = at[k]
        BY <1>1, <1>2, <2>2
      <3> QED
        BY <1>1, <3>1
    <2> QED
      BY <2>1, <2>2
  <1> HIDE DEF b
  <1>5. Chain(P, L, p, c, e)
    BY <1>3, <1>4 DEF Chain
  <1> QED
    BY <1>5 DEF p

(* The oldest slot leads from the first place to the next one, and the     *)
(* rest of the ring on from there.                                         *)
LEMMA ChainTail ==
  ASSUME NEW P, NEW L, NEW q \in Seq(Slot), NEW c \in P, NEW d \in P,
         q # <<>>, Chain(P, L, q, c, d)
  PROVE  \E b \in P : /\ <<c, Head(q), b>> \in L
                      /\ Chain(P, L, Tail(q), b, d)
  <1> DEFINE p == Tail(q)
             n == Len(q)
  <1>1. PICK at \in [0 .. Len(q) -> P] :
               /\ at[0] = c /\ at[n] = d
               /\ \A k \in 1 .. n : <<at[k - 1], q[k], at[k]>> \in L
    BY DEF Chain
  <1>2. /\ n \in Nat /\ n # 0 /\ Len(p) = n - 1 /\ Head(q) = q[1]
        /\ \A k \in 1 .. Len(p) : p[k] = q[k + 1]
    BY HeadTailProperties, LenProperties, EmptySeq
  <1> HIDE DEF p, n
  <1> DEFINE b == [k \in 0 .. Len(p) |-> at[k + 1]]
  <1>3. b \in [0 .. Len(p) -> P] /\ b[0] = at[1] /\ b[Len(p)] = d
    BY <1>1, <1>2 DEF n
  <1>4. ASSUME NEW k \in 1 .. Len(p) PROVE <<b[k - 1], p[k], b[k]>> \in L
    <2>1. /\ k + 1 \in 1 .. n /\ b[k - 1] = at[(k + 1) - 1]
          /\ p[k] = q[k + 1] /\ b[k] = at[k + 1]
      BY <1>1, <1>2
    <2> QED
      BY <1>1, <2>1
  <1> HIDE DEF b
  <1>5. Chain(P, L, p, at[1], d)
    BY <1>3, <1>4 DEF Chain
  <1>6. at[1] \in P /\ <<c, Head(q), at[1]>> \in L
    <2>1. 1 \in 1 .. n /\ 1 - 1 = 0 /\ 1 \in 0 .. n
      BY <1>2
    <2>2. <<at[1 - 1], q[1], at[1]>> \in L
      BY <1>1, <2>1
    <2> QED
      BY <1>1, <1>2, <2>1, <2>2 DEF n
  <1> QED
    BY <1>5, <1>6 DEF p

(* A larger relation has the chains of the smaller one.                    *)
LEMMA ChainMore ==
  ASSUME NEW P, NEW L, NEW M, L \subseteq M, NEW q, NEW c, NEW d,
         Chain(P, L, q, c, d)
  PROVE  Chain(P, M, q, c, d)
  BY DEF Chain

(* The same for the places of the stream.                                  *)
LEMMA LeadsAppend ==
  ASSUME NEW acc, NEW q \in Seq(Slot), NEW c \in Place, NEW d \in Place,
         NEW e \in Place, NEW s \in Slot, Leads(acc, q, c, d),
         Link(acc, d, s, e)
  PROVE  Leads(acc, Append(q, s), c, e)
  <1>1. <<d, s, e>> \in Links(acc)
    BY DEF Links
  <1> QED
    BY <1>1, ChainAppend DEF Leads

(* The receiver's next place is behind the head of the ring.               *)
LEMMA LeadsTail ==
  ASSUME NEW acc, NEW q \in Seq(Slot), NEW c \in Place, NEW d \in Place,
         q # <<>>, Leads(acc, q, c, d)
  PROVE  \E b \in Place : /\ Link(acc, c, Head(q), b)
                          /\ Leads(acc, Tail(q), b, d)
  <1>1. PICK b \in Place : /\ <<c, Head(q), b>> \in Links(acc)
                           /\ Chain(Place, Links(acc), Tail(q), b, d)
    BY ChainTail DEF Leads
  <1>2. Link(acc, c, Head(q), b)
    BY <1>1 DEF Links
  <1> QED
    BY <1>1, <1>2 DEF Leads

(* A message more in the history changes nothing of the places.            *)
LEMMA LeadsMore ==
  ASSUME NEW acc \in Seq(Seq(Byte)), NEW m \in Seq(Byte), NEW q \in Seq(Slot),
         NEW c \in Place, NEW d \in Place, Leads(acc, q, c, d)
  PROVE  Leads(Append(acc, m), q, c, d)
  <1> DEFINE more == Append(acc, m)
  <1>1. /\ Len(acc) \in Nat /\ Len(more) = Len(acc) + 1
        /\ \A k \in 1 .. Len(acc) : more[k] = acc[k]
    BY AppendProperties, LenProperties
  <1> HIDE DEF more
  <1>2. ASSUME NEW x \in Place, NEW y \in Place, NEW s, Link(acc, x, s, y)
        PROVE  Link(more, x, s, y)
    <2>1. CASE Aborts(x, s, y)
      BY <2>1 DEF Link
    <2>2. CASE Carries(acc, x, s, y)
      <3>1. y.done \in Nat /\ x.done \in Nat
        BY DEF Place
      <3>2. y.off = y.len => y.done \in 1 .. Len(acc)
        BY <1>1, <2>2, <3>1 DEF Carries
      <3>3. y.off = y.len => y.done <= Len(more) /\ more[y.done] = acc[y.done]
        BY <1>1, <3>2
      <3>4. Carries(more, x, s, y)
        BY <2>2, <3>3 DEF Carries
      <3> QED
        BY <3>4 DEF Link
    <2> QED
      BY <1>2, <2>1, <2>2 DEF Link
  <1>3. Links(acc) \subseteq Links(more)
    BY <1>2 DEF Links
  <1> QED
    BY <1>3, ChainMore DEF Leads, more

-----------------------------------------------------------------------------
(* What stays as it is.                                                    *)

(* A writer's step, even one that adds a message to the history, leaves    *)
(* the receiver at its place.                                              *)
LEMMA ReceiverPlaceKept ==
  ASSUME TypeOK, NEW c \in Place, AtReceiver(c), UNCHANGED reading,
         \/ accepted' = accepted
         \/ \E m \in Seq(Byte) : accepted' = Append(accepted, m)
  PROVE  AtReceiver(c)'
  <1>1. UNCHANGED <<rx, rxLock, rd, delivered>>
    BY DEF reading
  <1>2. c.done \in Nat /\ Len(delivered) \in Nat /\ Len(accepted) \in Nat
    BY LenProperties DEF Place, TypeOK
  <1>3. \A k \in 1 .. Len(accepted) :
          k <= Len(accepted') /\ accepted'[k] = accepted[k]
    <2>1. CASE accepted' = accepted
      BY <1>2, <2>1
    <2>2. ASSUME NEW m \in Seq(Byte), accepted' = Append(accepted, m)
          PROVE  /\ Len(accepted') = Len(accepted) + 1
                 /\ \A k \in 1 .. Len(accepted) : accepted'[k] = accepted[k]
      BY <2>2, AppendProperties DEF TypeOK
    <2> QED
      BY <1>2, <2>1, <2>2
  <1>4. ASSUME NEW r \in Readers, ReaderAt(r, c) PROVE ReaderAt(r, c)'
    <2>1. rd[r].complete => c.done \in 1 .. Len(accepted)
      BY <1>2, <1>4 DEF ReaderAt
    <2>2. rd[r].complete =>
            c.done <= Len(accepted') /\ accepted'[c.done] = accepted[c.done]
      BY <1>3, <2>1
    <2> QED
      BY <1>1, <1>4, <2>2 DEF ReaderAt
  <1> QED
    BY <1>1, <1>4 DEF AtReceiver

(* A step that leaves the sender record alone and gives tx_lock to nobody  *)
(* leaves the sender at its place.                                         *)
LEMMA SenderPlaceKept ==
  ASSUME NEW d \in Place, AtSender(d), UNCHANGED <<accepted, tx>>,
         \A w \in Writers :
           txLock' = w => txLock = w /\ wr'[w].call = wr[w].call
  PROVE  AtSender(d)'
  BY DEF AtSender, InMessage

-----------------------------------------------------------------------------
(* Steps of a writer.                                                      *)

(* Every step of axivc_send_message keeps what a writer knows of its       *)
(* message: in particular axivc_message_start never hands out id 0.        *)
LEMMA WriterCalls ==
  ASSUME TransferInv, CallsInv, NEW w \in Writers,
         \/ \E n \in Lengths : WriteCall(w, n)
         \/ TxInterrupted(w) \/ TxEnter(w) \/ TxFault(w) \/ TxStep(w)
  PROVE  CallsInv'
  <1> USE TransferAssumption, MessageAssumption
  <1>1. tx \in Sender /\ wr \in [Writers -> Writer] /\ wr[w] \in Writer
    BY DEF TransferInv, TypeOK
  <1> DEFINE Known(x) == x.pc # "idle" =>
                           x.call \in 1 .. MaxCalls /\ x.len \in Lengths
  <1>2. \A v \in Writers : Known(wr[v])
    BY DEF CallsInv
  <1>3. ASSUME NEW n \in Lengths, WriteCall(w, n) PROVE CallsInv'
    <2>1. /\ calls + 1 \in 1 .. MaxCalls
          /\ wr' = [wr EXCEPT ![w] = [pc |-> "lock", call |-> calls + 1,
                                      len |-> n, sent |-> 0]]
          /\ tx' = tx
      BY <1>3 DEF WriteCall, TransferInv, TypeOK
    <2>2. ASSUME NEW v \in Writers PROVE Known(wr'[v])
      BY <1>1, <1>2, <2>1
    <2> QED
      BY <2>1, <2>2 DEF CallsInv
  <1>4. ASSUME WriteReturn(w), tx' = tx \/ tx'.sending = FALSE
        PROVE  CallsInv'
    <2>1. ASSUME NEW v \in Writers PROVE Known(wr'[v])
      BY <1>1, <1>2, <1>4 DEF WriteReturn, WriterIdle
    <2> QED
      BY <1>4, <2>1 DEF CallsInv
  <1>5. CASE TxInterrupted(w) \/ TxRefused(w) \/ TxAbortGiveUp(w)
    BY <1>4, <1>5 DEF TxInterrupted, TxRefused, TxAbortGiveUp
  <1>6. CASE TxAbortLocal(w) \/ TxAbortPush(w)
    BY <1>1, <1>4, <1>6 DEF TxAbortLocal, TxAbortPush, Aborted, Sender
  <1>7. CASE TxFault(w) \/ TxGiveUp(w)
    <2>1. /\ tx' = tx /\ wr' = [wr EXCEPT ![w].pc = "abort"]
          /\ wr[w].pc = "send"
      BY <1>7 DEF TxFault, TxGiveUp
    <2>2. ASSUME NEW v \in Writers PROVE Known(wr'[v])
      BY <1>1, <1>2, <2>1 DEF Writer
    <2> QED
      BY <2>1, <2>2 DEF CallsInv
  <1>8. CASE TxStart(w)
    <2>1. /\ tx'.id = tx.next_message_id /\ tx.next_message_id # 0
          /\ tx'.sent = 0
          /\ wr' = [wr EXCEPT ![w].pc = "send"] /\ wr[w].pc = "lock"
      BY <1>8 DEF TxStart, Start, StartError, OK
    <2>2. ASSUME NEW v \in Writers PROVE Known(wr'[v])
      BY <1>1, <1>2, <2>1 DEF Writer
    <2> QED
      BY <2>1, <2>2 DEF CallsInv
  <1>9. CASE TxPush(w)
    <2> DEFINE n == Len(Chunk(w))
    <2>1. tx' = Pushed(tx, n)
      BY <1>9 DEF TxPush
    <2>2. CASE tx'.sending
      <3>1. wr' = [wr EXCEPT ![w].sent = @ + n] /\ wr[w].pc = "send"
        BY <1>9, <2>2 DEF TxPush
      <3> HIDE DEF n
      <3>2. ASSUME NEW v \in Writers PROVE Known(wr'[v])
        BY <1>1, <1>2, <3>1 DEF Writer
      <3>3. tx'.id = tx.id /\ tx'.published_any /\ tx.sending
        <4>1. tx.sending
          BY <3>1 DEF TransferInv, SenderInv, WriterInv
        <4> QED
          BY <1>1, <2>1, <2>2, <4>1 DEF Pushed, PushedEmpty, Sender
      <3> QED
        BY <3>2, <3>3 DEF CallsInv
    <2>3. CASE ~tx'.sending
      <3>1. WriteReturn(w)
        BY <1>9, <2>1, <2>3 DEF TxPush
      <3>2. tx'.sending = FALSE
        <4>1. tx' \in Sender
          <5>1. TransferInv'
            BY <1>9, WriterStep DEF TxStep
          <5> QED
            BY <5>1 DEF TransferInv, TypeOK
        <4> QED
          BY <2>3, <4>1 DEF Sender
      <3> QED
        BY <1>4, <3>1, <3>2
    <2> QED
      BY <2>2, <2>3
  <1> QED
    BY <1>3, <1>5, <1>6, <1>7, <1>8, <1>9 DEF TxEnter, TxStep

(* Steps that publish nothing.                                             *)
LEMMA WriterQuiet ==
  ASSUME TransferInv, StreamInv, NEW w \in Writers,
         \/ \E n \in Lengths : WriteCall(w, n)
         \/ TxInterrupted(w) \/ TxEnter(w) \/ TxFault(w) \/ TxGiveUp(w)
         \/ TxAbortLocal(w) \/ TxAbortGiveUp(w)
  PROVE  StreamInv'
  <1> USE TransferAssumption
  <1>1. /\ TypeOK /\ wr \in [Writers -> Writer] /\ tx \in Sender
        /\ \A v \in Writers : WriterInv(v)
    BY DEF TransferInv, TypeOK, SenderInv
  <1>2. UNCHANGED <<ring, accepted, reading>>
    BY DEF WriteCall, TxInterrupted, TxEnter, TxRefused, TxStart, TxFault,
           TxGiveUp, TxAbortLocal, TxAbortGiveUp
  <1>3. SUFFICES ASSUME NEW d \in Place, AtSender(d) PROVE AtSender(d)'
    <2>1. SUFFICES ASSUME rx'.state # "FAILED" PROVE StreamInv'
      BY DEF StreamInv
    <2>2. rx.state # "FAILED"
      BY <1>2, <2>1 DEF reading
    <2>3. PICK c \in Place, d \in Place :
                 /\ AtReceiver(c) /\ Leads(accepted, ring, c, d)
                 /\ AtSender(d)
      BY <2>2 DEF StreamInv
    <2>4. AtReceiver(c)' /\ AtSender(d)'
      BY <1>1, <1>2, <1>3, <2>3, ReceiverPlaceKept
    <2>5. Leads(accepted', ring', c, d)
      BY <1>2, <2>3
    <2> QED
      BY <2>4, <2>5 DEF StreamInv
  <1>4. ASSUME NEW n \in Lengths, WriteCall(w, n) PROVE AtSender(d)'
    <2>1. /\ UNCHANGED <<accepted, tx, txLock>> /\ txLock # w
          /\ \A v \in Writers : v # w => wr'[v] = wr[v]
      BY <1>1, <1>4 DEF WriteCall, WriterInv
    <2> QED
      BY <1>3, <2>1, SenderPlaceKept
  <1>5. CASE TxInterrupted(w) \/ TxRefused(w) \/ TxAbortGiveUp(w)
    <2>1. UNCHANGED <<accepted, tx>> /\ WriteReturn(w)
      BY <1>5 DEF TxInterrupted, TxRefused, TxAbortGiveUp
    <2>2. ASSUME NEW v \in Writers, txLock' = v
          PROVE  txLock = v /\ wr'[v] = wr[v]
      BY <1>1, <1>5, <2>1, <2>2
      DEF WriteReturn, WriterInv, TxInterrupted, TxRefused, TxAbortGiveUp
    <2> QED
      BY <1>3, <2>1, <2>2, SenderPlaceKept
  <1>6. CASE TxFault(w) \/ TxGiveUp(w)
    <2>1. /\ UNCHANGED <<accepted, tx, txLock>>
          /\ wr' = [wr EXCEPT ![w].pc = "abort"]
      BY <1>6 DEF TxFault, TxGiveUp
    <2>2. \A v \in Writers : wr'[v].call = wr[v].call
      BY <1>1, <2>1 DEF Writer
    <2> QED
      BY <1>3, <2>1, <2>2, SenderPlaceKept
  <1>7. CASE TxStart(w) \/ TxAbortLocal(w)
    <2>1. accepted' = accepted /\ ~InMessage /\ ~InMessage'
      BY <1>1, <1>7
      DEF TxStart, Start, StartError, OK, TxAbortLocal, Aborted, InMessage,
          Sender
    <2> QED
      BY <1>3, <2>1 DEF AtSender
  <1> QED
    BY <1>4, <1>5, <1>6, <1>7 DEF TxEnter

(* The ABORT frame of axivc_message_try_abort ends the message in the ring *)
(* that the sender is inside of.                                           *)
LEMMA AbortPushed ==
  ASSUME TransferInv, CallsInv, StreamInv, NEW w \in Writers, TxAbortPush(w)
  PROVE  StreamInv'
  <1> USE TransferAssumption
  <1>1. /\ TypeOK /\ tx \in Sender /\ ring \in Seq(Slot) /\ WriterInv(w)
    BY DEF TransferInv, TypeOK, SenderInv
  <1>2. /\ UNCHANGED reading /\ accepted' = accepted
        /\ ring' = Append(ring, AbortSlot(tx)) /\ ~InMessage'
        /\ tx.sending /\ tx.published_any
    BY <1>1 DEF TxAbortPush, Aborted, InMessage, Sender, WriterInv
  <1>3. SUFFICES ASSUME rx'.state # "FAILED" PROVE StreamInv'
    BY DEF StreamInv
  <1>4. rx.state # "FAILED"
    BY <1>2, <1>3 DEF reading
  <1>5. PICK c \in Place, d \in Place :
               /\ AtReceiver(c) /\ Leads(accepted, ring, c, d)
               /\ AtSender(d)
    BY <1>4 DEF StreamInv
  <1> DEFINE e == [d EXCEPT !.st = "between"]
  <1>6. e \in Place /\ e.st = "between" /\ e.done = d.done
    BY DEF Place
  <1> HIDE DEF e
  <1>7. /\ d.st = "inside" /\ d.id = tx.id /\ d.len = tx.len
        /\ d.done = Len(accepted) /\ tx.id # 0
    BY <1>2, <1>5 DEF AtSender, InMessage, CallsInv
  <1>8. Link(accepted, d, AbortSlot(tx), e)
    BY <1>6, <1>7 DEF Link, Aborts, AbortSlot
  <1>9. AbortSlot(tx) \in Slot
    <2>1. tx.id \in Nat /\ tx.len \in Nat /\ <<>> \in Seq(Byte)
      BY <1>1 DEF Sender
    <2>2. {"ABORT"} \in SUBSET KnownFlags
      BY DEF KnownFlags
    <2> QED
      BY <2>1, <2>2, EncodeType DEF AbortSlot
  <1>10. Leads(accepted', ring', c, e)
    BY <1>1, <1>2, <1>5, <1>6, <1>8, <1>9, LeadsAppend
  <1>11. AtReceiver(c)'
    BY <1>1, <1>2, <1>5, ReceiverPlaceKept
  <1>12. AtSender(e)'
    BY <1>2, <1>6, <1>7 DEF AtSender
  <1> QED
    BY <1>6, <1>10, <1>11, <1>12 DEF StreamInv

(* What one round of axivc_send_message copies from the user are the next  *)
(* bytes of the write.                                                     *)
LEMMA ChunkBytes ==
  ASSUME TypeOK, NEW w \in Writers, WriterInv(w)
  PROVE  Chunk(w) = Bytes(wr[w].call, wr[w].sent, wr[w].sent + Len(Chunk(w)))
  <1> DEFINE a == wr[w].sent
             call == wr[w].call
             s == Payload(call, wr[w].len)
             left == wr[w].len - a
             n == IF left < FragmentCapacity THEN left ELSE FragmentCapacity
  <1>1. a \in Nat /\ wr[w].len \in Nat /\ a <= wr[w].len
    BY DEF TypeOK, Writer, WriterInv
  <1>2. n \in Nat /\ a + n <= wr[w].len
    BY <1>1, MessageAssumption
  <1>3. Chunk(w) = SubSeq(s, a + 1, a + n)
    BY DEF Chunk
  <1> HIDE DEF n
  <1> DEFINE h == SubSeq(s, a + 1, a + n)
             g == Bytes(call, a, a + n)
  <1>4. s \in Seq(Byte) /\ Len(s) = wr[w].len
    BY <1>1, PayloadType DEF TypeOK, Writer
  <1>5. \A i \in 1 .. wr[w].len : s[i] = <<call, i>>
    BY DEF Payload
  <1>6. /\ g \in Seq(Byte) /\ Len(g) = n
        /\ \A i \in 1 .. n : g[i] = <<call, a + i>>
    <2>1. (a + n) - a = n /\ a <= a + n /\ a + n \in Nat
      BY <1>1, <1>2
    <2>2. call \in Nat
      BY DEF TypeOK, Writer
    <2> HIDE DEF a, call
    <2>3. g \in Seq(Byte) /\ Len(g) = n
      BY <1>1, <2>1, <2>2, BytesType DEF a
    <2>4. g = [i \in 1 .. n |-> <<call, a + i>>]
      BY <2>1 DEF Bytes
    <2> QED
      BY <2>3, <2>4
  <1> HIDE DEF s, call, g
  <1>7. h \in Seq(Byte) /\ Len(h) = n /\ \A i \in 1 .. n : h[i] = s[a + i]
    <2> DEFINE m == a + 1
               k == a + n
    <2>1. /\ m \in Int /\ k \in Int /\ k - m + 1 = n
          /\ m <= k <=> n # 0
          /\ \A i \in 1 .. n : m + i - 1 = a + i
      BY <1>1, <1>2
    <2>2. \A i \in m .. k : s[i] \in Byte
      BY <1>1, <1>2, <1>4
    <2>3. h = SubSeq(s, m, k)
      OBVIOUS
    <2> HIDE DEF m, k, h
    <2>4. /\ SubSeq(s, m, k) \in Seq(Byte)
          /\ Len(SubSeq(s, m, k)) = IF m <= k THEN k - m + 1 ELSE 0
          /\ \A i \in 1 .. (k - m + 1) : SubSeq(s, m, k)[i] = s[m + i - 1]
      BY <2>1, <2>2, SubSeqProperties
    <2> QED
      BY <1>2, <2>1, <2>3, <2>4
  <1> HIDE DEF h
  <1>8. \A i \in 1 .. n : h[i] = g[i]
    <2>1. \A i \in 1 .. n : a + i \in 1 .. wr[w].len
      BY <1>1, <1>2
    <2> HIDE DEF a
    <2> QED
      BY <1>5, <1>6, <1>7, <2>1
  <1>9. h = g
    BY <1>6, <1>7, <1>8, SeqEqual
  <1>10. Chunk(w) = h
    BY <1>3 DEF h
  <1> QED
    BY <1>6, <1>7, <1>9, <1>10 DEF g, call

(* The sender after a frame.                                               *)
LEMMA PushedFacts ==
  ASSUME NEW v \in Sender, NEW n \in Nat, v.sent + n <= v.len
  PROVE  /\ Pushed(v, n).sending <=> v.sent + n # v.len
         /\ Pushed(v, n).sending =>
              /\ Pushed(v, n).published_any
              /\ Pushed(v, n).id = v.id /\ Pushed(v, n).len = v.len
              /\ Pushed(v, n).sent = v.sent + n
  <1>1. v.sent \in Nat /\ v.len \in Nat
    BY DEF Sender
  <1>2. CASE v.len = 0
    <2>1. v.sent + n = v.len
      BY <1>1, <1>2
    <2>2. ~Pushed(v, n).sending
      BY <1>2 DEF Pushed, PushedEmpty, Sender
    <2> QED
      BY <2>1, <2>2
  <1>3. CASE v.len # 0
    BY <1>3 DEF Pushed, Sender
  <1> QED
    BY <1>2, <1>3

(* A data frame of axivc_message_try_write continues the stream: it starts *)
(* the message or carries on where the last frame stopped, and with the    *)
(* last bytes the message joins the accepted ones.                         *)
LEMMA DataPushed ==
  ASSUME TransferInv, CallsInv, StreamInv, NEW w \in Writers, TxPush(w)
  PROVE  StreamInv'
  <1> USE TransferAssumption
  <1> DEFINE n == Len(Chunk(w))
             call == wr[w].call
             off == tx.sent + n
             f == DataFlags(tx, n)
             s == Encode(tx.id, tx.len, f, Chunk(w))
             end == off = tx.len
  <1>1. /\ TypeOK /\ tx \in Sender /\ ring \in Seq(Slot) /\ WriterInv(w)
        /\ wr \in [Writers -> Writer] /\ accepted \in Seq(Seq(Byte))
    BY DEF TransferInv, TypeOK, SenderInv
  <1>2. /\ wr[w].pc = "send" /\ txLock = w /\ tx.sending
        /\ tx.len = wr[w].len /\ tx.sent = wr[w].sent
    BY <1>1 DEF TxPush, WriterInv
  <1>3. /\ n \in Nat /\ off \in Nat /\ off <= tx.len /\ call \in Nat
        /\ tx.id \in Nat /\ tx.len \in Nat /\ tx.sent \in Nat
        /\ Chunk(w) \in Seq(Byte)
        /\ Chunk(w) = Bytes(call, tx.sent, off)
        /\ tx.sending \in BOOLEAN /\ tx.published_any \in BOOLEAN
    BY <1>1, <1>2, ChunkType, ChunkBytes DEF Sender
  <1>4. /\ EncodeOK(tx.id, tx.len, f, Chunk(w))
        /\ ring' = Append(ring, s) /\ tx' = Pushed(tx, n)
        /\ UNCHANGED reading
    BY DEF TxPush, Encodable
  <1>5. s \in Slot
    <2>1. f \in SUBSET KnownFlags
      BY DEF DataFlags, KnownFlags
    <2> HIDE DEF f
    <2> QED
      BY <1>3, <2>1, EncodeType
  <1>6. /\ tx'.sending <=> ~end
        /\ tx'.sending => /\ tx'.published_any /\ tx'.id = tx.id
                          /\ tx'.len = tx.len /\ tx'.sent = off
    BY <1>1, <1>3, <1>4, PushedFacts
  <1>7. /\ ~end => /\ accepted' = accepted /\ txLock' = txLock
                   /\ wr' = [wr EXCEPT ![w].sent = @ + n]
        /\ end => accepted' = Append(accepted, Payload(call, tx.len))
    BY <1>2, <1>4, <1>6 DEF TxPush
  <1> HIDE DEF n, off, f, call, end
  <1>8. SUFFICES ASSUME rx'.state # "FAILED" PROVE StreamInv'
    BY DEF StreamInv
  <1>9. rx.state # "FAILED"
    BY <1>4, <1>8 DEF reading
  <1>10. PICK c \in Place, d \in Place :
                /\ AtReceiver(c) /\ Leads(accepted, ring, c, d)
                /\ AtSender(d)
    BY <1>9 DEF StreamInv
  <1>11. PICK e \in Place :
                /\ e.call = call /\ e.id = tx.id /\ e.len = tx.len
                /\ e.off = off
                /\ end => e.st = "between" /\ e.done = d.done + 1
                /\ ~end => e.st = "inside" /\ e.done = d.done
    <2> DEFINE b == [st |-> IF end THEN "between" ELSE "inside", call |-> call,
                     id |-> tx.id, len |-> tx.len, off |-> off,
                     done |-> IF end THEN d.done + 1 ELSE d.done]
    <2>1. d.done \in Nat
      BY DEF Place
    <2>2. b \in Place
      BY <1>3, <2>1 DEF Place
    <2>3. /\ b.call = call /\ b.id = tx.id /\ b.len = tx.len
          /\ b.off = off
          /\ end => b.st = "between" /\ b.done = d.done + 1
          /\ ~end => b.st = "inside" /\ b.done = d.done
      OBVIOUS
    <2> HIDE DEF b
    <2> QED
      BY <2>2, <2>3
  <1>12. /\ d.done = Len(accepted)
         /\ d.st = (IF tx.published_any THEN "inside" ELSE "between")
         /\ From(d) = tx.sent
         /\ d.st = "inside" => d.call = call /\ d.id = tx.id /\ d.len = tx.len
    BY <1>2, <1>10 DEF AtSender, InMessage, CallsInv, From, call
  <1>13. /\ \/ accepted' = accepted
            \/ \E m \in Seq(Byte) : accepted' = Append(accepted, m)
         /\ accepted' \in Seq(Seq(Byte))
         /\ end => /\ Len(accepted') = d.done + 1
                   /\ accepted'[d.done + 1] = Payload(call, tx.len)
    <2>1. Payload(call, tx.len) \in Seq(Byte)
      BY <1>3, PayloadType
    <2>2. CASE end
      <3> DEFINE m == Payload(call, tx.len)
      <3> HIDE DEF m
      <3>1. accepted' = Append(accepted, m) /\ m \in Seq(Byte)
        BY <1>7, <2>1, <2>2 DEF m
      <3>2. /\ Append(accepted, m) \in Seq(Seq(Byte))
            /\ Len(Append(accepted, m)) = Len(accepted) + 1
            /\ Append(accepted, m)[Len(accepted) + 1] = m
        BY <1>1, <3>1, AppendProperties
      <3> QED
        BY <1>12, <3>1, <3>2 DEF m
    <2>3. CASE ~end
      BY <1>1, <1>7, <2>3
    <2> QED
      BY <2>2, <2>3
  <1>14. Leads(accepted', ring, c, d)
    <2>1. CASE accepted' = accepted
      BY <1>10, <2>1
    <2>2. ASSUME NEW m \in Seq(Byte), accepted' = Append(accepted, m)
          PROVE  Leads(accepted', ring, c, d)
      BY <1>1, <1>10, <2>2, LeadsMore
    <2> QED
      BY <1>13, <2>1, <2>2
  <1>15. Link(accepted', d, s, e)
    <2>1. f = FlagsOf(d, e)
      BY <1>11, <1>12 DEF f, DataFlags, FlagsOf, off
    <2>2. Chunk(w) = Bytes(e.call, From(d), e.off)
      BY <1>3, <1>11, <1>12
    <2>3. tx.sent <= off
      BY <1>3 DEF off
    <2>4. e.off = e.len <=> end
      BY <1>11 DEF end
    <2>5. /\ EncodeOK(e.id, e.len, FlagsOf(d, e),
                      Bytes(e.call, From(d), e.off))
          /\ s = Encode(e.id, e.len, FlagsOf(d, e),
                        Bytes(e.call, From(d), e.off))
      BY <1>4, <1>11, <2>1, <2>2
    <2>6. end => /\ e.done <= Len(accepted')
                 /\ accepted'[e.done] = Payload(e.call, e.len)
      <3>1. d.done + 1 \in Nat
        BY DEF Place
      <3> QED
        BY <1>11, <1>13, <3>1
    <2> HIDE DEF s
    <2>7. Carries(accepted', d, s, e)
      BY <1>3, <1>11, <1>12, <2>3, <2>4, <2>5, <2>6 DEF Carries
    <2> QED
      BY <2>7 DEF Link
  <1>16. Leads(accepted', ring', c, e)
    <2> HIDE DEF s
    <2> QED
      BY <1>1, <1>4, <1>5, <1>11, <1>14, <1>15, LeadsAppend
  <1>17. AtReceiver(c)'
    BY <1>1, <1>4, <1>10, <1>13, ReceiverPlaceKept
  <1>18. AtSender(e)'
    <2>1. e.done = Len(accepted')
      BY <1>7, <1>11, <1>12, <1>13
    <2>2. InMessage' <=> ~end
      BY <1>6 DEF InMessage
    <2>3. ~end => \A v \in Writers : txLock' = v => e.call = wr'[v].call
      <3>1. ASSUME ~end, NEW v \in Writers, txLock' = v
            PROVE  e.call = wr'[v].call
        <4>1. v = w /\ wr' = [wr EXCEPT ![w].sent = @ + n]
          BY <1>2, <1>7, <3>1
        <4>2. wr'[w].call = wr[w].call
          BY <1>1, <4>1 DEF Writer
        <4> QED
          BY <1>11, <4>1, <4>2 DEF call
      <3> QED
        BY <3>1
    <2> QED
      BY <1>6, <1>11, <2>1, <2>2, <2>3 DEF AtSender
  <1> QED
    BY <1>11, <1>16, <1>17, <1>18 DEF StreamInv
-----------------------------------------------------------------------------
(* Steps of a reader.                                                      *)

(* A fragment continues the bytes before it.                               *)
LEMMA PayloadGrows ==
  ASSUME NEW call \in Nat, NEW m \in Nat, NEW n \in Nat, m <= n
  PROVE  Payload(call, m) \o Bytes(call, m, n) = Payload(call, n)
  <1> DEFINE p == Payload(call, m)
             g == Bytes(call, m, n)
             whole == Payload(call, n)
  <1>1. /\ p \in Seq(Byte) /\ Len(p) = m
        /\ \A i \in 1 .. m : p[i] = <<call, i>>
    BY PayloadType DEF Payload
  <1>2. /\ whole \in Seq(Byte) /\ Len(whole) = n
        /\ \A i \in 1 .. n : whole[i] = <<call, i>>
    BY PayloadType DEF Payload
  <1>3. /\ g \in Seq(Byte) /\ Len(g) = n - m
        /\ \A i \in 1 .. (n - m) : g[i] = <<call, m + i>>
    BY BytesType DEF Bytes
  <1> HIDE DEF p, g, whole
  <1>4. /\ p \o g \in Seq(Byte) /\ Len(p \o g) = m + (n - m)
        /\ \A i \in 1 .. (m + (n - m)) :
             (p \o g)[i] = IF i <= m THEN p[i] ELSE g[i - m]
    <2>1. /\ p \o g \in Seq(Byte) /\ Len(p \o g) = Len(p) + Len(g)
          /\ \A i \in 1 .. (Len(p) + Len(g)) :
               (p \o g)[i] = IF i <= Len(p) THEN p[i] ELSE g[i - Len(p)]
      BY <1>1, <1>3, ConcatProperties
    <2> QED
      BY <1>1, <1>3, <2>1
  <1>5. m + (n - m) = n
    OBVIOUS
  <1>6. ASSUME NEW i \in 1 .. n PROVE (p \o g)[i] = whole[i]
    <2>1. CASE i <= m
      <3>1. i \in 1 .. m
        BY <2>1
      <3>2. p[i] = <<call, i>> /\ whole[i] = <<call, i>>
        BY <1>1, <1>2, <3>1
      <3> QED
        BY <1>4, <1>5, <2>1, <3>2
    <2>2. CASE ~(i <= m)
      <3>1. i - m \in 1 .. (n - m) /\ m + (i - m) = i
        BY <2>2
      <3>2. g[i - m] = <<call, m + (i - m)>>
        BY <1>3, <3>1
      <3> QED
        BY <1>2, <1>4, <1>5, <2>2, <3>1, <3>2
    <2> QED
      BY <2>1, <2>2
  <1>7. p \o g = whole
    BY <1>2, <1>4, <1>5, <1>6, SeqEqual
  <1> QED
    BY <1>7 DEF p, g, whole

(* At no place of the stream is a slot refused.                            *)
LEMMA NothingRefused ==
  ASSUME TransferInv, StreamInv, NEW r \in Readers
  PROVE  ~RxRefuse(r) /\ ~RxFail(r)
  <1> SUFFICES ASSUME RxRefuse(r) \/ RxFail(r) PROVE FALSE
    OBVIOUS
  <1>1. /\ ring # <<>> /\ ring \in Seq(Slot) /\ rx \in Receiver
        /\ rx.state # "FAILED"
    BY DEF RxRefuse, RxFail, TransferInv, TypeOK, ReceiverInv, ReaderInv
  <1>2. PICK c \in Place, d \in Place :
               /\ AtReceiver(c) /\ Leads(accepted, ring, c, d)
               /\ AtSender(d)
    BY <1>1 DEF StreamInv
  <1>3. PICK b \in Place : Link(accepted, c, Head(ring), b)
    BY <1>1, <1>2, LeadsTail
  <1>4. SlotError(rx, Head(ring)) = OK
    BY <1>1, <1>2, <1>3, LinkAccepted DEF AtReceiver
  <1>5. rx.state = "IDLE" => PeekMetaError(Head(ring)) = OK
    BY <1>2, <1>3, LinkDecodes DEF AtReceiver
  <1> QED
    BY <1>4, <1>5 DEF RxRefuse, RxFail

(* Steps that consume nothing and poison nothing.                          *)
LEMMA ReaderQuiet ==
  ASSUME TransferInv, StreamInv, NEW r \in Readers,
         \/ \E n \in ReadSizes : ReadCall(r, n)
         \/ RxInterrupted(r) \/ RxNothing(r) \/ RxTooSmall(r) \/ RxStart(r)
         \/ RxReturn(r) \/ RxCopy(r)
  PROVE  StreamInv'
  <1> USE TransferAssumption
  <1>1. /\ TypeOK /\ rd \in [Readers -> Reader] /\ rd[r] \in Reader
        /\ ReceiverInv /\ \A q \in Readers : ReaderInv(q)
    BY DEF TransferInv, TypeOK, ReceiverInv
  <1>2. UNCHANGED <<ring, rx, writing>>
    BY DEF ReadCall, RxInterrupted, RxNothing, RxTooSmall, RxStart, RxReturn,
           RxCopy
  <1>3. SUFFICES ASSUME NEW c \in Place, AtReceiver(c) PROVE AtReceiver(c)'
    <2>1. SUFFICES ASSUME rx'.state # "FAILED" PROVE StreamInv'
      BY DEF StreamInv
    <2>2. rx.state # "FAILED"
      BY <1>2, <2>1
    <2>3. PICK c \in Place, d \in Place :
                 /\ AtReceiver(c) /\ Leads(accepted, ring, c, d)
                 /\ AtSender(d)
      BY <2>2 DEF StreamInv
    <2>4. AtReceiver(c)'
      BY <1>3, <2>3
    <2>5. UNCHANGED <<accepted, tx, txLock, wr>>
      BY <1>2 DEF writing
    <2>6. AtSender(d)'
      BY <2>3, <2>5, SenderPlaceKept
    <2>7. Leads(accepted', ring', c, d)
      BY <1>2, <2>3, <2>5
    <2> QED
      BY <2>4, <2>6, <2>7 DEF StreamInv
  <1>4. accepted' = accepted
    BY <1>2 DEF writing
  <1>5. ASSUME UNCHANGED <<rxLock, delivered>>,
               ASSUME NEW q \in Readers, rxLock = q
               PROVE  /\ rd'[q].complete = rd[q].complete
                      /\ rd'[q].buf \o rd'[q].out = rd[q].buf \o rd[q].out
        PROVE  AtReceiver(c)'
    <2>1. ASSUME NEW q \in Readers, rxLock = q PROVE ReaderAt(q, c)'
      BY <1>2, <1>3, <1>4, <1>5, <2>1 DEF AtReceiver, ReaderAt
    <2> QED
      BY <1>2, <1>3, <1>5, <2>1 DEF AtReceiver
  <1>6. ASSUME NEW n \in ReadSizes, ReadCall(r, n) PROVE AtReceiver(c)'
    <2>1. /\ UNCHANGED <<rxLock, delivered>> /\ rxLock # r
          /\ \A q \in Readers : q # r => rd'[q] = rd[q]
      BY <1>1, <1>6 DEF ReadCall, ReaderInv
    <2> QED
      BY <1>5, <2>1
  <1>7. CASE RxInterrupted(r) \/ RxNothing(r) \/ RxTooSmall(r)
    <2>1. /\ delivered' = delivered /\ rxLock # r /\ ReadReturn(r)
      BY <1>1, <1>7
      DEF RxInterrupted, RxNothing, RxTooSmall, Entering, ReaderInv
    <2>2. rxLock' = rxLock /\ \A q \in Readers : q # r => rd'[q] = rd[q]
      BY <1>1, <2>1 DEF ReadReturn
    <2> QED
      BY <1>5, <2>1, <2>2
  <1>8. CASE RxStart(r)
    <2>1. /\ rxLock = NoThread /\ rxLock' = r /\ delivered' = delivered
          /\ rd'[r].complete = rd[r].complete
      BY <1>1, <1>8 DEF RxStart, Entering, Reader
    <2>2. /\ rx.state # "RECEIVING" /\ c.done = Len(delivered)
          /\ ~rd[r].complete
      BY <1>1, <1>3, <2>1 DEF AtReceiver, ReceiverInv, ReaderInv
    <2>3. ReaderAt(r, c)'
      BY <1>2, <2>1, <2>2 DEF ReaderAt
    <2> QED
      BY <1>2, <1>3, <2>1, <2>3 DEF AtReceiver
  <1>9. CASE RxReturn(r)
    <2>1. UNCHANGED <<rxLock, delivered>> /\ rd' = [rd EXCEPT ![r].pc = "copy"]
      BY <1>9 DEF RxReturn
    <2>2. ASSUME NEW q \in Readers
          PROVE  /\ rd'[q].complete = rd[q].complete
                 /\ rd'[q].buf = rd[q].buf /\ rd'[q].out = rd[q].out
      BY <1>1, <2>1 DEF Reader
    <2> QED
      BY <1>5, <2>1, <2>2
  <1>10. CASE RxCopy(r) /\ rd[r].complete
    <2>1. /\ rxLock = r /\ ReadReturn(r)
          /\ delivered' = Append(delivered, rd[r].buf \o rd[r].out)
      BY <1>1, <1>10 DEF RxCopy, ReaderInv
    <2>2. rxLock' = NoThread
      BY <2>1 DEF ReadReturn
    <2>3. c.done = Len(delivered) + 1
      BY <1>3, <1>10, <2>1 DEF AtReceiver, ReaderAt
    <2>4. Len(delivered') = Len(delivered) + 1
      <3> DEFINE m == rd[r].buf \o rd[r].out
      <3>1. m \in Seq(Byte) /\ delivered \in Seq(Seq(Byte))
        BY <1>1, ConcatProperties DEF Reader, TypeOK
      <3> HIDE DEF m
      <3>2. delivered' = Append(delivered, m)
        BY <2>1 DEF m
      <3> QED
        BY <3>1, <3>2, AppendProperties
    <2> QED
      BY <1>2, <1>3, <2>2, <2>3, <2>4 DEF AtReceiver
  <1>11. CASE RxCopy(r) /\ ~rd[r].complete
    <2>1. /\ UNCHANGED <<rxLock, delivered>>
          /\ rd' = [rd EXCEPT ![r].pc = "read", ![r].took = FALSE,
                              ![r].buf = @ \o rd[r].out, ![r].out = <<>>]
      BY <1>11 DEF RxCopy
    <2>2. /\ rd'[r].complete = rd[r].complete
          /\ rd'[r].buf = rd[r].buf \o rd[r].out /\ rd'[r].out = <<>>
          /\ \A q \in Readers : q # r => rd'[q] = rd[q]
      BY <1>1, <2>1 DEF Reader
    <2>3. rd'[r].buf \o rd'[r].out = rd[r].buf \o rd[r].out
      <3> DEFINE m == rd[r].buf \o rd[r].out
      <3>1. m \in Seq(Byte)
        BY <1>1, ConcatProperties DEF Reader
      <3> HIDE DEF m
      <3>2. m \o <<>> = m
        BY <3>1, ConcatEmptySeq
      <3> QED
        BY <2>2, <3>2 DEF m
    <2> QED
      BY <1>5, <2>1, <2>2, <2>3
  <1> QED
    BY <1>6, <1>7, <1>8, <1>9, <1>10, <1>11

(* A slot consumed moves the receiver to the next place.                   *)
LEMMA SlotTaken ==
  ASSUME TransferInv, StreamInv, NEW r \in Readers, RxTake(r)
  PROVE  StreamInv'
  <1> USE TransferAssumption
  <1> DEFINE slot == Head(ring)
  <1>1. /\ rd \in [Readers -> Reader] /\ rd[r] \in Reader
        /\ ReaderInv(r) /\ ring \in Seq(Slot) /\ rx \in Receiver
        /\ ring # <<>> /\ ring' = Tail(ring) /\ rd[r].pc = "read"
        /\ rx' = Transition(rx, slot)
        /\ UNCHANGED <<delivered, writing>>
    BY DEF RxTake, Consumable, TransferInv, TypeOK, ReceiverInv
  <1>2. /\ rxLock = r /\ rx.state \in {"IDLE", "RECEIVING"}
        /\ UNCHANGED <<accepted, tx, txLock, wr>>
    BY <1>1 DEF ReaderInv, Receiver, writing
  <1>3. ~rd[r].complete
    BY TakeFacts
  <1>4. PICK c \in Place, d \in Place :
               /\ AtReceiver(c) /\ Leads(accepted, ring, c, d)
               /\ AtSender(d)
    BY <1>2 DEF StreamInv
  <1>5. PICK b \in Place : /\ Link(accepted, c, slot, b)
                           /\ Leads(accepted, Tail(ring), b, d)
    BY <1>1, <1>4, LeadsTail
  <1>6. AtSender(d)' /\ Leads(accepted', ring', b, d)
    BY <1>1, <1>2, <1>4, <1>5, SenderPlaceKept
  <1>7. /\ c.done = Len(delivered) /\ ReaderAt(r, c)
        /\ (rx.state = "IDLE") = (c.st = "between")
        /\ rx.state = "RECEIVING" =>
             c.st = "inside" /\ c.id = rx.id /\ c.len = rx.len
               /\ c.off = rx.received
    BY <1>2, <1>3, <1>4 DEF AtReceiver, ReaderAt
  <1>8. /\ c.off \in Nat /\ b.off \in Nat /\ b.call \in Nat /\ b.len \in Nat
        /\ c.st \in {"between", "inside"} /\ From(c) \in Nat
        /\ c.done \in Nat /\ b.done \in Nat
    BY DEF Place, From
  <1> HIDE DEF slot
  <1>9. CASE Aborts(c, slot, b)
    <2>1. slot.flags = {"ABORT"} /\ b.st = "between" /\ b.done = c.done
      BY <1>9 DEF Aborts, Encode
    <2>2. Abort(slot)
      BY <2>1 DEF Abort
    <2>3. rx'.state = "IDLE"
      BY <1>1, <2>2 DEF Transition
    <2>4. ReadReturn(r)
      BY <2>2 DEF RxTake, slot
    <2>5. rxLock' = NoThread
      BY <1>2, <2>4 DEF ReadReturn
    <2>6. AtReceiver(b)'
      BY <1>1, <1>7, <2>1, <2>3, <2>5 DEF AtReceiver
    <2> QED
      BY <1>6, <2>6 DEF StreamInv
  <1>10. CASE Carries(accepted, c, slot, b)
    <2> DEFINE g == Bytes(b.call, From(c), b.off)
    <2>1. /\ slot.flags = FlagsOf(c, b) /\ slot.message_id = b.id
          /\ slot.message_len = b.len /\ slot.fragment = g
          /\ slot.fragment_len = Len(g)
          /\ From(c) <= b.off /\ b.off <= b.len
      BY <1>10 DEF Carries, Encode
    <2>2. g \in Seq(Byte) /\ Len(g) = b.off - From(c)
      <3>1. From(c) <= b.off
        BY <2>1
      <3> QED
        BY <1>8, <3>1, BytesType
    <2>3. Payload(b.call, From(c)) \o g = Payload(b.call, b.off)
      <3>1. From(c) <= b.off
        BY <2>1
      <3> QED
        BY <1>8, <3>1, PayloadGrows
    <2> HIDE DEF g
    <2>4. ~Abort(slot) /\ (Last(slot) <=> b.off = b.len)
      BY <2>1 DEF Abort, Last, FlagsOf
    <2>5. /\ rxLock' = r /\ rd'[r].buf = rd[r].buf
          /\ rd'[r].out = rd[r].out \o g /\ rd'[r].complete = Last(slot)
      <3>1. /\ rd' = [rd EXCEPT ![r].out = @ \o slot.fragment,
                                ![r].took = TRUE,
                                ![r].complete = Last(slot),
                                ![r].pc = IF Last(slot) THEN "copy"
                                                        ELSE "read"]
            /\ UNCHANGED rxLock
        BY <2>4 DEF RxTake, slot
      <3> QED
        BY <1>1, <1>2, <2>1, <3>1 DEF Reader
    <2>6. rd[r].buf \o rd[r].out = Payload(b.call, From(c))
      <3>1. CASE rx.state = "RECEIVING"
        BY <1>7, <1>10, <3>1 DEF ReaderAt, From, Carries
      <3>2. CASE rx.state = "IDLE"
        <4>1. rd[r].buf = <<>> /\ rd[r].out = <<>> /\ From(c) = 0
          BY <1>1, <1>7, <3>2 DEF ReaderInv, From
        <4>2. Payload(b.call, 0) = <<>>
          BY <1>8, PayloadType, EmptySeq
        <4>3. <<>> \o <<>> = <<>>
          OBVIOUS
        <4> QED
          BY <4>1, <4>2, <4>3
      <3> QED
        BY <1>2, <3>1, <3>2
    <2>7. rd'[r].buf \o rd'[r].out = Payload(b.call, b.off)
      <3>1. rd[r].buf \in Seq(Byte) /\ rd[r].out \in Seq(Byte)
        BY <1>1 DEF Reader
      <3>2. rd[r].buf \o (rd[r].out \o g) = (rd[r].buf \o rd[r].out) \o g
        <4> DEFINE x == rd[r].buf
                   y == rd[r].out
        <4>1. x \in Seq(Byte) /\ y \in Seq(Byte)
          BY <3>1
        <4> HIDE DEF x, y
        <4>2. x \o (y \o g) = (x \o y) \o g
          BY <2>2, <4>1, ConcatAssociative
        <4> QED
          BY <4>2 DEF x, y
      <3> QED
        BY <2>3, <2>5, <2>6, <3>2
    <2>8. /\ rx'.state = (IF b.off = b.len THEN "IDLE" ELSE "RECEIVING")
          /\ rx'.id = b.id /\ rx'.len = b.len /\ rx'.received = b.off
      <3>1. rx.state # "IDLE" => rx.id = b.id /\ rx.len = b.len
        BY <1>2, <1>7, <1>10 DEF Carries
      <3>2. From(c) = IF rx.state = "IDLE" THEN 0 ELSE rx.received
        BY <1>2, <1>7 DEF From
      <3>3. From(c) + slot.fragment_len = b.off
        BY <1>8, <2>1, <2>2
      <3> QED
        BY <1>1, <2>1, <2>4, <3>1, <3>2, <3>3 DEF Transition
    <2>9. /\ b.off = b.len => /\ b.st = "between" /\ b.done = c.done + 1
                              /\ b.done <= Len(accepted)
                              /\ accepted[b.done] = Payload(b.call, b.off)
          /\ b.off # b.len => b.st = "inside" /\ b.done = c.done
      BY <1>10 DEF Carries
    <2>10. ReaderAt(r, b)'
      <3>1. CASE b.off = b.len
        BY <1>1, <1>2, <1>7, <2>4, <2>5, <2>7, <2>8, <2>9, <3>1 DEF ReaderAt
      <3>2. CASE b.off # b.len
        BY <1>1, <1>2, <1>7, <2>4, <2>5, <2>7, <2>8, <2>9, <3>2 DEF ReaderAt
      <3> QED
        BY <3>1, <3>2
    <2>11. AtReceiver(b)'
      BY <2>5, <2>8, <2>9, <2>10 DEF AtReceiver
    <2> QED
      BY <1>6, <2>11 DEF StreamInv
  <1> QED
    BY <1>5, <1>9, <1>10 DEF Link
-----------------------------------------------------------------------------
(* The theorems.                                                           *)

(* The initial state.                                                      *)
LEMMA ChannelInit == Init => ChannelInv
  <1> SUFFICES ASSUME Init PROVE ChannelInv
    OBVIOUS
  <1> USE TransferAssumption
  <1>1. TransferInv
    BY TransferInit
  <1>2. CallsInv
    BY DEF Init, CallsInv, SenderInit, WriterIdle
  <1>3. NoProtocolError
    BY DEF Init, NoProtocolError, ReceiverInit, OK
  <1>4. StreamInv
    <2> DEFINE c == [st |-> "between", call |-> 0, id |-> 0, len |-> 0,
                     off |-> 0, done |-> 0]
    <2>1. c \in Place /\ c.st = "between" /\ c.done = 0
      BY DEF Place
    <2> HIDE DEF c
    <2>2. Len(delivered) = 0 /\ Len(accepted) = 0
      BY DEF Init
    <2>3. AtReceiver(c)
      BY <2>1, <2>2 DEF Init, AtReceiver, ReceiverInit
    <2>4. AtSender(c)
      BY <2>1, <2>2 DEF Init, AtSender, InMessage, SenderInit
    <2>5. Leads(accepted, ring, c, c)
      BY <2>1, ChainEmpty DEF Init, Leads
    <2> QED
      BY <2>1, <2>3, <2>4, <2>5 DEF StreamInv
  <1> QED
    BY <1>1, <1>2, <1>3, <1>4 DEF ChannelInv

(* Every step keeps the invariant, as long as both ends run this code and  *)
(* neither is re-initialised.                                              *)
LEMMA ChannelStep ==
  ASSUME AlienSlots = {}, MaxTxResets = 0, MaxRxResets = 0,
         ChannelInv, [Next]_vars
  PROVE  ChannelInv'
  <1> USE TransferAssumption
  <1>1. TransferInv /\ CallsInv /\ NoProtocolError /\ StreamInv
    BY DEF ChannelInv
  <1> DEFINE Goal == CallsInv' /\ NoProtocolError' /\ StreamInv'
  <1>2. TransferInv'
    BY <1>1, TransferStep
  <1> SUFFICES Goal
    BY <1>2 DEF ChannelInv
  <1>3. ASSUME NEW w \in Writers,
               \/ \E n \in Lengths : WriteCall(w, n)
               \/ TxInterrupted(w) \/ TxEnter(w) \/ TxFault(w) \/ TxStep(w)
        PROVE  Goal
    <2>1. CallsInv'
      BY <1>1, <1>3, WriterCalls
    <2>2. rx' = rx
      BY <1>3
      DEF WriteCall, TxInterrupted, TxEnter, TxRefused, TxStart, TxFault,
          TxStep, TxPush, TxGiveUp, TxAbortLocal, TxAbortPush, TxAbortGiveUp,
          reading
    <2>3. NoProtocolError'
      BY <1>1, <2>2 DEF NoProtocolError
    <2>4. StreamInv'
      BY <1>1, <1>3, WriterQuiet, AbortPushed, DataPushed DEF TxStep
    <2> QED
      BY <2>1, <2>3, <2>4
  <1>4. ASSUME UNCHANGED writing PROVE CallsInv'
    BY <1>1, <1>4 DEF CallsInv, writing
  <1>5. ASSUME NEW r \in Readers,
               \/ \E n \in ReadSizes : ReadCall(r, n)
               \/ RxInterrupted(r) \/ RxNothing(r) \/ RxTooSmall(r)
               \/ RxStart(r) \/ RxReturn(r) \/ RxCopy(r)
        PROVE  Goal
    <2>1. UNCHANGED <<rx, writing>>
      BY <1>5
      DEF ReadCall, RxInterrupted, RxNothing, RxTooSmall, RxStart, RxReturn,
          RxCopy
    <2>2. StreamInv'
      BY <1>1, <1>5, ReaderQuiet
    <2> QED
      BY <1>1, <1>4, <2>1, <2>2 DEF NoProtocolError
  <1>6. ASSUME NEW r \in Readers, RxTake(r) PROVE Goal
    <2>1. rx'.errno = rx.errno /\ UNCHANGED writing
      BY <1>6 DEF RxTake, Transition
    <2>2. StreamInv'
      BY <1>1, <1>6, SlotTaken
    <2> QED
      BY <1>1, <1>4, <2>1, <2>2 DEF NoProtocolError
  <1>7. ASSUME NEW r \in Readers,
               \/ RxCopyFault(r) \/ RxGiveUp(r, "ERESTARTSYS")
               \/ RxGiveUp(r, "ETIMEDOUT")
        PROVE  Goal
    <2>1. /\ UNCHANGED writing
          /\ \E e \in {"EFAULT", "ERESTARTSYS", "ETIMEDOUT"} :
               rx' = Poisoned(rx, e)
      BY <1>7 DEF RxCopyFault, RxGiveUp
    <2>2. rx \in Receiver
      BY <1>1 DEF TransferInv, TypeOK
    <2>3. /\ rx'.state = "FAILED"
          /\ rx'.errno \in {"EFAULT", "ERESTARTSYS", "ETIMEDOUT"}
      BY <2>1, <2>2 DEF Poisoned, Receiver
    <2> QED
      BY <1>4, <2>1, <2>3 DEF NoProtocolError, StreamInv
  <1>8. CASE ResetTx \/ ResetRx
    BY <1>1, <1>8 DEF ResetTx, ResetRx, TransferInv, TypeOK
  <1>9. CASE UNCHANGED vars
    <2>1. UNCHANGED <<ring, tx, txLock, wr, rx, rxLock, rd, accepted,
                      delivered, writing, reading>>
      BY <1>9 DEF vars, writing, reading
    <2>2. ASSUME NEW c \in Place, AtReceiver(c) PROVE AtReceiver(c)'
      BY <2>1, <2>2 DEF AtReceiver, ReaderAt
    <2>3. ASSUME NEW d \in Place, AtSender(d) PROVE AtSender(d)'
      BY <2>1, <2>3 DEF AtSender, InMessage
    <2>4. ASSUME NEW c \in Place, NEW d \in Place,
                 Leads(accepted, ring, c, d)
          PROVE  Leads(accepted', ring', c, d)
      BY <2>1, <2>4
    <2>5. StreamInv'
      BY <1>1, <2>1, <2>2, <2>3, <2>4 DEF StreamInv
    <2>6. CallsInv' /\ NoProtocolError'
      <3>1. CallsInv'
        BY <1>4, <2>1
      <3>2. NoProtocolError'
        BY <1>1, <2>1 DEF NoProtocolError
      <3> QED
        BY <3>1, <3>2
    <2> QED
      BY <2>5, <2>6
  <1> HIDE DEF Goal
  <1>10. CASE Next
    <2>1. ASSUME NEW r \in Readers, RxEnter(r) \/ RxStep(r) PROVE Goal
      BY <1>1, <1>5, <1>6, <1>7, <2>1, NothingRefused DEF RxEnter, RxStep
    <2> QED
      BY <1>3, <1>5, <1>7, <1>8, <1>10, <2>1 DEF Next
  <1> QED
    BY <1>9, <1>10

(* The ring always holds one well-formed stream of messages from the       *)
(* receiver's place to the sender's.                                       *)
THEOREM ChannelInvariant ==
  ASSUME AlienSlots = {}, MaxTxResets = 0, MaxRxResets = 0
  PROVE  Spec => []ChannelInv
  <1>1. ChannelInv /\ [Next]_vars => ChannelInv'
    BY ChannelStep
  <1> QED
    BY <1>1, ChannelInit, PTL DEF Spec

(* Two ends that run this code never disagree on the protocol, for every   *)
(* number of threads, ring size, fragment size and message length: a       *)
(* receiver is only ever poisoned by a fault, a timeout or a signal of its *)
(* own.                                                                    *)
THEOREM NoProtocolErrors ==
  ASSUME AlienSlots = {}, MaxTxResets = 0, MaxRxResets = 0
  PROVE  Spec => []NoProtocolError
  <1>1. ChannelInv => NoProtocolError
    BY DEF ChannelInv
  <1> QED
    BY <1>1, ChannelInvariant, PTL

(* Every step is a step of the abstract channel: the last frame of a write *)
(* accepts its message, the last copy of a read delivers one, a failed     *)
(* abort breaks the writing end and a poisoned receiver the reading end.   *)
(* All others change nothing the applications see.                         *)
LEMMA ChannelRefines ==
  ASSUME AlienSlots = {}, MaxTxResets = 0, MaxRxResets = 0,
         ChannelInv, [Next]_vars
  PROVE  [Channel!Next]_(Channel!vars)
  <1> USE TransferAssumption
  <1>1. TransferInv /\ CallsInv /\ StreamInv /\ rx \in Receiver
    BY DEF ChannelInv, TransferInv, TypeOK
  <1>2. ASSUME UNCHANGED <<accepted, delivered, txError>>,
               rx'.state = "FAILED" <=> rx.state = "FAILED"
        PROVE  UNCHANGED Channel!vars
    BY <1>2 DEF Channel!vars
  <1>3. ASSUME NEW w \in Writers,
               \/ \E n \in Lengths : WriteCall(w, n)
               \/ TxInterrupted(w) \/ TxEnter(w) \/ TxFault(w)
               \/ TxGiveUp(w) \/ TxAbortLocal(w) \/ TxAbortPush(w)
        PROVE  UNCHANGED Channel!vars
    BY <1>2, <1>3
    DEF WriteCall, TxInterrupted, TxEnter, TxRefused, TxStart, TxFault,
        TxGiveUp, TxAbortLocal, TxAbortPush, reading
  <1>4. ASSUME NEW w \in Writers, TxPush(w)
        PROVE  \/ UNCHANGED Channel!vars
               \/ \E c \in 1 .. MaxCalls, n \in Lengths :
                    Channel!Accept(Payload(c, n))
    <2>1. /\ UNCHANGED <<delivered, txError, rx>> /\ txError = OK
          /\ wr[w].pc = "send"
      BY <1>1, <1>4 DEF TxPush, reading, TransferInv, SenderInv, WriterInv
    <2>2. CASE accepted' = accepted
      BY <1>2, <2>1, <2>2
    <2>3. CASE accepted' = Append(accepted, Payload(wr[w].call, wr[w].len))
      <3>1. wr[w].call \in 1 .. MaxCalls /\ wr[w].len \in Lengths
        BY <1>1, <2>1 DEF CallsInv
      <3>2. Channel!Accept(Payload(wr[w].call, wr[w].len))
        BY <2>1, <2>3 DEF Channel!Accept
      <3> QED
        BY <3>1, <3>2
    <2> QED
      BY <1>4, <2>2, <2>3 DEF TxPush
  <1>5. ASSUME NEW w \in Writers, TxAbortGiveUp(w) PROVE Channel!BreakWriter
    <2>1. UNCHANGED <<accepted, delivered, rx>> /\ txError' = "EPIPE"
      BY <1>5 DEF TxAbortGiveUp, reading
    <2> QED
      BY <2>1 DEF Channel!BreakWriter, OK
  <1>6. ASSUME NEW r \in Readers,
               \/ \E n \in ReadSizes : ReadCall(r, n)
               \/ RxInterrupted(r) \/ RxNothing(r) \/ RxTooSmall(r)
               \/ RxStart(r) \/ RxReturn(r)
        PROVE  UNCHANGED Channel!vars
    BY <1>2, <1>6
    DEF ReadCall, RxInterrupted, RxNothing, RxTooSmall, RxStart, RxReturn,
        writing
  <1>7. ASSUME NEW r \in Readers, RxTake(r) PROVE UNCHANGED Channel!vars
    <2>1. /\ UNCHANGED <<accepted, delivered, txError>>
          /\ rx'.state # "FAILED" /\ rd[r].pc = "read"
      BY <1>7 DEF RxTake, Transition, writing
    <2>2. rx.state # "FAILED"
      BY <1>1, <2>1 DEF TransferInv, ReceiverInv, ReaderInv
    <2> QED
      BY <1>2, <2>1, <2>2
  <1>8. ASSUME NEW r \in Readers, RxCopy(r)
        PROVE  UNCHANGED Channel!vars \/ Channel!Deliver
    <2>1. UNCHANGED <<accepted, txError, rx>> /\ rd[r].pc = "copy"
      BY <1>8 DEF RxCopy, writing
    <2>2. CASE ~rd[r].complete
      BY <1>2, <1>8, <2>1, <2>2 DEF RxCopy
    <2>3. CASE rd[r].complete
      <3>1. /\ delivered' = Append(delivered, rd[r].buf \o rd[r].out)
            /\ rxLock = r /\ rx.state # "FAILED"
        BY <1>1, <1>8, <2>1, <2>3
        DEF RxCopy, TransferInv, ReceiverInv, ReaderInv
      <3>2. PICK c \in Place : AtReceiver(c)
        BY <1>1, <3>1 DEF StreamInv
      <3>3. /\ Len(delivered) + 1 <= Len(accepted)
            /\ rd[r].buf \o rd[r].out = accepted[Len(delivered) + 1]
        BY <2>3, <3>1, <3>2 DEF AtReceiver, ReaderAt
      <3>4. Len(delivered) < Len(accepted)
        BY <1>1, <3>3, LenProperties DEF TransferInv, TypeOK
      <3> QED
        BY <2>1, <3>1, <3>3, <3>4 DEF Channel!Deliver
    <2> QED
      BY <2>2, <2>3
  <1>9. ASSUME NEW r \in Readers,
               \/ RxCopyFault(r) \/ RxGiveUp(r, "ERESTARTSYS")
               \/ RxGiveUp(r, "ETIMEDOUT")
        PROVE  Channel!BreakReader
    <2>1. /\ UNCHANGED <<accepted, delivered, txError>>
          /\ \E e : rx' = Poisoned(rx, e)
      BY <1>9 DEF RxCopyFault, RxGiveUp, writing
    <2>2. rx'.state = "FAILED"
      BY <1>1, <2>1 DEF Poisoned, Receiver
    <2> QED
      BY <2>1, <2>2 DEF Channel!BreakReader
  <1>10. ~ResetTx /\ ~ResetRx
    BY <1>1 DEF ResetTx, ResetRx, TransferInv, TypeOK
  <1>11. CASE UNCHANGED vars
    BY <1>2, <1>11 DEF vars, writing, reading
  <1>12. CASE Next
    BY <1>1, <1>3, <1>4, <1>5, <1>6, <1>7, <1>8, <1>9, <1>10, <1>12,
       NothingRefused
    DEF Next, TxStep, RxEnter, RxStep, Channel!Next
  <1> QED
    BY <1>11, <1>12

(* The adapters, the protocol and the ring implement the fail-stop message *)
(* channel, for every instance without re-initialisation and foreign       *)
(* slots.                                                                  *)
THEOREM TransferImplementsChannel ==
  ASSUME AlienSlots = {}, MaxTxResets = 0, MaxRxResets = 0
  PROVE  Spec => ImplementsMessageChannel
  <1>1. Init => Channel!Init
    BY DEF Init, Channel!Init, ReceiverInit, OK
  <1>2. ChannelInv /\ [Next]_vars => [Channel!Next]_(Channel!vars)
    BY ChannelRefines
  <1> QED
    BY <1>1, <1>2, ChannelInvariant, PTL
    DEF Spec, ImplementsMessageChannel, Channel!Spec

-----------------------------------------------------------------------------
(* Foreign slots and re-initialised ends.  A receiver may then refuse      *)
(* frames and start anew anywhere, and the places above are lost; what is  *)
(* left is where the bytes of this code's own writes lie.                  *)

(* A point between two slots: the newest bytes of this code before it are  *)
(* the first off bytes of write number call, and the newest complete       *)
(* message of this code before it is the done-th accepted one.             *)
Spot == [call : Nat, off : Nat, done : Nat]

(* No byte is one of this code's writers.                                  *)
Foreign(m) == \A k \in DOMAIN m : m[k][1] = 0

(* Slot s lies between c and d: no byte in it is this code's, or it        *)
(* carries the first bytes of a write, or the next of the newest one.      *)
Starts(c, s) == IF First(s) THEN 0 ELSE c.off
Silent(c, s, d) == Foreign(s.fragment) /\ d = c
Speaks(acc, c, s, d) ==
  /\ First(s) \/ d.call = c.call
  /\ Starts(c, s) <= d.off
  /\ s.fragment = Bytes(d.call, Starts(c, s), d.off)
  /\ IF Last(s)
     THEN /\ d.done \in 1 .. Len(acc) /\ c.done < d.done
          /\ acc[d.done] = Payload(d.call, d.off)
     ELSE d.done = c.done

Pass(acc, c, s, d) == Silent(c, s, d) \/ Speaks(acc, c, s, d)

Passes(acc) ==
  {t \in Spot \X Slot \X Spot : Pass(acc, t[1], t[2], t[3])}

(* What a reader has collected.                                            *)
Got(r) == rd[r].buf \o rd[r].out

(* f tells which accepted message each delivered one of this code is.      *)
OwnDelivered == {i \in DOMAIN delivered : OwnMessage(delivered[i])}
InOrder(f) ==
  /\ \A i \in OwnDelivered : delivered[i] = accepted[f[i]]
  /\ \A i, j \in OwnDelivered : i < j => f[i] < f[j]

(* The receiver is at spot c: it has delivered nothing behind it, and what *)
(* a reader has collected is, unless foreign bytes are in it, the write    *)
(* before c, from its first byte on, and when complete a message that was  *)
(* not delivered before.                                                   *)
ReaderSpot(r, f, c) ==
  OwnMessage(Got(r)) =>
    /\ rx.state = "RECEIVING" => Got(r) = Payload(c.call, c.off)
    /\ rd[r].complete =>
         /\ c.done \in DOMAIN accepted /\ Got(r) = accepted[c.done]
         /\ \A i \in OwnDelivered : f[i] < c.done

ReceiverSpot(f, c) ==
  /\ \A i \in OwnDelivered : f[i] <= c.done
  /\ \A r \in Readers : rxLock = r => ReaderSpot(r, f, c)

(* The sender is at spot d: a writer in mid-message goes on behind it.     *)
SenderSpot(d) ==
  /\ d.done <= Len(accepted)
  /\ InMessage =>
       \A w \in Writers : txLock = w => d.call = wr[w].call /\ d.off = tx.sent

(* The slots of the ring lead from the receiver to the sender.             *)
TrailInv ==
  \E c, d \in Spot, f \in [OwnDelivered -> DOMAIN accepted] :
    /\ InOrder(f)
    /\ ReceiverSpot(f, c)
    /\ Chain(Spot, Passes(accepted), ring, c, d)
    /\ SenderSpot(d)

(* A message in progress has some bytes, so that they tell whose it is.    *)
OrderInv ==
  /\ TransferInv /\ CallsInv /\ TrailInv
  /\ rx.state = "RECEIVING" => rx.received # 0

-----------------------------------------------------------------------------
(* A message more in the history changes nothing of the slots between.     *)
LEMMA PassesMore ==
  ASSUME NEW acc \in Seq(Seq(Byte)), NEW m \in Seq(Byte)
  PROVE  Passes(acc) \subseteq Passes(Append(acc, m))
  <1> DEFINE more == Append(acc, m)
  <1>1. /\ Len(acc) \in Nat /\ Len(more) = Len(acc) + 1
        /\ \A k \in 1 .. Len(acc) : more[k] = acc[k]
    BY AppendProperties, LenProperties
  <1> HIDE DEF more
  <1>2. ASSUME NEW c, NEW s, NEW d, Pass(acc, c, s, d)
        PROVE  Pass(more, c, s, d)
    <2>1. d.done \in 1 .. Len(acc) =>
            d.done \in 1 .. Len(more) /\ more[d.done] = acc[d.done]
      BY <1>1
    <2>2. Speaks(acc, c, s, d) => Speaks(more, c, s, d)
      BY <2>1 DEF Speaks
    <2> QED
      BY <1>2, <2>2 DEF Pass
  <1> QED
    BY <1>2 DEF Passes, more

(* A part of a message of this code is one.                                *)
LEMMA OwnParts ==
  ASSUME NEW p \in Seq(Byte), NEW g \in Seq(Byte), OwnMessage(p \o g)
  PROVE  /\ p # <<>> => OwnMessage(p)
         /\ Foreign(g) => g = <<>>
  <1> DEFINE t == p \o g
  <1>1. /\ t \in Seq(Byte) /\ Len(t) = Len(p) + Len(g)
        /\ \A i \in 1 .. (Len(p) + Len(g)) :
             t[i] = IF i <= Len(p) THEN p[i] ELSE g[i - Len(p)]
        /\ Len(p) \in Nat /\ Len(g) \in Nat
        /\ DOMAIN t = 1 .. Len(t) /\ DOMAIN p = 1 .. Len(p)
        /\ DOMAIN g = 1 .. Len(g)
    BY ConcatProperties, LenProperties
  <1>2. \A i \in 1 .. Len(t) : t[i][1] # 0
    BY <1>1 DEF OwnMessage
  <1> HIDE DEF t
  <1>3. ASSUME NEW i \in 1 .. Len(p) PROVE p[i][1] # 0
    <2>1. i \in 1 .. Len(t) /\ t[i] = p[i]
      BY <1>1
    <2> QED
      BY <1>2, <2>1
  <1>4. ASSUME Foreign(g), g # <<>> PROVE FALSE
    <2>1. 1 \in 1 .. Len(g)
      BY <1>1, <1>4, EmptySeq
    <2>2. /\ Len(p) + 1 \in 1 .. Len(t)
          /\ t[Len(p) + 1] = g[1]
      <3>1. /\ Len(p) + 1 \in 1 .. (Len(p) + Len(g)) /\ ~(Len(p) + 1 <= Len(p))
            /\ (Len(p) + 1) - Len(p) = 1
        BY <1>1, <2>1
      <3> QED
        BY <1>1, <3>1
    <2>3. g[1][1] = 0
      BY <1>1, <1>4, <2>1 DEF Foreign
    <2> QED
      BY <1>2, <2>2, <2>3
  <1> QED
    BY <1>1, <1>3, <1>4 DEF OwnMessage

-----------------------------------------------------------------------------
(* What stays as it is.                                                    *)

(* A writer's step leaves what has been read as it is.                     *)
LEMMA ReadKept ==
  ASSUME TypeOK, NEW c \in Spot, NEW f \in [OwnDelivered -> DOMAIN accepted],
         InOrder(f), ReceiverSpot(f, c), UNCHANGED reading,
         \/ accepted' = accepted
         \/ \E m \in Seq(Byte) : accepted' = Append(accepted, m)
  PROVE  /\ f \in [OwnDelivered' -> DOMAIN accepted']
         /\ InOrder(f)' /\ ReceiverSpot(f, c)'
  <1>1. UNCHANGED <<rx, rxLock, rd, delivered, OwnDelivered>>
    BY DEF reading, OwnDelivered
  <1>2. \A k \in DOMAIN accepted :
          k \in DOMAIN accepted' /\ accepted'[k] = accepted[k]
    <2>1. CASE accepted' = accepted
      BY <2>1
    <2>2. ASSUME NEW m \in Seq(Byte), accepted' = Append(accepted, m)
          PROVE  \A k \in DOMAIN accepted :
                   k \in DOMAIN accepted' /\ accepted'[k] = accepted[k]
      <3>1. /\ accepted \in Seq(Seq(Byte)) /\ accepted' \in Seq(Seq(Byte))
            /\ Len(accepted') = Len(accepted) + 1
            /\ \A k \in 1 .. Len(accepted) : accepted'[k] = accepted[k]
        BY <2>2, AppendProperties DEF TypeOK
      <3>2. /\ DOMAIN accepted = 1 .. Len(accepted) /\ Len(accepted) \in Nat
            /\ DOMAIN accepted' = 1 .. Len(accepted')
        BY <3>1, LenProperties
      <3> QED
        BY <3>1, <3>2
    <2> QED
      BY <2>1, <2>2
  <1>3. f \in [OwnDelivered' -> DOMAIN accepted']
    BY <1>1, <1>2
  <1>4. InOrder(f)'
    BY <1>1, <1>2 DEF InOrder
  <1>5. ASSUME NEW r \in Readers, ReaderSpot(r, f, c)
        PROVE  ReaderSpot(r, f, c)'
    <2>1. Got(r)' = Got(r)
      BY <1>1 DEF Got
    <2> QED
      BY <1>1, <1>2, <1>5, <2>1 DEF ReaderSpot
  <1> QED
    BY <1>1, <1>3, <1>4, <1>5 DEF ReceiverSpot

(* A reader's step leaves what is to be written as it is.                  *)
LEMMA WrittenKept ==
  ASSUME NEW d \in Spot, SenderSpot(d), UNCHANGED <<accepted, tx>>,
         \A w \in Writers :
           txLock' = w => txLock = w /\ wr'[w].call = wr[w].call
  PROVE  SenderSpot(d)'
  BY DEF SenderSpot, InMessage

-----------------------------------------------------------------------------
(* Steps of the writers and around the transfer.                           *)

(* A step of the sending side that publishes slot s, or none.              *)
LEMMA SentStep ==
  ASSUME TypeOK, TrailInv, UNCHANGED reading,
         \/ accepted' = accepted
         \/ \E m \in Seq(Byte) : accepted' = Append(accepted, m),
         ASSUME NEW d \in Spot, SenderSpot(d)
         PROVE  \/ ring' = ring /\ SenderSpot(d)'
                \/ \E s \in Slot, e \in Spot :
                     /\ ring' = Append(ring, s)
                     /\ Pass(accepted', d, s, e)
                     /\ SenderSpot(e)'
  PROVE  TrailInv'
  <1>1. PICK c \in Spot, d \in Spot, f \in [OwnDelivered -> DOMAIN accepted] :
               /\ InOrder(f) /\ ReceiverSpot(f, c)
               /\ Chain(Spot, Passes(accepted), ring, c, d)
               /\ SenderSpot(d)
    BY DEF TrailInv
  <1>2. /\ f \in [OwnDelivered' -> DOMAIN accepted']
        /\ InOrder(f)' /\ ReceiverSpot(f, c)'
    BY <1>1, ReadKept
  <1>3. ring \in Seq(Slot) /\ accepted \in Seq(Seq(Byte))
    BY DEF TypeOK
  <1>4. Chain(Spot, Passes(accepted'), ring, c, d)
    <2>1. Passes(accepted) \subseteq Passes(accepted')
      BY <1>3, PassesMore
    <2> QED
      BY <1>1, <2>1, ChainMore
  <1>5. CASE ring' = ring /\ SenderSpot(d)'
    BY <1>2, <1>4, <1>5 DEF TrailInv
  <1>6. ASSUME NEW s \in Slot, NEW e \in Spot, ring' = Append(ring, s),
               Pass(accepted', d, s, e), SenderSpot(e)'
        PROVE  TrailInv'
    <2>1. <<d, s, e>> \in Passes(accepted')
      BY <1>6 DEF Passes
    <2>2. Chain(Spot, Passes(accepted'), ring', c, e)
      BY <1>3, <1>4, <1>6, <2>1, ChainAppend
    <2> QED
      BY <1>2, <1>6, <2>2 DEF TrailInv
  <1> QED
    BY <1>1, <1>5, <1>6

(* Steps that publish nothing.                                             *)
LEMMA TrailQuiet ==
  ASSUME TransferInv, TrailInv, NEW w \in Writers,
         \/ \E n \in Lengths : WriteCall(w, n)
         \/ TxInterrupted(w) \/ TxEnter(w) \/ TxFault(w) \/ TxGiveUp(w)
         \/ TxAbortLocal(w) \/ TxAbortGiveUp(w)
  PROVE  TrailInv'
  <1> USE TransferAssumption
  <1>1. /\ TypeOK /\ wr \in [Writers -> Writer] /\ tx \in Sender
        /\ \A v \in Writers : WriterInv(v)
    BY DEF TransferInv, TypeOK, SenderInv
  <1>2. UNCHANGED <<ring, accepted, reading>>
    BY DEF WriteCall, TxInterrupted, TxEnter, TxRefused, TxStart, TxFault,
           TxGiveUp, TxAbortLocal, TxAbortGiveUp
  <1>3. SUFFICES ASSUME NEW d \in Spot, SenderSpot(d) PROVE SenderSpot(d)'
    BY <1>1, <1>2, SentStep
  <1>4. ASSUME NEW n \in Lengths, WriteCall(w, n) PROVE SenderSpot(d)'
    <2>1. /\ UNCHANGED <<accepted, tx, txLock>> /\ txLock # w
          /\ \A v \in Writers : v # w => wr'[v] = wr[v]
      BY <1>1, <1>4 DEF WriteCall, WriterInv
    <2> QED
      BY <1>3, <2>1, WrittenKept
  <1>5. CASE TxInterrupted(w) \/ TxRefused(w) \/ TxAbortGiveUp(w)
    <2>1. UNCHANGED <<accepted, tx>> /\ WriteReturn(w)
      BY <1>5 DEF TxInterrupted, TxRefused, TxAbortGiveUp
    <2>2. ASSUME NEW v \in Writers, txLock' = v
          PROVE  txLock = v /\ wr'[v] = wr[v]
      BY <1>1, <1>5, <2>1, <2>2
      DEF WriteReturn, WriterInv, TxInterrupted, TxRefused, TxAbortGiveUp
    <2> QED
      BY <1>3, <2>1, <2>2, WrittenKept
  <1>6. CASE TxFault(w) \/ TxGiveUp(w)
    <2>1. /\ UNCHANGED <<accepted, tx, txLock>>
          /\ wr' = [wr EXCEPT ![w].pc = "abort"]
      BY <1>6 DEF TxFault, TxGiveUp
    <2>2. \A v \in Writers : wr'[v].call = wr[v].call
      BY <1>1, <2>1 DEF Writer
    <2> QED
      BY <1>3, <2>1, <2>2, WrittenKept
  <1>7. CASE TxStart(w) \/ TxAbortLocal(w)
    <2>1. accepted' = accepted /\ ~InMessage'
      BY <1>1, <1>7
      DEF TxStart, Start, StartError, OK, TxAbortLocal, Aborted, InMessage,
          Sender
    <2> QED
      BY <1>3, <2>1 DEF SenderSpot
  <1> QED
    BY <1>4, <1>5, <1>6, <1>7 DEF TxEnter

(* An ABORT frame, a slot of a peer, or the end of a session.              *)
LEMMA TrailAround ==
  ASSUME TransferInv, TrailInv, \A s \in AlienSlots : Foreign(s.fragment),
         \/ \E w \in Writers : TxAbortPush(w)
         \/ \E s \in AlienSlots : AlienPush(s)
         \/ ResetTx
  PROVE  TrailInv'
  <1> USE TransferAssumption
  <1>1. /\ TypeOK /\ tx \in Sender /\ \A v \in Writers : WriterInv(v)
    BY DEF TransferInv, TypeOK, SenderInv
  <1>2. ASSUME NEW w \in Writers, TxAbortPush(w) PROVE TrailInv'
    <2>1. /\ UNCHANGED reading /\ accepted' = accepted
          /\ ring' = Append(ring, AbortSlot(tx)) /\ ~InMessage'
      BY <1>1, <1>2 DEF TxAbortPush, Aborted, InMessage, Sender
    <2>2. AbortSlot(tx) \in Slot
      <3>1. tx.id \in Nat /\ tx.len \in Nat /\ <<>> \in Seq(Byte)
        BY <1>1 DEF Sender
      <3>2. {"ABORT"} \in SUBSET KnownFlags
        BY DEF KnownFlags
      <3> QED
        BY <3>1, <3>2, EncodeType DEF AbortSlot
    <2>3. Foreign(AbortSlot(tx).fragment)
      <3>1. AbortSlot(tx).fragment = <<>> /\ DOMAIN <<>> = {}
        BY DEF AbortSlot, Encode
      <3> QED
        BY <3>1 DEF Foreign
    <2>4. ASSUME NEW d \in Spot, SenderSpot(d)
          PROVE  Pass(accepted', d, AbortSlot(tx), d) /\ SenderSpot(d)'
      BY <2>1, <2>3, <2>4 DEF Pass, Silent, SenderSpot
    <2> QED
      BY <1>1, <2>1, <2>2, <2>4, SentStep
  <1>3. ASSUME NEW s \in AlienSlots, AlienPush(s) PROVE TrailInv'
    <2>1. /\ UNCHANGED reading /\ UNCHANGED <<accepted, tx, txLock, wr>>
          /\ ring' = Append(ring, s) /\ s \in Slot
      BY <1>3 DEF AlienPush, writing
    <2>2. ASSUME NEW d \in Spot, SenderSpot(d)
          PROVE  Pass(accepted', d, s, d) /\ SenderSpot(d)'
      BY <2>1, <2>2, WrittenKept DEF Pass, Silent
    <2> QED
      BY <1>1, <2>1, <2>2, SentStep
  <1>4. CASE ResetTx
    <2>1. UNCHANGED <<ring, accepted, reading>> /\ ~InMessage'
      BY <1>4 DEF ResetTx, InMessage, SenderInit
    <2>2. ASSUME NEW d \in Spot, SenderSpot(d) PROVE SenderSpot(d)'
      BY <2>1, <2>2 DEF SenderSpot
    <2> QED
      BY <1>1, <2>1, <2>2, SentStep
  <1> QED
    BY <1>2, <1>3, <1>4

(* A data frame of axivc_message_try_write.                                *)
LEMMA TrailPushed ==
  ASSUME TransferInv, CallsInv, TrailInv, NEW w \in Writers, TxPush(w)
  PROVE  TrailInv'
  <1> USE TransferAssumption
  <1> DEFINE n == Len(Chunk(w))
             call == wr[w].call
             off == tx.sent + n
             f == DataFlags(tx, n)
             s == Encode(tx.id, tx.len, f, Chunk(w))
             end == off = tx.len
  <1>1. /\ TypeOK /\ tx \in Sender /\ ring \in Seq(Slot) /\ WriterInv(w)
        /\ wr \in [Writers -> Writer] /\ accepted \in Seq(Seq(Byte))
    BY DEF TransferInv, TypeOK, SenderInv
  <1>2. /\ wr[w].pc = "send" /\ txLock = w /\ tx.sending
        /\ tx.len = wr[w].len /\ tx.sent = wr[w].sent
    BY <1>1 DEF TxPush, WriterInv
  <1>3. /\ n \in Nat /\ off \in Nat /\ off <= tx.len /\ call \in Nat
        /\ tx.id \in Nat /\ tx.len \in Nat /\ tx.sent \in Nat
        /\ Chunk(w) \in Seq(Byte)
        /\ Chunk(w) = Bytes(call, tx.sent, off)
        /\ tx.sending \in BOOLEAN /\ tx.published_any \in BOOLEAN
    BY <1>1, <1>2, ChunkType, ChunkBytes DEF Sender
  <1>4. /\ ring' = Append(ring, s) /\ tx' = Pushed(tx, n)
        /\ UNCHANGED reading
    BY DEF TxPush
  <1>5. s \in Slot
    <2>1. f \in SUBSET KnownFlags
      BY DEF DataFlags, KnownFlags
    <2> HIDE DEF f
    <2> QED
      BY <1>3, <2>1, EncodeType
  <1>6. /\ tx'.sending <=> ~end
        /\ tx'.sending => tx'.sent = off
    BY <1>1, <1>3, <1>4, PushedFacts
  <1>7. /\ ~end => /\ accepted' = accepted /\ txLock' = txLock
                   /\ wr' = [wr EXCEPT ![w].sent = @ + n]
        /\ end => accepted' = Append(accepted, Payload(call, tx.len))
    BY <1>2, <1>4, <1>6 DEF TxPush
  <1>8. /\ s.fragment = Bytes(call, tx.sent, off)
        /\ First(s) <=> ~tx.published_any
        /\ Last(s) <=> end
    BY <1>3 DEF Encode, First, Last, DataFlags
  <1> HIDE DEF n, off, f, call, end, s
  <1>9. /\ \/ accepted' = accepted
           \/ \E m \in Seq(Byte) : accepted' = Append(accepted, m)
        /\ Len(accepted) \in Nat /\ (~end => accepted' = accepted)
        /\ end => /\ Len(accepted') = Len(accepted) + 1
                  /\ accepted'[Len(accepted) + 1] = Payload(call, off)
    <2>1. Payload(call, tx.len) \in Seq(Byte)
      BY <1>3, PayloadType
    <2>2. CASE end
      <3> DEFINE m == Payload(call, tx.len)
      <3> HIDE DEF m
      <3>1. accepted' = Append(accepted, m) /\ m \in Seq(Byte)
        BY <1>7, <2>1, <2>2 DEF m
      <3>2. /\ Len(Append(accepted, m)) = Len(accepted) + 1
            /\ Append(accepted, m)[Len(accepted) + 1] = m
            /\ Len(accepted) \in Nat
        BY <1>1, <3>1, AppendProperties, LenProperties
      <3> QED
        BY <2>2, <3>1, <3>2 DEF m, end
    <2>3. CASE ~end
      BY <1>1, <1>7, <2>3, LenProperties
    <2> QED
      BY <2>2, <2>3
  <1>10. ASSUME NEW d \in Spot, SenderSpot(d)
         PROVE  \E e \in Spot : Pass(accepted', d, s, e) /\ SenderSpot(e)'
    <2>1. PICK e \in Spot :
                 /\ e.call = call /\ e.off = off
                 /\ e.done = IF end THEN Len(accepted) + 1 ELSE d.done
      <3> DEFINE b == [call |-> call, off |-> off,
                       done |-> IF end THEN Len(accepted) + 1 ELSE d.done]
      <3>1. d.done \in Nat
        BY DEF Spot
      <3>2. b \in Spot
        BY <1>3, <1>9, <3>1 DEF Spot
      <3>3. /\ b.call = call /\ b.off = off
            /\ b.done = IF end THEN Len(accepted) + 1 ELSE d.done
        OBVIOUS
      <3> HIDE DEF b
      <3> QED
        BY <3>2, <3>3
    <2>2. /\ d.done \in Nat /\ d.done <= Len(accepted)
          /\ tx.published_any => d.call = call /\ d.off = tx.sent
          /\ ~tx.published_any => tx.sent = 0
      BY <1>2, <1>10 DEF Spot, SenderSpot, InMessage, CallsInv, call
    <2>3. Starts(d, s) = tx.sent /\ (First(s) \/ e.call = d.call)
      BY <1>3, <1>8, <2>1, <2>2 DEF Starts
    <2>4. tx.sent <= off
      BY <1>3 DEF off
    <2>5. Last(s) => /\ e.done \in 1 .. Len(accepted') /\ d.done < e.done
                     /\ accepted'[e.done] = Payload(e.call, e.off)
      BY <1>8, <1>9, <2>1, <2>2
    <2>6. ~Last(s) => e.done = d.done
      BY <1>8, <2>1
    <2>7. Speaks(accepted', d, s, e)
      BY <1>8, <2>1, <2>3, <2>4, <2>5, <2>6 DEF Speaks
    <2>8. e.done <= Len(accepted')
      BY <1>9, <2>1, <2>2
    <2>9. ASSUME NEW v \in Writers, InMessage', txLock' = v
          PROVE  e.call = wr'[v].call /\ e.off = tx'.sent
      <3>1. ~end
        BY <1>6, <2>9 DEF InMessage
      <3>2. v = w /\ wr' = [wr EXCEPT ![w].sent = @ + n]
        BY <1>2, <1>7, <2>9, <3>1
      <3>3. wr'[w].call = wr[w].call
        BY <1>1, <3>2 DEF Writer
      <3> QED
        BY <1>6, <2>1, <3>1, <3>2, <3>3 DEF call
    <2>10. SenderSpot(e)'
      BY <2>8, <2>9 DEF SenderSpot
    <2> QED
      BY <2>7, <2>10 DEF Pass
  <1> QED
    BY <1>1, <1>4, <1>5, <1>9, <1>10, SentStep

-----------------------------------------------------------------------------
(* Steps of the readers.                                                   *)

(* A step of the receiving side that takes no slot.                        *)
LEMMA ReadStep ==
  ASSUME TrailInv, ring' = ring, UNCHANGED writing,
         ASSUME NEW c \in Spot, NEW f \in [OwnDelivered -> DOMAIN accepted],
                InOrder(f), ReceiverSpot(f, c)
         PROVE  \E g \in [OwnDelivered' -> DOMAIN accepted] :
                  InOrder(g)' /\ ReceiverSpot(g, c)'
  PROVE  TrailInv'
  <1>1. PICK c \in Spot, d \in Spot, f \in [OwnDelivered -> DOMAIN accepted] :
               /\ InOrder(f) /\ ReceiverSpot(f, c)
               /\ Chain(Spot, Passes(accepted), ring, c, d)
               /\ SenderSpot(d)
    BY DEF TrailInv
  <1>2. UNCHANGED <<accepted, tx, txLock, wr>>
    BY DEF writing
  <1>3. SenderSpot(d)'
    BY <1>1, <1>2, WrittenKept
  <1>4. PICK g \in [OwnDelivered' -> DOMAIN accepted] :
               InOrder(g)' /\ ReceiverSpot(g, c)'
    BY <1>1
  <1>5. Chain(Spot, Passes(accepted'), ring', c, d)
    BY <1>1, <1>2
  <1> QED
    BY <1>2, <1>3, <1>4, <1>5 DEF TrailInv

(* Steps that neither take a slot nor complete a read.                     *)
LEMMA TrailReadQuiet ==
  ASSUME TransferInv, TrailInv,
         \/ \E r \in Readers :
              \/ \E n \in ReadSizes : ReadCall(r, n)
              \/ RxInterrupted(r) \/ RxEnter(r) \/ RxReturn(r) \/ RxFail(r)
              \/ RxCopy(r) /\ ~rd[r].complete
              \/ RxCopyFault(r) \/ \E e \in Errno : RxGiveUp(r, e)
         \/ ResetRx
  PROVE  TrailInv'
  <1> USE TransferAssumption
  <1>1. /\ TypeOK /\ rd \in [Readers -> Reader]
        /\ ReceiverInv /\ \A q \in Readers : ReaderInv(q)
    BY DEF TransferInv, TypeOK, ReceiverInv
  <1>2. UNCHANGED <<ring, writing, delivered>>
    BY DEF ReadCall, RxInterrupted, RxEnter, RxNothing, RxRefuse, RxTooSmall,
           RxStart, RxReturn, RxFail, RxCopy, RxCopyFault, RxGiveUp, ResetRx
  <1>3. accepted' = accepted /\ OwnDelivered' = OwnDelivered
    BY <1>2 DEF writing, OwnDelivered
  <1>4. SUFFICES
          ASSUME NEW c \in Spot, NEW f \in [OwnDelivered -> DOMAIN accepted],
                 ReceiverSpot(f, c), NEW q \in Readers, rxLock' = q
          PROVE  ReaderSpot(q, f, c)'
    <2>1. ASSUME NEW c \in Spot, NEW f \in [OwnDelivered -> DOMAIN accepted],
                 InOrder(f), ReceiverSpot(f, c)
          PROVE  InOrder(f)' /\ ReceiverSpot(f, c)'
      BY <1>2, <1>3, <1>4, <2>1 DEF InOrder, ReceiverSpot
    <2>2. ASSUME NEW c \in Spot, NEW f \in [OwnDelivered -> DOMAIN accepted],
                 InOrder(f), ReceiverSpot(f, c)
          PROVE  \E g \in [OwnDelivered' -> DOMAIN accepted] :
                   InOrder(g)' /\ ReceiverSpot(g, c)'
      BY <1>3, <2>1, <2>2
    <2> QED
      BY <1>2, <2>2, ReadStep
  <1>5. ASSUME rxLock = q, rx' = rx, Got(q)' = Got(q),
               rd'[q].complete = rd[q].complete
        PROVE  ReaderSpot(q, f, c)'
    BY <1>3, <1>4, <1>5 DEF ReceiverSpot, ReaderSpot
  <1>6. ASSUME NEW r \in Readers, NEW n \in ReadSizes, ReadCall(r, n)
        PROVE  ReaderSpot(q, f, c)'
    <2>1. /\ UNCHANGED <<rxLock, rx>> /\ rxLock # r /\ rd'[q] = rd[q]
      BY <1>1, <1>4, <1>6 DEF ReadCall, ReaderInv
    <2> QED
      BY <1>4, <1>5, <2>1 DEF Got
  <1>7. ASSUME NEW r \in Readers,
               RxInterrupted(r) \/ RxNothing(r) \/ RxTooSmall(r)
        PROVE  ReaderSpot(q, f, c)'
    <2>1. rx' = rx /\ rxLock # r /\ ReadReturn(r)
      BY <1>1, <1>7
      DEF RxInterrupted, RxNothing, RxTooSmall, Entering, ReaderInv
    <2>2. rxLock' = rxLock /\ rd'[q] = rd[q]
      BY <1>1, <1>4, <2>1 DEF ReadReturn
    <2> QED
      BY <1>4, <1>5, <2>1, <2>2 DEF Got
  <1>8. ASSUME NEW r \in Readers,
               \/ RxRefuse(r) \/ RxFail(r) \/ RxCopyFault(r)
               \/ \E e \in Errno : RxGiveUp(r, e)
        PROVE  FALSE
    <2>1. ReadReturn(r) /\ rxLock \in {r, NoThread}
      BY <1>1, <1>8
      DEF RxRefuse, RxFail, RxCopyFault, RxGiveUp, Entering, ReaderInv
    <2> QED
      BY <1>4, <2>1 DEF ReadReturn
  <1>9. ASSUME NEW r \in Readers, RxStart(r) PROVE ReaderSpot(q, f, c)'
    <2>1. /\ rxLock = NoThread /\ q = r /\ rx' = rx
          /\ rd'[r].complete = rd[r].complete
      BY <1>1, <1>4, <1>9 DEF RxStart, Entering, Reader
    <2>2. rx.state # "RECEIVING" /\ ~rd[r].complete
      BY <1>1, <2>1 DEF ReceiverInv, ReaderInv
    <2> QED
      BY <2>1, <2>2 DEF ReaderSpot
  <1>10. ASSUME NEW r \in Readers, RxReturn(r) PROVE ReaderSpot(q, f, c)'
    <2>1. UNCHANGED <<rxLock, rx>> /\ rd' = [rd EXCEPT ![r].pc = "copy"]
      BY <1>10 DEF RxReturn
    <2>2. /\ rd'[q].complete = rd[q].complete
          /\ rd'[q].buf = rd[q].buf /\ rd'[q].out = rd[q].out
      BY <1>1, <2>1 DEF Reader
    <2> QED
      BY <1>4, <1>5, <2>1, <2>2 DEF Got
  <1>11. ASSUME NEW r \in Readers, RxCopy(r), ~rd[r].complete
         PROVE  ReaderSpot(q, f, c)'
    <2>1. /\ UNCHANGED <<rxLock, rx>>
          /\ rd' = [rd EXCEPT ![r].pc = "read", ![r].took = FALSE,
                              ![r].buf = @ \o rd[r].out, ![r].out = <<>>]
      BY <1>11 DEF RxCopy
    <2>2. /\ rd'[q].complete = rd[q].complete
          /\ q # r => rd'[q] = rd[q]
          /\ rd'[r].buf = rd[r].buf \o rd[r].out /\ rd'[r].out = <<>>
      BY <1>1, <2>1 DEF Reader
    <2>3. Got(r)' = Got(r)
      <3> DEFINE m == rd[r].buf \o rd[r].out
      <3>1. rd[r].buf \in Seq(Byte) /\ rd[r].out \in Seq(Byte)
        BY <1>1 DEF Reader
      <3>2. m \in Seq(Byte)
        BY <3>1, ConcatProperties
      <3> HIDE DEF m
      <3>3. m \o <<>> = m
        BY <3>2, ConcatEmptySeq
      <3> QED
        BY <2>2, <3>3 DEF m, Got
    <2>4. q # r => Got(q)' = Got(q)
      BY <2>2 DEF Got
    <2> QED
      BY <1>4, <1>5, <2>1, <2>2, <2>3, <2>4
  <1>12. ASSUME ResetRx PROVE FALSE
    BY <1>1, <1>4, <1>12 DEF ResetRx, ReaderInv
  <1> QED
    BY <1>6, <1>7, <1>8, <1>9, <1>10, <1>11, <1>12 DEF RxEnter

(* A read completes.                                                       *)
LEMMA TrailDelivered ==
  ASSUME TransferInv, TrailInv, NEW r \in Readers, RxCopy(r), rd[r].complete
  PROVE  TrailInv'
  <1> USE TransferAssumption
  <1> DEFINE m == Got(r)
             n == Len(delivered) + 1
  <1>1. /\ rd[r] \in Reader /\ ReaderInv(r)
        /\ delivered \in Seq(Seq(Byte)) /\ accepted \in Seq(Seq(Byte))
    BY DEF TransferInv, TypeOK, ReceiverInv
  <1>2. /\ UNCHANGED <<ring, writing>> /\ delivered' = Append(delivered, m)
        /\ rxLock = r /\ rxLock' = NoThread /\ accepted' = accepted
    BY <1>1 DEF RxCopy, ReaderInv, ReadReturn, Got, writing
  <1>3. m \in Seq(Byte)
    BY <1>1, ConcatProperties DEF Reader, Got
  <1> HIDE DEF m
  <1>4. /\ Len(delivered) \in Nat /\ n \in Nat
        /\ DOMAIN delivered = 1 .. Len(delivered)
        /\ DOMAIN delivered' = 1 .. n /\ delivered'[n] = m
        /\ \A i \in 1 .. Len(delivered) : delivered'[i] = delivered[i]
    <2>1. /\ delivered' \in Seq(Seq(Byte)) /\ Len(delivered') = n
          /\ delivered'[n] = m
          /\ \A i \in 1 .. Len(delivered) : delivered'[i] = delivered[i]
      BY <1>1, <1>2, <1>3, AppendProperties
    <2> QED
      BY <1>1, <2>1, LenProperties
  <1>5. OwnDelivered' = IF OwnMessage(m) THEN OwnDelivered \cup {n}
                                         ELSE OwnDelivered
    BY <1>4 DEF OwnDelivered
  <1>6. \A i \in OwnDelivered :
          i \in Nat /\ i < n /\ delivered'[i] = delivered[i]
    BY <1>4 DEF OwnDelivered
  <1> HIDE DEF n
  <1>7. ASSUME NEW c \in Spot, NEW f \in [OwnDelivered -> DOMAIN accepted],
               InOrder(f), ReceiverSpot(f, c)
        PROVE  \E g \in [OwnDelivered' -> DOMAIN accepted] :
                 InOrder(g)' /\ ReceiverSpot(g, c)'
    <2>1. CASE ~OwnMessage(m)
      <3>1. OwnDelivered' = OwnDelivered
        BY <1>5, <2>1
      <3>2. InOrder(f)'
        BY <1>2, <1>6, <1>7, <3>1 DEF InOrder
      <3>3. ReceiverSpot(f, c)'
        BY <1>2, <1>7, <3>1 DEF ReceiverSpot
      <3> QED
        BY <3>1, <3>2, <3>3
    <2>2. CASE OwnMessage(m)
      <3>1. /\ OwnDelivered' = OwnDelivered \cup {n} /\ n \notin OwnDelivered
        BY <1>4, <1>5, <1>6, <2>2
      <3>2. /\ c.done \in DOMAIN accepted /\ m = accepted[c.done]
            /\ \A i \in OwnDelivered : f[i] < c.done
        BY <1>2, <1>7, <2>2 DEF ReceiverSpot, ReaderSpot, m
      <3>3. PICK g \in [OwnDelivered' -> DOMAIN accepted] :
                   g[n] = c.done /\ \A i \in OwnDelivered : g[i] = f[i]
        <4> DEFINE h == [i \in OwnDelivered' |->
                           IF i = n THEN c.done ELSE f[i]]
        <4>1. /\ h \in [OwnDelivered' -> DOMAIN accepted]
              /\ h[n] = c.done /\ \A i \in OwnDelivered : h[i] = f[i]
          BY <3>1, <3>2
        <4> HIDE DEF h
        <4> QED
          BY <4>1
      <3>4. \A i \in OwnDelivered' : delivered'[i] = accepted'[g[i]]
        BY <1>2, <1>4, <1>6, <1>7, <3>1, <3>2, <3>3 DEF InOrder
      <3>5. ASSUME NEW i \in OwnDelivered', NEW j \in OwnDelivered', i < j
            PROVE  g[i] < g[j]
        <4>1. i # n
          BY <1>4, <1>6, <3>1, <3>5
        <4>2. i \in OwnDelivered
          BY <3>1, <4>1
        <4> QED
          BY <1>7, <3>1, <3>2, <3>3, <3>5, <4>2 DEF InOrder
      <3>6. ASSUME NEW i \in OwnDelivered' PROVE g[i] <= c.done
        <4>1. c.done \in Nat
          BY DEF Spot
        <4> QED
          BY <1>7, <3>1, <3>3, <4>1 DEF ReceiverSpot
      <3>7. InOrder(g)'
        BY <3>4, <3>5 DEF InOrder
      <3>8. ReceiverSpot(g, c)'
        BY <1>2, <3>6 DEF ReceiverSpot
      <3> QED
        BY <3>3, <3>7, <3>8
    <2> QED
      BY <2>1, <2>2
  <1> QED
    BY <1>2, <1>7, ReadStep

(* Bytes may be joined in any order.                                       *)
LEMMA JoinAssociative ==
  ASSUME NEW p \in Seq(Byte), NEW out \in Seq(Byte), NEW g \in Seq(Byte)
  PROVE  p \o (out \o g) = (p \o out) \o g
  BY ConcatAssociative

(* A frame that axivc_process_available_slots consumes.                    *)
LEMMA FrameTaken ==
  ASSUME TransferInv, NEW r \in Readers, RxTake(r), ~Abort(Head(ring))
  PROVE  LET slot == Head(ring)
         IN  /\ slot.fragment \in Seq(Byte)
             /\ Got(r) \in Seq(Byte)
             /\ Got(r)' = Got(r) \o slot.fragment
             /\ rxLock' = rxLock /\ rd'[r].complete = Last(slot)
             /\ rx'.state = IF Last(slot) THEN "IDLE" ELSE "RECEIVING"
             /\ First(slot) => Got(r) = <<>>
             /\ ~First(slot) => /\ rx.state = "RECEIVING"
                                /\ rx.received # 0 => Got(r) # <<>>
             /\ slot.fragment = <<>> => First(slot) /\ Last(slot)
             /\ ~Last(slot) => rx'.received # 0
  <1> USE TransferAssumption
  <1> DEFINE slot == Head(ring)
             buf == rd[r].buf
             out == rd[r].out
             g == slot.fragment
  <1>1. /\ rd \in [Readers -> Reader] /\ rd[r] \in Reader
        /\ ReaderInv(r) /\ rx \in Receiver /\ rd[r].pc = "read"
        /\ rx' = Transition(rx, slot) /\ SlotError(rx, slot) = OK
    BY DEF RxTake, Consumable, TransferInv, TypeOK, ReceiverInv
  <1>2. /\ rxLock = r /\ rx.state \in {"IDLE", "RECEIVING"}
    BY <1>1 DEF ReaderInv, Receiver
  <1>3. /\ slot \in Slot
        /\ rx'.state = IF Last(slot) THEN "IDLE" ELSE "RECEIVING"
    BY TakeFacts
  <1>4. /\ rd' = [rd EXCEPT ![r].out = @ \o g, ![r].took = TRUE,
                            ![r].complete = Last(slot),
                            ![r].pc = IF Last(slot) THEN "copy" ELSE "read"]
        /\ UNCHANGED rxLock
    BY DEF RxTake
  <1> HIDE DEF slot
  <1>5. g \in Seq(Byte) /\ slot.fragment_len \in Nat
    BY <1>3 DEF Slot
  <1>6. buf \in Seq(Byte) /\ out \in Seq(Byte) /\ rx.received \in Nat
    BY <1>1 DEF Reader, Receiver
  <1>7. /\ rd'[r].buf = buf /\ rd'[r].out = out \o g
        /\ rd'[r].complete = Last(slot)
    BY <1>1, <1>4 DEF Reader
  <1>8. /\ DecodeError(slot) = OK /\ TransitionError(rx, slot) = OK
    BY <1>1 DEF SlotError, OK
  <1>9. /\ Len(g) = slot.fragment_len
        /\ ShapeOK(slot.message_len, slot.fragment_len, slot.flags)
    BY <1>3, <1>8, DecodeFacts
  <1>10. rx.state = "IDLE" <=> First(slot)
    BY <1>2, <1>8 DEF TransitionError, OK
  <1>11. slot.fragment_len = 0 => First(slot) /\ Last(slot)
    BY <1>9 DEF ShapeOK, Abort, First, Last, slot
  <1>12. /\ Got(r) = buf \o out /\ buf \o out \in Seq(Byte)
         /\ Len(buf \o out) = Len(buf) + Len(out)
    BY <1>6, ConcatProperties DEF Got
  <1>13. rx.state = "IDLE" => buf = <<>> /\ out = <<>>
    BY <1>1 DEF ReaderInv
  <1>14. First(slot) => Got(r) = <<>>
    <2>1. <<>> \o <<>> = <<>>
      OBVIOUS
    <2> QED
      BY <1>10, <1>12, <1>13, <2>1
  <1>15. ~First(slot) =>
           rx.state = "RECEIVING" /\ rx.received = Len(buf \o out)
    BY <1>1, <1>2, <1>10, <1>12 DEF ReaderInv
  <1>16. Got(r)' = Got(r) \o g
    <2>1. Got(r)' = buf \o (out \o g)
      BY <1>7 DEF Got
    <2>2. buf \in Seq(Byte) /\ out \in Seq(Byte) /\ g \in Seq(Byte)
      BY <1>5, <1>6
    <2> HIDE DEF buf, out, g
    <2>3. buf \o (out \o g) = (buf \o out) \o g
      BY <2>2, JoinAssociative
    <2> QED
      BY <1>12, <2>1, <2>3
  <1>17. ~Last(slot) => rx'.received # 0
    <2>1. rx'.received =
            (IF rx.state = "IDLE" THEN 0 ELSE rx.received) + slot.fragment_len
      BY <1>1 DEF Transition
    <2> QED
      BY <1>5, <1>6, <1>11, <2>1
  <1>18. g = <<>> => slot.fragment_len = 0
    BY <1>9
  <1>19. rx.received # 0 /\ ~First(slot) => Got(r) # <<>>
    <2>1. Len(<<>>) = 0
      OBVIOUS
    <2> QED
      BY <1>12, <1>15, <2>1
  <1> QED
    BY <1>3, <1>4, <1>5, <1>7, <1>11, <1>12, <1>14, <1>15, <1>16, <1>17, <1>18,
       <1>19
    DEF slot

(* A slot consumed moves the receiver to the next spot.                    *)
LEMMA TrailTaken ==
  ASSUME TransferInv, TrailInv, NEW r \in Readers, RxTake(r),
         rx.state = "RECEIVING" => rx.received # 0
  PROVE  TrailInv'
  <1> USE TransferAssumption
  <1> DEFINE slot == Head(ring)
             g == slot.fragment
  <1>1. /\ ReaderInv(r) /\ ring \in Seq(Slot) /\ accepted \in Seq(Seq(Byte))
        /\ ring # <<>> /\ ring' = Tail(ring) /\ rd[r].pc = "read"
        /\ UNCHANGED <<delivered, writing>>
    BY DEF RxTake, Consumable, TransferInv, TypeOK, ReceiverInv
  <1>2. /\ rxLock = r /\ UNCHANGED <<accepted, tx, txLock, wr>>
        /\ OwnDelivered' = OwnDelivered
    BY <1>1 DEF ReaderInv, writing, OwnDelivered
  <1>3. PICK c \in Spot, d \in Spot, f \in [OwnDelivered -> DOMAIN accepted] :
               /\ InOrder(f) /\ ReceiverSpot(f, c)
               /\ Chain(Spot, Passes(accepted), ring, c, d)
               /\ SenderSpot(d)
    BY DEF TrailInv
  <1>4. PICK b \in Spot : /\ <<c, slot, b>> \in Passes(accepted)
                          /\ Chain(Spot, Passes(accepted), Tail(ring), b, d)
    BY <1>1, <1>3, ChainTail
  <1>5. Pass(accepted, c, slot, b)
    BY <1>4 DEF Passes
  <1>6. /\ SenderSpot(d)' /\ InOrder(f)'
        /\ Chain(Spot, Passes(accepted'), ring', b, d)
    BY <1>1, <1>2, <1>3, <1>4, WrittenKept DEF InOrder
  <1>7. /\ c.done \in Nat /\ b.done \in Nat /\ c.done <= b.done
        /\ c.off \in Nat /\ b.off \in Nat /\ b.call \in Nat /\ c.call \in Nat
        /\ Starts(c, slot) \in Nat
    <2>1. /\ c.done \in Nat /\ b.done \in Nat /\ c.off \in Nat
          /\ b.off \in Nat /\ b.call \in Nat /\ c.call \in Nat
      BY DEF Spot
    <2>2. c.done <= b.done
      BY <1>5, <2>1 DEF Pass, Silent, Speaks
    <2> QED
      BY <2>1, <2>2 DEF Starts
  <1>8. \A i \in OwnDelivered : f[i] <= c.done /\ f[i] \in Nat
    <2>1. DOMAIN accepted \subseteq Nat
      BY <1>1, LenProperties
    <2> QED
      BY <1>3, <2>1 DEF ReceiverSpot
  <1>9. \A i \in OwnDelivered' : f[i] <= b.done
    BY <1>2, <1>7, <1>8
  <1>10. SUFFICES ASSUME rxLock' = r PROVE ReaderSpot(r, f, b)'
    <2>1. \A q \in Readers : rxLock' = q => q = r
      BY <1>2 DEF RxTake, ReadReturn
    <2>2. ReceiverSpot(f, b)'
      BY <1>9, <1>10, <2>1 DEF ReceiverSpot
    <2> QED
      BY <1>2, <1>6, <2>2 DEF TrailInv
  <1>11. ~Abort(slot)
    BY <1>2, <1>10 DEF RxTake, ReadReturn
  <1>12. /\ g \in Seq(Byte) /\ Got(r) \in Seq(Byte)
         /\ Got(r)' = Got(r) \o g
         /\ rd'[r].complete = Last(slot)
         /\ rx'.state = (IF Last(slot) THEN "IDLE" ELSE "RECEIVING")
         /\ First(slot) => Got(r) = <<>>
         /\ ~First(slot) => rx.state = "RECEIVING" /\ Got(r) # <<>>
         /\ g = <<>> => First(slot)
    BY <1>11, FrameTaken
  <1>13. SUFFICES ASSUME OwnMessage(Got(r)')
                  PROVE  /\ Got(r)' = Payload(b.call, b.off)
                         /\ Speaks(accepted, c, slot, b)
    <2>1. Speaks(accepted, c, slot, b) /\ Last(slot) =>
            /\ b.done \in DOMAIN accepted /\ c.done < b.done
            /\ accepted[b.done] = Payload(b.call, b.off)
      BY <1>1, LenProperties DEF Speaks
    <2>2. ASSUME c.done < b.done, NEW i \in OwnDelivered PROVE f[i] < b.done
      BY <1>7, <1>8, <2>2
    <2>3. ASSUME OwnMessage(Got(r)')
          PROVE  /\ rx'.state = "RECEIVING" => Got(r)' = Payload(b.call, b.off)
                 /\ rd'[r].complete =>
                      /\ b.done \in DOMAIN accepted
                      /\ Got(r)' = accepted[b.done]
                      /\ \A i \in OwnDelivered : f[i] < b.done
      BY <1>12, <1>13, <2>1, <2>2, <2>3
    <2> QED
      BY <1>2, <2>3 DEF ReaderSpot
  <1> HIDE DEF slot, g
  <1>14. /\ Got(r) # <<>> => OwnMessage(Got(r))
         /\ Foreign(g) => g = <<>>
    BY <1>12, <1>13, OwnParts
  <1>15. ~Foreign(g)
    <2>1. SUFFICES ASSUME g = <<>> PROVE FALSE
      BY <1>14
    <2>2. Got(r)' = <<>> \o <<>> /\ <<>> \o <<>> = <<>>
      BY <1>12, <2>1
    <2> QED
      BY <1>13, <2>2 DEF OwnMessage
  <1>16. Speaks(accepted, c, slot, b)
    BY <1>5, <1>15 DEF Pass, Silent, g
  <1>17. Got(r) = Payload(b.call, Starts(c, slot))
    <2>1. CASE First(slot)
      <3>1. Payload(b.call, 0) = <<>>
        BY DEF Payload
      <3> QED
        BY <1>12, <2>1, <3>1 DEF Starts
    <2>2. CASE ~First(slot)
      <3>1. Got(r) = Payload(c.call, c.off)
        BY <1>2, <1>3, <1>12, <1>14, <2>2 DEF ReceiverSpot, ReaderSpot
      <3> QED
        BY <1>16, <2>2, <3>1 DEF Speaks, Starts
    <2> QED
      BY <2>1, <2>2
  <1>18. /\ Starts(c, slot) <= b.off
         /\ g = Bytes(b.call, Starts(c, slot), b.off)
    BY <1>16 DEF Speaks, g
  <1>19. Got(r)' = Payload(b.call, b.off)
    <2>1. Payload(b.call, Starts(c, slot)) \o g = Payload(b.call, b.off)
      BY <1>7, <1>18, PayloadGrows
    <2> QED
      BY <1>12, <1>17, <2>1
  <1> QED
    BY <1>16, <1>19

-----------------------------------------------------------------------------
(* Order.                                                                  *)

(* The initial state.                                                      *)
LEMMA OrderInit == Init => OrderInv
  <1> SUFFICES ASSUME Init PROVE OrderInv
    OBVIOUS
  <1> USE TransferAssumption
  <1>1. TransferInv /\ CallsInv
    BY ChannelInit DEF ChannelInv
  <1>2. rx.state # "RECEIVING"
    BY DEF Init, ReceiverInit
  <1>3. TrailInv
    <2> DEFINE c == [call |-> 0, off |-> 0, done |-> 0]
               f == [i \in {} |-> 0]
    <2>1. c \in Spot /\ c.done = 0
      BY DEF Spot
    <2>2. /\ OwnDelivered = {} /\ Len(accepted) = 0
          /\ f \in [OwnDelivered -> DOMAIN accepted]
      BY DEF Init, OwnDelivered
    <2> HIDE DEF c, f
    <2>3. InOrder(f)
      BY <2>2 DEF InOrder
    <2>4. ReceiverSpot(f, c)
      BY <2>2 DEF ReceiverSpot, Init
    <2>5. SenderSpot(c)
      BY <2>1, <2>2 DEF SenderSpot, Init, InMessage, SenderInit
    <2>6. Chain(Spot, Passes(accepted), ring, c, c)
      BY <2>1, ChainEmpty DEF Init
    <2> QED
      BY <2>1, <2>2, <2>3, <2>4, <2>5, <2>6 DEF TrailInv
  <1> QED
    BY <1>1, <1>2, <1>3 DEF OrderInv

(* Every step keeps the invariant, re-initialisations and slots of other   *)
(* peers included.                                                         *)
LEMMA OrderStep ==
  ASSUME \A s \in AlienSlots : Foreign(s.fragment), OrderInv, [Next]_vars
  PROVE  OrderInv'
  <1> USE TransferAssumption
  <1>1. /\ TransferInv /\ CallsInv /\ TrailInv
        /\ rx.state = "RECEIVING" => rx.received # 0
    BY DEF OrderInv
  <1> DEFINE Counted == rx.state = "RECEIVING" => rx.received # 0
             Goal == CallsInv' /\ TrailInv' /\ Counted'
  <1>2. TransferInv'
    BY <1>1, TransferStep
  <1> SUFFICES Goal
    BY <1>2 DEF OrderInv
  <1>3. ASSUME NEW w \in Writers,
               \/ \E n \in Lengths : WriteCall(w, n)
               \/ TxInterrupted(w) \/ TxEnter(w) \/ TxFault(w) \/ TxStep(w)
        PROVE  Goal
    <2>1. CallsInv'
      BY <1>1, <1>3, WriterCalls
    <2>2. rx' = rx
      BY <1>3
      DEF WriteCall, TxInterrupted, TxEnter, TxRefused, TxStart, TxFault,
          TxStep, TxPush, TxGiveUp, TxAbortLocal, TxAbortPush, TxAbortGiveUp,
          reading
    <2>3. TxAbortPush(w) => TrailInv'
      BY <1>1, TrailAround
    <2>4. TrailInv'
      BY <1>1, <1>3, <2>3, TrailQuiet, TrailPushed DEF TxStep
    <2> QED
      BY <1>1, <2>1, <2>2, <2>4
  <1>4. ASSUME UNCHANGED writing PROVE CallsInv'
    BY <1>1, <1>4 DEF CallsInv, writing
  <1>5. ASSUME NEW r \in Readers,
               \/ \E n \in ReadSizes : ReadCall(r, n)
               \/ RxInterrupted(r) \/ RxEnter(r) \/ RxReturn(r) \/ RxFail(r)
               \/ RxCopy(r) \/ RxCopyFault(r) \/ RxGiveUp(r, "ETIMEDOUT")
               \/ RxGiveUp(r, "ERESTARTSYS")
        PROVE  Goal
    <2>1. UNCHANGED writing
      BY <1>5
      DEF ReadCall, RxInterrupted, RxEnter, RxNothing, RxRefuse, RxTooSmall,
          RxStart, RxReturn, RxFail, RxCopy, RxCopyFault, RxGiveUp
    <2>2. \/ rx' = rx
          \/ \E e : rx' = Poisoned(rx, e)
      BY <1>5
      DEF ReadCall, RxInterrupted, RxEnter, RxNothing, RxRefuse, RxTooSmall,
          RxStart, RxReturn, RxFail, RxCopy, RxCopyFault, RxGiveUp
    <2>3. ASSUME NEW e, rx' = Poisoned(rx, e) PROVE rx'.state = "FAILED"
      BY <1>1, <2>3 DEF Poisoned, TransferInv, TypeOK, Receiver
    <2>4. "ETIMEDOUT" \in Errno /\ "ERESTARTSYS" \in Errno
      BY DEF Errno
    <2>5. TrailInv'
      BY <1>1, <1>5, <2>4, TrailReadQuiet, TrailDelivered
    <2> QED
      BY <1>1, <1>4, <2>1, <2>2, <2>3, <2>5
  <1>6. ASSUME NEW r \in Readers, RxTake(r) PROVE Goal
    <2>1. UNCHANGED writing
      BY <1>6 DEF RxTake
    <2>2. TrailInv'
      BY <1>1, <1>6, TrailTaken
    <2>3. CASE Abort(Head(ring))
      <3>1. rx'.state = "IDLE"
        BY <1>1, <1>6, <2>3, TakeFacts
      <3> QED
        BY <1>4, <2>1, <2>2, <3>1
    <2>4. CASE ~Abort(Head(ring))
      <3>1. /\ ~Last(Head(ring)) => rx'.received # 0
            /\ rx'.state = IF Last(Head(ring)) THEN "IDLE" ELSE "RECEIVING"
        BY <1>1, <1>6, <2>4, FrameTaken
      <3> QED
        BY <1>4, <2>1, <2>2, <3>1
    <2> QED
      BY <2>3, <2>4
  <1>7. CASE ResetTx
    <2>1. TrailInv' /\ rx' = rx
      BY <1>1, <1>7, TrailAround DEF ResetTx, reading
    <2>2. CallsInv'
      BY <1>1, <1>7 DEF ResetTx, CallsInv, SenderInit
    <2> QED
      BY <1>1, <2>1, <2>2
  <1>8. CASE ResetRx
    <2>1. TrailInv' /\ rx'.state = "IDLE" /\ UNCHANGED writing
      BY <1>1, <1>8, TrailReadQuiet DEF ResetRx, ReceiverInit
    <2> QED
      BY <1>4, <2>1
  <1>9. ASSUME NEW s \in AlienSlots, AlienPush(s) PROVE Goal
    <2>1. TrailInv' /\ rx' = rx /\ UNCHANGED writing
      BY <1>1, <1>9, TrailAround DEF AlienPush, reading
    <2> QED
      BY <1>1, <1>4, <2>1
  <1>10. CASE UNCHANGED vars
    <2>1. /\ UNCHANGED <<ring, writing, reading>>
          /\ UNCHANGED <<tx, txLock, wr, accepted, rx>>
      BY <1>10 DEF vars, writing, reading
    <2>2. ASSUME NEW d \in Spot, SenderSpot(d) PROVE SenderSpot(d)'
      BY <2>1, <2>2 DEF SenderSpot, InMessage
    <2>3. TrailInv'
      BY <1>1, <2>1, <2>2, SentStep DEF TransferInv
    <2> QED
      BY <1>1, <1>4, <2>1, <2>3
  <1> HIDE DEF Goal
  <1> QED
    BY <1>3, <1>5, <1>6, <1>7, <1>8, <1>9, <1>10 DEF Next, RxStep

(* The bytes of this code's writes always lie in the ring in the order     *)
(* they were written, without a gap within a message, whatever slots a     *)
(* peer puts between them and however often the ends are re-initialised.   *)
THEOREM OrderInvariant ==
  ASSUME \A s \in AlienSlots : Foreign(s.fragment)
  PROVE  Spec => []OrderInv
  <1>1. OrderInv /\ [Next]_vars => OrderInv'
    BY OrderStep
  <1> QED
    BY <1>1, OrderInit, PTL DEF Spec

(* What a read completes without foreign bytes is a message whose write    *)
(* succeeded, each at most once and in the order of the writes, for every  *)
(* number of threads and re-initialisations and every set of foreign slots *)
(* (whose bytes are not bytes of this code's writes): message ids that     *)
(* start at 1 again never join the parts of two messages (ivc.c:357).      *)
THEOREM DeliversInOrder ==
  ASSUME \A s \in AlienSlots : Foreign(s.fragment)
  PROVE  Spec => []DeliveredInOrder
  <1>1. OrderInv => DeliveredInOrder
    BY DEF OrderInv, TrailInv, DeliveredInOrder, InOrder, OwnDelivered
  <1> QED
    BY <1>1, OrderInvariant, PTL
=============================================================================
