----------------------------- MODULE DemoProofs -----------------------------
(***************************************************************************)
(* Proofs about module Demo, for all message lengths and every ring and    *)
(* slot size: neither application is ever handed a message it does not     *)
(* expect, and the publisher's verdict vouches for the subscriber.         *)
(***************************************************************************)
EXTENDS Demo, SequenceTheorems, TLAPS

-----------------------------------------------------------------------------
(* The inductive invariant.                                                *)

(* All messages the publisher writes, and all the subscriber writes.       *)
RequestStream == [i \in 1 .. RequestCount |-> Request(i)]
ReplyStream ==
  [i \in 1 .. (DataCount + RequestCount) |->
     IF i <= DataCount THEN Data(i) ELSE Ack(i - DataCount)]

(* A place in a stream: sent slots of message next lie before it.          *)
Place == [next : Nat, sent : Nat]

(* Behind an ABORT nothing follows: a place in no message.                 *)
End == [next |-> 0, sent |-> 0]

(* Slot s of stream f lies between places c and d.                         *)
Link(f, c, s, d) ==
  /\ c.next \in DOMAIN f
  /\ \/ s = SlotOf(f[c.next], c.sent) /\ d = Advance(c, f[c.next])
     \/ s = AbortOf(f[c.next]) /\ d = End

(* The slots of ring q lead from place c to place d; at[k] is the place    *)
(* behind the k-th of them.                                                *)
Leads(f, q, c, d) ==
  \E at \in [0 .. Len(q) -> Place] :
    /\ at[0] = c /\ at[Len(q)] = d
    /\ \A k \in 1 .. Len(q) : Link(f, at[k - 1], q[k], at[k])

(* The request the subscriber reads next.                                  *)
NextRequest == sub.received + (IF sub.pc = "ack" THEN 2 ELSE 1)

(* The request ring holds the part of the stream between the subscriber    *)
(* and the publisher, as long as they are at work.                         *)
RequestsInv ==
  \E c, d \in Place :
    /\ Leads(RequestStream, requests, c, d)
    /\ sub.pc \in {"data", "receive", "ack"} => c.next = NextRequest
    /\ pub.pc \in {"running", "abort"} => d = pubTx

(* The place of the subscriber in the stream of replies, also of one that  *)
(* has to abort a data message.                                            *)
AtSubscriber(d) ==
  /\ sub.pc = "data" \/ (sub.pc = "abort" /\ subTx.sent # 0) => d = subTx
  /\ sub.pc \in {"receive", "ack"} =>
       d = [next |-> DataCount + sub.received + 1, sent |-> 0]

RepliesInv ==
  \E c, d \in Place :
    /\ Leads(ReplyStream, replies, c, d)
    /\ pub.pc = "running" => c.next = (pub.data - 1) + pub.ack
    /\ AtSubscriber(d)

(* The phases of the two programs: the publisher counts acknowledgements   *)
(* only when it has all data, the subscriber answers in order.             *)
PhasesInv ==
  /\ pub.pc = "running" => pub.ack = 1 \/ pub.data = DataCount + 1
  /\ pub.pc = "abort" => pubTx.next <= RequestCount
  /\ sub.pc = "data" => subTx.next <= DataCount /\ sub.received = 0
  /\ sub.pc \in {"receive", "ack"} =>
       sub.received < RequestCount /\ subTx.sent = 0
  /\ sub.pc = "abort" /\ subTx.sent # 0 => subTx.next <= DataCount

DemoInv == OnlyExpectedMessages /\ PhasesInv /\ RequestsInv /\ RepliesInv

-----------------------------------------------------------------------------
(* Streams and rings.                                                      *)

(* The numbers of messages.                                                *)
LEMMA CountTypes ==
  /\ RequestCount \in Nat /\ RequestCount > 0
  /\ DataCount \in Nat /\ DataCount > 0
  /\ RingCapacity \in Nat
  BY DemoAssumption, LenProperties, EmptySeq DEF RequestCount, DataCount

(* What the two programs write are messages.                               *)
LEMMA MessageTypes ==
  /\ \A i \in 1 .. RequestCount : Request(i) \in Msg
  /\ \A i \in 1 .. DataCount : Data(i) \in Msg
  /\ \A i \in Nat : Ack(i) \in Msg
  <1>1. /\ \A i \in 1 .. RequestCount : RequestLengths[i] \in Nat
        /\ \A i \in 1 .. DataCount : DataLengths[i] \in Nat
        /\ AckLength \in Nat /\ 1 .. RequestCount \subseteq Nat
        /\ 1 .. DataCount \subseteq Nat
    BY DemoAssumption, CountTypes DEF RequestCount, DataCount
  <1>2. ASSUME NEW i \in 1 .. RequestCount PROVE Request(i) \in Msg
    BY <1>1 DEF Request, Message, Msg
  <1>3. ASSUME NEW i \in 1 .. DataCount PROVE Data(i) \in Msg
    BY <1>1 DEF Data, Message, Msg
  <1>4. ASSUME NEW i \in Nat PROVE Ack(i) \in Msg
    BY <1>1 DEF Ack, Message, Msg
  <1> QED
    BY <1>2, <1>3, <1>4

(* An acknowledgement is one slot.                                         *)
LEMMA AckIsOneSlot ==
  ASSUME NEW i \in Nat
  PROVE  LastSlot(Ack(i), 0)
  <1>1. Ack(i).len = AckLength
    BY DEF Ack, Message
  <1> DEFINE x == AckLength + FragmentCapacity - 1
  <1>2. /\ FragmentCapacity \in Nat /\ FragmentCapacity > 0 /\ x \in Nat
        /\ FragmentCapacity <= x /\ x < 2 * FragmentCapacity
    BY DemoAssumption
  <1> HIDE DEF x
  <1>3. x \div FragmentCapacity = 1
    BY <1>2
  <1> QED
    BY <1>1, <1>3 DEF LastSlot, Slots, x

(* The writer's next place.                                                *)
LEMMA AdvanceFacts ==
  ASSUME NEW c \in Place, NEW m
  PROVE  /\ Advance(c, m) \in Place
         /\ LastSlot(m, c.sent) =>
              Advance(c, m) = [next |-> c.next + 1, sent |-> 0]
         /\ ~LastSlot(m, c.sent) => Advance(c, m).next = c.next
  BY DEF Advance, Place

(* What the readers find in a slot.                                        *)
LEMMA SlotFacts ==
  ASSUME NEW m \in Msg, NEW k \in Nat
  PROVE  /\ SlotOf(m, k) \in Slot
         /\ SlotOf(m, k).message = m
         /\ SlotOf(m, k).last = LastSlot(m, k)
         /\ ~SlotOf(m, k).abort
         /\ AbortOf(m) \in Slot
         /\ AbortOf(m).abort
  <1>1. LastSlot(m, k) \in BOOLEAN
    BY DEF LastSlot
  <1> QED
    BY <1>1 DEF SlotOf, AbortOf, Slot

(* An empty ring: the reader has caught up with the writer.                *)
LEMMA LeadsEmpty ==
  ASSUME NEW f, NEW c \in Place
  PROVE  Leads(f, <<>>, c, c)
  <1> DEFINE at == [k \in 0 .. 0 |-> c]
  <1>1. at \in [0 .. 0 -> Place] /\ at[0] = c
    OBVIOUS
  <1>2. Len(<<>>) = 0 /\ 1 .. 0 = {}
    OBVIOUS
  <1> HIDE DEF at
  <1>3. /\ at \in [0 .. Len(<<>>) -> Place]
        /\ at[0] = c /\ at[Len(<<>>)] = c
        /\ 1 .. Len(<<>>) = {}
    BY <1>1, <1>2
  <1> QED
    BY <1>3, Zenon DEF Leads

(* Writing the next slot of the stream moves the writer's place behind it. *)
LEMMA LeadsAppend ==
  ASSUME NEW f, NEW q \in Seq(Slot), NEW c \in Place, NEW d \in Place,
         NEW e \in Place, NEW s \in Slot, Leads(f, q, c, d),
         Link(f, d, s, e)
  PROVE  Leads(f, Append(q, s), c, e)
  <1> DEFINE p == Append(q, s)
             n == Len(q)
  <1>1. PICK at \in [0 .. Len(q) -> Place] :
               /\ at[0] = c /\ at[n] = d
               /\ \A k \in 1 .. n : Link(f, at[k - 1], q[k], at[k])
    BY DEF Leads
  <1>2. /\ n \in Nat /\ Len(p) = n + 1 /\ p[n + 1] = s
        /\ \A k \in 1 .. n : p[k] = q[k]
    BY AppendProperties, LenProperties
  <1> HIDE DEF p, n
  <1> DEFINE b == [k \in 0 .. (n + 1) |-> IF k = n + 1 THEN e ELSE at[k]]
  <1>3. b \in [0 .. Len(p) -> Place] /\ b[0] = c /\ b[Len(p)] = e
    BY <1>1, <1>2 DEF n
  <1>4. ASSUME NEW k \in 1 .. Len(p) PROVE Link(f, b[k - 1], p[k], b[k])
    <2>1. CASE k = n + 1
      <3>1. b[k - 1] = d /\ p[k] = s /\ b[k] = e
        BY <1>1, <1>2, <2>1
      <3> QED
        BY <3>1
    <2>2. CASE k # n + 1
      <3>1. k \in 1 .. n /\ b[k - 1] = at[k - 1] /\ p[k] = q[k] /\ b[k] = at[k]
        BY <1>1, <1>2, <2>2
      <3> QED
        BY <1>1, <3>1
    <2> QED
      BY <2>1, <2>2
  <1> HIDE DEF b
  <1>5. Leads(f, p, c, e)
    BY <1>3, <1>4 DEF Leads
  <1> QED
    BY <1>5 DEF p

(* The head of the ring is the slot behind the reader's place; taking it   *)
(* moves the reader on.                                                    *)
LEMMA LeadsTail ==
  ASSUME NEW f, NEW q \in Seq(Slot), NEW c \in Place, NEW d \in Place,
         q # <<>>, Leads(f, q, c, d)
  PROVE  \E b \in Place : /\ Link(f, c, Head(q), b)
                          /\ Leads(f, Tail(q), b, d)
  <1> DEFINE p == Tail(q)
             n == Len(q)
  <1>1. PICK at \in [0 .. Len(q) -> Place] :
               /\ at[0] = c /\ at[n] = d
               /\ \A k \in 1 .. n : Link(f, at[k - 1], q[k], at[k])
    BY DEF Leads
  <1>2. /\ n \in Nat /\ n # 0 /\ Len(p) = n - 1 /\ Head(q) = q[1]
        /\ \A k \in 1 .. Len(p) : p[k] = q[k + 1]
    BY HeadTailProperties, LenProperties, EmptySeq
  <1> HIDE DEF p, n
  <1> DEFINE b == [k \in 0 .. Len(p) |-> at[k + 1]]
  <1>3. b \in [0 .. Len(p) -> Place] /\ b[0] = at[1] /\ b[Len(p)] = d
    BY <1>1, <1>2 DEF n
  <1>4. ASSUME NEW k \in 1 .. Len(p) PROVE Link(f, b[k - 1], p[k], b[k])
    <2>1. /\ k + 1 \in 1 .. n /\ b[k - 1] = at[(k + 1) - 1]
          /\ p[k] = q[k + 1] /\ b[k] = at[k + 1]
      BY <1>1, <1>2
    <2> QED
      BY <1>1, <2>1
  <1> HIDE DEF b
  <1>5. Leads(f, p, at[1], d)
    BY <1>3, <1>4 DEF Leads
  <1>6. at[1] \in Place /\ Link(f, c, Head(q), at[1])
    <2>1. 1 \in 1 .. n /\ 1 - 1 = 0 /\ 1 \in 0 .. n
      BY <1>2
    <2>2. Link(f, at[1 - 1], q[1], at[1])
      BY <1>1, <2>1
    <2> QED
      BY <1>1, <1>2, <2>1, <2>2 DEF n
  <1> QED
    BY <1>5, <1>6 DEF p

(* The messages of the two streams.                                        *)
LEMMA StreamFacts ==
  /\ DOMAIN RequestStream = 1 .. RequestCount
  /\ \A i \in 1 .. RequestCount : RequestStream[i] = Request(i)
  /\ DOMAIN ReplyStream = 1 .. (DataCount + RequestCount)
  /\ \A i \in 1 .. DataCount : ReplyStream[i] = Data(i)
  /\ \A i \in 1 .. RequestCount : ReplyStream[DataCount + i] = Ack(i)
  <1>1. RequestCount \in Nat /\ DataCount \in Nat
    BY CountTypes
  <1>2. ASSUME NEW i \in 1 .. DataCount PROVE ReplyStream[i] = Data(i)
    BY <1>1 DEF ReplyStream
  <1>3. ASSUME NEW i \in 1 .. RequestCount
        PROVE  ReplyStream[DataCount + i] = Ack(i)
    <2>1. /\ DataCount + i \in 1 .. (DataCount + RequestCount)
          /\ ~(DataCount + i <= DataCount) /\ (DataCount + i) - DataCount = i
      BY <1>1
    <2> QED
      BY <2>1 DEF ReplyStream
  <1> QED
    BY <1>2, <1>3 DEF RequestStream, ReplyStream

-----------------------------------------------------------------------------
(* Steps.                                                                  *)

(* The two programs start at the beginning of empty rings.                 *)
LEMMA DemoInit == Init => DemoInv
  <1> SUFFICES ASSUME Init PROVE DemoInv
    OBVIOUS
  <1> USE CountTypes DEF Init
  <1>1. OnlyExpectedMessages
    <2>1. pub \in Publisher /\ sub \in Subscriber
      BY DemoAssumption DEF Publisher, Subscriber
    <2>2. /\ <<>> \in Seq(Slot) /\ Len(<<>>) <= RingCapacity
          /\ pubTx \in [next : 1 .. (RequestCount + 1), sent : Nat]
          /\ subTx \in [next : 1 .. (DataCount + 1), sent : Nat]
      OBVIOUS
    <2>3. pub.pc # "invalid" /\ sub.pc # "invalid" /\ early \in BOOLEAN
      OBVIOUS
    <2> QED
      BY <2>1, <2>2, <2>3 DEF OnlyExpectedMessages, TypeOK
  <1>2. PhasesInv
    BY DEF PhasesInv
  <1> DEFINE c == [next |-> 1, sent |-> 0]
  <1>3. c \in Place /\ c.next = 1 /\ pubTx = c /\ subTx = c
    BY DEF Place
  <1> HIDE DEF c
  <1>4. RequestsInv
    <2>1. Leads(RequestStream, requests, c, c)
      BY <1>3, LeadsEmpty
    <2> QED
      BY <1>3, <2>1 DEF RequestsInv, NextRequest
  <1>5. RepliesInv
    <2>1. Leads(ReplyStream, replies, c, c)
      BY <1>3, LeadsEmpty
    <2>2. AtSubscriber(c)
      BY <1>3 DEF AtSubscriber
    <2> QED
      BY <1>3, <2>1, <2>2 DEF RepliesInv
  <1> QED
    BY <1>1, <1>2, <1>4, <1>5 DEF DemoInv

(* A step that leaves the request ring, the publisher's writes and the     *)
(* subscriber's progress alone.                                            *)
LEMMA RequestsKept ==
  ASSUME RequestsInv, UNCHANGED requests,
         sub'.pc \in {"data", "receive", "ack"} =>
           sub.pc \in {"data", "receive", "ack"} /\ NextRequest' = NextRequest,
         pub'.pc \in {"running", "abort"} =>
           pub.pc \in {"running", "abort"} /\ pubTx' = pubTx
  PROVE  RequestsInv'
  <1>1. PICK c \in Place, d \in Place :
               /\ Leads(RequestStream, requests, c, d)
               /\ sub.pc \in {"data", "receive", "ack"} => c.next = NextRequest
               /\ pub.pc \in {"running", "abort"} => d = pubTx
    BY DEF RequestsInv
  <1>2. Leads(RequestStream, requests', c, d)
    BY <1>1
  <1>3. /\ sub'.pc \in {"data", "receive", "ack"} => c.next = NextRequest'
        /\ pub'.pc \in {"running", "abort"} => d = pubTx'
    BY <1>1
  <1> QED
    BY <1>2, <1>3 DEF RequestsInv

(* A step that leaves the reply ring and the places of both sides in it    *)
(* alone.                                                                  *)
LEMMA RepliesKept ==
  ASSUME RepliesInv, UNCHANGED replies,
         pub'.pc = "running" =>
           /\ pub.pc = "running"
           /\ pub'.ack = pub.ack /\ pub'.data = pub.data,
         \A d \in Place : AtSubscriber(d) => AtSubscriber(d)'
  PROVE  RepliesInv'
  <1>1. PICK c \in Place, d \in Place :
               /\ Leads(ReplyStream, replies, c, d)
               /\ pub.pc = "running" => c.next = (pub.data - 1) + pub.ack
               /\ AtSubscriber(d)
    BY DEF RepliesInv
  <1>2. Leads(ReplyStream, replies', c, d) /\ AtSubscriber(d)'
    BY <1>1
  <1>3. pub'.pc = "running" => c.next = (pub'.data - 1) + pub'.ack
    BY <1>1
  <1> QED
    BY <1>2, <1>3 DEF RepliesInv

(* A slot of a request goes out.                                           *)
LEMMA PubSendStep ==
  ASSUME DemoInv, PubSend
  PROVE  DemoInv'
  <1> USE CountTypes
  <1> DEFINE m == Request(pubTx.next)
             s == SlotOf(m, pubTx.sent)
  <1>1. /\ TypeOK /\ PhasesInv /\ RequestsInv /\ RepliesInv
        /\ pub.pc # "invalid" /\ sub.pc # "invalid"
    BY DEF DemoInv, OnlyExpectedMessages
  <1>2. /\ pubTx.next \in 1 .. RequestCount /\ pubTx.sent \in Nat
        /\ pubTx \in Place
    BY <1>1 DEF PubSend, PubSending, TypeOK, Place
  <1>3. /\ requests' = Append(requests, s) /\ pubTx' = Advance(pubTx, m)
        /\ UNCHANGED <<replies, pub, subTx, sub, publisher, early>>
        /\ pub.pc = "running"
        /\ Len(requests) < RingCapacity /\ requests \in Seq(Slot)
    BY <1>1, LenProperties DEF PubSend, PubSending, Full, TypeOK
  <1>4. m \in Msg /\ s \in Slot
    BY <1>2, MessageTypes, SlotFacts
  <1>5. /\ pubTx' \in Place
        /\ pubTx'.next \in 1 .. (RequestCount + 1) /\ pubTx'.sent \in Nat
    <2>1. /\ pubTx' \in Place
          /\ pubTx' = [next |-> pubTx.next + 1, sent |-> 0]
               \/ pubTx'.next = pubTx.next
      BY <1>2, <1>3, AdvanceFacts
    <2> QED
      BY <1>2, <2>1 DEF Place
  <1>6. TypeOK'
    <2>1. requests' \in Seq(Slot) /\ Len(requests') <= RingCapacity
      <3> HIDE DEF s
      <3>1. requests' \in Seq(Slot) /\ Len(requests') = Len(requests) + 1
        BY <1>3, <1>4, AppendProperties
      <3> QED
        BY <1>3, <3>1, LenProperties
    <2>2. pubTx' \in [next : 1 .. (RequestCount + 1), sent : Nat]
      BY <1>5 DEF Place
    <2> QED
      BY <1>1, <1>3, <2>1, <2>2 DEF TypeOK
  <1>7. PhasesInv'
    BY <1>1, <1>3 DEF PhasesInv
  <1>8. RequestsInv'
    <2>1. PICK c \in Place :
                 /\ Leads(RequestStream, requests, c, pubTx)
                 /\ sub.pc \in {"data", "receive", "ack"} =>
                      c.next = NextRequest
      BY <1>1, <1>3 DEF RequestsInv
    <2>2. Link(RequestStream, pubTx, s, pubTx')
      BY <1>2, <1>3, StreamFacts DEF Link
    <2> HIDE DEF s
    <2>3. Leads(RequestStream, requests', c, pubTx')
      BY <1>2, <1>3, <1>4, <1>5, <2>1, <2>2, LeadsAppend
    <2> QED
      BY <1>3, <1>5, <2>1, <2>3 DEF RequestsInv, NextRequest
  <1>9. RepliesInv'
    BY <1>1, <1>3, RepliesKept DEF AtSubscriber
  <1> QED
    BY <1>1, <1>3, <1>6, <1>7, <1>8, <1>9 DEF DemoInv, OnlyExpectedMessages

(* A slot of a reply is read.                                              *)
LEMMA PubTakeStep ==
  ASSUME DemoInv, PubTake
  PROVE  DemoInv'
  <1> USE CountTypes
  <1> DEFINE slot == Head(replies)
             m == slot.message
  <1>1. /\ TypeOK /\ PhasesInv /\ RequestsInv /\ RepliesInv
        /\ pub.pc # "invalid" /\ sub.pc # "invalid"
    BY DEF DemoInv, OnlyExpectedMessages
  <1>2. /\ pub.pc = "running" /\ pub.ack \in 1 .. RequestCount
        /\ pub.data \in 1 .. (DataCount + 1)
        /\ replies \in Seq(Slot) /\ replies # <<>>
        /\ replies' = Tail(replies)
        /\ UNCHANGED <<requests, pubTx, subTx, sub, publisher, early>>
        /\ pub \in Publisher
    BY <1>1 DEF PubTake, PubReading, TypeOK, Publisher
  <1>3. PICK c \in Place, d \in Place :
               /\ Leads(ReplyStream, replies, c, d)
               /\ c.next = (pub.data - 1) + pub.ack
               /\ AtSubscriber(d)
    BY <1>1, <1>2 DEF RepliesInv
  <1>4. PICK b \in Place : /\ Link(ReplyStream, c, slot, b)
                           /\ Leads(ReplyStream, replies', b, d)
    BY <1>2, <1>3, LeadsTail
  <1> DEFINE n == ReplyStream[c.next]
  <1>5. /\ pub.data <= DataCount => n = Data(pub.data) /\ pub.ack = 1
        /\ pub.data > DataCount => n = Ack(pub.ack) /\ pub.data = DataCount + 1
    <2>1. CASE pub.data <= DataCount
      <3>1. pub.ack = 1
        BY <1>1, <1>2, <2>1 DEF PhasesInv
      <3>2. c.next = pub.data /\ pub.data \in 1 .. DataCount
        BY <1>2, <1>3, <2>1, <3>1
      <3> QED
        BY <2>1, <3>1, <3>2, StreamFacts
    <2>2. CASE pub.data > DataCount
      <3>1. pub.data = DataCount + 1 /\ c.next = DataCount + pub.ack
        BY <1>2, <1>3, <2>2
      <3> QED
        BY <1>2, <2>2, <3>1, StreamFacts
    <2> QED
      BY <1>2, <2>1, <2>2
  <1>6. n \in Msg /\ c.sent \in Nat /\ c.next \in Nat
    <2>1. CASE pub.data <= DataCount
      <3>1. pub.data \in 1 .. DataCount
        BY <1>2, <2>1
      <3>2. n \in Msg
        BY <1>5, <2>1, <3>1, MessageTypes
      <3> QED
        BY <3>2 DEF Place
    <2>2. CASE pub.data > DataCount
      <3>1. pub.ack \in Nat
        BY <1>2
      <3>2. n \in Msg
        BY <1>5, <2>2, <3>1, MessageTypes
      <3> QED
        BY <3>2 DEF Place
    <2> QED
      BY <1>2, <2>1, <2>2
  <1>7. ~slot.abort => /\ m = n /\ slot.last = LastSlot(n, c.sent)
                       /\ slot.last => b = [next |-> c.next + 1, sent |-> 0]
                       /\ ~slot.last => b.next = c.next
    <2>1. \/ slot = SlotOf(n, c.sent) /\ b = Advance(c, n)
          \/ slot = AbortOf(n)
      BY <1>4 DEF Link
    <2> HIDE DEF n, slot
    <2> QED
      BY <1>6, <2>1, SlotFacts, AdvanceFacts
  <1>8. ~slot.abort /\ slot.last =>
          ReplyOK(m) /\ (m.kind = "ACK" <=> pub.data > DataCount)
    <2>1. CASE pub.data <= DataCount
      <3>1. n = Data(pub.data) /\ n.kind = "DATA"
        BY <1>5, <2>1 DEF Data, Message
      <3> QED
        BY <1>2, <1>7, <2>1, <3>1 DEF ReplyOK
    <2>2. CASE pub.data > DataCount
      <3>1. n.kind = "ACK" /\ n.seq = pub.ack /\ pub.data = DataCount + 1
        BY <1>5, <2>2 DEF Ack, Message
      <3> QED
        BY <1>2, <1>7, <2>2, <3>1 DEF ReplyOK
    <2> QED
      BY <1>2, <2>1, <2>2
  <1> DEFINE through == [pub EXCEPT !.inside = FALSE, !.polls = 0]
  <1>9. /\ slot.abort => pub' = [pub EXCEPT !.pc = "fail"]
        /\ ~slot.abort /\ ~slot.last => pub' = [pub EXCEPT !.inside = TRUE]
        /\ ~slot.abort /\ slot.last /\ pub.data > DataCount =>
             pub' = [through EXCEPT !.ack = @ + 1]
        /\ ~slot.abort /\ slot.last /\ pub.data <= DataCount =>
             pub' = [through EXCEPT !.data = @ + 1]
    <2>1. pub' = IF slot.abort THEN [pub EXCEPT !.pc = "fail"]
                 ELSE IF ~slot.last THEN [pub EXCEPT !.inside = TRUE]
                 ELSE IF ~ReplyOK(m) THEN [pub EXCEPT !.pc = "invalid"]
                 ELSE IF m.kind = "ACK" THEN [through EXCEPT !.ack = @ + 1]
                 ELSE [through EXCEPT !.data = @ + 1]
      BY DEF PubTake, PubAfter
    <2> HIDE DEF through
    <2> HIDE DEF slot, m
    <2> QED
      BY <1>2, <1>8, <2>1
  <1> HIDE DEF slot, m, n
  <1>a. ASSUME slot.abort PROVE DemoInv'
    <2>1. pub' \in Publisher /\ pub'.pc = "fail"
      BY <1>2, <1>9, <1>a DEF Publisher
    <2>2. TypeOK'
      <3>1. /\ replies' \in Seq(Slot) /\ Len(replies') = Len(replies) - 1
            /\ Len(replies) \in Nat /\ Len(replies) <= RingCapacity
        BY <1>1, <1>2, HeadTailProperties, LenProperties DEF TypeOK
      <3> QED
        BY <1>1, <1>2, <2>1, <3>1 DEF TypeOK
    <2>3. PhasesInv'
      BY <1>1, <1>2, <2>1 DEF PhasesInv
    <2>4. RequestsInv'
      BY <1>1, <1>2, <2>1, RequestsKept DEF NextRequest
    <2>5. RepliesInv'
      <3>1. AtSubscriber(d)'
        BY <1>2, <1>3 DEF AtSubscriber
      <3> QED
        BY <1>4, <2>1, <3>1 DEF RepliesInv
    <2> QED
      BY <1>1, <1>2, <2>1, <2>2, <2>3, <2>4, <2>5
      DEF DemoInv, OnlyExpectedMessages
  <1> SUFFICES ASSUME ~slot.abort PROVE DemoInv'
    BY <1>a
  <1>b. /\ through \in Publisher /\ through.pc = "running"
        /\ through.ack = pub.ack /\ through.data = pub.data
    <2>1. 0 \in 0 .. MaxEmptyPolls
      BY DemoAssumption
    <2> QED
      BY <1>2, <2>1 DEF Publisher
  <1> HIDE DEF through
  <1> DEFINE Counted ==
               /\ pub'.pc = "running"
               /\ pub'.ack \in 1 .. (RequestCount + 1)
               /\ pub'.data \in 1 .. (DataCount + 1)
               /\ pub'.ack = 1 \/ pub'.data = DataCount + 1
               /\ b.next = (pub'.data - 1) + pub'.ack
               /\ pub' \in Publisher
  <1>10. Counted
    <2>1. pub \in Publisher
      BY <1>2
    <2>2. CASE ~slot.last
      BY <1>1, <1>2, <1>3, <1>7, <1>9, <2>1, <2>2
      DEF PhasesInv, Publisher
    <2>3. CASE slot.last /\ pub.data > DataCount
      <3>1. pub.ack + 1 \in 1 .. (RequestCount + 1) /\ pub.data = DataCount + 1
        BY <1>2, <1>5, <2>3
      <3>2. pub' = [through EXCEPT !.ack = pub.ack + 1]
        BY <1>9, <1>b, <2>3
      <3>3. /\ pub'.pc = "running" /\ pub'.ack = pub.ack + 1
            /\ pub'.data = pub.data
            /\ pub' \in Publisher
        BY <1>b, <3>1, <3>2 DEF Publisher
      <3>4. b.next = c.next + 1 /\ c.next = (pub.data - 1) + pub.ack
        <4>1. b = [next |-> c.next + 1, sent |-> 0]
          BY <1>7, <2>3, Zenon
        <4> QED
          BY <1>3, <4>1
      <3>5. (pub.data - 1) + pub.ack + 1 = (pub.data - 1) + (pub.ack + 1)
        BY <1>2
      <3>6. b.next = (pub'.data - 1) + pub'.ack
        BY <3>3, <3>4, <3>5
      <3> QED
        BY <1>2, <3>1, <3>3, <3>6
    <2>4. CASE slot.last /\ pub.data <= DataCount
      <3>1. pub.data + 1 \in 1 .. (DataCount + 1) /\ pub.ack = 1
        BY <1>2, <1>5, <2>4
      <3>2. pub' = [through EXCEPT !.data = pub.data + 1]
        BY <1>9, <1>b, <2>4
      <3>3. /\ pub'.pc = "running" /\ pub'.ack = pub.ack
            /\ pub'.data = pub.data + 1
            /\ pub' \in Publisher
        BY <1>b, <3>1, <3>2 DEF Publisher
      <3>4. b.next = c.next + 1 /\ c.next = (pub.data - 1) + pub.ack
        <4>1. b = [next |-> c.next + 1, sent |-> 0]
          BY <1>7, <2>4, Zenon
        <4> QED
          BY <1>3, <4>1
      <3>5. (pub.data - 1) + pub.ack + 1 = ((pub.data + 1) - 1) + pub.ack
        BY <1>2
      <3>6. b.next = (pub'.data - 1) + pub'.ack
        BY <3>3, <3>4, <3>5
      <3> QED
        BY <1>2, <3>1, <3>3, <3>6
    <2> QED
      BY <1>2, <2>2, <2>3, <2>4
  <1>11. TypeOK'
    <2>1. replies' \in Seq(Slot) /\ Len(replies') <= RingCapacity
      <3>1. /\ replies' \in Seq(Slot) /\ Len(replies') = Len(replies) - 1
            /\ Len(replies) \in Nat /\ Len(replies) <= RingCapacity
        BY <1>1, <1>2, HeadTailProperties, LenProperties DEF TypeOK
      <3> QED
        BY <3>1
    <2> QED
      BY <1>1, <1>2, <1>10, <2>1 DEF TypeOK
  <1>12. PhasesInv'
    BY <1>1, <1>2, <1>10 DEF PhasesInv
  <1>13. RequestsInv'
    BY <1>1, <1>2, <1>10, RequestsKept DEF NextRequest
  <1>14. RepliesInv'
    <2>1. AtSubscriber(d)'
      BY <1>2, <1>3 DEF AtSubscriber
    <2> QED
      BY <1>4, <1>10, <2>1 DEF RepliesInv
  <1> QED
    BY <1>1, <1>2, <1>10, <1>11, <1>12, <1>13, <1>14
    DEF DemoInv, OnlyExpectedMessages

(* A slot of a data message goes out; behind the last one the subscriber   *)
(* turns to the requests.                                                  *)
LEMMA SubSendDataStep ==
  ASSUME DemoInv, SubSendData
  PROVE  DemoInv'
  <1> USE CountTypes
  <1> DEFINE m == Data(subTx.next)
             s == SlotOf(m, subTx.sent)
             tx == Advance(subTx, m)
  <1>1. /\ TypeOK /\ PhasesInv /\ RequestsInv /\ RepliesInv
        /\ pub.pc # "invalid" /\ sub.pc # "invalid"
    BY DEF DemoInv, OnlyExpectedMessages
  <1>2. /\ subTx.next \in 1 .. DataCount /\ subTx.sent \in Nat
        /\ subTx \in Place /\ sub.pc = "data" /\ sub.received = 0
    BY <1>1 DEF SubSendData, PhasesInv, TypeOK, Place
  <1>3. /\ replies' = Append(replies, s) /\ subTx' = tx
        /\ sub' = [sub EXCEPT !.pc = IF tx.next > DataCount THEN "receive"
                                                            ELSE "data"]
        /\ UNCHANGED <<requests, pubTx, pub, publisher, early>>
        /\ Len(replies) < RingCapacity /\ replies \in Seq(Slot)
    BY <1>1, LenProperties DEF SubSendData, Full, TypeOK
  <1>4. m \in Msg /\ s \in Slot
    BY <1>2, MessageTypes, SlotFacts
  <1>5. PICK e \in Place : e = tx
    BY <1>2, AdvanceFacts
  <1>6. /\ e.next \in 1 .. (DataCount + 1) /\ e.sent \in Nat
        /\ e.next > DataCount => e = [next |-> DataCount + 1, sent |-> 0]
    <2>1. \/ e = [next |-> subTx.next + 1, sent |-> 0]
          \/ e.next = subTx.next
      BY <1>2, <1>5, AdvanceFacts
    <2> QED
      BY <1>2, <2>1 DEF Place
  <1>7. Link(ReplyStream, subTx, s, e)
    <2>1. ReplyStream[subTx.next] = m /\ subTx.next \in DOMAIN ReplyStream
      BY <1>2, StreamFacts
    <2> HIDE DEF m
    <2> QED
      BY <1>5, <2>1 DEF Link
  <1>8. /\ subTx' = e
        /\ sub' = [sub EXCEPT !.pc = IF e.next > DataCount THEN "receive"
                                                           ELSE "data"]
    BY <1>3, <1>5
  <1> HIDE DEF tx, s, m
  <1>9. /\ sub'.received = 0
        /\ e.next > DataCount => sub'.pc = "receive"
        /\ e.next <= DataCount => sub'.pc = "data"
        /\ sub' \in Subscriber
    <2>1. sub \in Subscriber
      BY <1>1 DEF TypeOK
    <2>2. CASE e.next > DataCount
      <3>1. sub' = [sub EXCEPT !.pc = "receive"]
        BY <1>8, <2>2
      <3>2. ~(e.next <= DataCount)
        BY <1>6, <2>2
      <3> QED
        BY <1>2, <2>1, <2>2, <3>1, <3>2 DEF Subscriber
    <2>3. CASE e.next <= DataCount
      <3>1. sub' = [sub EXCEPT !.pc = "data"]
        BY <1>6, <1>8, <2>3
      <3>2. ~(e.next > DataCount)
        BY <1>6, <2>3
      <3> QED
        BY <1>2, <2>1, <2>3, <3>1, <3>2 DEF Subscriber
    <2> QED
      BY <1>6, <2>2, <2>3
  <1>10. TypeOK'
    <2>1. replies' \in Seq(Slot) /\ Len(replies') <= RingCapacity
      <3>1. replies' \in Seq(Slot) /\ Len(replies') = Len(replies) + 1
        BY <1>3, <1>4, AppendProperties
      <3> QED
        BY <1>3, <3>1, LenProperties
    <2>2. subTx' \in [next : 1 .. (DataCount + 1), sent : Nat]
      BY <1>6, <1>8 DEF Place
    <2> QED
      BY <1>1, <1>3, <1>9, <2>1, <2>2 DEF TypeOK
  <1>11. PhasesInv'
    <2>1. /\ sub'.pc = "data" => subTx'.next <= DataCount
          /\ sub'.pc = "receive" => subTx'.sent = 0
          /\ sub'.pc \in {"data", "receive"}
      BY <1>6, <1>8, <1>9
    <2> QED
      BY <1>1, <1>3, <1>6, <1>9, <2>1 DEF PhasesInv
  <1>12. RequestsInv'
    <2>1. sub'.pc \in {"data", "receive"}
      BY <1>6, <1>9
    <2> QED
      BY <1>1, <1>2, <1>3, <1>9, <2>1, RequestsKept DEF NextRequest
  <1>13. RepliesInv'
    <2>1. PICK c \in Place, d \in Place :
                 /\ Leads(ReplyStream, replies, c, d)
                 /\ pub.pc = "running" => c.next = (pub.data - 1) + pub.ack
                 /\ AtSubscriber(d)
      BY <1>1 DEF RepliesInv
    <2>2. d = subTx
      BY <1>2, <2>1 DEF AtSubscriber
    <2>3. Leads(ReplyStream, replies', c, e)
      BY <1>3, <1>4, <1>7, <2>1, <2>2, LeadsAppend
    <2>4. AtSubscriber(e)'
      BY <1>6, <1>8, <1>9 DEF AtSubscriber
    <2> QED
      BY <1>3, <2>1, <2>3, <2>4 DEF RepliesInv
  <1> QED
    BY <1>1, <1>3, <1>6, <1>9, <1>10, <1>11, <1>12, <1>13
    DEF DemoInv, OnlyExpectedMessages

(* A slot of a request is read: the last one completes the request the     *)
(* subscriber expects.                                                     *)
LEMMA SubTakeStep ==
  ASSUME DemoInv, SubTake
  PROVE  DemoInv'
  <1> USE CountTypes
  <1> DEFINE slot == Head(requests)
             n == Request(sub.received + 1)
  <1>1. /\ TypeOK /\ PhasesInv /\ RequestsInv /\ RepliesInv
        /\ pub.pc # "invalid" /\ sub.pc # "invalid"
    BY DEF DemoInv, OnlyExpectedMessages
  <1>2. /\ sub.pc = "receive" /\ sub.received \in Nat
        /\ sub.received < RequestCount
        /\ requests \in Seq(Slot) /\ requests # <<>>
        /\ requests' = Tail(requests)
        /\ UNCHANGED <<replies, pubTx, pub, subTx, publisher, early>>
        /\ sub \in Subscriber /\ subTx.sent = 0
    BY <1>1 DEF SubTake, PhasesInv, TypeOK, Subscriber
  <1>3. PICK c \in Place, d \in Place :
               /\ Leads(RequestStream, requests, c, d)
               /\ c.next = sub.received + 1
               /\ pub.pc \in {"running", "abort"} => d = pubTx
    BY <1>1, <1>2 DEF RequestsInv, NextRequest
  <1>5. PICK b \in Place : /\ Link(RequestStream, c, slot, b)
                           /\ Leads(RequestStream, requests', b, d)
    BY <1>2, <1>3, LeadsTail
  <1>6. /\ sub.received + 1 \in 1 .. RequestCount
        /\ RequestStream[c.next] = n /\ n \in Msg
        /\ c.sent \in Nat /\ c.next \in Nat
    <2>1. sub.received + 1 \in 1 .. RequestCount
      BY <1>2
    <2>2. RequestStream[c.next] = n /\ n \in Msg
      BY <1>3, <2>1, StreamFacts, MessageTypes
    <2> QED
      BY <2>1, <2>2 DEF Place
  <1>7. ~slot.abort => /\ slot.message = n /\ slot.last = LastSlot(n, c.sent)
                       /\ slot.last => b = [next |-> c.next + 1, sent |-> 0]
                       /\ ~slot.last => b.next = c.next
    <2>1. \/ slot = SlotOf(n, c.sent) /\ b = Advance(c, n)
          \/ slot = AbortOf(n)
      BY <1>5, <1>6 DEF Link
    <2> HIDE DEF n, slot
    <2> QED
      BY <1>6, <2>1, SlotFacts, AdvanceFacts
  <1>8. /\ slot.abort => sub' = [sub EXCEPT !.pc = "fail"]
        /\ ~slot.abort /\ ~slot.last => sub' = [sub EXCEPT !.inside = TRUE]
        /\ ~slot.abort /\ slot.last =>
             sub' = [sub EXCEPT !.pc = "ack", !.inside = FALSE, !.polls = 0]
    <2>1. sub' = IF slot.abort THEN [sub EXCEPT !.pc = "fail"]
                 ELSE IF ~slot.last THEN [sub EXCEPT !.inside = TRUE]
                 ELSE IF slot.message # n THEN [sub EXCEPT !.pc = "invalid"]
                 ELSE [sub EXCEPT !.pc = "ack", !.inside = FALSE, !.polls = 0]
      BY DEF SubTake, SubAfter
    <2> HIDE DEF slot, n
    <2> QED
      BY <1>7, <2>1
  <1> HIDE DEF slot, n
  <1>9. /\ sub'.received = sub.received
        /\ slot.abort => sub'.pc = "fail"
        /\ ~slot.abort /\ slot.last => sub'.pc = "ack"
        /\ ~slot.abort /\ ~slot.last => sub'.pc = "receive"
        /\ sub' \in Subscriber
    <2>1. 0 \in 0 .. MaxEmptyPolls
      BY DemoAssumption
    <2>2. CASE slot.abort
      <3>1. sub' = [sub EXCEPT !.pc = "fail"]
        BY <1>8, <2>2, Zenon
      <3>2. sub' \in Subscriber /\ sub'.received = sub.received
        BY <1>2, <3>1 DEF Subscriber
      <3>3. sub'.pc = "fail"
        BY <1>2, <3>1 DEF Subscriber
      <3> QED
        BY <2>2, <3>2, <3>3
    <2>3. CASE ~slot.abort /\ slot.last
      <3>1. sub' = [sub EXCEPT !.pc = "ack", !.inside = FALSE, !.polls = 0]
        BY <1>8, <2>3, Zenon
      <3>2. sub' \in Subscriber /\ sub'.received = sub.received
        BY <1>2, <2>1, <3>1 DEF Subscriber
      <3>3. sub'.pc = "ack"
        BY <1>2, <3>1 DEF Subscriber
      <3> QED
        BY <2>3, <3>2, <3>3
    <2>4. CASE ~slot.abort /\ ~slot.last
      <3>1. sub' = [sub EXCEPT !.inside = TRUE]
        BY <1>8, <2>4, Zenon
      <3>2. sub' \in Subscriber /\ sub'.received = sub.received
        BY <1>2, <3>1 DEF Subscriber
      <3>3. sub'.pc = "receive"
        BY <1>2, <3>1 DEF Subscriber
      <3> QED
        BY <2>4, <3>2, <3>3
    <2> QED
      BY <2>2, <2>3, <2>4
  <1>10. sub'.pc \in {"ack", "receive", "fail"}
    BY <1>9
  <1>11. TypeOK'
    <2>1. requests' \in Seq(Slot) /\ Len(requests') <= RingCapacity
      <3>1. /\ requests' \in Seq(Slot) /\ Len(requests') = Len(requests) - 1
            /\ Len(requests) \in Nat /\ Len(requests) <= RingCapacity
        BY <1>1, <1>2, HeadTailProperties, LenProperties DEF TypeOK
      <3> QED
        BY <3>1
    <2> QED
      BY <1>1, <1>2, <1>9, <2>1 DEF TypeOK
  <1>12. PhasesInv'
    BY <1>1, <1>2, <1>9, <1>10 DEF PhasesInv
  <1>13. RequestsInv'
    <2>1. ~slot.abort => b.next = NextRequest'
      <3>1. CASE ~slot.abort /\ slot.last
        <4>1. b = [next |-> c.next + 1, sent |-> 0]
          BY <1>7, <3>1, Zenon
        <4>2. b.next = sub.received + 1 + 1
          BY <1>3, <4>1
        <4>3. NextRequest' = sub.received + 2
          BY <1>9, <3>1 DEF NextRequest
        <4> QED
          BY <1>2, <4>2, <4>3
      <3>2. CASE ~slot.abort /\ ~slot.last
        BY <1>2, <1>3, <1>7, <1>9, <3>2 DEF NextRequest
      <3> QED
        BY <3>1, <3>2
    <2> QED
      BY <1>2, <1>3, <1>5, <1>9, <2>1 DEF RequestsInv
  <1>14. RepliesInv'
    <2>1. ASSUME NEW e \in Place, AtSubscriber(e) PROVE AtSubscriber(e)'
      BY <1>2, <1>9, <1>10, <2>1 DEF AtSubscriber
    <2> QED
      BY <1>1, <1>2, <2>1, RepliesKept
  <1> QED
    BY <1>1, <1>2, <1>10, <1>11, <1>12, <1>13, <1>14
    DEF DemoInv, OnlyExpectedMessages

(* An acknowledgement goes out.                                            *)
LEMMA SubAckStep ==
  ASSUME DemoInv, SubAck
  PROVE  DemoInv'
  <1> USE CountTypes
  <1> DEFINE n == sub.received + 1
             s == SlotOf(Ack(n), 0)
  <1>1. /\ TypeOK /\ PhasesInv /\ RequestsInv /\ RepliesInv
        /\ pub.pc # "invalid" /\ sub.pc # "invalid"
    BY DEF DemoInv, OnlyExpectedMessages
  <1>2. /\ sub.pc = "ack" /\ sub.received \in Nat /\ n \in 1 .. RequestCount
    <2>1. sub.pc = "ack" /\ sub.received \in Nat /\ sub.received < RequestCount
      BY <1>1 DEF SubAck, PhasesInv, TypeOK, Subscriber
    <2> QED
      BY <2>1
  <1>3. /\ replies' = Append(replies, s)
        /\ sub' = [sub EXCEPT !.pc = IF n = RequestCount THEN "pass"
                                                         ELSE "receive",
                             !.received = n]
        /\ UNCHANGED <<requests, pubTx, pub, subTx, publisher, early>>
        /\ sub \in Subscriber /\ subTx.sent = 0
        /\ Len(replies) < RingCapacity /\ replies \in Seq(Slot)
    BY <1>1, LenProperties DEF SubAck, Full, TypeOK, PhasesInv
  <1>4. n \in Nat /\ Ack(n) \in Msg /\ s \in Slot
    BY <1>2, MessageTypes, SlotFacts
  <1>5. PICK c \in Place, d \in Place :
               /\ Leads(ReplyStream, replies, c, d)
               /\ pub.pc = "running" => c.next = (pub.data - 1) + pub.ack
               /\ AtSubscriber(d)
    BY <1>1 DEF RepliesInv
  <1>6. d = [next |-> DataCount + n, sent |-> 0]
    <2>1. d = [next |-> DataCount + sub.received + 1, sent |-> 0]
      BY <1>2, <1>5 DEF AtSubscriber
    <2>2. DataCount + sub.received + 1 = DataCount + n
      BY <1>2
    <2> QED
      BY <2>1, <2>2
  <1>7. PICK e \in Place : e = [next |-> DataCount + n + 1, sent |-> 0]
    <2>1. DataCount + n + 1 \in Nat
      BY <1>4
    <2> HIDE DEF n
    <2> QED
      BY <2>1 DEF Place
  <1> HIDE DEF n
  <1>8. Link(ReplyStream, d, s, e)
    <2>1. /\ DataCount + n \in DOMAIN ReplyStream
          /\ ReplyStream[DataCount + n] = Ack(n)
      BY <1>2, StreamFacts
    <2>2. d.next = DataCount + n /\ d.sent = 0
      BY <1>6
    <2>3. LastSlot(Ack(n), 0)
      BY <1>4, AckIsOneSlot
    <2>4. Advance(d, Ack(n)) = e
      BY <1>7, <2>2, <2>3, AdvanceFacts
    <2> QED
      BY <2>1, <2>2, <2>4 DEF Link
  <1> HIDE DEF s
  <1>9. /\ sub'.received = n
        /\ sub'.pc \in {"pass", "receive"}
        /\ sub'.pc = "receive" => n < RequestCount
        /\ sub' \in Subscriber
    <2>1. n \in 0 .. RequestCount
      BY <1>2
    <2>2. CASE n = RequestCount
      <3>1. sub' = [sub EXCEPT !.pc = "pass", !.received = n]
        BY <1>3, <2>2
      <3> QED
        BY <1>3, <2>1, <3>1 DEF Subscriber
    <2>3. CASE n # RequestCount
      <3>1. sub' = [sub EXCEPT !.pc = "receive", !.received = n]
        BY <1>3, <2>3
      <3>2. n < RequestCount
        BY <1>2, <2>3
      <3> QED
        BY <1>3, <2>1, <3>1, <3>2 DEF Subscriber
    <2> QED
      BY <2>2, <2>3
  <1>10. TypeOK'
    <2>1. replies' \in Seq(Slot) /\ Len(replies') <= RingCapacity
      <3>1. replies' \in Seq(Slot) /\ Len(replies') = Len(replies) + 1
        BY <1>3, <1>4, AppendProperties
      <3> QED
        BY <1>3, <3>1, LenProperties
    <2> QED
      BY <1>1, <1>3, <1>9, <2>1 DEF TypeOK
  <1>11. PhasesInv'
    BY <1>1, <1>3, <1>9 DEF PhasesInv
  <1>12. RequestsInv'
    <2>1. sub'.pc = "receive" => NextRequest' = NextRequest
      BY <1>2, <1>9 DEF NextRequest, n
    <2> QED
      BY <1>1, <1>2, <1>3, <1>9, <2>1, RequestsKept
  <1>13. RepliesInv'
    <2>1. Leads(ReplyStream, replies', c, e)
      BY <1>3, <1>4, <1>5, <1>8, LeadsAppend
    <2>2. AtSubscriber(e)'
      BY <1>7, <1>9 DEF AtSubscriber
    <2> QED
      BY <1>3, <1>5, <2>1, <2>2 DEF RepliesInv
  <1> QED
    BY <1>1, <1>3, <1>9, <1>10, <1>11, <1>12, <1>13
    DEF DemoInv, OnlyExpectedMessages

(* A write that has to be given up: ABORT goes out, or nothing does.       *)
LEMMA PubAbortStep ==
  ASSUME DemoInv, PubAbort
  PROVE  DemoInv'
  <1> USE CountTypes
  <1> DEFINE s == AbortOf(Request(pubTx.next))
  <1>1. /\ TypeOK /\ PhasesInv /\ RequestsInv /\ RepliesInv
        /\ pub.pc # "invalid" /\ sub.pc # "invalid"
    BY DEF DemoInv, OnlyExpectedMessages
  <1>2. /\ pub.pc = "abort" /\ pub' = [pub EXCEPT !.pc = "fail"]
        /\ UNCHANGED <<replies, pubTx, subTx, sub, publisher, early>>
        /\ \/ requests' = requests
           \/ requests' = Append(requests, s) /\ ~Full(requests)
    BY DEF PubAbort
  <1>3. /\ pub' \in Publisher /\ pub'.pc = "fail" /\ requests \in Seq(Slot)
        /\ pubTx \in Place /\ pubTx.next \in 1 .. RequestCount
        /\ Len(requests) \in Nat /\ Len(requests) <= RingCapacity
    <2>1. /\ requests \in Seq(Slot) /\ Len(requests) <= RingCapacity
          /\ pubTx \in [next : 1 .. (RequestCount + 1), sent : Nat]
          /\ pub \in Publisher /\ pubTx.next <= RequestCount
      BY <1>1, <1>2 DEF TypeOK, PhasesInv
    <2>2. pub' \in Publisher /\ pub'.pc = "fail"
      BY <1>2, <2>1 DEF Publisher
    <2>3. pubTx \in Place /\ pubTx.next \in 1 .. RequestCount
      BY <2>1 DEF Place
    <2> QED
      BY <2>1, <2>2, <2>3, LenProperties
  <1>4. s \in Slot /\ s = AbortOf(RequestStream[pubTx.next])
    <2>1. Request(pubTx.next) \in Msg /\ 0 \in Nat
      BY <1>3, MessageTypes
    <2>2. s \in Slot
      BY <2>1, SlotFacts
    <2> QED
      BY <1>3, <2>2, StreamFacts
  <1> HIDE DEF s
  <1>5. TypeOK'
    <2>1. requests' \in Seq(Slot) /\ Len(requests') <= RingCapacity
      <3>1. CASE requests' = requests
        BY <1>3, <3>1
      <3>2. CASE requests' = Append(requests, s) /\ ~Full(requests)
        <4>1. requests' \in Seq(Slot) /\ Len(requests') = Len(requests) + 1
          BY <1>3, <1>4, <3>2, AppendProperties
        <4> QED
          BY <1>3, <3>2, <4>1 DEF Full
      <3> QED
        BY <1>2, <3>1, <3>2
    <2> QED
      BY <1>1, <1>2, <1>3, <2>1 DEF TypeOK
  <1>6. PhasesInv'
    BY <1>1, <1>2, <1>3 DEF PhasesInv
  <1>7. RequestsInv'
    <2>1. PICK c \in Place :
                 /\ Leads(RequestStream, requests, c, pubTx)
                 /\ sub.pc \in {"data", "receive", "ack"} =>
                      c.next = NextRequest
      BY <1>1, <1>2 DEF RequestsInv
    <2>2. End \in Place /\ Link(RequestStream, pubTx, s, End)
      BY <1>3, <1>4, StreamFacts DEF Link, End, Place
    <2>3. \E d \in Place : Leads(RequestStream, requests', c, d)
      <3>1. CASE requests' = requests
        BY <1>3, <2>1, <3>1
      <3>2. CASE requests' = Append(requests, s)
        BY <1>3, <1>4, <2>1, <2>2, <3>2, LeadsAppend
      <3> QED
        BY <1>2, <3>1, <3>2
    <2> QED
      BY <1>2, <1>3, <2>1, <2>3 DEF RequestsInv, NextRequest
  <1>8. RepliesInv'
    BY <1>1, <1>2, <1>3, RepliesKept DEF AtSubscriber
  <1> QED
    BY <1>1, <1>2, <1>3, <1>5, <1>6, <1>7, <1>8
    DEF DemoInv, OnlyExpectedMessages

(* The same for a data message; of an acknowledgement nothing is out.      *)
LEMMA SubAbortStep ==
  ASSUME DemoInv, SubAbort
  PROVE  DemoInv'
  <1> USE CountTypes
  <1> DEFINE s == AbortOf(Data(subTx.next))
  <1>1. /\ TypeOK /\ PhasesInv /\ RequestsInv /\ RepliesInv
        /\ pub.pc # "invalid" /\ sub.pc # "invalid"
    BY DEF DemoInv, OnlyExpectedMessages
  <1>2. /\ sub.pc = "abort" /\ sub' = [sub EXCEPT !.pc = "fail"]
        /\ UNCHANGED <<requests, pubTx, pub, subTx, publisher, early>>
        /\ \/ replies' = replies
           \/ /\ replies' = Append(replies, s) /\ ~Full(replies)
              /\ subTx.sent # 0
    BY DEF SubAbort
  <1>3. /\ sub' \in Subscriber /\ sub'.pc = "fail" /\ replies \in Seq(Slot)
        /\ subTx \in Place
        /\ subTx.sent # 0 => subTx.next \in 1 .. DataCount
        /\ Len(replies) \in Nat /\ Len(replies) <= RingCapacity
    <2>1. /\ replies \in Seq(Slot) /\ Len(replies) <= RingCapacity
          /\ subTx \in [next : 1 .. (DataCount + 1), sent : Nat]
          /\ sub \in Subscriber
          /\ subTx.sent # 0 => subTx.next <= DataCount
      BY <1>1, <1>2 DEF TypeOK, PhasesInv
    <2>2. sub' \in Subscriber /\ sub'.pc = "fail"
      BY <1>2, <2>1 DEF Subscriber
    <2>3. /\ subTx \in Place
          /\ subTx.sent # 0 => subTx.next \in 1 .. DataCount
      BY <2>1 DEF Place
    <2> QED
      BY <2>1, <2>2, <2>3, LenProperties
  <1>4. subTx.sent # 0 =>
          /\ s \in Slot /\ s = AbortOf(ReplyStream[subTx.next])
          /\ subTx.next \in DOMAIN ReplyStream
    <2>1. subTx.sent # 0 => Data(subTx.next) \in Msg /\ 0 \in Nat
      BY <1>3, MessageTypes
    <2>2. subTx.sent # 0 => s \in Slot
      BY <2>1, SlotFacts
    <2> QED
      BY <1>3, <2>2, StreamFacts
  <1> HIDE DEF s
  <1>5. TypeOK'
    <2>1. replies' \in Seq(Slot) /\ Len(replies') <= RingCapacity
      <3>1. CASE replies' = replies
        BY <1>3, <3>1
      <3>2. CASE /\ replies' = Append(replies, s) /\ ~Full(replies)
                 /\ subTx.sent # 0
        <4>1. replies' \in Seq(Slot) /\ Len(replies') = Len(replies) + 1
          BY <1>3, <1>4, <3>2, AppendProperties
        <4> QED
          BY <1>3, <3>2, <4>1 DEF Full
      <3> QED
        BY <1>2, <3>1, <3>2
    <2> QED
      BY <1>1, <1>2, <1>3, <2>1 DEF TypeOK
  <1>6. PhasesInv'
    BY <1>1, <1>2, <1>3 DEF PhasesInv
  <1>7. RequestsInv'
    BY <1>1, <1>2, <1>3, RequestsKept
  <1>8. RepliesInv'
    <2>1. PICK c \in Place, d \in Place :
                 /\ Leads(ReplyStream, replies, c, d)
                 /\ pub.pc = "running" => c.next = (pub.data - 1) + pub.ack
                 /\ AtSubscriber(d)
      BY <1>1 DEF RepliesInv
    <2>2. subTx.sent # 0 => d = subTx
      BY <1>2, <2>1 DEF AtSubscriber
    <2>3. /\ End \in Place
          /\ subTx.sent # 0 => Link(ReplyStream, subTx, s, End)
      BY <1>3, <1>4 DEF Link, End, Place
    <2>4. \E e \in Place : Leads(ReplyStream, replies', c, e)
      <3>1. CASE replies' = replies
        BY <2>1, <3>1
      <3>2. CASE replies' = Append(replies, s) /\ subTx.sent # 0
        BY <1>3, <1>4, <2>1, <2>2, <2>3, <3>2, LeadsAppend
      <3> QED
        BY <1>2, <3>1, <3>2
    <2> QED
      BY <1>2, <1>3, <2>1, <2>4 DEF RepliesInv, AtSubscriber
  <1> QED
    BY <1>1, <1>2, <1>3, <1>5, <1>6, <1>7, <1>8
    DEF DemoInv, OnlyExpectedMessages

(* A program that waits, gives up or ends leaves the rings as they are.    *)
LEMMA WaitStep ==
  ASSUME DemoInv,
         \/ PubPass \/ PubWriteTimeout \/ PubPoll \/ PubReadTimeout \/ PubStop
         \/ SubWriteTimeout \/ SubPoll \/ SubReadTimeout \/ SubStop
         \/ UNCHANGED vars
  PROVE  DemoInv'
  <1> USE CountTypes, DemoAssumption
  <1>1. /\ TypeOK /\ PhasesInv /\ RequestsInv /\ RepliesInv
        /\ pub.pc # "invalid" /\ sub.pc # "invalid"
        /\ pub \in Publisher /\ sub \in Subscriber
    BY DEF DemoInv, OnlyExpectedMessages, TypeOK
  <1>2. /\ UNCHANGED <<requests, replies, pubTx, subTx, publisher>>
        /\ early' \in BOOLEAN
    BY <1>1
    DEF PubPass, PubWriteTimeout, PubPoll, PubReadTimeout, PubStop,
        SubWriteTimeout, SubPoll, SubReadTimeout, SubStop, TimerEnds, vars,
        TypeOK
  <1>3. \/ pub' = pub
        \/ \E p \in {"pass", "fail", "stopped"} : pub' = [pub EXCEPT !.pc = p]
        \/ PubSending /\ pub' = [pub EXCEPT !.pc = "abort"]
        \/ /\ pub.polls < MaxEmptyPolls
           /\ pub' = [pub EXCEPT !.polls = @ + 1]
    BY
    DEF PubPass, PubWriteTimeout, PubPoll, PubReadTimeout, PubStop,
        SubWriteTimeout, SubPoll, SubReadTimeout, SubStop, vars
  <1>4. \/ sub' = sub
        \/ \E p \in {"fail", "stopped"} : sub' = [sub EXCEPT !.pc = p]
        \/ /\ sub.pc \in {"data", "ack"}
           /\ sub' = [sub EXCEPT !.pc = "abort"]
        \/ /\ sub.polls < MaxEmptyPolls
           /\ sub' = [sub EXCEPT !.polls = @ + 1]
    BY
    DEF PubPass, PubWriteTimeout, PubPoll, PubReadTimeout, PubStop,
        SubWriteTimeout, SubPoll, SubReadTimeout, SubStop, vars
  <1>5. /\ pub' \in Publisher /\ pub'.pc # "invalid"
        /\ pub'.ack = pub.ack /\ pub'.data = pub.data
        /\ pub'.pc = "running" => pub.pc = "running"
        /\ pub'.pc = "abort" =>
             /\ pub.pc \in {"running", "abort"}
             /\ pub.pc = "abort" \/ pubTx.next <= RequestCount
    <2>1. CASE pub' = pub
      BY <1>1, <2>1 DEF PhasesInv
    <2>2. ASSUME NEW p \in {"pass", "fail", "stopped"},
                 pub' = [pub EXCEPT !.pc = p]
          PROVE  /\ pub' \in Publisher /\ pub'.pc = p
                 /\ pub'.ack = pub.ack /\ pub'.data = pub.data
      BY <1>1, <2>2 DEF Publisher
    <2>3. CASE PubSending /\ pub' = [pub EXCEPT !.pc = "abort"]
      <3>1. /\ pub' \in Publisher /\ pub'.pc = "abort"
            /\ pub'.ack = pub.ack /\ pub'.data = pub.data
        BY <1>1, <2>3 DEF Publisher
      <3> QED
        BY <2>3, <3>1 DEF PubSending
    <2>4. CASE /\ pub.polls < MaxEmptyPolls
               /\ pub' = [pub EXCEPT !.polls = @ + 1]
      <3>1. pub.polls + 1 \in 0 .. MaxEmptyPolls
        BY <1>1, <2>4 DEF Publisher
      <3>2. /\ pub' \in Publisher /\ pub'.pc = pub.pc
            /\ pub'.ack = pub.ack /\ pub'.data = pub.data
        BY <1>1, <2>4, <3>1 DEF Publisher
      <3> QED
        BY <1>1, <3>2
    <2> QED
      BY <1>3, <2>1, <2>2, <2>3, <2>4
  <1>6. /\ sub' \in Subscriber /\ sub'.pc # "invalid"
        /\ sub'.received = sub.received
        /\ sub'.pc \in {"data", "receive", "ack"} => sub'.pc = sub.pc
        /\ sub'.pc = "abort" => sub.pc \in {"data", "ack", "abort"}
    <2>1. CASE sub' = sub
      BY <1>1, <2>1
    <2>2. ASSUME NEW p \in {"fail", "stopped"},
                 sub' = [sub EXCEPT !.pc = p]
          PROVE  /\ sub' \in Subscriber /\ sub'.pc = p
                 /\ sub'.received = sub.received
      BY <1>1, <2>2 DEF Subscriber
    <2>3. CASE /\ sub.pc \in {"data", "ack"}
               /\ sub' = [sub EXCEPT !.pc = "abort"]
      <3>1. /\ sub' \in Subscriber /\ sub'.pc = "abort"
            /\ sub'.received = sub.received
        BY <1>1, <2>3 DEF Subscriber
      <3> QED
        BY <2>3, <3>1
    <2>4. CASE /\ sub.polls < MaxEmptyPolls
               /\ sub' = [sub EXCEPT !.polls = @ + 1]
      <3>1. sub.polls + 1 \in 0 .. MaxEmptyPolls
        BY <1>1, <2>4 DEF Subscriber
      <3>2. /\ sub' \in Subscriber /\ sub'.pc = sub.pc
            /\ sub'.received = sub.received
        BY <1>1, <2>4, <3>1 DEF Subscriber
      <3> QED
        BY <1>1, <3>2
    <2> QED
      BY <1>4, <2>1, <2>2, <2>3, <2>4
  <1>7. TypeOK'
    BY <1>1, <1>2, <1>5, <1>6 DEF TypeOK
  <1>8. PhasesInv'
    BY <1>1, <1>2, <1>5, <1>6 DEF PhasesInv
  <1>9. RequestsInv'
    BY <1>1, <1>2, <1>5, <1>6, RequestsKept DEF NextRequest
  <1>10. RepliesInv'
    <2>1. ASSUME NEW d \in Place, AtSubscriber(d) PROVE AtSubscriber(d)'
      BY <1>1, <1>2, <1>6, <2>1 DEF AtSubscriber, PhasesInv
    <2> QED
      BY <1>1, <1>2, <1>5, <2>1, RepliesKept
  <1> QED
    BY <1>5, <1>6, <1>7, <1>8, <1>9, <1>10 DEF DemoInv, OnlyExpectedMessages

(* The two rings always hold the parts of the two streams that lie between *)
(* the programs.                                                           *)
THEOREM DemoInvariant == Spec => []DemoInv
  <1>1. DemoInv /\ [Next]_vars => DemoInv'
    BY PubSendStep, PubTakeStep, SubSendDataStep, SubTakeStep, SubAckStep,
       PubAbortStep, SubAbortStep, WaitStep
    DEF Next, PubStep, SubStep
  <1> QED
    BY <1>1, DemoInit, PTL DEF Spec

(* Neither application is ever handed a message it does not expect, for    *)
(* all lists of message lengths, every ring and every slot size, and       *)
(* either publisher: however the reads and writes interleave, also if one  *)
(* side gives up or is stopped in mid-message, the data come before the    *)
(* first acknowledgement and no message is cut short.                      *)
THEOREM MessagesExpected == Spec => []OnlyExpectedMessages
  <1>1. DemoInv => OnlyExpectedMessages
    BY DEF DemoInv
  <1> QED
    BY <1>1, DemoInvariant, PTL

-----------------------------------------------------------------------------
(* What the publisher's verdict says of the subscriber.                    *)

(* A slot that can hand over acknowledgement k.                            *)
IsAck(slot, k) == slot.message.kind = "ACK" /\ slot.message.seq = k

(* Acknowledgements are counted by the publisher after the subscriber has  *)
(* sent them, and the subscriber passes as it sends the last one.          *)
AcksInv ==
  /\ \A i \in 1 .. Len(replies) : \A k \in Nat :
       IsAck(replies[i], k) => k <= sub.received
  /\ pub.ack <= sub.received + 1
  /\ sub.received = RequestCount => sub.pc = "pass"
  /\ pub.pc = "pass" => pub.ack > RequestCount

(* A slot is written that is no acknowledgement, or that of a request the  *)
(* subscriber counts as answered.                                          *)
LEMMA AcksPushed ==
  ASSUME NEW q \in Seq(Slot), NEW s \in Slot, NEW n \in Nat,
         \A i \in 1 .. Len(q) : \A k \in Nat : IsAck(q[i], k) => k <= n,
         \A k \in Nat : IsAck(s, k) => k <= n
  PROVE  \A i \in 1 .. Len(Append(q, s)) : \A k \in Nat :
           IsAck(Append(q, s)[i], k) => k <= n
  <1> DEFINE p == Append(q, s)
  <1>1. /\ Len(q) \in Nat /\ Len(p) = Len(q) + 1 /\ p[Len(q) + 1] = s
        /\ \A i \in 1 .. Len(q) : p[i] = q[i]
    BY AppendProperties, LenProperties
  <1> HIDE DEF p
  <1>2. ASSUME NEW i \in 1 .. Len(p), NEW k \in Nat, IsAck(p[i], k)
        PROVE  k <= n
    <2>1. CASE i = Len(q) + 1
      BY <1>1, <1>2, <2>1
    <2>2. CASE i # Len(q) + 1
      <3>1. i \in 1 .. Len(q) /\ p[i] = q[i]
        BY <1>1, <2>2
      <3> QED
        BY <1>2, <3>1
    <2> QED
      BY <2>1, <2>2
  <1> QED
    BY <1>2 DEF p

(* The publisher takes a slot: it counts an acknowledgement the subscriber *)
(* has sent.                                                               *)
LEMMA AcksTaken ==
  ASSUME TypeOK, AcksInv, PubTake
  PROVE  AcksInv'
  <1> USE CountTypes
  <1> DEFINE slot == Head(replies)
             m == slot.message
             through == [pub EXCEPT !.inside = FALSE, !.polls = 0]
  <1>1. /\ pub.pc = "running" /\ replies # <<>> /\ replies' = Tail(replies)
        /\ pub \in Publisher /\ sub' = sub /\ replies \in Seq(Slot)
        /\ sub \in Subscriber
    BY DEF PubTake, PubReading, TypeOK
  <1>2. /\ Len(replies) \in Nat /\ Len(replies) # 0 /\ slot = replies[1]
        /\ Len(replies') = Len(replies) - 1
        /\ \A i \in 1 .. Len(replies') : replies'[i] = replies[i + 1]
    BY <1>1, HeadTailProperties, LenProperties, EmptySeq
  <1>3. /\ pub.ack \in Nat /\ sub.received \in Nat
        /\ pub.ack <= sub.received + 1
    BY <1>1 DEF Publisher, Subscriber, AcksInv
  <1>4. pub' = IF slot.abort THEN [pub EXCEPT !.pc = "fail"]
               ELSE IF ~slot.last THEN [pub EXCEPT !.inside = TRUE]
               ELSE IF ~ReplyOK(m) THEN [pub EXCEPT !.pc = "invalid"]
               ELSE IF m.kind = "ACK" THEN [through EXCEPT !.ack = @ + 1]
               ELSE [through EXCEPT !.data = @ + 1]
    BY DEF PubTake, PubAfter
  <1>5. /\ through.pc = "running" /\ through.ack = pub.ack
        /\ through = [through EXCEPT !.pc = "running"]
    BY <1>1 DEF Publisher
  <1>6. pub'.pc # "pass" /\ (\/ pub'.ack = pub.ack
                            \/ /\ pub'.ack = pub.ack + 1
                               /\ ReplyOK(m) /\ m.kind = "ACK")
    <2> HIDE DEF through, slot, m
    <2>1. CASE pub' = [pub EXCEPT !.pc = "fail"]
      BY <1>1, <2>1 DEF Publisher
    <2>2. CASE pub' = [pub EXCEPT !.inside = TRUE]
      BY <1>1, <2>2 DEF Publisher
    <2>3. CASE pub' = [pub EXCEPT !.pc = "invalid"]
      BY <1>1, <2>3 DEF Publisher
    <2>4. CASE /\ pub' = [through EXCEPT !.ack = @ + 1]
               /\ ReplyOK(m) /\ m.kind = "ACK"
      BY <1>5, <2>4
    <2>5. CASE pub' = [through EXCEPT !.data = @ + 1]
      BY <1>5, <2>5
    <2> QED
      BY <1>4, <2>1, <2>2, <2>3, <2>4, <2>5
  <1>7. pub'.ack <= sub'.received + 1
    <2>1. CASE pub'.ack = pub.ack
      BY <1>1, <1>3, <2>1
    <2>2. CASE pub'.ack = pub.ack + 1 /\ ReplyOK(m) /\ m.kind = "ACK"
      <3>1. IsAck(replies[1], pub.ack) /\ 1 \in 1 .. Len(replies)
        BY <1>2, <2>2 DEF ReplyOK, IsAck
      <3>2. pub.ack <= sub.received
        BY <1>3, <3>1 DEF AcksInv
      <3> QED
        BY <1>1, <1>3, <2>2, <3>2
    <2> QED
      BY <1>6, <2>1, <2>2
  <1>8. ASSUME NEW i \in 1 .. Len(replies'), NEW k \in Nat,
               IsAck(replies'[i], k)
        PROVE  k <= sub'.received
    <2>1. i + 1 \in 1 .. Len(replies) /\ replies'[i] = replies[i + 1]
      BY <1>2
    <2> QED
      BY <1>1, <1>8, <2>1 DEF AcksInv
  <1> QED
    BY <1>1, <1>6, <1>7, <1>8 DEF AcksInv

(* Every step keeps the account of the acknowledgements.                   *)
LEMMA AcksStep ==
  ASSUME DemoInv, AcksInv, [Next]_vars
  PROVE  AcksInv'
  <1> USE CountTypes
  <1>1. /\ TypeOK /\ pub \in Publisher /\ sub \in Subscriber
        /\ replies \in Seq(Slot) /\ sub.received \in 0 .. RequestCount
        /\ subTx \in [next : 1 .. (DataCount + 1), sent : Nat]
    BY DEF DemoInv, OnlyExpectedMessages, TypeOK, Subscriber
  <1>2. ASSUME UNCHANGED replies,
               /\ pub'.ack = pub.ack
               /\ pub'.pc = "pass" => pub.pc = "pass" \/ PubPass,
               /\ sub'.received = sub.received
               /\ sub.pc = "pass" => sub'.pc = "pass"
        PROVE  AcksInv'
    BY <1>2 DEF AcksInv, PubPass
  <1>3. CASE PubTake
    BY <1>1, <1>3, AcksTaken
  <1>4. CASE SubSendData
    <2> DEFINE m == Data(subTx.next)
               s == SlotOf(m, subTx.sent)
               pc == IF Advance(subTx, m).next > DataCount THEN "receive"
                                                           ELSE "data"
    <2>1. /\ replies' = Append(replies, s) /\ pub' = pub
          /\ sub.pc = "data" /\ sub' = [sub EXCEPT !.pc = pc]
      BY <1>4 DEF SubSendData
    <2> HIDE DEF pc
    <2>2. sub'.received = sub.received
      BY <1>1, <2>1 DEF Subscriber
    <2>3. subTx.next \in 1 .. DataCount /\ subTx.sent \in Nat
      BY <1>1, <2>1 DEF DemoInv, PhasesInv
    <2>4. s \in Slot /\ s.message = m /\ m.kind = "DATA"
      BY <2>3, MessageTypes, SlotFacts DEF Data, Message
    <2> HIDE DEF s, m
    <2> QED
      BY <1>1, <2>1, <2>2, <2>4, AcksPushed DEF AcksInv, IsAck
  <1>5. CASE SubAbort
    <2> DEFINE m == Data(subTx.next)
               s == AbortOf(m)
    <2>1. /\ \/ replies' = replies
             \/ subTx.sent # 0 /\ replies' = Append(replies, s)
          /\ pub' = pub
          /\ sub.pc = "abort" /\ sub' = [sub EXCEPT !.pc = "fail"]
      BY <1>5 DEF SubAbort
    <2>2. sub'.received = sub.received
      BY <1>1, <2>1 DEF Subscriber
    <2>3. CASE replies' = replies
      BY <1>1, <1>2, <2>1, <2>2, <2>3
    <2>4. CASE subTx.sent # 0 /\ replies' = Append(replies, s)
      <3>1. subTx.next \in 1 .. DataCount /\ subTx.sent \in Nat
        BY <1>1, <2>1, <2>4 DEF DemoInv, PhasesInv
      <3>2. s \in Slot /\ s.message = m /\ m.kind = "DATA"
        BY <3>1, MessageTypes, SlotFacts DEF Data, Message, AbortOf
      <3> HIDE DEF s, m
      <3> QED
        BY <1>1, <2>1, <2>2, <2>4, <3>2, AcksPushed DEF AcksInv, IsAck
    <2> QED
      BY <2>1, <2>3, <2>4
  <1>6. CASE SubAck
    <2> DEFINE n == sub.received + 1
               s == SlotOf(Ack(n), 0)
    <2>1. /\ replies' = Append(replies, s) /\ pub' = pub /\ sub.pc = "ack"
          /\ sub' = [sub EXCEPT !.pc = IF n = RequestCount THEN "pass"
                                                           ELSE "receive",
                               !.received = n]
      BY <1>6 DEF SubAck
    <2>2. /\ n \in Nat /\ sub.received < n
          /\ s \in Slot /\ s.message = Ack(n) /\ Ack(n).seq = n
      BY <1>1, MessageTypes, SlotFacts DEF Ack, Message
    <2> HIDE DEF n, s
    <2>3. sub'.received = n /\ (n = RequestCount => sub'.pc = "pass")
      BY <1>1, <2>1 DEF Subscriber
    <2>4. /\ \A i \in 1 .. Len(replies) : \A k \in Nat :
               IsAck(replies[i], k) => k <= n
          /\ \A k \in Nat : IsAck(s, k) => k <= n
      BY <1>1, <2>2 DEF AcksInv, IsAck
    <2>5. \A i \in 1 .. Len(replies') : \A k \in Nat :
            IsAck(replies'[i], k) => k <= n
      BY <1>1, <2>1, <2>2, <2>4, AcksPushed
    <2>6. pub.ack <= n + 1 /\ (pub.pc = "pass" => pub.ack > RequestCount)
      BY <1>1, <2>2 DEF AcksInv, Publisher
    <2> QED
      BY <2>1, <2>3, <2>5, <2>6 DEF AcksInv
  <1>7. CASE \/ PubSend \/ PubAbort \/ PubPass \/ PubWriteTimeout \/ PubPoll
             \/ PubReadTimeout \/ PubStop \/ UNCHANGED vars
    <2>1. /\ UNCHANGED <<replies, sub>>
          /\ \/ pub' = pub
             \/ pub' = [pub EXCEPT !.polls = @ + 1]
             \/ pub' = [pub EXCEPT !.pc = "pass"] /\ PubPass
             \/ \E x \in {"fail", "abort", "stopped"} :
                  pub' = [pub EXCEPT !.pc = x]
      BY <1>7
      DEF PubSend, PubAbort, PubPass, PubWriteTimeout, PubPoll,
          PubReadTimeout, PubStop, vars
    <2>2. /\ pub'.ack = pub.ack
          /\ pub'.pc = "pass" => pub.pc = "pass" \/ PubPass
      BY <1>1, <2>1 DEF Publisher
    <2> QED
      BY <1>2, <2>1, <2>2
  <1>8. CASE SubTake \/ SubWriteTimeout \/ SubPoll \/ SubReadTimeout \/ SubStop
    <2>1. /\ UNCHANGED <<replies, pub>> /\ sub.pc # "pass"
          /\ \/ \E x \in {"fail", "abort", "stopped", "invalid"} :
                  sub' = [sub EXCEPT !.pc = x]
             \/ sub' = [sub EXCEPT !.inside = TRUE]
             \/ sub' = [sub EXCEPT !.polls = @ + 1]
             \/ sub' = [sub EXCEPT !.pc = "ack", !.inside = FALSE, !.polls = 0]
      BY <1>8
      DEF SubTake, SubAfter, SubWriteTimeout, SubPoll, SubReadTimeout, SubStop,
          SubDone
    <2>2. sub'.received = sub.received
      BY <1>1, <2>1 DEF Subscriber
    <2> QED
      BY <1>2, <2>1, <2>2
  <1> QED
    BY <1>3, <1>4, <1>5, <1>6, <1>7, <1>8 DEF Next, PubStep, SubStep

(* A publisher that reports "linux ivc publisher pass" vouches for the     *)
(* subscriber, for all lists of message lengths, every ring and slot size  *)
(* and either publisher, whatever timers run out and whoever is stopped:   *)
(* the verdict cannot be wrong, only missing.                              *)
THEOREM PassVouches == Spec => []PassIsMutual
  <1>1. Init => AcksInv
    <2> SUFFICES ASSUME Init PROVE AcksInv
      OBVIOUS
    <2>1. /\ 1 .. Len(replies) = {} /\ pub.ack = 1 /\ sub.received = 0
          /\ pub.pc = "running"
      BY DEF Init
    <2> QED
      BY <2>1, CountTypes DEF AcksInv
  <1>2. DemoInv /\ AcksInv /\ [Next]_vars => AcksInv'
    BY AcksStep
  <1>3. DemoInv /\ AcksInv => PassIsMutual
    <2> SUFFICES ASSUME DemoInv, AcksInv, pub.pc = "pass"
                 PROVE  sub.pc = "pass"
      BY DEF PassIsMutual
    <2>1. pub.ack \in Nat /\ sub.received \in 0 .. RequestCount
      BY DEF DemoInv, OnlyExpectedMessages, TypeOK, Publisher, Subscriber
    <2>2. pub.ack > RequestCount /\ pub.ack <= sub.received + 1
      BY DEF AcksInv
    <2>3. sub.received = RequestCount
      BY <2>1, <2>2, CountTypes
    <2> QED
      BY <2>3 DEF AcksInv
  <1>4. Spec => []AcksInv
    BY <1>1, <1>2, DemoInvariant, PTL DEF Spec
  <1> QED
    BY <1>3, <1>4, DemoInvariant, PTL
=============================================================================
