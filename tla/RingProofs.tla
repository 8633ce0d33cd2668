----------------------------- MODULE RingProofs -----------------------------
(***************************************************************************)
(* Proofs about module Ring, for every capacity, counter width and slot    *)
(* size: the two sides never touch one slot at the same time, and the ring *)
(* implements the bounded queue of module SlotQueue.                       *)
(***************************************************************************)
EXTENDS Ring, TLAPS

-----------------------------------------------------------------------------
(* Arithmetic of the wrapping counters.                                    *)

(* Division with remainder, as \div and % define it.                       *)
LEMMA DivMod ==
  ASSUME NEW a \in Int, NEW c \in Nat \ {0}
  PROVE  /\ a = c * (a \div c) + (a % c)
         /\ a % c \in 0 .. (c - 1)
         /\ a \div c \in Int
  OBVIOUS

(* A product with a non-zero integer is at least as large as the factor.   *)
LEMMA MulBound ==
  ASSUME NEW n \in Int, NEW c \in Nat \ {0}
  PROVE  /\ n >= 1 => c * n >= c
         /\ n <= -1 => c * n <= -c
  OBVIOUS

(* Quotient and remainder are unique.                                      *)
LEMMA DivModUnique ==
  ASSUME NEW c \in Nat \ {0}, NEW q \in Int, NEW r \in 0 .. (c - 1),
         NEW p \in Int, NEW s \in 0 .. (c - 1), c * q + r = c * p + s
  PROVE  q = p /\ r = s
  <1>1. c * (q - p) = s - r
    OBVIOUS
  <1>2. q - p \in Int
    OBVIOUS
  <1>3. ~(q - p >= 1)
    BY <1>1, <1>2, MulBound
  <1>4. ~(q - p <= -1)
    BY <1>1, <1>2, MulBound
  <1>5. q = p
    BY <1>3, <1>4
  <1> QED
    BY <1>5

(* A remainder is recognised by any quotient that fits.                    *)
LEMMA ModIs ==
  ASSUME NEW c \in Nat \ {0}, NEW a \in Int, NEW q \in Int,
         NEW r \in 0 .. (c - 1), a = c * q + r
  PROVE  a % c = r
  <1> DEFINE p == a \div c
             s == a % c
  <1>1. a = c * p + s /\ s \in 0 .. (c - 1) /\ p \in Int
    BY DivMod
  <1> HIDE DEF p, s
  <1>2. c * q + r = c * p + s
    BY <1>1
  <1>3. r = s
    BY <1>1, <1>2, DivModUnique
  <1> QED
    BY <1>3 DEF s

(* Adding a multiple of c does not change the remainder.                   *)
LEMMA ModShift ==
  ASSUME NEW c \in Nat \ {0}, NEW a \in Int, NEW k \in Int
  PROVE  (a + c * k) % c = a % c
  <1> DEFINE q == a \div c
             r == a % c
  <1>1. a = c * q + r /\ r \in 0 .. (c - 1) /\ q \in Int
    BY DivMod
  <1> HIDE DEF q, r
  <1>2. q + k \in Int /\ c * k \in Int /\ a + c * k \in Int
    BY <1>1
  <1>3. a + c * k = c * (q + k) + r
    BY <1>1
  <1>4. (a + c * k) % c = r
    BY <1>1, <1>2, <1>3, ModIs
  <1> QED
    BY <1>4 DEF r

(* u32 subtraction of two counters.                                        *)
LEMMA UsedIs ==
  ASSUME NEW t \in Index, NEW h \in Index
  PROVE  Used(t, h) = IF t >= h THEN t - h ELSE t - h + IndexMod
  <1> USE RingAssumption DEF Index
  <1>1. CASE t >= h
    <2>1. t - h = IndexMod * 0 + (t - h) /\ t - h \in 0 .. (IndexMod - 1)
      BY <1>1
    <2> QED
      BY <1>1, <2>1, ModIs DEF Used
  <1>2. CASE t < h
    <2>1. /\ t - h = IndexMod * (-1) + (t - h + IndexMod)
          /\ t - h + IndexMod \in 0 .. (IndexMod - 1)
          /\ t - h \in Int /\ -1 \in Int
      BY <1>2
    <2>2. (t - h) % IndexMod = t - h + IndexMod
      BY <2>1, ModIs
    <2> QED
      BY <1>2, <2>2 DEF Used
  <1> QED
    BY <1>1, <1>2

(* u32 increment of a counter.                                             *)
LEMMA SuccIs ==
  ASSUME NEW i \in Index
  PROVE  /\ Succ(i) = IF i + 1 = IndexMod THEN 0 ELSE i + 1
         /\ Succ(i) \in Index
  <1> USE RingAssumption DEF Index
  <1>1. CASE i + 1 = IndexMod
    <2>1. i + 1 = IndexMod * 1 + 0
      BY <1>1
    <2> QED
      BY <1>1, <2>1, ModIs DEF Succ
  <1>2. CASE i + 1 # IndexMod
    <2>1. i + 1 = IndexMod * 0 + (i + 1) /\ i + 1 \in 0 .. (IndexMod - 1)
      BY <1>2
    <2> QED
      BY <1>2, <2>1, ModIs DEF Succ
  <1> QED
    BY <1>1, <1>2

(* Publishing a slot raises the fill level by one, consuming one lowers    *)
(* it, and the level is 0 exactly when the counters are equal.             *)
LEMMA UsedSteps ==
  ASSUME NEW t \in Index, NEW h \in Index
  PROVE  /\ Used(t, h) \in Nat
         /\ Used(t, h) = 0 <=> t = h
         /\ Used(t, h) < RingCapacity => Used(Succ(t), h) = Used(t, h) + 1
         /\ t # h => Used(t, Succ(h)) = Used(t, h) - 1
  <1> USE RingAssumption DEF Index
  <1>1. Used(t, h) = IF t >= h THEN t - h ELSE t - h + IndexMod
    BY UsedIs
  <1>2. Succ(t) = (IF t + 1 = IndexMod THEN 0 ELSE t + 1) /\ Succ(t) \in Index
    BY SuccIs
  <1>3. Succ(h) = (IF h + 1 = IndexMod THEN 0 ELSE h + 1) /\ Succ(h) \in Index
    BY SuccIs
  <1>4. Used(Succ(t), h)
          = IF Succ(t) >= h THEN Succ(t) - h ELSE Succ(t) - h + IndexMod
    BY <1>2, UsedIs
  <1>5. Used(t, Succ(h))
          = IF t >= Succ(h) THEN t - Succ(h) ELSE t - Succ(h) + IndexMod
    BY <1>3, UsedIs
  <1> QED
    BY <1>1, <1>2, <1>3, <1>4, <1>5

(* Slot indices do not notice that a counter wrapped: this is where the    *)
(* capacity has to divide the number of counter values.                    *)
LEMMA SlotWraps ==
  ASSUME NEW i \in Int
  PROVE  SlotOf(i - IndexMod) = SlotOf(i) /\ SlotOf(i) \in SlotIndex
  <1> DEFINE k == IndexMod \div RingCapacity
  <1>1. IndexMod = RingCapacity * k /\ k \in Int
    BY DivMod, RingAssumption
  <1> HIDE DEF k
  <1>2. -k \in Int /\ i - IndexMod = i + RingCapacity * (-k)
    BY <1>1, RingAssumption
  <1>3. (i + RingCapacity * (-k)) % RingCapacity = i % RingCapacity
    BY <1>2, ModShift, RingAssumption
  <1>4. i % RingCapacity \in 0 .. (RingCapacity - 1)
    BY DivMod, RingAssumption
  <1> QED
    BY <1>2, <1>3, <1>4 DEF SlotOf, SlotIndex

(* The slot behind the last published one is the slot of tail.             *)
LEMMA SlotOfTail ==
  ASSUME NEW t \in Index, NEW h \in Index
  PROVE  SlotOf(h + Used(t, h)) = SlotOf(t)
  <1>1. h + Used(t, h) = t \/ t = (h + Used(t, h)) - IndexMod
    BY UsedIs, RingAssumption DEF Index
  <1>2. h + Used(t, h) \in Int
    BY UsedSteps DEF Index
  <1> QED
    BY <1>1, <1>2, SlotWraps

(* Two counters less than a capacity apart have different slots.           *)
LEMMA SlotsDiffer ==
  ASSUME NEW i \in Int, NEW d \in 1 .. (RingCapacity - 1)
  PROVE  SlotOf(i) # SlotOf(i + d)
  <1> SUFFICES ASSUME SlotOf(i) = SlotOf(i + d)
               PROVE  FALSE
    OBVIOUS
  <1> USE RingAssumption
  <1> DEFINE q == i \div RingCapacity
             p == (i + d) \div RingCapacity
             r == i % RingCapacity
  <1>1. /\ i = RingCapacity * q + r
        /\ i + d = RingCapacity * p + r
        /\ q \in Int /\ p \in Int /\ r \in Int
    BY DivMod DEF SlotOf
  <1> HIDE DEF q, p, r
  <1>2. RingCapacity * (p - q) = d /\ p - q \in Int
    BY <1>1
  <1>3. p - q >= 1 \/ p - q <= -1 \/ p - q = 0
    BY <1>2
  <1>4. p - q # 0
    BY <1>2
  <1> QED
    BY <1>2, <1>3, <1>4, MulBound

(* While the ring is not full, no published slot is the slot of tail.      *)
LEMMA PublishedNotTail ==
  ASSUME NEW t \in Index, NEW h \in Index, Used(t, h) < RingCapacity,
         NEW k \in 0 .. (Used(t, h) - 1)
  PROVE  SlotOf(h + k) # SlotOf(t)
  <1>1. Used(t, h) \in Nat
    BY UsedSteps
  <1>2. /\ h + k \in Int
        /\ Used(t, h) - k \in 1 .. (RingCapacity - 1)
        /\ (h + k) + (Used(t, h) - k) = h + Used(t, h)
    BY <1>1, RingAssumption DEF Index
  <1>3. SlotOf(h + k) # SlotOf(h + Used(t, h))
    BY <1>2, SlotsDiffer
  <1> QED
    BY <1>3, SlotOfTail

-----------------------------------------------------------------------------
(* The inductive invariant.                                                *)

(* The producer found room, keeps it, and has copied the words before its  *)
(* current one.                                                            *)
ProducerInv ==
  /\ prod.pc # "idle" => Used(tail, head) < RingCapacity
  /\ prod.pc = "copy" =>
       /\ prod.word <= SlotWords
       /\ \A w \in 1 .. (prod.word - 1) :
            slots[SlotOf(tail)][w] = prod.slot[w]
  /\ prod.pc = "publish" => slots[SlotOf(tail)] = prod.slot

(* The consumer found a slot, keeps it, and its copy agrees with the ring  *)
(* so far.                                                                 *)
ConsumerInv ==
  /\ cons.pc # "idle" => head # tail
  /\ cons.pc = "copy" =>
       /\ cons.word <= SlotWords
       /\ \A w \in 1 .. (cons.word - 1) :
            cons.slot[w] = slots[SlotOf(head)][w]
  /\ cons.pc = "peeked" => cons.slot = slots[SlotOf(head)]

RingInv ==
  /\ TypeOK
  /\ Used(tail, head) <= RingCapacity
  /\ ProducerInv
  /\ ConsumerInv

(* The oldest published slot is not the one the producer fills.            *)
LEMMA HeadNotTail ==
  ASSUME TypeOK, Used(tail, head) < RingCapacity, head # tail
  PROVE  SlotOf(head) # SlotOf(tail)
  <1>1. Used(tail, head) \in Nat /\ Used(tail, head) # 0
    BY UsedSteps DEF TypeOK
  <1>2. 0 \in 0 .. (Used(tail, head) - 1) /\ head + 0 = head
    BY <1>1 DEF TypeOK, Index
  <1>3. SlotOf(head + 0) # SlotOf(tail)
    BY <1>2, PublishedNotTail DEF TypeOK
  <1> QED
    BY <1>2, <1>3

(* The ring axivc_ring_initialize leaves satisfies the inductive invariant.*)
LEMMA RingInit == Init => RingInv
  <1> SUFFICES ASSUME Init PROVE RingInv
    OBVIOUS
  <1> USE RingAssumption
  <1>1. ZeroSlot \in Slot
    BY DEF ZeroSlot, Slot
  <1>2. TypeOK
    BY <1>1 DEF Init, TypeOK, Index
  <1>3. Used(tail, head) = 0
    BY <1>2, UsedSteps DEF Init, TypeOK
  <1> QED
    BY <1>2, <1>3 DEF Init, RingInv, ProducerInv, ConsumerInv

(* Every step of the producer and of the consumer preserves the inductive  *)
(* invariant: one step of the proof per action of Next.                    *)
LEMMA RingStep == RingInv /\ [Next]_vars => RingInv'
  <1> SUFFICES ASSUME RingInv, [Next]_vars PROVE RingInv'
    OBVIOUS
  <1> USE RingAssumption
  <1>0. /\ TypeOK /\ Used(tail, head) <= RingCapacity
        /\ ProducerInv /\ ConsumerInv
        /\ head \in Index /\ tail \in Index
        /\ Used(tail, head) \in Nat
        /\ SlotOf(tail) \in SlotIndex /\ SlotOf(head) \in SlotIndex
    BY UsedSteps, SlotWraps DEF RingInv, TypeOK, Index
  <1>1. ASSUME NEW s \in Slot, PushBegin(s) PROVE RingInv'
    <2>1. TypeOK'
      BY <1>0, <1>1 DEF TypeOK, PushBegin
    <2>2. ProducerInv'
      BY <1>0, <1>1 DEF ProducerInv, PushBegin, IsFull
    <2> QED
      BY <1>0, <1>1, <2>1, <2>2 DEF RingInv, ConsumerInv, PushBegin
  <1>2. CASE PushFull
    BY <1>0, <1>2 DEF RingInv, TypeOK, ProducerInv, ConsumerInv, PushFull
  <1>3. CASE PushCopy
    <2>1. /\ prod.pc = "copy" /\ prod.word \in 1 .. SlotWords
          /\ prod.slot \in Slot /\ slots \in [SlotIndex -> Slot]
      BY <1>0, <1>3 DEF TypeOK, ProducerInv, PushCopy
    <2>2. /\ slots' = [slots EXCEPT ![SlotOf(tail)] =
                         [@ EXCEPT ![prod.word] = prod.slot[prod.word]]]
          /\ head' = head /\ tail' = tail /\ cons' = cons
          /\ pushed' = pushed
      BY <1>3 DEF PushCopy
    <2>3. /\ slots' \in [SlotIndex -> Slot]
          /\ slots'[SlotOf(tail)] \in Slot
          /\ \A i \in SlotIndex : i # SlotOf(tail) => slots'[i] = slots[i]
          /\ \A w \in 1 .. SlotWords :
               slots'[SlotOf(tail)][w] =
                 IF w = prod.word THEN prod.slot[w]
                                  ELSE slots[SlotOf(tail)][w]
      BY <1>0, <2>1, <2>2 DEF Slot
    <2>4. TypeOK'
      <3>1. prod' \in [pc : {"idle", "copy", "publish"}, slot : Slot,
                       word : 1 .. (SlotWords + 1)]
        <4>1. prod' = [pc |-> IF prod.word = SlotWords THEN "publish"
                                                       ELSE "copy",
                       slot |-> prod.slot, word |-> prod.word + 1]
          BY <1>0, <1>3 DEF TypeOK, PushCopy
        <4> QED
          BY <2>1, <4>1
      <3> QED
        BY <1>0, <2>2, <2>3, <3>1 DEF TypeOK
    <2>5. Used(tail, head) < RingCapacity
      BY <1>0, <2>1 DEF ProducerInv
    <2>6. \A w \in 1 .. prod.word : slots'[SlotOf(tail)][w] = prod.slot[w]
      BY <1>0, <2>1, <2>3 DEF ProducerInv
    <2>7. CASE prod.word = SlotWords
      <3>1. slots'[SlotOf(tail)] = prod.slot
        BY <2>1, <2>3, <2>6, <2>7 DEF Slot
      <3> QED
        BY <1>0, <1>3, <2>2, <2>4, <2>5, <2>7, <3>1, HeadNotTail, <2>3
        DEF RingInv, TypeOK, ProducerInv, ConsumerInv, PushCopy
    <2>8. CASE prod.word # SlotWords
      <3>1. ProducerInv'
        BY <1>3, <2>1, <2>2, <2>5, <2>6, <2>8
        DEF ProducerInv, PushCopy
      <3>2. ConsumerInv'
        BY <1>0, <2>2, <2>3, <2>5, HeadNotTail DEF ConsumerInv
      <3> QED
        BY <1>0, <2>2, <2>4, <3>1, <3>2 DEF RingInv
    <2> QED
      BY <2>7, <2>8
  <1>4. CASE PushPublish
    <2>1. /\ Used(tail, head) < RingCapacity
          /\ Used(tail', head') = Used(tail, head) + 1
          /\ tail' \in Index
      BY <1>0, <1>4, UsedSteps, SuccIs DEF ProducerInv, PushPublish
    <2>2. TypeOK'
      BY <1>0, <1>4, <2>1 DEF TypeOK, PushPublish
    <2>3. tail' # head'
      BY <1>0, <2>1, <2>2, UsedSteps DEF TypeOK
    <2> QED
      BY <1>0, <1>4, <2>1, <2>2, <2>3
      DEF RingInv, TypeOK, ProducerInv, ConsumerInv, PushPublish
  <1>5. CASE PeekBegin
    <2>1. cons' = [pc |-> "copy", slot |-> cons.slot, word |-> 1]
      BY <1>0, <1>5 DEF TypeOK, PeekBegin
    <2>2. TypeOK'
      BY <1>0, <1>5, <2>1 DEF TypeOK, PeekBegin
    <2>3. ConsumerInv'
      BY <1>0, <1>5, <2>1 DEF ConsumerInv, PeekBegin
    <2> QED
      BY <1>0, <1>5, <2>2, <2>3 DEF RingInv, ProducerInv, PeekBegin
  <1>6. CASE PeekCopy
    <2>1. /\ cons.pc = "copy" /\ cons.word \in 1 .. SlotWords
          /\ cons.slot \in Slot /\ slots[SlotOf(head)] \in Slot
      BY <1>0, <1>6 DEF TypeOK, ConsumerInv, PeekCopy
    <2>2. /\ cons' = [pc |-> IF cons.word = SlotWords THEN "peeked"
                                                       ELSE "copy",
                      slot |-> [cons.slot EXCEPT ![cons.word] =
                                  slots[SlotOf(head)][cons.word]],
                      word |-> cons.word + 1]
          /\ UNCHANGED <<head, tail, slots, prod, pushed>>
      BY <1>0, <1>6 DEF TypeOK, PeekCopy
    <2>3. /\ cons'.slot \in Slot
          /\ \A w \in 1 .. cons.word : cons'.slot[w] = slots[SlotOf(head)][w]
      <3>1. cons'.slot = [cons.slot EXCEPT ![cons.word] =
                            slots[SlotOf(head)][cons.word]]
        BY <2>2
      <3>2. \A w \in 1 .. (cons.word - 1) :
               cons.slot[w] = slots[SlotOf(head)][w]
        BY <1>0, <2>1 DEF ConsumerInv
      <3> QED
        BY <2>1, <3>1, <3>2 DEF Slot
    <2>4. TypeOK'
      <3>1. cons' \in [pc : {"idle", "copy", "peeked"}, slot : Slot,
                       word : 1 .. (SlotWords + 1)]
        BY <2>1, <2>2, <2>3
      <3> QED
        BY <1>0, <2>2, <3>1 DEF TypeOK
    <2>5. cons.word = SlotWords => cons'.slot = slots[SlotOf(head)]
      BY <2>1, <2>3 DEF Slot
    <2>6. ConsumerInv'
      BY <1>0, <2>1, <2>2, <2>3, <2>5 DEF ConsumerInv
    <2> QED
      BY <1>0, <2>2, <2>4, <2>6 DEF RingInv, ProducerInv
  <1>7. CASE Pop
    <2>1. /\ head # tail /\ head' \in Index
          /\ Used(tail', head') = Used(tail, head) - 1
      BY <1>0, <1>7, UsedSteps, SuccIs DEF ConsumerInv, Pop
    <2>2. TypeOK'
      BY <1>0, <1>7, <2>1 DEF TypeOK, Pop
    <2> QED
      BY <1>0, <1>7, <2>1, <2>2
      DEF RingInv, TypeOK, ProducerInv, ConsumerInv, Pop
  <1>8. CASE Keep
    BY <1>0, <1>8 DEF RingInv, TypeOK, ProducerInv, ConsumerInv, Keep
  <1>9. CASE UNCHANGED vars
    BY <1>0, <1>9 DEF RingInv, TypeOK, ProducerInv, ConsumerInv, vars
  <1> QED
    BY <1>1, <1>2, <1>3, <1>4, <1>5, <1>6, <1>7, <1>8, <1>9 DEF Next

(* The invariant holds in every reachable state.                           *)
THEOREM RingInvariant == Spec => []RingInv
  BY RingInit, RingStep, PTL DEF Spec

(* Type correctness: the counters stay u32 values across their wrap, and   *)
(* every slot of the ring is always a slot.                                *)
THEOREM RingTypeCorrect == Spec => []TypeOK
  <1>1. RingInv => TypeOK
    BY DEF RingInv
  <1> QED
    BY <1>1, RingInvariant, PTL

(* The producer never fills the slot that the consumer is copying, for     *)
(* every capacity that divides the number of counter values.               *)
THEOREM RaceFree == Spec => []NoSlotRace
  <1>1. RingInv => NoSlotRace
    BY HeadNotTail DEF RingInv, ProducerInv, ConsumerInv, NoSlotRace
  <1> QED
    BY <1>1, RingInvariant, PTL

-----------------------------------------------------------------------------
(* The ring implements the bounded queue.                                  *)

(* A sequence is the function of its elements.                             *)
LEMMA SequenceIsFunction ==
  ASSUME NEW S, NEW s \in Seq(S)
  PROVE  s = [i \in 1 .. Len(s) |-> s[i]]
  OBVIOUS

(* The published slots form a sequence of slots, Used of them.             *)
LEMMA ContentsIsSequence ==
  ASSUME RingInv
  PROVE  /\ Contents \in Seq(Slot)
         /\ Len(Contents) = Used(tail, head)
         /\ \A i \in 1 .. Used(tail, head) :
              Contents[i] = slots[SlotOf(head + (i - 1))]
         /\ head # tail =>
              Contents # <<>> /\ Head(Contents) = slots[SlotOf(head)]
  <1>1. Used(tail, head) \in Nat /\ (Used(tail, head) = 0 <=> tail = head)
    BY UsedSteps DEF RingInv, TypeOK
  <1>2. \A i \in 1 .. Used(tail, head) : slots[SlotOf(head + (i - 1))] \in Slot
    BY <1>1, SlotWraps DEF RingInv, TypeOK, Index
  <1>3. /\ Contents \in Seq(Slot)
        /\ Len(Contents) = Used(tail, head)
        /\ \A i \in 1 .. Used(tail, head) :
             Contents[i] = slots[SlotOf(head + (i - 1))]
    BY <1>1, <1>2 DEF Contents
  <1>4. ASSUME head # tail
        PROVE  Contents # <<>> /\ Head(Contents) = slots[SlotOf(head)]
    <2>1. 1 \in 1 .. Used(tail, head) /\ head + (1 - 1) = head
      BY <1>1, <1>4 DEF RingInv, TypeOK, Index
    <2> QED
      BY <1>3, <2>1
  <1> QED
    BY <1>3, <1>4

(* Filling the slot of tail does not touch the published ones.             *)
LEMMA CopyKeepsContents ==
  ASSUME RingInv, PushCopy
  PROVE  Contents' = Contents
  <1>1. Used(tail, head) < RingCapacity /\ Used(tail, head) \in Nat
    BY UsedSteps DEF RingInv, TypeOK, ProducerInv, PushCopy
  <1>2. ASSUME NEW i \in 1 .. Used(tail, head)
        PROVE  slots'[SlotOf(head + (i - 1))] = slots[SlotOf(head + (i - 1))]
    <2>1. i - 1 \in 0 .. (Used(tail, head) - 1) /\ head + (i - 1) \in Int
      BY <1>1 DEF RingInv, TypeOK, Index
    <2>2. /\ SlotOf(head + (i - 1)) # SlotOf(tail)
          /\ SlotOf(head + (i - 1)) \in SlotIndex
      BY <1>1, <2>1, PublishedNotTail, SlotWraps DEF RingInv, TypeOK
    <2> QED
      BY <2>2 DEF RingInv, TypeOK, PushCopy
  <1> QED
    BY <1>2 DEF Contents, PushCopy

(* Publishing appends the filled slot.                                     *)
LEMMA PublishAppends ==
  ASSUME RingInv, RingInv', PushPublish
  PROVE  Contents' = Append(Contents, prod.slot)
  <1> DEFINE u == Used(tail, head)
  <1>1. /\ u \in Nat /\ Used(tail', head) = u + 1
        /\ head' = head /\ slots' = slots
        /\ slots[SlotOf(head + u)] = prod.slot
    BY UsedSteps, SlotOfTail DEF RingInv, TypeOK, ProducerInv, PushPublish
  <1>2. /\ Len(Contents) = u /\ Contents \in Seq(Slot)
        /\ \A i \in 1 .. u : Contents[i] = slots[SlotOf(head + (i - 1))]
    BY ContentsIsSequence
  <1>3. Contents' = [i \in 1 .. (u + 1) |-> slots[SlotOf(head + (i - 1))]]
    BY <1>1 DEF Contents
  <1> HIDE DEF u
  <1>4. (u + 1) - 1 = u
    BY <1>1
  <1>5. \A i \in 1 .. (u + 1) :
          slots[SlotOf(head + (i - 1))] = Append(Contents, prod.slot)[i]
    BY <1>1, <1>2, <1>4
  <1>6. Append(Contents, prod.slot)
          = [i \in 1 .. (u + 1) |-> Append(Contents, prod.slot)[i]]
    BY <1>1, <1>2
  <1> QED
    BY <1>3, <1>5, <1>6

(* Consuming removes the oldest slot.                                      *)
LEMMA PopRemovesHead ==
  ASSUME RingInv, RingInv', Pop
  PROVE  Contents' = Tail(Contents)
  <1> DEFINE u == Used(tail, head)
  <1>1. /\ u \in Nat /\ u # 0 /\ Used(tail, head') = u - 1
        /\ tail' = tail /\ slots' = slots
        /\ head \in Index /\ head' = Succ(head) /\ head \in Int
    BY UsedSteps DEF RingInv, TypeOK, ConsumerInv, Pop, Index
  <1>2. /\ Len(Contents) = u /\ Contents \in Seq(Slot) /\ Contents # <<>>
        /\ \A i \in 1 .. u : Contents[i] = slots[SlotOf(head + (i - 1))]
    BY ContentsIsSequence DEF RingInv, ConsumerInv, Pop
  <1>3. Contents' = [i \in 1 .. (u - 1) |-> slots[SlotOf(Succ(head) + (i - 1))]]
    BY <1>1 DEF Contents
  <1>4. ASSUME NEW i \in 1 .. (u - 1)
        PROVE  SlotOf(Succ(head) + (i - 1)) = SlotOf(head + ((i + 1) - 1))
    <2>1. \/ Succ(head) + (i - 1) = head + ((i + 1) - 1)
          \/ Succ(head) + (i - 1) = (head + ((i + 1) - 1)) - IndexMod
      BY <1>1, SuccIs, RingAssumption
    <2>2. head + ((i + 1) - 1) \in Int
      BY <1>1
    <2> QED
      BY <2>1, <2>2, SlotWraps
  <1> HIDE DEF u
  <1>5. /\ Len(Tail(Contents)) = u - 1 /\ Tail(Contents) \in Seq(Slot)
        /\ \A i \in 1 .. (u - 1) : Tail(Contents)[i] = Contents[i + 1]
    BY <1>1, <1>2
  <1>6. \A i \in 1 .. (u - 1) :
          slots[SlotOf(Succ(head) + (i - 1))] = Tail(Contents)[i]
    BY <1>1, <1>2, <1>4, <1>5
  <1>7. Tail(Contents) = [i \in 1 .. (u - 1) |-> Tail(Contents)[i]]
    BY <1>5, SequenceIsFunction
  <1> QED
    BY <1>3, <1>6, <1>7

(* Every behaviour of the ring, seen through Contents, is a behaviour of   *)
(* the bounded queue: whole slots in order, none lost, duplicated,         *)
(* overwritten or torn, and "full" reported exactly when it is full.       *)
THEOREM RingRefinesSlotQueue == Spec => ImplementsSlotQueue
  <1> USE DEF Queue!vars
  <1>1. Init => Queue!Init
    <2> SUFFICES ASSUME Init PROVE Queue!Init
      OBVIOUS
    <2>1. RingInv /\ Used(tail, head) = 0
      BY RingInit, UsedSteps DEF Init, RingInv, TypeOK
    <2>2. Contents = <<>>
      BY <2>1, ContentsIsSequence
    <2> QED
      BY <2>2 DEF Init, Queue!Init
  <1>2. RingInv /\ RingInv' /\ [Next]_vars => [Queue!Next]_(Queue!vars)
    <2> SUFFICES ASSUME RingInv, RingInv', [Next]_vars
                 PROVE  Queue!Next \/ UNCHANGED Queue!vars
      OBVIOUS
    <2> USE DEF Queue!Next
    <2>1. ASSUME NEW s \in Slot, PushBegin(s) PROVE Queue!PushAgain
      BY <2>1 DEF PushBegin, Queue!PushAgain, Contents
    <2>2. CASE PushFull
      <3>1. Len(Contents) = RingCapacity
        BY <2>2, ContentsIsSequence, UsedSteps, RingAssumption
        DEF PushFull, IsFull, RingInv, TypeOK
      <3> QED
        BY <2>2, <3>1 DEF PushFull, Queue!PushFull, Contents
    <2>3. CASE PushCopy
      BY <2>3, CopyKeepsContents DEF PushCopy
    <2>4. CASE PushPublish
      <3>1. prod.slot \in Slot /\ Len(Contents) < RingCapacity
        BY <2>4, ContentsIsSequence DEF PushPublish, RingInv, TypeOK, ProducerInv
      <3>2. Queue!Push(prod.slot)
        BY <2>4, <3>1, PublishAppends DEF PushPublish, Queue!Push
      <3> QED
        BY <3>1, <3>2
    <2>5. CASE PeekBegin
      BY <2>5 DEF PeekBegin, RingInv, TypeOK, Contents
    <2>6. CASE PeekCopy
      <3>1. /\ Contents' = Contents /\ pushed' = pushed
            /\ cons.pc = "copy" /\ cons'.pc \in {"copy", "peeked"}
        BY <2>6 DEF PeekCopy, RingInv, TypeOK, Contents
      <3>2. CASE cons'.pc = "peeked"
        <4>1. cons'.slot = slots[SlotOf(head)] /\ head # tail
          BY <2>6, <3>2 DEF PeekCopy, RingInv, ConsumerInv
        <4>2. Contents # <<>> /\ Head(Contents) = cons'.slot
          BY <4>1, ContentsIsSequence
        <4> QED
          BY <3>1, <3>2, <4>2 DEF Queue!Peek
      <3>3. CASE cons'.pc = "copy"
        BY <3>1, <3>3
      <3> QED
        BY <3>1, <3>2, <3>3
    <2>7. CASE Pop
      <3>1. /\ cons.pc = "peeked" /\ cons'.pc = "idle"
            /\ Contents # <<>> /\ Head(Contents) = cons.slot
        BY <2>7, ContentsIsSequence DEF Pop, RingInv, TypeOK, ConsumerInv
      <3> QED
        BY <2>7, <3>1, PopRemovesHead DEF Pop, Queue!Pop
    <2>8. CASE Keep
      BY <2>8 DEF Keep, Queue!Keep, RingInv, TypeOK, Contents
    <2>9. CASE UNCHANGED vars
      BY <2>9 DEF vars, Contents
    <2> QED
      BY <2>1, <2>2, <2>3, <2>4, <2>5, <2>6, <2>7, <2>8, <2>9 DEF Next
  <1> QED
    BY <1>1, <1>2, RingInvariant, PTL DEF Spec, ImplementsSlotQueue, Queue!Spec
=============================================================================
