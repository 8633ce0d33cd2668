--------------------------- MODULE RegistryProofs ---------------------------
(***************************************************************************)
(* Proofs about Registry, for any number of callers, files, channels and   *)
(* devices.                                                                *)
(***************************************************************************)
EXTENDS Registry, FiniteSetTheorems, TLAPS

(* The states of a call in which a device is the caller's alone.           *)
Owning == {"register", "list"} \cup Removing

(* Where a call is that works on device i: the device is not listed yet or *)
(* no longer, a removal has claimed it, or is about to free it.            *)
Unlisted(i) ==
  \E p \in Callers : call[p].pc \in {"register", "list", "free"} /\ call[p].id = i
Claimed(i) ==
  \E p \in Callers : call[p].pc \in Removing /\ call[p].id = i
Leaves(i) ==
  \E p \in Callers : call[p].pc = "free" /\ call[p].id = i

(* A listed device stands for its channel until the removal's hypercall.   *)
Holds(i) == Listed(i) /\ ~PastHypercall(i)

(* The list has no device twice, and of two devices of one channel the     *)
(* older has given the channel up.                                         *)
ListInv ==
  \A m, n \in 1 .. Len(list) : m < n =>
    /\ list[m] # list[n]
    /\ vdev[list[m]].channel = vdev[list[n]].channel => PastHypercall(list[m])

(* What is true of device i.  Numbers are used in order; a device that     *)
(* does not exist is neither registered, open nor listed; one that exists  *)
(* is on the list or in the hands of one call, and is marked only by a     *)
(* removal; an open device can be found and is not marked.                 *)
VdevInv(i) ==
  /\ i >= nextId <=> vdev[i].state = "none"
  /\ vdev[i].state # "live" =>
       ~vdev[i].misc /\ ~vdev[i].active /\ ~Listed(i)
  /\ vdev[i].state = "none" => ~vdev[i].removing
  /\ vdev[i].state = "live" =>
       /\ vdev[i].channel \in Channels
       /\ Listed(i) \/ Unlisted(i)
       /\ vdev[i].removing => Claimed(i)
       /\ Listed(i) /\ ~vdev[i].removing => vdev[i].misc
  /\ vdev[i].active =>
       vdev[i].misc /\ ~vdev[i].removing /\ \E f \in Files : file[f] = i

(* What is true of a call: which of its fields are set, the channel it     *)
(* answers for while it creates, and the state of the device it works on,  *)
(* which changes with its progress.                                        *)
CallInv(p) ==
  LET c == call[p]
  IN  /\ c.pc = "idle" => c = Idle
      /\ c.pc # "idle" => module = "live" /\ c.channel \in Channels
      /\ c.pc \in {"prepare", "reserve", "rollback", "find"} => c.id = NoId
      /\ c.pc \in Creating => c.channel \in hv
      /\ c.pc \in Owning =>
           /\ c.id \in Ids
           /\ vdev[c.id].state = "live"
           /\ vdev[c.id].channel = c.channel
           /\ vdev[c.id].removing <=> c.pc \in Removing
           /\ vdev[c.id].misc <=> c.pc \in {"list", "hypercall", "deregister"}
           /\ Listed(c.id) <=> c.pc \in {"hypercall", "deregister", "unlink"}

(* Two calls never work on the same device.                                *)
OwnerInv ==
  \A p, q \in Callers :
    call[p].pc \in Owning /\ call[q].pc \in Owning /\ call[p].id = call[q].id => p = q

(* One creation or one device stands for a channel, and the hypervisor     *)
(* holds the channels they stand for.                                      *)
HoldInv ==
  /\ \A p, q \in Callers :
       call[p].pc \in Creating /\ call[q].pc \in Creating
         /\ call[p].channel = call[q].channel => p = q
  /\ \A i \in Ids : Holds(i) =>
       /\ vdev[i].channel \in hv
       /\ \A p \in Callers : call[p].pc \in Creating => call[p].channel # vdev[i].channel
       /\ \A j \in Ids : Holds(j) /\ vdev[j].channel = vdev[i].channel => j = i

(* An open file has its device to itself, and keeps the module loaded.     *)
FileInv ==
  \A f \in Files : file[f] # NoId =>
    /\ vdev[file[f]].active
    /\ module = "live"
    /\ \A g \in Files : file[g] = file[f] => g = f

(* uninit_ivc_devices runs alone, and ends with an empty list.             *)
ModuleInv ==
  /\ module # "live" => \A p \in Callers : call[p].pc = "idle"
  /\ module = "gone" => list = <<>>

(* Every channel the hypervisor holds, unless giving it back failed, has a *)
(* creation or a device that stands for it.                                *)
KnownInv ==
  \A c \in hv \ stuck :
    \/ \E p \in Callers : call[p].pc \in Creating /\ call[p].channel = c
    \/ \E i \in Ids : Holds(i) /\ vdev[i].channel = c

(* The devices pub_vdev_count counts.                                      *)
Counted == {i \in Ids : vdev[i].state = "live" /\ ~Leaves(i)}

CountInv == module = "live" => count = Cardinality(Counted)

(* The calls that may still take a number: the bound on calls leaves one   *)
(* for each of them.                                                       *)
Unnumbered == {p \in Callers : call[p].pc \in {"prepare", "reserve"}}

NumberInv ==
  IsFiniteSet(Unnumbered) /\ nextId - 1 + Cardinality(Unnumbered) <= calls

(* The inductive invariant.                                                *)
RegistryInv ==
  /\ TypeOK
  /\ ListInv
  /\ \A i \in Ids : VdevInv(i)
  /\ \A p \in Callers : CallInv(p)
  /\ OwnerInv
  /\ HoldInv
  /\ FileInv
  /\ ModuleInv
  /\ KnownInv
  /\ CountInv
  /\ NumberInv

-----------------------------------------------------------------------------
(* What TypeOK says of the fields.                                         *)
LEMMA FieldTypes ==
  ASSUME TypeOK
  PROVE  /\ \A q \in Callers :
              /\ call[q] \in CallState
              /\ call[q].pc \in {"idle", "copyout", "find"} \cup Creating \cup Removing
              /\ call[q].channel \in Channels \cup {NoChannel}
              /\ call[q].id \in Ids \cup {NoId}
         /\ \A j \in Ids :
              /\ vdev[j] \in Vdev
              /\ vdev[j].state \in {"none", "live", "freed"}
              /\ vdev[j].misc \in BOOLEAN
              /\ vdev[j].active \in BOOLEAN
              /\ vdev[j].removing \in BOOLEAN
              /\ vdev[j].channel \in Channels \cup {NoChannel}
         /\ \A f \in Files : file[f] \in Ids \cup {NoId}
         /\ \A n \in 1 .. Len(list) : list[n] \in Ids
         /\ NoId \notin Ids /\ nextId \in Nat /\ count \in Nat /\ calls \in Nat
         /\ Len(list) \in Nat
  BY RegistryAssumption DEF TypeOK, CallState, Vdev, Ids, NoId

(* A caller outside any call.                                              *)
LEMMA IdleFields ==
  /\ Idle \in CallState
  /\ Idle.pc = "idle" /\ Idle.id = NoId /\ Idle.channel = NoChannel
  BY DEF Idle, CallState

-----------------------------------------------------------------------------
(* The table of DeviceTable, row by row.  What a program sees of a device  *)
(* follows from its flags, from the list and from the call that removes it.*)
Row(i, st) == [st |-> st, ch |-> vdev[i].channel, active |-> vdev[i].active]
BlankRow(i, st) == [st |-> st, ch |-> NoChannel, active |-> vdev[i].active]

(* What the status of a device is in each of its states.                   *)
LEMMA StatusNow ==
  ASSUME NEW i \in Ids
  PROVE  /\ vdev[i].state = "none" => StatusOf(i) = "none"
         /\ vdev[i].state = "freed" => StatusOf(i) = "gone"
         /\ vdev[i].state = "live" /\ ~vdev[i].removing /\ ~vdev[i].misc =>
              StatusOf(i) = "none"
         /\ vdev[i].state = "live" /\ ~vdev[i].removing /\ vdev[i].misc =>
              StatusOf(i) = IF Listed(i) THEN "listed" ELSE "new"
         /\ vdev[i].state = "live" /\ vdev[i].removing =>
              StatusOf(i) = IF ~Listed(i) THEN "gone"
                            ELSE IF PastHypercall(i) THEN "leaving" ELSE "taken"
         /\ Table[i] = [st |-> StatusOf(i),
                        ch |-> IF StatusOf(i) \in {"none", "gone"} THEN NoChannel
                               ELSE vdev[i].channel,
                        active |-> vdev[i].active]
         /\ Table[i].st = StatusOf(i)
         /\ Table[i].ch = IF StatusOf(i) \in {"none", "gone"} THEN NoChannel
                          ELSE vdev[i].channel
  <1>1. Table[i] = [st |-> StatusOf(i),
                    ch |-> IF StatusOf(i) \in {"none", "gone"} THEN NoChannel
                           ELSE vdev[i].channel,
                    active |-> vdev[i].active]
    BY DEF Table
  <1>2. vdev[i].state = "none" => StatusOf(i) = "none"
    BY DEF StatusOf
  <1>3. vdev[i].state = "freed" => StatusOf(i) = "gone"
    BY DEF StatusOf
  <1>4. vdev[i].state = "live" /\ ~vdev[i].removing /\ ~vdev[i].misc =>
          StatusOf(i) = "none"
    BY DEF StatusOf
  <1>5. vdev[i].state = "live" /\ ~vdev[i].removing /\ vdev[i].misc =>
          StatusOf(i) = IF Listed(i) THEN "listed" ELSE "new"
    BY DEF StatusOf
  <1>6. vdev[i].state = "live" /\ vdev[i].removing =>
          StatusOf(i) = IF ~Listed(i) THEN "gone"
                        ELSE IF PastHypercall(i) THEN "leaving" ELSE "taken"
    BY DEF StatusOf
  <1> QED
    BY <1>1, <1>2, <1>3, <1>4, <1>5, <1>6

(* The rows of the table in this state ...                                 *)
LEMMA RowNow ==
  ASSUME NEW i \in Ids
  PROVE  /\ vdev[i].state = "none" => Table[i] = BlankRow(i, "none")
         /\ vdev[i].state = "freed" => Table[i] = BlankRow(i, "gone")
         /\ vdev[i].state = "live" /\ ~vdev[i].removing /\ ~vdev[i].misc =>
              Table[i] = BlankRow(i, "none")
         /\ vdev[i].state = "live" /\ ~vdev[i].removing /\ vdev[i].misc =>
              Table[i] = Row(i, IF Listed(i) THEN "listed" ELSE "new")
         /\ vdev[i].state = "live" /\ vdev[i].removing /\ ~Listed(i) =>
              Table[i] = BlankRow(i, "gone")
         /\ vdev[i].state = "live" /\ vdev[i].removing /\ Listed(i) =>
              Table[i] = Row(i, IF PastHypercall(i) THEN "leaving" ELSE "taken")
  BY StatusNow DEF Row, BlankRow

(* ... and in the next one.                                                *)
LEMMA RowNext ==
  ASSUME NEW i \in Ids
  PROVE  /\ vdev'[i].state = "none" => Table'[i] = BlankRow(i, "none")'
         /\ vdev'[i].state = "freed" => Table'[i] = BlankRow(i, "gone")'
         /\ vdev'[i].state = "live" /\ ~vdev'[i].removing /\ ~vdev'[i].misc =>
              Table'[i] = BlankRow(i, "none")'
         /\ vdev'[i].state = "live" /\ ~vdev'[i].removing /\ vdev'[i].misc =>
              Table'[i] = Row(i, IF Listed(i) THEN "listed" ELSE "new")'
         /\ vdev'[i].state = "live" /\ vdev'[i].removing /\ ~Listed(i)' =>
              Table'[i] = BlankRow(i, "gone")'
         /\ vdev'[i].state = "live" /\ vdev'[i].removing /\ Listed(i)' =>
              Table'[i] = Row(i, IF PastHypercall(i) THEN "leaving" ELSE "taken")'
  <1>1. Table'[i] = [st |-> StatusOf(i)',
                     ch |-> IF StatusOf(i)' \in {"none", "gone"} THEN NoChannel
                            ELSE vdev'[i].channel,
                     active |-> vdev'[i].active]
    BY DEF Table
  <1>2. vdev'[i].state = "none" => StatusOf(i)' = "none"
    BY DEF StatusOf
  <1>3. vdev'[i].state = "freed" => StatusOf(i)' = "gone"
    BY DEF StatusOf
  <1>4. vdev'[i].state = "live" /\ ~vdev'[i].removing /\ ~vdev'[i].misc =>
          StatusOf(i)' = "none"
    BY DEF StatusOf
  <1>5. vdev'[i].state = "live" /\ ~vdev'[i].removing /\ vdev'[i].misc =>
          StatusOf(i)' = IF Listed(i)' THEN "listed" ELSE "new"
    BY DEF StatusOf
  <1>6. vdev'[i].state = "live" /\ vdev'[i].removing =>
          StatusOf(i)' = IF ~Listed(i)' THEN "gone"
                         ELSE IF PastHypercall(i)' THEN "leaving" ELSE "taken"
    BY DEF StatusOf
  <1> QED
    BY <1>1, <1>2, <1>3, <1>4, <1>5, <1>6 DEF Row, BlankRow

(* A step of the registry is a step of the table, or leaves it alone.      *)
TableStep == Devices!DeviceTableNext \/ Table' = Table

RowKept(j) ==
  /\ vdev'[j] = vdev[j]
  /\ Listed(j)' <=> Listed(j)
  /\ PastHypercall(j)' <=> PastHypercall(j)

(* A device none of whose parts changes keeps its row.                     *)
LEMMA RowIsKept ==
  ASSUME NEW j \in Ids, RowKept(j)
  PROVE  Table'[j] = Table[j]
  <1>1. StatusOf(j)' = StatusOf(j)
    BY DEF StatusOf, RowKept
  <1> QED
    BY <1>1 DEF Table, RowKept

(* A step that changes no device, no entry of the list and no removal past *)
(* its hypercall leaves the table alone.                                   *)
LEMMA AllKept ==
  ASSUME \A j \in Ids : RowKept(j)
  PROVE  Table' = Table
  <1>1. \A j \in Ids : Table'[j] = Table[j]
    BY RowIsKept
  <1>2. /\ Table = [j \in Ids |-> Table[j]]
        /\ Table' = [j \in Ids |-> Table'[j]]
    BY DEF Table
  <1> QED
    BY <1>1, <1>2

(* A step on one device changes its row only.                              *)
LEMMA OthersKept ==
  ASSUME NEW i \in Ids, \A j \in Ids : j # i => RowKept(j)
  PROVE  Table' = [Table EXCEPT ![i] = Table'[i]]
  <1>1. \A j \in Ids : j # i => Table'[j] = Table[j]
    BY RowIsKept
  <1>2. /\ Table = [j \in Ids |-> Table[j]]
        /\ Table' = [j \in Ids |-> Table'[j]]
    BY DEF Table
  <1> QED
    BY <1>1, <1>2

(* While a creation has its device to itself, every other device of its    *)
(* channel has given the channel up.                                       *)
LEMMA ChannelFree ==
  ASSUME RegistryInv, NEW p \in Callers, call[p].pc = "register",
         NEW j \in Ids, Table[j].ch = call[p].channel
  PROVE  Table[j].st = "leaving"
  <1>1. /\ TypeOK /\ HoldInv /\ OwnerInv /\ VdevInv(j)
        /\ \A q \in Callers : CallInv(q)
    BY DEF RegistryInv
  <1>2. call[p].pc \in Creating /\ call[p].channel \in Channels
    BY <1>1 DEF CallInv, Creating
  <1>3. call[p].channel # NoChannel
    BY <1>2, RegistryAssumption
  <1>4. /\ vdev[j].state = "live" /\ vdev[j].channel = call[p].channel
        /\ vdev[j].removing => Listed(j)
        /\ ~vdev[j].removing => vdev[j].misc
    <2>1. /\ StatusOf(j) \notin {"none", "gone"}
          /\ vdev[j].channel = call[p].channel
      <3>1. Table[j].ch = IF StatusOf(j) \in {"none", "gone"} THEN NoChannel
                          ELSE vdev[j].channel
        BY StatusNow
      <3> QED
        BY <1>3, <3>1
    <2>2. vdev[j].state = "live"
      BY <1>1, <2>1, StatusNow, FieldTypes
    <2> QED
      BY <2>1, <2>2, StatusNow
  <1>5. ~Holds(j)
    BY <1>1, <1>2, <1>4 DEF HoldInv
  <1>6. ASSUME ~vdev[j].removing PROVE FALSE
    <2>1. ~PastHypercall(j)
      BY <1>1, <1>6 DEF PastHypercall, CallInv, Owning, Removing
    <2>2. PICK q \in Callers : call[q].pc \in {"register", "list", "free"} /\ call[q].id = j
      BY <1>1, <1>4, <1>5, <2>1 DEF VdevInv, Holds, Unlisted
    <2>3. /\ call[q].pc \in {"register", "list"} /\ call[q].channel = call[p].channel
          /\ call[q].pc = "list"
      BY <1>1, <1>4, <1>6, <2>2 DEF CallInv, Owning, Removing
    <2>4. call[q].pc \in Creating
      BY <2>3 DEF Creating
    <2> QED
      BY <1>1, <1>2, <2>3, <2>4 DEF HoldInv
  <1>7. vdev[j].removing /\ Listed(j) /\ PastHypercall(j)
    BY <1>4, <1>5, <1>6 DEF Holds
  <1> QED
    <2>1. Table[j].st = StatusOf(j)
      BY StatusNow
    <2> QED
      BY <1>4, <1>7, <2>1, StatusNow

(* The first device of a channel on the list is its oldest, and the only   *)
(* one of the channel that is listed while it is not being removed.        *)
LEMMA FirstIsOldest ==
  ASSUME RegistryInv, NEW p \in Callers, NEW n \in 1 .. Len(list), IsFirst(p, n),
         NEW i \in Ids, i = list[n], ~vdev[i].removing,
         NEW j \in Ids \ {i}, Table[j].st \in {"listed", "taken", "leaving"}
  PROVE  Table[j].ch # vdev[i].channel
  <1>1. /\ TypeOK /\ ListInv /\ VdevInv(j)
        /\ \A q \in Callers : CallInv(q)
    BY DEF RegistryInv
  <1>2. Listed(j) /\ Table[j].ch = vdev[j].channel
    <2>1. StatusOf(j) \in {"listed", "taken", "leaving"}
          /\ Table[j].ch = vdev[j].channel
      <3>1. /\ Table[j].st = StatusOf(j)
            /\ Table[j].ch = IF StatusOf(j) \in {"none", "gone"} THEN NoChannel
                             ELSE vdev[j].channel
        BY StatusNow
      <3> QED
        BY <3>1
    <2>2. vdev[j].state = "live"
      BY <1>1, <2>1, StatusNow, FieldTypes
    <2> QED
      BY <1>1, <2>1, <2>2, StatusNow, FieldTypes
  <1>3. PICK m \in 1 .. Len(list) : list[m] = j
    BY <1>2 DEF Listed
  <1>4. ~PastHypercall(i)
    BY <1>1 DEF PastHypercall, CallInv, Owning, Removing
  <1>5. m # n
    BY <1>3
  <1>6. CASE m < n
    <2>1. m \in 1 .. (n - 1)
      BY <1>1, <1>6, FieldTypes
    <2> QED
      BY <1>2, <1>3, <2>1 DEF IsFirst
  <1>7. CASE n < m
    BY <1>1, <1>2, <1>3, <1>4, <1>7 DEF ListInv
  <1> QED
    BY <1>1, <1>5, <1>6, <1>7, FieldTypes

(* Steps inside a call that touch no device.                               *)
LEMMA CallerStep ==
  ASSUME RegistryInv, NEW p \in Callers,
         UNCHANGED <<list, count, nextId, vdev, file, module>>,
         NEW r \in CallState, call' = [call EXCEPT ![p] = r],
         call[p].pc \notin Owning, r.pc \notin Owning,
         module = "live",
         hv' \subseteq Channels, stuck' \subseteq Channels, calls' \in 0 .. MaxCalls,
         \A c \in hv : c \in hv' \/ (call[p].pc \in Creating /\ c = call[p].channel),
         \A c \in hv' \ stuck' :
           \/ c \in hv \ stuck
           \/ r.pc \in Creating /\ r.channel = c,
         call[p].pc \in Creating /\ call[p].channel \in hv' \ stuck' =>
           r.pc \in Creating /\ r.channel = call[p].channel,
         r.pc \in Creating => \/ call[p].pc \in Creating /\ r.channel = call[p].channel
                              \/ r.channel \notin hv,
         CallInv(p)', NumberInv'
  PROVE  RegistryInv' /\ Table' = Table
  <1>1. /\ TypeOK /\ ListInv /\ OwnerInv /\ HoldInv /\ FileInv /\ ModuleInv
        /\ KnownInv /\ CountInv
        /\ \A j \in Ids : VdevInv(j)
        /\ \A q \in Callers : CallInv(q)
    BY DEF RegistryInv
  <1>2. call'[p] = r /\ \A q \in Callers : q # p => call'[q] = call[q]
    BY <1>1 DEF TypeOK
  <1>3. TypeOK'
    BY <1>1 DEF TypeOK
  <1>4. \A j \in Ids : /\ Unlisted(j)' <=> Unlisted(j)
                       /\ Claimed(j)' <=> Claimed(j)
                       /\ Leaves(j)' <=> Leaves(j)
                       /\ PastHypercall(j)' <=> PastHypercall(j)
    <2> SUFFICES ASSUME NEW j \in Ids
                 PROVE  /\ Unlisted(j)' <=> Unlisted(j)
                        /\ Claimed(j)' <=> Claimed(j)
                        /\ Leaves(j)' <=> Leaves(j)
                        /\ PastHypercall(j)' <=> PastHypercall(j)
      OBVIOUS
    <2>1. Unlisted(j)' <=> Unlisted(j)
      BY <1>2 DEF Unlisted, Owning, Removing
    <2>2. Claimed(j)' <=> Claimed(j)
      BY <1>2 DEF Claimed, Owning
    <2>3. Leaves(j)' <=> Leaves(j)
      BY <1>2 DEF Leaves, Owning, Removing
    <2>4. PastHypercall(j)' <=> PastHypercall(j)
      BY <1>2 DEF PastHypercall, Owning, Removing
    <2> QED
      BY <2>1, <2>2, <2>3, <2>4
  <1>5. \A j \in Ids : Listed(j)' <=> Listed(j)
    BY DEF Listed
  <1>6. \A j \in Ids : Holds(j)' <=> Holds(j)
    BY <1>4, <1>5 DEF Holds
  <1>7. ListInv'
    BY <1>1, <1>4, FieldTypes DEF ListInv
  <1>8. \A j \in Ids : VdevInv(j)'
    BY <1>1, <1>4, <1>5 DEF VdevInv
  <1>9. \A q \in Callers : CallInv(q)'
    <2>1. ASSUME NEW q \in Callers, q # p PROVE CallInv(q)'
      <3>1. call[q].pc \in Creating => call[q].channel \in hv'
        BY <1>1, <2>1 DEF HoldInv, CallInv
      <3>2. call[q].pc \in Owning => (Listed(call[q].id)' <=> Listed(call[q].id))
        BY <1>1, <1>5 DEF CallInv
      <3> QED
        BY <1>1, <1>2, <2>1, <3>1, <3>2 DEF CallInv
    <2> QED
      BY <2>1
  <1>10. OwnerInv'
    BY <1>1, <1>2 DEF OwnerInv
  <1>11. HoldInv'
    <2>1. \A q, q2 \in Callers :
            call'[q].pc \in Creating /\ call'[q2].pc \in Creating
              /\ call'[q].channel = call'[q2].channel => q = q2
      BY <1>1, <1>2 DEF HoldInv, CallInv
    <2>2. ASSUME NEW j \in Ids, Holds(j)
          PROVE  /\ vdev[j].channel \in hv'
                 /\ \A q \in Callers : call'[q].pc \in Creating =>
                      call'[q].channel # vdev[j].channel
      BY <1>1, <1>2, <2>2 DEF HoldInv
    <2> QED
      BY <1>1, <1>6, <2>1, <2>2 DEF HoldInv
  <1>12. FileInv' /\ ModuleInv'
    BY <1>1 DEF FileInv, ModuleInv
  <1>13. KnownInv'
    <2>1. ASSUME NEW c \in hv' \ stuck'
          PROVE  \/ \E q \in Callers : call'[q].pc \in Creating /\ call'[q].channel = c
                 \/ \E j \in Ids : Holds(j)' /\ vdev[j].channel = c
      <3>1. CASE r.pc \in Creating /\ r.channel = c
        BY <1>2, <3>1
      <3>2. CASE c \in hv \ stuck /\ ~(r.pc \in Creating /\ r.channel = c)
        <4>1. CASE \E j \in Ids : Holds(j) /\ vdev[j].channel = c
          BY <1>6, <4>1
        <4>2. CASE \E q \in Callers : call[q].pc \in Creating /\ call[q].channel = c
          <5>1. PICK q \in Callers : call[q].pc \in Creating /\ call[q].channel = c
            BY <4>2
          <5>2. q # p
            BY <1>1, <2>1, <3>2, <5>1 DEF CallInv
          <5> QED
            BY <1>2, <5>1, <5>2
        <4> QED
          BY <1>1, <3>2, <4>1, <4>2 DEF KnownInv
      <3> QED
        BY <2>1, <3>1, <3>2
    <2> QED
      BY <2>1 DEF KnownInv
  <1>14. CountInv'
    <2>1. Counted' = Counted
      BY <1>4 DEF Counted
    <2> QED
      BY <1>1, <2>1 DEF CountInv
  <1>15. Table' = Table
    BY <1>4, <1>5, AllKept DEF RowKept
  <1> QED
    BY <1>3, <1>7, <1>8, <1>9, <1>10, <1>11, <1>12, <1>13, <1>14, <1>15
    DEF RegistryInv

-----------------------------------------------------------------------------
(* Steps inside a call on a device that is this caller's, or becomes so.   *)
LEMMA DeviceStep ==
  ASSUME RegistryInv, NEW p \in Callers, NEW i \in Ids,
         UNCHANGED <<list, file, calls, stuck, module>>, module = "live",
         NEW r \in CallState, call' = [call EXCEPT ![p] = r],
         NEW d \in Vdev, vdev' = [vdev EXCEPT ![i] = d],
         nextId' \in 1 .. (MaxCalls + 1), count' \in 0 .. MaxVdevs, hv' \subseteq hv,
         call[p].pc \in Owning => call[p].id = i,
         r.pc \in Owning => r.id = i,
         \A q \in Callers : q # p /\ call[q].pc \in Owning => call[q].id # i,
         d.active <=> vdev[i].active,
         Listed(i) => d.channel = vdev[i].channel,
         PastHypercall(i) => PastHypercall(i)',
         Holds(i)' => Holds(i),
         \A c \in hv : c \in hv' \/ (Holds(i) /\ ~Holds(i)' /\ c = vdev[i].channel),
         Holds(i) /\ ~Holds(i)' => vdev[i].channel \notin hv',
         r.pc \in Creating <=> call[p].pc \in Creating,
         r.pc \in Creating => r.channel = call[p].channel,
         \A j \in Ids \ {i} : j >= nextId' <=> j >= nextId,
         VdevInv(i)', CallInv(p)', CountInv', NumberInv'
  PROVE  RegistryInv' /\ Table' = [Table EXCEPT ![i] = Table'[i]]
  <1>1. /\ TypeOK /\ ListInv /\ OwnerInv /\ HoldInv /\ FileInv /\ ModuleInv
        /\ KnownInv
        /\ \A j \in Ids : VdevInv(j)
        /\ \A q \in Callers : CallInv(q)
    BY DEF RegistryInv
  <1>2. call'[p] = r /\ \A q \in Callers : q # p => call'[q] = call[q]
    BY <1>1 DEF TypeOK
  <1>3. vdev'[i] = d /\ \A j \in Ids : j # i => vdev'[j] = vdev[j]
    BY <1>1 DEF TypeOK
  <1>4. TypeOK'
    BY <1>1 DEF TypeOK
  <1>5. ASSUME NEW j \in Ids, j # i
        PROVE  /\ Unlisted(j)' <=> Unlisted(j)
               /\ Claimed(j)' <=> Claimed(j)
               /\ PastHypercall(j)' <=> PastHypercall(j)
    <2>1. Unlisted(j)' <=> Unlisted(j)
      BY <1>2, <1>5 DEF Unlisted, Owning, Removing
    <2>2. Claimed(j)' <=> Claimed(j)
      BY <1>2, <1>5 DEF Claimed, Owning
    <2>3. PastHypercall(j)' <=> PastHypercall(j)
      BY <1>2, <1>5 DEF PastHypercall, Owning, Removing
    <2> QED
      BY <2>1, <2>2, <2>3
  <1>6. \A j \in Ids : Listed(j)' <=> Listed(j)
    BY DEF Listed
  <1>7. \A j \in Ids : j # i => (Holds(j)' <=> Holds(j))
    BY <1>5, <1>6 DEF Holds
  <1>8. \A j \in Ids : Holds(j)' => Holds(j) /\ vdev'[j].channel = vdev[j].channel
    BY <1>3, <1>7 DEF Holds
  <1>9. ListInv'
    <2>1. \A j \in Ids : PastHypercall(j) => PastHypercall(j)'
      BY <1>5
    <2>2. \A j \in Ids : Listed(j) => vdev'[j].channel = vdev[j].channel
      BY <1>3
    <2>3. \A n \in 1 .. Len(list) : list[n] \in Ids /\ Listed(list[n])
      BY <1>1, FieldTypes DEF Listed
    <2> QED
      BY <1>1, <2>1, <2>2, <2>3 DEF ListInv
  <1>10. \A j \in Ids : VdevInv(j)'
    <2>1. ASSUME NEW j \in Ids, j # i PROVE VdevInv(j)'
      BY <1>1, <1>3, <1>5, <1>6, <2>1 DEF VdevInv
    <2> QED
      BY <2>1
  <1>11. \A q \in Callers : CallInv(q)'
    <2>1. ASSUME NEW q \in Callers, q # p PROVE CallInv(q)'
      <3>1. call[q].pc \in Creating => call[q].channel \in hv'
        BY <1>1, <2>1 DEF HoldInv, CallInv
      <3>2. call[q].pc \in Owning =>
              /\ Listed(call[q].id)' <=> Listed(call[q].id)
              /\ vdev'[call[q].id] = vdev[call[q].id]
        BY <1>1, <1>3, <1>6, <2>1 DEF CallInv
      <3> QED
        BY <1>1, <1>2, <2>1, <3>1, <3>2 DEF CallInv
    <2> QED
      BY <2>1
  <1>12. OwnerInv'
    BY <1>1, <1>2 DEF OwnerInv
  <1>13. HoldInv'
    <2>1. \A q, q2 \in Callers :
            call'[q].pc \in Creating /\ call'[q2].pc \in Creating
              /\ call'[q].channel = call'[q2].channel => q = q2
      BY <1>1, <1>2 DEF HoldInv
    <2>2. ASSUME NEW j \in Ids, Holds(j)'
          PROVE  /\ vdev'[j].channel \in hv'
                 /\ \A q \in Callers : call'[q].pc \in Creating =>
                      call'[q].channel # vdev'[j].channel
                 /\ \A k \in Ids : Holds(k)' /\ vdev'[k].channel = vdev'[j].channel
                                     => k = j
      <3>1. Holds(j) /\ vdev'[j].channel = vdev[j].channel
        BY <1>8, <2>2
      <3>2. vdev[j].channel \in hv'
        BY <1>1, <2>2, <3>1 DEF HoldInv
      <3> QED
        BY <1>1, <1>2, <1>8, <3>1, <3>2 DEF HoldInv
    <2> QED
      BY <2>1, <2>2 DEF HoldInv
  <1>14. FileInv'
    BY <1>1, <1>3, FieldTypes DEF FileInv
  <1>15. ModuleInv'
    BY <1>1, <1>2 DEF ModuleInv
  <1>16. KnownInv'
    <2>1. ASSUME NEW c \in hv' \ stuck'
          PROVE  \/ \E q \in Callers : call'[q].pc \in Creating /\ call'[q].channel = c
                 \/ \E j \in Ids : Holds(j)' /\ vdev'[j].channel = c
      <3>1. CASE \E q \in Callers : call[q].pc \in Creating /\ call[q].channel = c
        BY <1>2, <3>1
      <3>2. CASE \E j \in Ids : Holds(j) /\ vdev[j].channel = c
        BY <1>7, <1>8, <2>1, <3>2
      <3> QED
        BY <1>1, <2>1, <3>1, <3>2 DEF KnownInv
    <2> QED
      BY <2>1 DEF KnownInv
  <1>17. Table' = [Table EXCEPT ![i] = Table'[i]]
    BY <1>3, <1>5, <1>6, OthersKept DEF RowKept
  <1> QED
    BY <1>4, <1>9, <1>10, <1>11, <1>12, <1>13, <1>14, <1>15, <1>16, <1>17
    DEF RegistryInv

(* A call that gets its number, or gives up, makes room for one more.      *)
LEMMA OneNumbered ==
  ASSUME NumberInv, NEW p \in Unnumbered
  PROVE  /\ IsFiniteSet(Unnumbered \ {p})
         /\ Cardinality(Unnumbered \ {p}) \in Nat
         /\ Cardinality(Unnumbered \ {p}) = Cardinality(Unnumbered) - 1
         /\ Cardinality(Unnumbered) \in Nat
  <1>1. IsFiniteSet(Unnumbered) /\ Cardinality(Unnumbered) \in Nat
    BY FS_CardinalityType DEF NumberInv
  <1>2. /\ IsFiniteSet(Unnumbered \ {p})
        /\ Cardinality(Unnumbered \ {p}) = Cardinality(Unnumbered) - 1
    BY <1>1, FS_RemoveElement
  <1> QED
    BY <1>1, <1>2, FS_CardinalityType

(* A new call may still take a number.                                     *)
LEMMA OneUnnumbered ==
  ASSUME NumberInv, NEW p
  PROVE  /\ IsFiniteSet(Unnumbered \cup {p})
         /\ Cardinality(Unnumbered) \in Nat
         /\ Cardinality(Unnumbered \cup {p}) \in Nat
         /\ Cardinality(Unnumbered \cup {p}) <= Cardinality(Unnumbered) + 1
  <1>1. IsFiniteSet(Unnumbered) /\ Cardinality(Unnumbered) \in Nat
    BY FS_CardinalityType DEF NumberInv
  <1>2. /\ IsFiniteSet(Unnumbered \cup {p})
        /\ \/ Cardinality(Unnumbered \cup {p}) = Cardinality(Unnumbered) + 1
           \/ Cardinality(Unnumbered \cup {p}) = Cardinality(Unnumbered)
    BY <1>1, FS_AddElement
  <1> QED
    BY <1>1, <1>2

(* hvc_publish_channel succeeds: the call answers for the new channel.     *)
LEMMA StepPublishCall ==
  ASSUME RegistryInv, NEW p \in Callers, NEW c \in Channels, PublishCall(p, c)
  PROVE  RegistryInv' /\ Table' = Table
  <1> DEFINE r == [pc |-> "prepare", channel |-> c, id |-> NoId]
  <1>1. TypeOK /\ CallInv(p) /\ NumberInv /\ HoldInv
    BY DEF RegistryInv
  <1>2. call[p].pc = "idle" /\ module = "live" /\ calls < MaxCalls /\ c \notin hv
    BY <1>1, FieldTypes DEF PublishCall, CallInv, Creating
  <1>3. r \in CallState
    BY <1>1, FieldTypes, IdleFields DEF CallState, Creating
  <1>4. /\ call' = [call EXCEPT ![p] = r]
        /\ UNCHANGED <<list, count, nextId, vdev, file, stuck, module>>
        /\ hv' = hv \cup {c} /\ calls' = calls + 1
    BY <1>1, FieldTypes DEF PublishCall, Goto, Return
  <1>5. call'[p] = r
    BY <1>1, <1>4 DEF TypeOK
  <1>6. call[p].pc \notin Owning /\ r.pc \notin Owning
    BY <1>2, IdleFields DEF Owning, Removing
  <1>7. CallInv(p)'
    BY <1>1, <1>2, <1>4, <1>5, FieldTypes, IdleFields
    DEF CallInv, Owning, Creating, Removing
  <1>8. NumberInv'
    <2>1. \A q \in Callers : q # p => call'[q] = call[q]
      BY <1>1, <1>4 DEF TypeOK
    <2>2. Unnumbered' = Unnumbered \cup {p}
      BY <1>2, <1>5, <2>1 DEF Unnumbered
    <2>3. /\ IsFiniteSet(Unnumbered \cup {p})
          /\ Cardinality(Unnumbered) \in Nat
          /\ Cardinality(Unnumbered \cup {p}) \in Nat
          /\ Cardinality(Unnumbered \cup {p}) <= Cardinality(Unnumbered) + 1
      BY <1>1, OneUnnumbered
    <2> QED
      BY <1>1, <1>4, <2>2, <2>3, FieldTypes DEF NumberInv
  <1>9. /\ hv' \subseteq Channels /\ stuck' \subseteq Channels
        /\ calls' \in 0 .. MaxCalls
        /\ \A d \in hv : d \in hv' \/ (call[p].pc \in Creating /\ d = call[p].channel)
        /\ \A d \in hv' \ stuck' :
             d \in hv \ stuck \/ (r.pc \in Creating /\ r.channel = d)
        /\ call[p].pc \in Creating /\ call[p].channel \in hv' \ stuck' =>
             r.pc \in Creating /\ r.channel = call[p].channel
        /\ r.pc \in Creating => \/ call[p].pc \in Creating /\ r.channel = call[p].channel
                                \/ r.channel \notin hv
    BY <1>1, <1>2, <1>4, FieldTypes, IdleFields, RegistryAssumption
    DEF Creating, TypeOK
  <1> HIDE DEF r
  <1> QED
    BY <1>2, <1>3, <1>4, <1>6, <1>7, <1>8, <1>9, CallerStep

(* The region is mapped and the device allocated.                          *)
LEMMA StepPrepare ==
  ASSUME RegistryInv, NEW p \in Callers, Prepare(p)
  PROVE  RegistryInv' /\ Table' = Table
  <1> DEFINE r == [call[p] EXCEPT !.pc = "reserve"]
  <1>1. TypeOK /\ CallInv(p) /\ NumberInv /\ HoldInv
    BY DEF RegistryInv
  <1>2. call[p].pc = "prepare" /\ module = "live"
    BY <1>1, FieldTypes DEF Prepare, CallInv, Creating
  <1>3. r \in CallState
    BY <1>1, FieldTypes, IdleFields DEF CallState, Creating
  <1>4. /\ call' = [call EXCEPT ![p] = r]
        /\ UNCHANGED <<hv, list, count, nextId, vdev, file, calls, stuck, module>>
    BY <1>1, FieldTypes DEF Prepare, Goto, Return
  <1>5. call'[p] = r
    BY <1>1, <1>4 DEF TypeOK
  <1>6. call[p].pc \notin Owning /\ r.pc \notin Owning
    BY <1>2, IdleFields DEF Owning, Removing
  <1>7. CallInv(p)'
    BY <1>1, <1>2, <1>4, <1>5, FieldTypes, IdleFields
    DEF CallInv, Owning, Creating, Removing
  <1>8. NumberInv'
    <2>1. Unnumbered' = Unnumbered
      BY <1>1, <1>2, <1>4, IdleFields DEF Unnumbered, TypeOK
    <2> QED
      BY <1>1, <1>4, <2>1 DEF NumberInv
  <1>9. /\ hv' \subseteq Channels /\ stuck' \subseteq Channels
        /\ calls' \in 0 .. MaxCalls
        /\ \A d \in hv : d \in hv' \/ (call[p].pc \in Creating /\ d = call[p].channel)
        /\ \A d \in hv' \ stuck' :
             d \in hv \ stuck \/ (r.pc \in Creating /\ r.channel = d)
        /\ call[p].pc \in Creating /\ call[p].channel \in hv' \ stuck' =>
             r.pc \in Creating /\ r.channel = call[p].channel
        /\ r.pc \in Creating => \/ call[p].pc \in Creating /\ r.channel = call[p].channel
                                \/ r.channel \notin hv
    BY <1>1, <1>2, <1>4, FieldTypes, IdleFields, RegistryAssumption
    DEF Creating, TypeOK
  <1> HIDE DEF r
  <1> QED
    BY <1>2, <1>3, <1>4, <1>6, <1>7, <1>8, <1>9, CallerStep

(* Mapping or allocating fails: the call will roll back.                   *)
LEMMA StepPrepareFail ==
  ASSUME RegistryInv, NEW p \in Callers, PrepareFail(p)
  PROVE  RegistryInv' /\ Table' = Table
  <1> DEFINE r == [call[p] EXCEPT !.pc = "rollback"]
  <1>1. TypeOK /\ CallInv(p) /\ NumberInv /\ HoldInv
    BY DEF RegistryInv
  <1>2. call[p].pc = "prepare" /\ module = "live"
    BY <1>1, FieldTypes DEF PrepareFail, CallInv, Creating
  <1>3. r \in CallState
    BY <1>1, FieldTypes, IdleFields DEF CallState, Creating
  <1>4. /\ call' = [call EXCEPT ![p] = r]
        /\ UNCHANGED <<hv, list, count, nextId, vdev, file, calls, stuck, module>>
    BY <1>1, FieldTypes DEF PrepareFail, Goto, Return
  <1>5. call'[p] = r
    BY <1>1, <1>4 DEF TypeOK
  <1>6. call[p].pc \notin Owning /\ r.pc \notin Owning
    BY <1>2, IdleFields DEF Owning, Removing
  <1>7. CallInv(p)'
    BY <1>1, <1>2, <1>4, <1>5, FieldTypes, IdleFields
    DEF CallInv, Owning, Creating, Removing
  <1>8. NumberInv'
    <2>1. \A q \in Callers : q # p => call'[q] = call[q]
      BY <1>1, <1>4 DEF TypeOK
    <2>2. Unnumbered' = Unnumbered \ {p} /\ p \in Unnumbered
      BY <1>1, <1>2, <1>5, <2>1, FieldTypes DEF Unnumbered, CallState
    <2>3. /\ IsFiniteSet(Unnumbered \ {p})
          /\ Cardinality(Unnumbered \ {p}) \in Nat
          /\ Cardinality(Unnumbered \ {p}) = Cardinality(Unnumbered) - 1
          /\ Cardinality(Unnumbered) \in Nat
      BY <1>1, <2>2, OneNumbered
    <2> QED
      BY <1>1, <1>4, <2>2, <2>3, FieldTypes DEF NumberInv
  <1>9. /\ hv' \subseteq Channels /\ stuck' \subseteq Channels
        /\ calls' \in 0 .. MaxCalls
        /\ \A d \in hv : d \in hv' \/ (call[p].pc \in Creating /\ d = call[p].channel)
        /\ \A d \in hv' \ stuck' :
             d \in hv \ stuck \/ (r.pc \in Creating /\ r.channel = d)
        /\ call[p].pc \in Creating /\ call[p].channel \in hv' \ stuck' =>
             r.pc \in Creating /\ r.channel = call[p].channel
        /\ r.pc \in Creating => \/ call[p].pc \in Creating /\ r.channel = call[p].channel
                                \/ r.channel \notin hv
    BY <1>1, <1>2, <1>4, FieldTypes, IdleFields, RegistryAssumption
    DEF Creating, TypeOK
  <1> HIDE DEF r
  <1> QED
    BY <1>2, <1>3, <1>4, <1>6, <1>7, <1>8, <1>9, CallerStep

(* -ENOSPC: the call will roll back.                                       *)
LEMMA StepReserveFull ==
  ASSUME RegistryInv, NEW p \in Callers, ReserveFull(p)
  PROVE  RegistryInv' /\ Table' = Table
  <1> DEFINE r == [call[p] EXCEPT !.pc = "rollback"]
  <1>1. TypeOK /\ CallInv(p) /\ NumberInv /\ HoldInv
    BY DEF RegistryInv
  <1>2. call[p].pc = "reserve" /\ module = "live"
    BY <1>1, FieldTypes DEF ReserveFull, CallInv, Creating
  <1>3. r \in CallState
    BY <1>1, FieldTypes, IdleFields DEF CallState, Creating
  <1>4. /\ call' = [call EXCEPT ![p] = r]
        /\ UNCHANGED <<hv, list, count, nextId, vdev, file, calls, stuck, module>>
    BY <1>1, FieldTypes DEF ReserveFull, Goto, Return
  <1>5. call'[p] = r
    BY <1>1, <1>4 DEF TypeOK
  <1>6. call[p].pc \notin Owning /\ r.pc \notin Owning
    BY <1>2, IdleFields DEF Owning, Removing
  <1>7. CallInv(p)'
    BY <1>1, <1>2, <1>4, <1>5, FieldTypes, IdleFields
    DEF CallInv, Owning, Creating, Removing
  <1>8. NumberInv'
    <2>1. \A q \in Callers : q # p => call'[q] = call[q]
      BY <1>1, <1>4 DEF TypeOK
    <2>2. Unnumbered' = Unnumbered \ {p} /\ p \in Unnumbered
      BY <1>1, <1>2, <1>5, <2>1, FieldTypes DEF Unnumbered, CallState
    <2>3. /\ IsFiniteSet(Unnumbered \ {p})
          /\ Cardinality(Unnumbered \ {p}) \in Nat
          /\ Cardinality(Unnumbered \ {p}) = Cardinality(Unnumbered) - 1
          /\ Cardinality(Unnumbered) \in Nat
      BY <1>1, <2>2, OneNumbered
    <2> QED
      BY <1>1, <1>4, <2>2, <2>3, FieldTypes DEF NumberInv
  <1>9. /\ hv' \subseteq Channels /\ stuck' \subseteq Channels
        /\ calls' \in 0 .. MaxCalls
        /\ \A d \in hv : d \in hv' \/ (call[p].pc \in Creating /\ d = call[p].channel)
        /\ \A d \in hv' \ stuck' :
             d \in hv \ stuck \/ (r.pc \in Creating /\ r.channel = d)
        /\ call[p].pc \in Creating /\ call[p].channel \in hv' \ stuck' =>
             r.pc \in Creating /\ r.channel = call[p].channel
        /\ r.pc \in Creating => \/ call[p].pc \in Creating /\ r.channel = call[p].channel
                                \/ r.channel \notin hv
    BY <1>1, <1>2, <1>4, FieldTypes, IdleFields, RegistryAssumption
    DEF Creating, TypeOK
  <1> HIDE DEF r
  <1> QED
    BY <1>2, <1>3, <1>4, <1>6, <1>7, <1>8, <1>9, CallerStep

(* The creating ioctl returns.                                             *)
LEMMA StepCopyOut ==
  ASSUME RegistryInv, NEW p \in Callers, CopyOut(p)
  PROVE  RegistryInv' /\ Table' = Table
  <1> DEFINE r == Idle
  <1>1. TypeOK /\ CallInv(p) /\ NumberInv /\ HoldInv
    BY DEF RegistryInv
  <1>2. call[p].pc = "copyout" /\ module = "live"
    BY <1>1, FieldTypes DEF CopyOut, CallInv, Creating
  <1>3. r \in CallState
    BY <1>1, FieldTypes, IdleFields DEF CallState, Creating
  <1>4. /\ call' = [call EXCEPT ![p] = r]
        /\ UNCHANGED <<hv, list, count, nextId, vdev, file, calls, stuck, module>>
    BY <1>1, FieldTypes DEF CopyOut, Goto, Return
  <1>5. call'[p] = r
    BY <1>1, <1>4 DEF TypeOK
  <1>6. call[p].pc \notin Owning /\ r.pc \notin Owning
    BY <1>2, IdleFields DEF Owning, Removing
  <1>7. CallInv(p)'
    BY <1>1, <1>2, <1>4, <1>5, FieldTypes, IdleFields
    DEF CallInv, Owning, Creating, Removing
  <1>8. NumberInv'
    <2>1. Unnumbered' = Unnumbered
      BY <1>1, <1>2, <1>4, IdleFields DEF Unnumbered, TypeOK
    <2> QED
      BY <1>1, <1>4, <2>1 DEF NumberInv
  <1>9. /\ hv' \subseteq Channels /\ stuck' \subseteq Channels
        /\ calls' \in 0 .. MaxCalls
        /\ \A d \in hv : d \in hv' \/ (call[p].pc \in Creating /\ d = call[p].channel)
        /\ \A d \in hv' \ stuck' :
             d \in hv \ stuck \/ (r.pc \in Creating /\ r.channel = d)
        /\ call[p].pc \in Creating /\ call[p].channel \in hv' \ stuck' =>
             r.pc \in Creating /\ r.channel = call[p].channel
        /\ r.pc \in Creating => \/ call[p].pc \in Creating /\ r.channel = call[p].channel
                                \/ r.channel \notin hv
    BY <1>1, <1>2, <1>4, FieldTypes, IdleFields, RegistryAssumption
    DEF Creating, TypeOK
  <1> HIDE DEF r
  <1> QED
    BY <1>2, <1>3, <1>4, <1>6, <1>7, <1>8, <1>9, CallerStep

(* copy_to_user fails: the ioctl removes what it created.                  *)
LEMMA StepCopyOutFault ==
  ASSUME RegistryInv, NEW p \in Callers, CopyOutFault(p)
  PROVE  RegistryInv' /\ Table' = Table
  <1> DEFINE r == [call[p] EXCEPT !.pc = "find", !.id = NoId]
  <1>1. TypeOK /\ CallInv(p) /\ NumberInv /\ HoldInv
    BY DEF RegistryInv
  <1>2. call[p].pc = "copyout" /\ module = "live"
    BY <1>1, FieldTypes DEF CopyOutFault, CallInv, Creating
  <1>3. r \in CallState
    BY <1>1, FieldTypes, IdleFields DEF CallState, Creating
  <1>4. /\ call' = [call EXCEPT ![p] = r]
        /\ UNCHANGED <<hv, list, count, nextId, vdev, file, calls, stuck, module>>
    BY <1>1, FieldTypes DEF CopyOutFault, Goto, Return
  <1>5. call'[p] = r
    BY <1>1, <1>4 DEF TypeOK
  <1>6. call[p].pc \notin Owning /\ r.pc \notin Owning
    BY <1>2, IdleFields DEF Owning, Removing
  <1>7. CallInv(p)'
    BY <1>1, <1>2, <1>4, <1>5, FieldTypes, IdleFields
    DEF CallInv, Owning, Creating, Removing
  <1>8. NumberInv'
    <2>1. Unnumbered' = Unnumbered
      BY <1>1, <1>2, <1>4, IdleFields DEF Unnumbered, TypeOK
    <2> QED
      BY <1>1, <1>4, <2>1 DEF NumberInv
  <1>9. /\ hv' \subseteq Channels /\ stuck' \subseteq Channels
        /\ calls' \in 0 .. MaxCalls
        /\ \A d \in hv : d \in hv' \/ (call[p].pc \in Creating /\ d = call[p].channel)
        /\ \A d \in hv' \ stuck' :
             d \in hv \ stuck \/ (r.pc \in Creating /\ r.channel = d)
        /\ call[p].pc \in Creating /\ call[p].channel \in hv' \ stuck' =>
             r.pc \in Creating /\ r.channel = call[p].channel
        /\ r.pc \in Creating => \/ call[p].pc \in Creating /\ r.channel = call[p].channel
                                \/ r.channel \notin hv
    BY <1>1, <1>2, <1>4, FieldTypes, IdleFields, RegistryAssumption
    DEF Creating, TypeOK
  <1> HIDE DEF r
  <1> QED
    BY <1>2, <1>3, <1>4, <1>6, <1>7, <1>8, <1>9, CallerStep

(* axivc_rollback_publish gives the channel back, or logs that it cannot.  *)
LEMMA StepRollback ==
  ASSUME RegistryInv, NEW p \in Callers, NEW ok \in BOOLEAN, Rollback(p, ok)
  PROVE  RegistryInv' /\ Table' = Table
  <1> DEFINE r == Idle
  <1>1. TypeOK /\ CallInv(p) /\ NumberInv /\ HoldInv
    BY DEF RegistryInv
  <1>2. call[p].pc = "rollback" /\ module = "live" /\ call[p].channel \in Channels
    BY <1>1, FieldTypes DEF Rollback, CallInv, Creating
  <1>3. r \in CallState
    BY <1>1, FieldTypes, IdleFields DEF CallState, Creating
  <1>4. /\ call' = [call EXCEPT ![p] = r]
        /\ UNCHANGED <<list, count, nextId, vdev, file, calls, module>>
        /\ \/ hv' = hv \ {call[p].channel} /\ stuck' = stuck
           \/ hv' = hv /\ stuck' = stuck \cup {call[p].channel}
    BY <1>1, FieldTypes DEF Rollback, Goto, Return
  <1>5. call'[p] = r
    BY <1>1, <1>4 DEF TypeOK
  <1>6. call[p].pc \notin Owning /\ r.pc \notin Owning
    BY <1>2, IdleFields DEF Owning, Removing
  <1>7. CallInv(p)'
    BY <1>1, <1>2, <1>4, <1>5, FieldTypes, IdleFields
    DEF CallInv, Owning, Creating, Removing
  <1>8. NumberInv'
    <2>1. Unnumbered' = Unnumbered
      BY <1>1, <1>2, <1>4, IdleFields DEF Unnumbered, TypeOK
    <2> QED
      BY <1>1, <1>4, <2>1 DEF NumberInv
  <1>9. /\ hv' \subseteq Channels /\ stuck' \subseteq Channels
        /\ calls' \in 0 .. MaxCalls
        /\ \A d \in hv : d \in hv' \/ (call[p].pc \in Creating /\ d = call[p].channel)
        /\ \A d \in hv' \ stuck' :
             d \in hv \ stuck \/ (r.pc \in Creating /\ r.channel = d)
        /\ call[p].pc \in Creating /\ call[p].channel \in hv' \ stuck' =>
             r.pc \in Creating /\ r.channel = call[p].channel
        /\ r.pc \in Creating => \/ call[p].pc \in Creating /\ r.channel = call[p].channel
                                \/ r.channel \notin hv
    BY <1>1, <1>2, <1>4, FieldTypes, IdleFields, RegistryAssumption
    DEF Creating, TypeOK
  <1> HIDE DEF r
  <1> QED
    BY <1>2, <1>3, <1>4, <1>6, <1>7, <1>8, <1>9, CallerStep

(* A removal starts.                                                       *)
LEMMA StepUnpublishCall ==
  ASSUME RegistryInv, NEW p \in Callers, NEW c \in Channels, UnpublishCall(p, c)
  PROVE  RegistryInv' /\ Table' = Table
  <1> DEFINE r == [pc |-> "find", channel |-> c, id |-> NoId]
  <1>1. TypeOK /\ CallInv(p) /\ NumberInv /\ HoldInv
    BY DEF RegistryInv
  <1>2. call[p].pc = "idle" /\ module = "live"
    BY <1>1, FieldTypes DEF UnpublishCall, CallInv, Creating
  <1>3. r \in CallState
    BY <1>1, FieldTypes, IdleFields DEF CallState, Creating
  <1>4. /\ call' = [call EXCEPT ![p] = r]
        /\ UNCHANGED <<hv, list, count, nextId, vdev, file, calls, stuck, module>>
    BY <1>1, FieldTypes DEF UnpublishCall, Goto, Return
  <1>5. call'[p] = r
    BY <1>1, <1>4 DEF TypeOK
  <1>6. call[p].pc \notin Owning /\ r.pc \notin Owning
    BY <1>2, IdleFields DEF Owning, Removing
  <1>7. CallInv(p)'
    BY <1>1, <1>2, <1>4, <1>5, FieldTypes, IdleFields
    DEF CallInv, Owning, Creating, Removing
  <1>8. NumberInv'
    <2>1. Unnumbered' = Unnumbered
      BY <1>1, <1>2, <1>4, IdleFields DEF Unnumbered, TypeOK
    <2> QED
      BY <1>1, <1>4, <2>1 DEF NumberInv
  <1>9. /\ hv' \subseteq Channels /\ stuck' \subseteq Channels
        /\ calls' \in 0 .. MaxCalls
        /\ \A d \in hv : d \in hv' \/ (call[p].pc \in Creating /\ d = call[p].channel)
        /\ \A d \in hv' \ stuck' :
             d \in hv \ stuck \/ (r.pc \in Creating /\ r.channel = d)
        /\ call[p].pc \in Creating /\ call[p].channel \in hv' \ stuck' =>
             r.pc \in Creating /\ r.channel = call[p].channel
        /\ r.pc \in Creating => \/ call[p].pc \in Creating /\ r.channel = call[p].channel
                                \/ r.channel \notin hv
    BY <1>1, <1>2, <1>4, FieldTypes, IdleFields, RegistryAssumption
    DEF Creating, TypeOK
  <1> HIDE DEF r
  <1> QED
    BY <1>2, <1>3, <1>4, <1>6, <1>7, <1>8, <1>9, CallerStep

(* -ENOENT or -EBUSY.                                                      *)
LEMMA StepFindFail ==
  ASSUME RegistryInv, NEW p \in Callers, FindFail(p)
  PROVE  RegistryInv' /\ Table' = Table
  <1> DEFINE r == Idle
  <1>1. TypeOK /\ CallInv(p) /\ NumberInv /\ HoldInv
    BY DEF RegistryInv
  <1>2. call[p].pc = "find" /\ module = "live"
    BY <1>1, FieldTypes DEF FindFail, CallInv, Creating
  <1>3. r \in CallState
    BY <1>1, FieldTypes, IdleFields DEF CallState, Creating
  <1>4. /\ call' = [call EXCEPT ![p] = r]
        /\ UNCHANGED <<hv, list, count, nextId, vdev, file, calls, stuck, module>>
    BY <1>1, FieldTypes DEF FindFail, Goto, Return
  <1>5. call'[p] = r
    BY <1>1, <1>4 DEF TypeOK
  <1>6. call[p].pc \notin Owning /\ r.pc \notin Owning
    BY <1>2, IdleFields DEF Owning, Removing
  <1>7. CallInv(p)'
    BY <1>1, <1>2, <1>4, <1>5, FieldTypes, IdleFields
    DEF CallInv, Owning, Creating, Removing
  <1>8. NumberInv'
    <2>1. Unnumbered' = Unnumbered
      BY <1>1, <1>2, <1>4, IdleFields DEF Unnumbered, TypeOK
    <2> QED
      BY <1>1, <1>4, <2>1 DEF NumberInv
  <1>9. /\ hv' \subseteq Channels /\ stuck' \subseteq Channels
        /\ calls' \in 0 .. MaxCalls
        /\ \A d \in hv : d \in hv' \/ (call[p].pc \in Creating /\ d = call[p].channel)
        /\ \A d \in hv' \ stuck' :
             d \in hv \ stuck \/ (r.pc \in Creating /\ r.channel = d)
        /\ call[p].pc \in Creating /\ call[p].channel \in hv' \ stuck' =>
             r.pc \in Creating /\ r.channel = call[p].channel
        /\ r.pc \in Creating => \/ call[p].pc \in Creating /\ r.channel = call[p].channel
                                \/ r.channel \notin hv
    BY <1>1, <1>2, <1>4, FieldTypes, IdleFields, RegistryAssumption
    DEF Creating, TypeOK
  <1> HIDE DEF r
  <1> QED
    BY <1>2, <1>3, <1>4, <1>6, <1>7, <1>8, <1>9, CallerStep

(* The number of devices that count, one more or one less.                 *)
LEMMA CountedFinite ==
  IsFiniteSet(Counted) /\ Cardinality(Counted) \in Nat
  <1>1. IsFiniteSet(Ids)
    BY FS_Interval, RegistryAssumption DEF Ids
  <1>2. Counted \subseteq Ids
    BY DEF Counted
  <1>3. IsFiniteSet(Counted)
    BY <1>1, <1>2, FS_Subset
  <1> QED
    BY <1>3, FS_CardinalityType

(* One more device counts.                                                 *)
LEMMA OneMore ==
  ASSUME NEW i \in Ids, i \notin Counted
  PROVE  Cardinality(Counted \cup {i}) = Cardinality(Counted) + 1
  <1>1. IsFiniteSet(Counted)
    BY CountedFinite
  <1> QED
    BY <1>1, FS_AddElement

(* One device less counts.                                                 *)
LEMMA OneLess ==
  ASSUME NEW i \in Ids, i \in Counted
  PROVE  /\ Cardinality(Counted \ {i}) = Cardinality(Counted) - 1
         /\ Cardinality(Counted) \in Nat \ {0}
  <1>1. IsFiniteSet(Counted) /\ Cardinality(Counted) \in Nat
    BY CountedFinite
  <1>2. Cardinality(Counted) # 0
    BY <1>1, FS_EmptySet
  <1> QED
    BY <1>1, <1>2, FS_RemoveElement

(* A number for the device: NumberInv says that one is left.               *)
LEMMA StepReserve ==
  ASSUME RegistryInv, NEW p \in Callers, Reserve(p)
  PROVE  RegistryInv' /\ TableStep
  <1>1. /\ TypeOK /\ ListInv /\ OwnerInv /\ HoldInv /\ FileInv /\ CountInv /\ NumberInv
        /\ \A j \in Ids : VdevInv(j)
        /\ \A q \in Callers : CallInv(q)
    BY DEF RegistryInv
  <1>2. p \in Unnumbered
    BY DEF Unnumbered, Reserve
  <1>3. Cardinality(Unnumbered \ {p}) \in Nat /\ Cardinality(Unnumbered) \in Nat
        /\ Cardinality(Unnumbered \ {p}) = Cardinality(Unnumbered) - 1
    BY <1>1, <1>2, OneNumbered
  <1>4. nextId \in Ids
    BY <1>1, <1>3, RegistryAssumption DEF NumberInv, TypeOK, Ids
  <1>5. PICK i \in Ids : i = nextId
    BY <1>4
  <1> DEFINE r == [call[p] EXCEPT !.pc = "register", !.id = nextId]
             d == [NoVdev EXCEPT !.state = "live", !.channel = call[p].channel]
  <1>6. /\ call[p].pc = "reserve" /\ module = "live"
        /\ call[p].channel \in Channels
        /\ vdev[i].state = "none" /\ ~vdev[i].active /\ ~vdev[i].removing /\ ~Listed(i)
        /\ count < MaxVdevs /\ i = nextId
    <2>1. VdevInv(i)
      BY <1>1
    <2> QED
      BY <1>1, <1>5, <2>1, FieldTypes DEF VdevInv, Reserve, CallInv, Ids
  <1>7. r \in CallState
    BY <1>1, <1>6, FieldTypes, IdleFields DEF CallState, Creating, Removing
  <1>8. d \in Vdev
    BY <1>1, <1>6, FieldTypes DEF Vdev, NoVdev
  <1>9. /\ call' = [call EXCEPT ![p] = r]
        /\ vdev' = [vdev EXCEPT ![i] = d]
        /\ UNCHANGED <<hv, list, file, calls, stuck, module>>
        /\ nextId' = nextId + 1 /\ count' = count + 1
    BY <1>1, <1>5, <1>6 DEF Reserve, Goto, Return, TypeOK
  <1>10. /\ call'[p] = r /\ \A q \in Callers : q # p => call'[q] = call[q]
         /\ vdev'[i] = d /\ \A j \in Ids : j # i => vdev'[j] = vdev[j]
    BY <1>1, <1>6, <1>9 DEF TypeOK
  <1>11. r.pc = "register" /\ r.channel = call[p].channel /\ r.id = i
    BY <1>1, <1>5, <1>6, FieldTypes, IdleFields DEF CallState
  <1>12. /\ d.state = "live" /\ d.misc = FALSE /\ d.active = FALSE
        /\ d.removing = FALSE /\ d.channel = call[p].channel
    BY <1>1, <1>6, FieldTypes DEF Vdev, NoVdev
  <1> HIDE DEF r, d
  <1>13. \A q \in Callers : q # p /\ call[q].pc \in Owning => call[q].id # i
    BY <1>1, <1>6 DEF OwnerInv, CallInv, Owning, Removing
  <1>14. /\ Listed(i)' <=> Listed(i)
         /\ PastHypercall(i) <=> FALSE
         /\ PastHypercall(i)' <=> FALSE
    <2>1. Listed(i)' <=> Listed(i)
      BY <1>9 DEF Listed
    <2>2. PastHypercall(i) <=> FALSE
      BY <1>1, <1>6, <1>13 DEF PastHypercall, Owning, Removing
    <2>3. PastHypercall(i)' <=> FALSE
      BY <1>6, <1>10, <1>11, <1>12, <1>13 DEF PastHypercall, Owning, Removing
    <2> QED
      BY <2>1, <2>2, <2>3
  <1>15. Holds(i) <=> FALSE
    BY <1>6, <1>14 DEF Holds
  <1>16. Holds(i)' <=> FALSE
    BY <1>6, <1>14 DEF Holds
  <1>17. VdevInv(i)'
    <2>1. Unlisted(i)' <=> TRUE
      BY <1>6, <1>10, <1>11, <1>12, <1>13 DEF Unlisted, Owning, Removing
    <2>2. Claimed(i)' <=> FALSE
      BY <1>6, <1>10, <1>11, <1>12, <1>13 DEF Claimed, Owning, Removing
    <2>3. /\ VdevInv(i)
          /\ \A f \in Files : file'[f] = file[f]
          /\ vdev[i].misc \in BOOLEAN /\ vdev[i].active \in BOOLEAN
          /\ vdev[i].removing \in BOOLEAN
      BY <1>1, <1>9, FieldTypes
    <2>4. ~(i >= nextId')
      BY <1>1, <1>5, <1>6, <1>9, <1>12, <2>3, RegistryAssumption
      DEF VdevInv, Ids, TypeOK
    <2> QED
      BY <1>6, <1>10, <1>12, <1>14, <2>1, <2>2, <2>3, <2>4 DEF VdevInv
  <1>18. CallInv(p)'
    <2>1. CallInv(p)
      BY <1>1
    <2>2. module' = module /\ (r.pc \in Creating => call[p].channel \in hv')
      BY <1>6, <1>9, <1>11, <2>1 DEF CallInv, Creating
    <2> QED
      BY <1>5, <1>6, <1>10, <1>11, <1>12, <1>14, <2>1, <2>2
      DEF CallInv, Owning, Creating, Removing
  <1>19. CountInv' /\ count' \in 0 .. MaxVdevs
    <2>1. \A j \in Ids : Leaves(j)' <=> Leaves(j)
      BY <1>6, <1>10, <1>11, <1>12 DEF Leaves
    <2>2. ~Leaves(i)
      BY <1>1, <1>6, <1>13 DEF Leaves, Owning, Removing
    <2>3. Counted' = Counted \cup {i} /\ i \notin Counted
      BY <1>6, <1>10, <1>11, <1>12, <2>1, <2>2 DEF Counted
    <2> QED
      BY <1>1, <1>6, <1>9, <2>3, OneMore, RegistryAssumption
      DEF CountInv, TypeOK
  <1>20. NumberInv' /\ nextId' \in 1 .. (MaxCalls + 1)
    <2>1. Unnumbered' = Unnumbered \ {p} /\ p \in Unnumbered
      BY <1>6, <1>10, <1>11, <1>12 DEF Unnumbered
    <2>2. /\ IsFiniteSet(Unnumbered \ {p})
          /\ Cardinality(Unnumbered \ {p}) \in Nat
          /\ Cardinality(Unnumbered \ {p}) = Cardinality(Unnumbered) - 1
          /\ Cardinality(Unnumbered) \in Nat
      BY <1>1, <2>1, OneNumbered
    <2> QED
      BY <1>1, <1>6, <1>9, <2>1, <2>2, FieldTypes, RegistryAssumption
      DEF NumberInv, Ids
  <1>21. /\ hv' \subseteq hv
         /\ \A c \in hv : c \in hv' \/ (Holds(i) /\ ~Holds(i)' /\ c = vdev[i].channel)
         /\ Holds(i) /\ ~Holds(i)' => vdev[i].channel \notin hv'
    BY <1>6, <1>9, <1>15, <1>16
  <1>22. /\ call[p].pc \in Owning => call[p].id = i
         /\ r.pc \in Owning => r.id = i
         /\ r.pc \in Creating <=> call[p].pc \in Creating
         /\ r.pc \in Creating => r.channel = call[p].channel
         /\ d.active <=> vdev[i].active
         /\ Listed(i) => d.channel = vdev[i].channel
    BY <1>6, <1>9, <1>11, <1>12, RegistryAssumption
    DEF Owning, Creating, Removing, Ids
  <1>23. \A j \in Ids \ {i} : j >= nextId' <=> j >= nextId
    BY <1>1, <1>5, <1>6, <1>9 DEF Ids, TypeOK
  <1>24. RegistryInv' /\ Table' = [Table EXCEPT ![i] = Table'[i]]
    BY <1>6, <1>7, <1>8, <1>9, <1>13, <1>14, <1>15, <1>16, <1>17, <1>18, <1>19,
       <1>20, <1>21, <1>22, <1>23, DeviceStep
  <1>25. TableStep
    <2>1. Table[i] = BlankRow(i, "none") /\ Table'[i] = BlankRow(i, "none")'
      BY <1>6, <1>10, <1>12, <1>14, RowNow, RowNext
    <2>2. ~vdev[i].active => vdev[i].active = FALSE
      BY <1>1, FieldTypes
    <2>3. Table'[i] = Table[i]
      BY <1>6, <1>10, <1>12, <2>1, <2>2 DEF Row, BlankRow
    <2>4. Table = [j \in Ids |-> Table[j]]
      BY DEF Table
    <2>5. Table' = Table
      BY <1>24, <2>3, <2>4
    <2> QED
      BY <2>5 DEF TableStep
  <1> QED
    BY <1>24, <1>25

(* misc_register: the device appears, and its channel has no other.        *)
LEMMA StepRegister ==
  ASSUME RegistryInv, NEW p \in Callers, Register(p)
  PROVE  RegistryInv' /\ TableStep
  <1>1. /\ TypeOK /\ ListInv /\ OwnerInv /\ HoldInv /\ FileInv /\ CountInv /\ NumberInv
        /\ \A j \in Ids : VdevInv(j)
        /\ \A q \in Callers : CallInv(q)
    BY DEF RegistryInv
  <1>2. PICK i \in Ids : i = call[p].id
    BY <1>1 DEF Register, CallInv, Owning, Removing
  <1> DEFINE r == [call[p] EXCEPT !.pc = "list"]
             d == [vdev[i] EXCEPT !.misc = TRUE]
  <1>3. /\ call[p].pc = "register" /\ module = "live" /\ i = call[p].id
        /\ call[p].channel \in Channels
        /\ vdev[i].state = "live" /\ vdev[i].channel = call[p].channel
        /\ ~vdev[i].removing /\ ~vdev[i].misc /\ ~Listed(i) /\ ~vdev[i].active
    BY <1>1, <1>2, FieldTypes
    DEF Register, CallInv, VdevInv, Owning, Removing, Creating
  <1>4. r \in CallState
    BY <1>1, <1>3, FieldTypes, IdleFields DEF CallState, Creating, Removing
  <1>5. d \in Vdev
    BY <1>1, <1>3, FieldTypes DEF Vdev, NoVdev
  <1>6. /\ call' = [call EXCEPT ![p] = r]
        /\ vdev' = [vdev EXCEPT ![i] = d]
        /\ UNCHANGED <<hv, list, count, nextId, file, calls, stuck, module>>
    BY <1>1, <1>2, <1>3 DEF Register, Goto, Return, TypeOK
  <1>7. /\ call'[p] = r /\ \A q \in Callers : q # p => call'[q] = call[q]
        /\ vdev'[i] = d /\ \A j \in Ids : j # i => vdev'[j] = vdev[j]
    BY <1>1, <1>3, <1>6 DEF TypeOK
  <1>8. r.pc = "list" /\ r.channel = call[p].channel /\ r.id = call[p].id
    BY <1>1, <1>2, <1>3, FieldTypes, IdleFields DEF CallState
  <1>9. /\ d.state = vdev[i].state /\ d.misc = TRUE /\ d.active = vdev[i].active
       /\ d.removing = vdev[i].removing /\ d.channel = vdev[i].channel
    BY <1>1, <1>3, FieldTypes DEF Vdev, NoVdev
  <1> HIDE DEF r, d
  <1>10. \A q \in Callers : q # p /\ call[q].pc \in Owning => call[q].id # i
    BY <1>1, <1>3 DEF OwnerInv, CallInv, Owning, Removing
  <1>11. /\ Listed(i)' <=> Listed(i)
         /\ PastHypercall(i) <=> FALSE
         /\ PastHypercall(i)' <=> FALSE
    <2>1. Listed(i)' <=> Listed(i)
      BY <1>6 DEF Listed
    <2>2. PastHypercall(i) <=> FALSE
      BY <1>1, <1>3, <1>10 DEF PastHypercall, Owning, Removing
    <2>3. PastHypercall(i)' <=> FALSE
      BY <1>3, <1>7, <1>8, <1>9, <1>10 DEF PastHypercall, Owning, Removing
    <2> QED
      BY <2>1, <2>2, <2>3
  <1>12. Holds(i) <=> FALSE
    BY <1>3, <1>11 DEF Holds
  <1>13. Holds(i)' <=> FALSE
    BY <1>3, <1>11 DEF Holds
  <1>14. VdevInv(i)'
    <2>1. Unlisted(i)' <=> TRUE
      BY <1>3, <1>7, <1>8, <1>9, <1>10 DEF Unlisted, Owning, Removing
    <2>2. Claimed(i)' <=> FALSE
      BY <1>3, <1>7, <1>8, <1>9, <1>10 DEF Claimed, Owning, Removing
    <2>3. /\ VdevInv(i)
          /\ \A f \in Files : file'[f] = file[f]
          /\ vdev[i].misc \in BOOLEAN /\ vdev[i].active \in BOOLEAN
          /\ vdev[i].removing \in BOOLEAN
      BY <1>1, <1>6, FieldTypes
    <2>4. ~(i >= nextId')
      BY <1>1, <1>2, <1>3, <1>6, <1>9, <2>3, RegistryAssumption
      DEF VdevInv, Ids, TypeOK
    <2> QED
      BY <1>3, <1>7, <1>9, <1>11, <2>1, <2>2, <2>3, <2>4 DEF VdevInv
  <1>15. CallInv(p)'
    <2>1. CallInv(p)
      BY <1>1
    <2>2. module' = module /\ (r.pc \in Creating => call[p].channel \in hv')
      BY <1>3, <1>6, <1>8, <2>1 DEF CallInv, Creating
    <2> QED
      BY <1>2, <1>3, <1>7, <1>8, <1>9, <1>11, <2>1, <2>2
      DEF CallInv, Owning, Creating, Removing
  <1>16. CountInv' /\ count' \in 0 .. MaxVdevs
    <2>1. Counted' = Counted
      <3>1. \A j \in Ids : j # i => (Leaves(j)' <=> Leaves(j))
        BY <1>3, <1>7, <1>8, <1>9 DEF Leaves
      <3>2. Leaves(i)' <=> FALSE
        BY <1>3, <1>7, <1>8, <1>9, <1>10 DEF Leaves, Owning, Removing
      <3>3. Leaves(i) <=> FALSE
        BY <1>1, <1>3, <1>10 DEF Leaves, Owning, Removing
      <3> QED
        BY <1>3, <1>7, <1>8, <1>9, <3>1, <3>2, <3>3 DEF Counted
    <2> QED
      BY <1>1, <1>6, <2>1 DEF CountInv, TypeOK
  <1>17. NumberInv' /\ nextId' \in 1 .. (MaxCalls + 1)
    <2>1. Unnumbered' = Unnumbered
      BY <1>3, <1>7, <1>8, <1>9 DEF Unnumbered
    <2> QED
      BY <1>1, <1>6, <2>1 DEF NumberInv, TypeOK
  <1>18. /\ hv' \subseteq hv
         /\ \A c \in hv : c \in hv' \/ (Holds(i) /\ ~Holds(i)' /\ c = vdev[i].channel)
         /\ Holds(i) /\ ~Holds(i)' => vdev[i].channel \notin hv'
    BY <1>3, <1>6, <1>12, <1>13
  <1>19. /\ call[p].pc \in Owning => call[p].id = i
         /\ r.pc \in Owning => r.id = i
         /\ r.pc \in Creating <=> call[p].pc \in Creating
         /\ r.pc \in Creating => r.channel = call[p].channel
         /\ d.active <=> vdev[i].active
         /\ Listed(i) => d.channel = vdev[i].channel
    BY <1>3, <1>6, <1>8, <1>9, RegistryAssumption
    DEF Owning, Creating, Removing
  <1>20. \A j \in Ids \ {i} : j >= nextId' <=> j >= nextId
    BY <1>1, <1>2, <1>3, <1>6 DEF Ids, TypeOK
  <1>21. RegistryInv' /\ Table' = [Table EXCEPT ![i] = Table'[i]]
    BY <1>3, <1>4, <1>5, <1>6, <1>10, <1>11, <1>12, <1>13, <1>14, <1>15, <1>16,
       <1>17, <1>18, <1>19, <1>20, DeviceStep
  <1>22. TableStep
    <2>1. Table[i] = BlankRow(i, "none") /\ Table'[i] = Row(i, "new")'
      BY <1>3, <1>7, <1>9, <1>11, RowNow, RowNext
    <2>2. ~vdev[i].active => vdev[i].active = FALSE
      BY <1>1, FieldTypes
    <2>3. \A j \in Ids : Table[j].ch = call[p].channel => Table[j].st = "leaving"
      BY <1>3, ChannelFree
    <2>4. vdev'[i].active = FALSE /\ vdev'[i].channel = call[p].channel
      BY <1>3, <1>7, <1>9, <2>2
    <2>5. Table'[i] = [st |-> "new", ch |-> call[p].channel, active |-> FALSE]
      BY <2>1, <2>4, Zenon DEF Row
    <2>6. Table[i].st = "none"
      BY <2>1 DEF BlankRow
    <2>7. Devices!Appear(i, call[p].channel)
      BY <1>3, <1>7, <1>9, <1>21, <2>1, <2>2, <2>3, <2>5, <2>6
      DEF Devices!Appear, Devices!Set, Row, BlankRow, Devices!NoDevice,
          Devices!GoneDevice
    <2> QED
      BY <1>3, <2>7 DEF TableStep, Devices!DeviceTableNext
  <1> QED
    BY <1>21, <1>22

(* misc_register fails: the number is lost, the count restored.            *)
LEMMA StepRegisterFail ==
  ASSUME RegistryInv, NEW p \in Callers, RegisterFail(p)
  PROVE  RegistryInv' /\ TableStep
  <1>1. /\ TypeOK /\ ListInv /\ OwnerInv /\ HoldInv /\ FileInv /\ CountInv /\ NumberInv
        /\ \A j \in Ids : VdevInv(j)
        /\ \A q \in Callers : CallInv(q)
    BY DEF RegistryInv
  <1>2. PICK i \in Ids : i = call[p].id
    BY <1>1 DEF RegisterFail, CallInv, Owning, Removing
  <1> DEFINE r == [call[p] EXCEPT !.pc = "rollback", !.id = NoId]
             d == [vdev[i] EXCEPT !.state = "freed"]
  <1>3. /\ call[p].pc = "register" /\ module = "live" /\ i = call[p].id
        /\ call[p].channel \in Channels
        /\ vdev[i].state = "live" /\ vdev[i].channel = call[p].channel
        /\ ~vdev[i].removing /\ ~vdev[i].misc /\ ~Listed(i) /\ ~vdev[i].active
    BY <1>1, <1>2, FieldTypes
    DEF RegisterFail, CallInv, VdevInv, Owning, Removing, Creating
  <1>4. r \in CallState
    BY <1>1, <1>3, FieldTypes, IdleFields DEF CallState, Creating, Removing
  <1>5. d \in Vdev
    BY <1>1, <1>3, FieldTypes DEF Vdev, NoVdev
  <1>6. /\ call' = [call EXCEPT ![p] = r]
        /\ vdev' = [vdev EXCEPT ![i] = d]
        /\ UNCHANGED <<hv, list, nextId, file, calls, stuck, module>> /\ count' = count - 1
    BY <1>1, <1>2, <1>3 DEF RegisterFail, Goto, Return, TypeOK
  <1>7. /\ call'[p] = r /\ \A q \in Callers : q # p => call'[q] = call[q]
        /\ vdev'[i] = d /\ \A j \in Ids : j # i => vdev'[j] = vdev[j]
    BY <1>1, <1>3, <1>6 DEF TypeOK
  <1>8. r.pc = "rollback" /\ r.channel = call[p].channel /\ r.id = NoId
    BY <1>1, <1>2, <1>3, FieldTypes, IdleFields DEF CallState
  <1>9. /\ d.state = "freed" /\ d.misc = vdev[i].misc /\ d.active = vdev[i].active
       /\ d.removing = vdev[i].removing /\ d.channel = vdev[i].channel
    BY <1>1, <1>3, FieldTypes DEF Vdev, NoVdev
  <1> HIDE DEF r, d
  <1>10. \A q \in Callers : q # p /\ call[q].pc \in Owning => call[q].id # i
    BY <1>1, <1>3 DEF OwnerInv, CallInv, Owning, Removing
  <1>11. /\ Listed(i)' <=> Listed(i)
         /\ PastHypercall(i) <=> FALSE
         /\ PastHypercall(i)' <=> FALSE
    <2>1. Listed(i)' <=> Listed(i)
      BY <1>6 DEF Listed
    <2>2. PastHypercall(i) <=> FALSE
      BY <1>1, <1>3, <1>10 DEF PastHypercall, Owning, Removing
    <2>3. PastHypercall(i)' <=> FALSE
      BY <1>3, <1>7, <1>8, <1>9, <1>10 DEF PastHypercall, Owning, Removing
    <2> QED
      BY <2>1, <2>2, <2>3
  <1>12. Holds(i) <=> FALSE
    BY <1>3, <1>11 DEF Holds
  <1>13. Holds(i)' <=> FALSE
    BY <1>3, <1>11 DEF Holds
  <1>14. VdevInv(i)'
    <2>1. Unlisted(i)' <=> FALSE
      BY <1>3, <1>7, <1>8, <1>9, <1>10 DEF Unlisted, Owning, Removing
    <2>2. Claimed(i)' <=> FALSE
      BY <1>3, <1>7, <1>8, <1>9, <1>10 DEF Claimed, Owning, Removing
    <2>3. /\ VdevInv(i)
          /\ \A f \in Files : file'[f] = file[f]
          /\ vdev[i].misc \in BOOLEAN /\ vdev[i].active \in BOOLEAN
          /\ vdev[i].removing \in BOOLEAN
      BY <1>1, <1>6, FieldTypes
    <2>4. ~(i >= nextId')
      BY <1>1, <1>2, <1>3, <1>6, <1>9, <2>3, RegistryAssumption
      DEF VdevInv, Ids, TypeOK
    <2> QED
      BY <1>3, <1>7, <1>9, <1>11, <2>1, <2>2, <2>3, <2>4 DEF VdevInv
  <1>15. CallInv(p)'
    <2>1. CallInv(p)
      BY <1>1
    <2>2. module' = module /\ (r.pc \in Creating => call[p].channel \in hv')
      BY <1>3, <1>6, <1>8, <2>1 DEF CallInv, Creating
    <2> QED
      BY <1>2, <1>3, <1>7, <1>8, <1>9, <1>11, <2>1, <2>2
      DEF CallInv, Owning, Creating, Removing
  <1>16. CountInv' /\ count' \in 0 .. MaxVdevs
    <2>1. \A j \in Ids : Leaves(j)' <=> Leaves(j)
      BY <1>3, <1>7, <1>8, <1>9 DEF Leaves
    <2>2. ~Leaves(i)
      BY <1>1, <1>3, <1>10 DEF Leaves, Owning, Removing
    <2>3. Counted' = Counted \ {i} /\ i \in Counted
      BY <1>3, <1>7, <1>8, <1>9, <2>1, <2>2 DEF Counted
    <2>4. /\ Cardinality(Counted \ {i}) = Cardinality(Counted) - 1
          /\ Cardinality(Counted) \in Nat \ {0}
      BY <2>3, OneLess
    <2>5. count = Cardinality(Counted) /\ count \in 0 .. MaxVdevs
      BY <1>1, <1>3 DEF CountInv, TypeOK
    <2>6. count' \in 0 .. MaxVdevs
      BY <1>6, <2>4, <2>5, RegistryAssumption
    <2> QED
      BY <1>6, <2>3, <2>4, <2>5, <2>6 DEF CountInv
  <1>17. NumberInv' /\ nextId' \in 1 .. (MaxCalls + 1)
    <2>1. Unnumbered' = Unnumbered
      BY <1>3, <1>7, <1>8, <1>9 DEF Unnumbered
    <2> QED
      BY <1>1, <1>6, <2>1 DEF NumberInv, TypeOK
  <1>18. /\ hv' \subseteq hv
         /\ \A c \in hv : c \in hv' \/ (Holds(i) /\ ~Holds(i)' /\ c = vdev[i].channel)
         /\ Holds(i) /\ ~Holds(i)' => vdev[i].channel \notin hv'
    BY <1>3, <1>6, <1>12, <1>13
  <1>19. /\ call[p].pc \in Owning => call[p].id = i
         /\ r.pc \in Owning => r.id = i
         /\ r.pc \in Creating <=> call[p].pc \in Creating
         /\ r.pc \in Creating => r.channel = call[p].channel
         /\ d.active <=> vdev[i].active
         /\ Listed(i) => d.channel = vdev[i].channel
    BY <1>3, <1>6, <1>8, <1>9, RegistryAssumption
    DEF Owning, Creating, Removing
  <1>20. \A j \in Ids \ {i} : j >= nextId' <=> j >= nextId
    BY <1>1, <1>2, <1>3, <1>6 DEF Ids, TypeOK
  <1>21. RegistryInv' /\ Table' = [Table EXCEPT ![i] = Table'[i]]
    BY <1>3, <1>4, <1>5, <1>6, <1>10, <1>11, <1>12, <1>13, <1>14, <1>15, <1>16,
       <1>17, <1>18, <1>19, <1>20, DeviceStep
  <1>22. TableStep
    <2>1. Table[i] = BlankRow(i, "none") /\ Table'[i] = BlankRow(i, "gone")'
      BY <1>3, <1>7, <1>9, <1>11, RowNow, RowNext
    <2>2. ~vdev[i].active => vdev[i].active = FALSE
      BY <1>1, FieldTypes
    <2>3. vdev'[i].active = FALSE /\ vdev'[i].channel = call[p].channel
      BY <1>3, <1>7, <1>9, <2>2
    <2>4. Table'[i] = Devices!GoneDevice
      <3>1. Devices!GoneDevice = [st |-> "gone", ch |-> NoChannel, active |-> FALSE]
        BY DEF Devices!GoneDevice, Devices!NoDevice
      <3> QED
        BY <2>1, <2>3, <3>1, Zenon DEF BlankRow
    <2>5. Table[i].st = "none"
      BY <2>1 DEF BlankRow
    <2>6. Devices!Skip(i)
      BY <1>3, <1>7, <1>9, <1>21, <2>1, <2>2, <2>4, <2>5
      DEF Devices!Skip, Devices!Set, Row, BlankRow, Devices!NoDevice,
          Devices!GoneDevice
    <2> QED
      BY <1>3, <2>6 DEF TableStep, Devices!DeviceTableNext
  <1> QED
    BY <1>21, <1>22

(* The removal marks the first device of its channel, the oldest one.      *)
LEMMA StepFind ==
  ASSUME RegistryInv, NEW p \in Callers, Find(p)
  PROVE  RegistryInv' /\ TableStep
  <1>1. /\ TypeOK /\ ListInv /\ OwnerInv /\ HoldInv /\ FileInv /\ CountInv /\ NumberInv
        /\ \A j \in Ids : VdevInv(j)
        /\ \A q \in Callers : CallInv(q)
    BY DEF RegistryInv
  <1>2. PICK n \in 1 .. Len(list) :
         /\ IsFirst(p, n)
         /\ ~vdev[list[n]].active /\ ~vdev[list[n]].removing
         /\ vdev' = [vdev EXCEPT ![list[n]].removing = TRUE]
         /\ call' = [call EXCEPT ![p].pc = "hypercall", ![p].id = list[n]]
    BY DEF Find
  <1>3. PICK i \in Ids : i = list[n]
    BY <1>1, FieldTypes
  <1> DEFINE r == [call[p] EXCEPT !.pc = "hypercall", !.id = i]
             d == [vdev[i] EXCEPT !.removing = TRUE]
  <1>4. /\ call[p].pc = "find" /\ module = "live"
        /\ call[p].channel \in Channels
        /\ vdev[i].state = "live" /\ vdev[i].channel = call[p].channel
        /\ ~vdev[i].removing /\ vdev[i].misc /\ Listed(i) /\ ~vdev[i].active
    <2>1. Listed(i)
      BY <1>3 DEF Listed
    <2>2. VdevInv(i)
      BY <1>1
    <2> QED
      BY <1>1, <1>2, <1>3, <2>1, <2>2, FieldTypes
      DEF Find, IsFirst, CallInv, VdevInv
  <1>5. r \in CallState
    BY <1>1, <1>4, FieldTypes, IdleFields DEF CallState, Creating, Removing
  <1>6. d \in Vdev
    BY <1>1, <1>4, FieldTypes DEF Vdev, NoVdev
  <1>7. /\ call' = [call EXCEPT ![p] = r]
        /\ vdev' = [vdev EXCEPT ![i] = d]
        /\ UNCHANGED <<hv, list, count, nextId, file, calls, stuck, module>>
    BY <1>1, <1>2, <1>3, <1>4 DEF Find, Goto, Return, TypeOK
  <1>8. /\ call'[p] = r /\ \A q \in Callers : q # p => call'[q] = call[q]
        /\ vdev'[i] = d /\ \A j \in Ids : j # i => vdev'[j] = vdev[j]
    BY <1>1, <1>4, <1>7 DEF TypeOK
  <1>9. r.pc = "hypercall" /\ r.channel = call[p].channel /\ r.id = i
    BY <1>1, <1>3, <1>4, FieldTypes, IdleFields DEF CallState
  <1>10. /\ d.state = vdev[i].state /\ d.misc = vdev[i].misc /\ d.active = vdev[i].active
        /\ d.removing = TRUE /\ d.channel = vdev[i].channel
    BY <1>1, <1>4, FieldTypes DEF Vdev, NoVdev
  <1> HIDE DEF r, d
  <1>11. \A q \in Callers : q # p /\ call[q].pc \in Owning => call[q].id # i
    BY <1>1, <1>4 DEF OwnerInv, CallInv, Owning, Removing
  <1>12. /\ Listed(i)' <=> Listed(i)
         /\ PastHypercall(i) <=> FALSE
         /\ PastHypercall(i)' <=> FALSE
    <2>1. Listed(i)' <=> Listed(i)
      BY <1>7 DEF Listed
    <2>2. PastHypercall(i) <=> FALSE
      BY <1>1, <1>4, <1>11 DEF PastHypercall, Owning, Removing
    <2>3. PastHypercall(i)' <=> FALSE
      BY <1>4, <1>8, <1>9, <1>10, <1>11 DEF PastHypercall, Owning, Removing
    <2> QED
      BY <2>1, <2>2, <2>3
  <1>13. Holds(i) <=> TRUE
    BY <1>4, <1>12 DEF Holds
  <1>14. Holds(i)' <=> TRUE
    BY <1>4, <1>12 DEF Holds
  <1>15. VdevInv(i)'
    <2>1. Unlisted(i)' <=> FALSE
      BY <1>4, <1>8, <1>9, <1>10, <1>11 DEF Unlisted, Owning, Removing
    <2>2. Claimed(i)' <=> TRUE
      BY <1>4, <1>8, <1>9, <1>10, <1>11 DEF Claimed, Owning, Removing
    <2>3. /\ VdevInv(i)
          /\ \A f \in Files : file'[f] = file[f]
          /\ vdev[i].misc \in BOOLEAN /\ vdev[i].active \in BOOLEAN
          /\ vdev[i].removing \in BOOLEAN
      BY <1>1, <1>7, FieldTypes
    <2>4. ~(i >= nextId')
      BY <1>1, <1>3, <1>4, <1>7, <1>10, <2>3, RegistryAssumption
      DEF VdevInv, Ids, TypeOK
    <2> QED
      BY <1>4, <1>8, <1>10, <1>12, <2>1, <2>2, <2>3, <2>4 DEF VdevInv
  <1>16. CallInv(p)'
    <2>1. CallInv(p)
      BY <1>1
    <2>2. module' = module /\ (r.pc \in Creating => call[p].channel \in hv')
      BY <1>4, <1>7, <1>9, <2>1 DEF CallInv, Creating
    <2> QED
      BY <1>3, <1>4, <1>8, <1>9, <1>10, <1>12, <2>1, <2>2
      DEF CallInv, Owning, Creating, Removing
  <1>17. CountInv' /\ count' \in 0 .. MaxVdevs
    <2>1. Counted' = Counted
      <3>1. \A j \in Ids : j # i => (Leaves(j)' <=> Leaves(j))
        BY <1>4, <1>8, <1>9, <1>10 DEF Leaves
      <3>2. Leaves(i)' <=> FALSE
        BY <1>4, <1>8, <1>9, <1>10, <1>11 DEF Leaves, Owning, Removing
      <3>3. Leaves(i) <=> FALSE
        BY <1>1, <1>4, <1>11 DEF Leaves, Owning, Removing
      <3> QED
        BY <1>4, <1>8, <1>9, <1>10, <3>1, <3>2, <3>3 DEF Counted
    <2> QED
      BY <1>1, <1>7, <2>1 DEF CountInv, TypeOK
  <1>18. NumberInv' /\ nextId' \in 1 .. (MaxCalls + 1)
    <2>1. Unnumbered' = Unnumbered
      BY <1>4, <1>8, <1>9, <1>10 DEF Unnumbered
    <2> QED
      BY <1>1, <1>7, <2>1 DEF NumberInv, TypeOK
  <1>19. /\ hv' \subseteq hv
         /\ \A c \in hv : c \in hv' \/ (Holds(i) /\ ~Holds(i)' /\ c = vdev[i].channel)
         /\ Holds(i) /\ ~Holds(i)' => vdev[i].channel \notin hv'
    BY <1>4, <1>7, <1>13, <1>14
  <1>20. /\ call[p].pc \in Owning => call[p].id = i
         /\ r.pc \in Owning => r.id = i
         /\ r.pc \in Creating <=> call[p].pc \in Creating
         /\ r.pc \in Creating => r.channel = call[p].channel
         /\ d.active <=> vdev[i].active
         /\ Listed(i) => d.channel = vdev[i].channel
    BY <1>4, <1>7, <1>9, <1>10, RegistryAssumption
    DEF Owning, Creating, Removing
  <1>21. \A j \in Ids \ {i} : j >= nextId' <=> j >= nextId
    BY <1>1, <1>3, <1>4, <1>7 DEF Ids, TypeOK
  <1>22. RegistryInv' /\ Table' = [Table EXCEPT ![i] = Table'[i]]
    BY <1>4, <1>5, <1>6, <1>7, <1>11, <1>12, <1>13, <1>14, <1>15, <1>16, <1>17,
       <1>18, <1>19, <1>20, <1>21, DeviceStep
  <1>23. TableStep
    <2>1. Table[i] = Row(i, "listed") /\ Table'[i] = Row(i, "taken")'
      BY <1>4, <1>8, <1>10, <1>12, RowNow, RowNext
    <2>2. ~vdev[i].active => vdev[i].active = FALSE
      BY <1>1, FieldTypes
    <2>3. \A j \in Ids \ {i} : Table[j].ch = Table[i].ch =>
            Table[j].st \notin {"listed", "taken", "leaving"}
      BY <1>2, <1>3, <1>4, <2>1, FirstIsOldest DEF Row
    <2>4. Devices!Take(i)
      BY <1>4, <1>8, <1>10, <1>22, <2>1, <2>2, <2>3
      DEF Devices!Take, Devices!Set, Row, BlankRow, Devices!NoDevice,
          Devices!GoneDevice, Devices!Removable
    <2> QED
      BY <1>4, <2>4 DEF TableStep, Devices!DeviceTableNext
  <1> QED
    BY <1>22, <1>23

(* The removal's hypercall: the device gives its channel up.               *)
LEMMA StepUnpublish ==
  ASSUME RegistryInv, NEW p \in Callers, Unpublish(p)
  PROVE  RegistryInv' /\ TableStep
  <1>1. /\ TypeOK /\ ListInv /\ OwnerInv /\ HoldInv /\ FileInv /\ CountInv /\ NumberInv
        /\ \A j \in Ids : VdevInv(j)
        /\ \A q \in Callers : CallInv(q)
    BY DEF RegistryInv
  <1>2. PICK i \in Ids : i = call[p].id
    BY <1>1 DEF Unpublish, CallInv, Owning, Removing
  <1> DEFINE r == [call[p] EXCEPT !.pc = "deregister"]
             d == vdev[i]
  <1>3. /\ call[p].pc = "hypercall" /\ module = "live" /\ i = call[p].id
        /\ call[p].channel \in Channels
        /\ vdev[i].state = "live" /\ vdev[i].channel = call[p].channel
        /\ vdev[i].removing /\ vdev[i].misc /\ Listed(i) /\ ~vdev[i].active
    BY <1>1, <1>2, FieldTypes
    DEF Unpublish, CallInv, VdevInv, Owning, Removing, Creating
  <1>4. r \in CallState
    BY <1>1, <1>3, FieldTypes, IdleFields DEF CallState, Creating, Removing
  <1>5. d \in Vdev
    BY <1>1, <1>3, FieldTypes DEF Vdev, NoVdev
  <1>6. /\ call' = [call EXCEPT ![p] = r]
        /\ vdev' = [vdev EXCEPT ![i] = d]
        /\ UNCHANGED <<list, count, nextId, file, calls, stuck, module>>
        /\ hv' = hv \ {call[p].channel}
    BY <1>1, <1>2, <1>3 DEF Unpublish, Goto, Return, TypeOK
  <1>7. /\ call'[p] = r /\ \A q \in Callers : q # p => call'[q] = call[q]
        /\ vdev'[i] = d /\ \A j \in Ids : j # i => vdev'[j] = vdev[j]
    BY <1>1, <1>3, <1>6 DEF TypeOK
  <1>8. r.pc = "deregister" /\ r.channel = call[p].channel /\ r.id = call[p].id
    BY <1>1, <1>2, <1>3, FieldTypes, IdleFields DEF CallState
  <1>9. /\ d.state = vdev[i].state /\ d.misc = vdev[i].misc /\ d.active = vdev[i].active
       /\ d.removing = vdev[i].removing /\ d.channel = vdev[i].channel
    BY <1>1, <1>3, FieldTypes DEF Vdev, NoVdev
  <1> HIDE DEF r, d
  <1>10. \A q \in Callers : q # p /\ call[q].pc \in Owning => call[q].id # i
    BY <1>1, <1>3 DEF OwnerInv, CallInv, Owning, Removing
  <1>11. /\ Listed(i)' <=> Listed(i)
         /\ PastHypercall(i) <=> FALSE
         /\ PastHypercall(i)' <=> TRUE
    <2>1. Listed(i)' <=> Listed(i)
      BY <1>6 DEF Listed
    <2>2. PastHypercall(i) <=> FALSE
      BY <1>1, <1>3, <1>10 DEF PastHypercall, Owning, Removing
    <2>3. PastHypercall(i)' <=> TRUE
      BY <1>3, <1>7, <1>8, <1>9, <1>10 DEF PastHypercall, Owning, Removing
    <2> QED
      BY <2>1, <2>2, <2>3
  <1>12. Holds(i) <=> TRUE
    BY <1>3, <1>11 DEF Holds
  <1>13. Holds(i)' <=> FALSE
    BY <1>3, <1>11 DEF Holds
  <1>14. VdevInv(i)'
    <2>1. Unlisted(i)' <=> FALSE
      BY <1>3, <1>7, <1>8, <1>9, <1>10 DEF Unlisted, Owning, Removing
    <2>2. Claimed(i)' <=> TRUE
      BY <1>3, <1>7, <1>8, <1>9, <1>10 DEF Claimed, Owning, Removing
    <2>3. /\ VdevInv(i)
          /\ \A f \in Files : file'[f] = file[f]
          /\ vdev[i].misc \in BOOLEAN /\ vdev[i].active \in BOOLEAN
          /\ vdev[i].removing \in BOOLEAN
      BY <1>1, <1>6, FieldTypes
    <2>4. ~(i >= nextId')
      BY <1>1, <1>2, <1>3, <1>6, <1>9, <2>3, RegistryAssumption
      DEF VdevInv, Ids, TypeOK
    <2> QED
      BY <1>3, <1>7, <1>9, <1>11, <2>1, <2>2, <2>3, <2>4 DEF VdevInv
  <1>15. CallInv(p)'
    <2>1. CallInv(p)
      BY <1>1
    <2>2. module' = module /\ (r.pc \in Creating => call[p].channel \in hv')
      BY <1>3, <1>6, <1>8, <2>1 DEF CallInv, Creating
    <2> QED
      BY <1>2, <1>3, <1>7, <1>8, <1>9, <1>11, <2>1, <2>2
      DEF CallInv, Owning, Creating, Removing
  <1>16. CountInv' /\ count' \in 0 .. MaxVdevs
    <2>1. Counted' = Counted
      <3>1. \A j \in Ids : j # i => (Leaves(j)' <=> Leaves(j))
        BY <1>3, <1>7, <1>8, <1>9 DEF Leaves
      <3>2. Leaves(i)' <=> FALSE
        BY <1>3, <1>7, <1>8, <1>9, <1>10 DEF Leaves, Owning, Removing
      <3>3. Leaves(i) <=> FALSE
        BY <1>1, <1>3, <1>10 DEF Leaves, Owning, Removing
      <3> QED
        BY <1>3, <1>7, <1>8, <1>9, <3>1, <3>2, <3>3 DEF Counted
    <2> QED
      BY <1>1, <1>6, <2>1 DEF CountInv, TypeOK
  <1>17. NumberInv' /\ nextId' \in 1 .. (MaxCalls + 1)
    <2>1. Unnumbered' = Unnumbered
      BY <1>3, <1>7, <1>8, <1>9 DEF Unnumbered
    <2> QED
      BY <1>1, <1>6, <2>1 DEF NumberInv, TypeOK
  <1>18. /\ hv' \subseteq hv
         /\ \A c \in hv : c \in hv' \/ (Holds(i) /\ ~Holds(i)' /\ c = vdev[i].channel)
         /\ Holds(i) /\ ~Holds(i)' => vdev[i].channel \notin hv'
    BY <1>3, <1>6, <1>12, <1>13
  <1>19. /\ call[p].pc \in Owning => call[p].id = i
         /\ r.pc \in Owning => r.id = i
         /\ r.pc \in Creating <=> call[p].pc \in Creating
         /\ r.pc \in Creating => r.channel = call[p].channel
         /\ d.active <=> vdev[i].active
         /\ Listed(i) => d.channel = vdev[i].channel
    BY <1>3, <1>6, <1>8, <1>9, RegistryAssumption
    DEF Owning, Creating, Removing
  <1>20. \A j \in Ids \ {i} : j >= nextId' <=> j >= nextId
    BY <1>1, <1>2, <1>3, <1>6 DEF Ids, TypeOK
  <1>21. RegistryInv' /\ Table' = [Table EXCEPT ![i] = Table'[i]]
    BY <1>3, <1>4, <1>5, <1>6, <1>10, <1>11, <1>12, <1>13, <1>14, <1>15, <1>16,
       <1>17, <1>18, <1>19, <1>20, DeviceStep
  <1>22. TableStep
    <2>1. Table[i] = Row(i, "taken") /\ Table'[i] = Row(i, "leaving")'
      BY <1>3, <1>7, <1>9, <1>11, RowNow, RowNext
    <2>2. ~vdev[i].active => vdev[i].active = FALSE
      BY <1>1, FieldTypes
    <2>3. Devices!Leave(i)
      BY <1>3, <1>7, <1>9, <1>21, <2>1, <2>2
      DEF Devices!Leave, Devices!Set, Row, BlankRow, Devices!NoDevice,
          Devices!GoneDevice
    <2> QED
      BY <1>3, <2>3 DEF TableStep, Devices!DeviceTableNext
  <1> QED
    BY <1>21, <1>22

(* The hypercall fails: the device is unmarked.                            *)
LEMMA StepUnpublishFail ==
  ASSUME RegistryInv, NEW p \in Callers, UnpublishFail(p)
  PROVE  RegistryInv' /\ TableStep
  <1>1. /\ TypeOK /\ ListInv /\ OwnerInv /\ HoldInv /\ FileInv /\ CountInv /\ NumberInv
        /\ \A j \in Ids : VdevInv(j)
        /\ \A q \in Callers : CallInv(q)
    BY DEF RegistryInv
  <1>2. PICK i \in Ids : i = call[p].id
    BY <1>1 DEF UnpublishFail, CallInv, Owning, Removing
  <1> DEFINE r == Idle
             d == [vdev[i] EXCEPT !.removing = FALSE]
  <1>3. /\ call[p].pc = "hypercall" /\ module = "live" /\ i = call[p].id
        /\ call[p].channel \in Channels
        /\ vdev[i].state = "live" /\ vdev[i].channel = call[p].channel
        /\ vdev[i].removing /\ vdev[i].misc /\ Listed(i) /\ ~vdev[i].active
    BY <1>1, <1>2, FieldTypes
    DEF UnpublishFail, CallInv, VdevInv, Owning, Removing, Creating
  <1>4. r \in CallState
    BY <1>1, <1>3, FieldTypes, IdleFields DEF CallState, Creating, Removing
  <1>5. d \in Vdev
    BY <1>1, <1>3, FieldTypes DEF Vdev, NoVdev
  <1>6. /\ call' = [call EXCEPT ![p] = r]
        /\ vdev' = [vdev EXCEPT ![i] = d]
        /\ UNCHANGED <<hv, list, count, nextId, file, calls, stuck, module>>
    BY <1>1, <1>2, <1>3 DEF UnpublishFail, Goto, Return, TypeOK
  <1>7. /\ call'[p] = r /\ \A q \in Callers : q # p => call'[q] = call[q]
        /\ vdev'[i] = d /\ \A j \in Ids : j # i => vdev'[j] = vdev[j]
    BY <1>1, <1>3, <1>6 DEF TypeOK
  <1>8. r = Idle /\ r.pc = "idle" /\ r.id = NoId /\ r.channel = NoChannel
    BY <1>1, <1>2, <1>3, FieldTypes, IdleFields DEF CallState
  <1>9. /\ d.state = vdev[i].state /\ d.misc = vdev[i].misc /\ d.active = vdev[i].active
       /\ d.removing = FALSE /\ d.channel = vdev[i].channel
    BY <1>1, <1>3, FieldTypes DEF Vdev, NoVdev
  <1> HIDE DEF r, d
  <1>10. \A q \in Callers : q # p /\ call[q].pc \in Owning => call[q].id # i
    BY <1>1, <1>3 DEF OwnerInv, CallInv, Owning, Removing
  <1>11. /\ Listed(i)' <=> Listed(i)
         /\ PastHypercall(i) <=> FALSE
         /\ PastHypercall(i)' <=> FALSE
    <2>1. Listed(i)' <=> Listed(i)
      BY <1>6 DEF Listed
    <2>2. PastHypercall(i) <=> FALSE
      BY <1>1, <1>3, <1>10 DEF PastHypercall, Owning, Removing
    <2>3. PastHypercall(i)' <=> FALSE
      BY <1>3, <1>7, <1>8, <1>9, <1>10 DEF PastHypercall, Owning, Removing
    <2> QED
      BY <2>1, <2>2, <2>3
  <1>12. Holds(i) <=> TRUE
    BY <1>3, <1>11 DEF Holds
  <1>13. Holds(i)' <=> TRUE
    BY <1>3, <1>11 DEF Holds
  <1>14. VdevInv(i)'
    <2>1. Unlisted(i)' <=> FALSE
      BY <1>3, <1>7, <1>8, <1>9, <1>10 DEF Unlisted, Owning, Removing
    <2>2. Claimed(i)' <=> FALSE
      BY <1>3, <1>7, <1>8, <1>9, <1>10 DEF Claimed, Owning, Removing
    <2>3. /\ VdevInv(i)
          /\ \A f \in Files : file'[f] = file[f]
          /\ vdev[i].misc \in BOOLEAN /\ vdev[i].active \in BOOLEAN
          /\ vdev[i].removing \in BOOLEAN
      BY <1>1, <1>6, FieldTypes
    <2>4. ~(i >= nextId')
      BY <1>1, <1>2, <1>3, <1>6, <1>9, <2>3, RegistryAssumption
      DEF VdevInv, Ids, TypeOK
    <2> QED
      BY <1>3, <1>7, <1>9, <1>11, <2>1, <2>2, <2>3, <2>4 DEF VdevInv
  <1>15. CallInv(p)'
    <2>1. CallInv(p)
      BY <1>1
    <2>2. module' = module /\ (r.pc \in Creating => call[p].channel \in hv')
      BY <1>3, <1>6, <1>8, <2>1 DEF CallInv, Creating
    <2> QED
      BY <1>2, <1>3, <1>7, <1>8, <1>9, <1>11, <2>1, <2>2
      DEF CallInv, Owning, Creating, Removing
  <1>16. CountInv' /\ count' \in 0 .. MaxVdevs
    <2>1. Counted' = Counted
      <3>1. \A j \in Ids : j # i => (Leaves(j)' <=> Leaves(j))
        BY <1>3, <1>7, <1>8, <1>9 DEF Leaves
      <3>2. Leaves(i)' <=> FALSE
        BY <1>3, <1>7, <1>8, <1>9, <1>10 DEF Leaves, Owning, Removing
      <3>3. Leaves(i) <=> FALSE
        BY <1>1, <1>3, <1>10 DEF Leaves, Owning, Removing
      <3> QED
        BY <1>3, <1>7, <1>8, <1>9, <3>1, <3>2, <3>3 DEF Counted
    <2> QED
      BY <1>1, <1>6, <2>1 DEF CountInv, TypeOK
  <1>17. NumberInv' /\ nextId' \in 1 .. (MaxCalls + 1)
    <2>1. Unnumbered' = Unnumbered
      BY <1>3, <1>7, <1>8, <1>9 DEF Unnumbered
    <2> QED
      BY <1>1, <1>6, <2>1 DEF NumberInv, TypeOK
  <1>18. /\ hv' \subseteq hv
         /\ \A c \in hv : c \in hv' \/ (Holds(i) /\ ~Holds(i)' /\ c = vdev[i].channel)
         /\ Holds(i) /\ ~Holds(i)' => vdev[i].channel \notin hv'
    BY <1>3, <1>6, <1>12, <1>13
  <1>19. /\ call[p].pc \in Owning => call[p].id = i
         /\ r.pc \in Owning => r.id = i
         /\ r.pc \in Creating <=> call[p].pc \in Creating
         /\ r.pc \in Creating => r.channel = call[p].channel
         /\ d.active <=> vdev[i].active
         /\ Listed(i) => d.channel = vdev[i].channel
    BY <1>3, <1>6, <1>8, <1>9, RegistryAssumption
    DEF Owning, Creating, Removing
  <1>20. \A j \in Ids \ {i} : j >= nextId' <=> j >= nextId
    BY <1>1, <1>2, <1>3, <1>6 DEF Ids, TypeOK
  <1>21. RegistryInv' /\ Table' = [Table EXCEPT ![i] = Table'[i]]
    BY <1>3, <1>4, <1>5, <1>6, <1>10, <1>11, <1>12, <1>13, <1>14, <1>15, <1>16,
       <1>17, <1>18, <1>19, <1>20, DeviceStep
  <1>22. TableStep
    <2>1. Table[i] = Row(i, "taken") /\ Table'[i] = Row(i, "listed")'
      BY <1>3, <1>7, <1>9, <1>11, RowNow, RowNext
    <2>2. ~vdev[i].active => vdev[i].active = FALSE
      BY <1>1, FieldTypes
    <2>3. Devices!GiveBack(i)
      BY <1>3, <1>7, <1>9, <1>21, <2>1, <2>2
      DEF Devices!GiveBack, Devices!Set, Row, BlankRow, Devices!NoDevice,
          Devices!GoneDevice
    <2> QED
      BY <1>3, <2>3 DEF TableStep, Devices!DeviceTableNext
  <1> QED
    BY <1>21, <1>22

(* misc_deregister: nobody can open the device any more.                   *)
LEMMA StepDeregister ==
  ASSUME RegistryInv, NEW p \in Callers, Deregister(p)
  PROVE  RegistryInv' /\ TableStep
  <1>1. /\ TypeOK /\ ListInv /\ OwnerInv /\ HoldInv /\ FileInv /\ CountInv /\ NumberInv
        /\ \A j \in Ids : VdevInv(j)
        /\ \A q \in Callers : CallInv(q)
    BY DEF RegistryInv
  <1>2. PICK i \in Ids : i = call[p].id
    BY <1>1 DEF Deregister, CallInv, Owning, Removing
  <1> DEFINE r == [call[p] EXCEPT !.pc = "unlink"]
             d == [vdev[i] EXCEPT !.misc = FALSE]
  <1>3. /\ call[p].pc = "deregister" /\ module = "live" /\ i = call[p].id
        /\ call[p].channel \in Channels
        /\ vdev[i].state = "live" /\ vdev[i].channel = call[p].channel
        /\ vdev[i].removing /\ vdev[i].misc /\ Listed(i) /\ ~vdev[i].active
    BY <1>1, <1>2, FieldTypes
    DEF Deregister, CallInv, VdevInv, Owning, Removing, Creating
  <1>4. r \in CallState
    BY <1>1, <1>3, FieldTypes, IdleFields DEF CallState, Creating, Removing
  <1>5. d \in Vdev
    BY <1>1, <1>3, FieldTypes DEF Vdev, NoVdev
  <1>6. /\ call' = [call EXCEPT ![p] = r]
        /\ vdev' = [vdev EXCEPT ![i] = d]
        /\ UNCHANGED <<hv, list, count, nextId, file, calls, stuck, module>>
    BY <1>1, <1>2, <1>3 DEF Deregister, Goto, Return, TypeOK
  <1>7. /\ call'[p] = r /\ \A q \in Callers : q # p => call'[q] = call[q]
        /\ vdev'[i] = d /\ \A j \in Ids : j # i => vdev'[j] = vdev[j]
    BY <1>1, <1>3, <1>6 DEF TypeOK
  <1>8. r.pc = "unlink" /\ r.channel = call[p].channel /\ r.id = call[p].id
    BY <1>1, <1>2, <1>3, FieldTypes, IdleFields DEF CallState
  <1>9. /\ d.state = vdev[i].state /\ d.misc = FALSE /\ d.active = vdev[i].active
       /\ d.removing = vdev[i].removing /\ d.channel = vdev[i].channel
    BY <1>1, <1>3, FieldTypes DEF Vdev, NoVdev
  <1> HIDE DEF r, d
  <1>10. \A q \in Callers : q # p /\ call[q].pc \in Owning => call[q].id # i
    BY <1>1, <1>3 DEF OwnerInv, CallInv, Owning, Removing
  <1>11. /\ Listed(i)' <=> Listed(i)
         /\ PastHypercall(i) <=> TRUE
         /\ PastHypercall(i)' <=> TRUE
    <2>1. Listed(i)' <=> Listed(i)
      BY <1>6 DEF Listed
    <2>2. PastHypercall(i) <=> TRUE
      BY <1>1, <1>3, <1>10 DEF PastHypercall, Owning, Removing
    <2>3. PastHypercall(i)' <=> TRUE
      BY <1>3, <1>7, <1>8, <1>9, <1>10 DEF PastHypercall, Owning, Removing
    <2> QED
      BY <2>1, <2>2, <2>3
  <1>12. Holds(i) <=> FALSE
    BY <1>3, <1>11 DEF Holds
  <1>13. Holds(i)' <=> FALSE
    BY <1>3, <1>11 DEF Holds
  <1>14. VdevInv(i)'
    <2>1. Unlisted(i)' <=> FALSE
      BY <1>3, <1>7, <1>8, <1>9, <1>10 DEF Unlisted, Owning, Removing
    <2>2. Claimed(i)' <=> TRUE
      BY <1>3, <1>7, <1>8, <1>9, <1>10 DEF Claimed, Owning, Removing
    <2>3. /\ VdevInv(i)
          /\ \A f \in Files : file'[f] = file[f]
          /\ vdev[i].misc \in BOOLEAN /\ vdev[i].active \in BOOLEAN
          /\ vdev[i].removing \in BOOLEAN
      BY <1>1, <1>6, FieldTypes
    <2>4. ~(i >= nextId')
      BY <1>1, <1>2, <1>3, <1>6, <1>9, <2>3, RegistryAssumption
      DEF VdevInv, Ids, TypeOK
    <2> QED
      BY <1>3, <1>7, <1>9, <1>11, <2>1, <2>2, <2>3, <2>4 DEF VdevInv
  <1>15. CallInv(p)'
    <2>1. CallInv(p)
      BY <1>1
    <2>2. module' = module /\ (r.pc \in Creating => call[p].channel \in hv')
      BY <1>3, <1>6, <1>8, <2>1 DEF CallInv, Creating
    <2> QED
      BY <1>2, <1>3, <1>7, <1>8, <1>9, <1>11, <2>1, <2>2
      DEF CallInv, Owning, Creating, Removing
  <1>16. CountInv' /\ count' \in 0 .. MaxVdevs
    <2>1. Counted' = Counted
      <3>1. \A j \in Ids : j # i => (Leaves(j)' <=> Leaves(j))
        BY <1>3, <1>7, <1>8, <1>9 DEF Leaves
      <3>2. Leaves(i)' <=> FALSE
        BY <1>3, <1>7, <1>8, <1>9, <1>10 DEF Leaves, Owning, Removing
      <3>3. Leaves(i) <=> FALSE
        BY <1>1, <1>3, <1>10 DEF Leaves, Owning, Removing
      <3> QED
        BY <1>3, <1>7, <1>8, <1>9, <3>1, <3>2, <3>3 DEF Counted
    <2> QED
      BY <1>1, <1>6, <2>1 DEF CountInv, TypeOK
  <1>17. NumberInv' /\ nextId' \in 1 .. (MaxCalls + 1)
    <2>1. Unnumbered' = Unnumbered
      BY <1>3, <1>7, <1>8, <1>9 DEF Unnumbered
    <2> QED
      BY <1>1, <1>6, <2>1 DEF NumberInv, TypeOK
  <1>18. /\ hv' \subseteq hv
         /\ \A c \in hv : c \in hv' \/ (Holds(i) /\ ~Holds(i)' /\ c = vdev[i].channel)
         /\ Holds(i) /\ ~Holds(i)' => vdev[i].channel \notin hv'
    BY <1>3, <1>6, <1>12, <1>13
  <1>19. /\ call[p].pc \in Owning => call[p].id = i
         /\ r.pc \in Owning => r.id = i
         /\ r.pc \in Creating <=> call[p].pc \in Creating
         /\ r.pc \in Creating => r.channel = call[p].channel
         /\ d.active <=> vdev[i].active
         /\ Listed(i) => d.channel = vdev[i].channel
    BY <1>3, <1>6, <1>8, <1>9, RegistryAssumption
    DEF Owning, Creating, Removing
  <1>20. \A j \in Ids \ {i} : j >= nextId' <=> j >= nextId
    BY <1>1, <1>2, <1>3, <1>6 DEF Ids, TypeOK
  <1>21. RegistryInv' /\ Table' = [Table EXCEPT ![i] = Table'[i]]
    BY <1>3, <1>4, <1>5, <1>6, <1>10, <1>11, <1>12, <1>13, <1>14, <1>15, <1>16,
       <1>17, <1>18, <1>19, <1>20, DeviceStep
  <1>22. TableStep
    <2>1. Table[i] = Row(i, "leaving") /\ Table'[i] = Row(i, "leaving")'
      BY <1>3, <1>7, <1>9, <1>11, RowNow, RowNext
    <2>2. ~vdev[i].active => vdev[i].active = FALSE
      BY <1>1, FieldTypes
    <2>3. Table'[i] = Table[i]
      BY <1>3, <1>7, <1>9, <2>1, <2>2 DEF Row, BlankRow
    <2>4. Table = [j \in Ids |-> Table[j]]
      BY DEF Table
    <2>5. Table' = Table
      BY <1>21, <2>3, <2>4
    <2> QED
      BY <2>5 DEF TableStep
  <1> QED
    BY <1>21, <1>22

(* memunmap and kfree of a device nobody can reach.                        *)
LEMMA StepFreeVdev ==
  ASSUME RegistryInv, NEW p \in Callers, FreeVdev(p)
  PROVE  RegistryInv' /\ TableStep
  <1>1. /\ TypeOK /\ ListInv /\ OwnerInv /\ HoldInv /\ FileInv /\ CountInv /\ NumberInv
        /\ \A j \in Ids : VdevInv(j)
        /\ \A q \in Callers : CallInv(q)
    BY DEF RegistryInv
  <1>2. PICK i \in Ids : i = call[p].id
    BY <1>1 DEF FreeVdev, CallInv, Owning, Removing
  <1> DEFINE r == Idle
             d == [vdev[i] EXCEPT !.state = "freed"]
  <1>3. /\ call[p].pc = "free" /\ module = "live" /\ i = call[p].id
        /\ call[p].channel \in Channels
        /\ vdev[i].state = "live" /\ vdev[i].channel = call[p].channel
        /\ vdev[i].removing /\ ~vdev[i].misc /\ ~Listed(i) /\ ~vdev[i].active
    BY <1>1, <1>2, FieldTypes
    DEF FreeVdev, CallInv, VdevInv, Owning, Removing, Creating
  <1>4. r \in CallState
    BY <1>1, <1>3, FieldTypes, IdleFields DEF CallState, Creating, Removing
  <1>5. d \in Vdev
    BY <1>1, <1>3, FieldTypes DEF Vdev, NoVdev
  <1>6. /\ call' = [call EXCEPT ![p] = r]
        /\ vdev' = [vdev EXCEPT ![i] = d]
        /\ UNCHANGED <<hv, list, count, nextId, file, calls, stuck, module>>
    BY <1>1, <1>2, <1>3 DEF FreeVdev, Goto, Return, TypeOK
  <1>7. /\ call'[p] = r /\ \A q \in Callers : q # p => call'[q] = call[q]
        /\ vdev'[i] = d /\ \A j \in Ids : j # i => vdev'[j] = vdev[j]
    BY <1>1, <1>3, <1>6 DEF TypeOK
  <1>8. r = Idle /\ r.pc = "idle" /\ r.id = NoId /\ r.channel = NoChannel
    BY <1>1, <1>2, <1>3, FieldTypes, IdleFields DEF CallState
  <1>9. /\ d.state = "freed" /\ d.misc = vdev[i].misc /\ d.active = vdev[i].active
       /\ d.removing = vdev[i].removing /\ d.channel = vdev[i].channel
    BY <1>1, <1>3, FieldTypes DEF Vdev, NoVdev
  <1> HIDE DEF r, d
  <1>10. \A q \in Callers : q # p /\ call[q].pc \in Owning => call[q].id # i
    BY <1>1, <1>3 DEF OwnerInv, CallInv, Owning, Removing
  <1>11. /\ Listed(i)' <=> Listed(i)
         /\ PastHypercall(i) <=> FALSE
         /\ PastHypercall(i)' <=> FALSE
    <2>1. Listed(i)' <=> Listed(i)
      BY <1>6 DEF Listed
    <2>2. PastHypercall(i) <=> FALSE
      BY <1>1, <1>3, <1>10 DEF PastHypercall, Owning, Removing
    <2>3. PastHypercall(i)' <=> FALSE
      BY <1>3, <1>7, <1>8, <1>9, <1>10 DEF PastHypercall, Owning, Removing
    <2> QED
      BY <2>1, <2>2, <2>3
  <1>12. Holds(i) <=> FALSE
    BY <1>3, <1>11 DEF Holds
  <1>13. Holds(i)' <=> FALSE
    BY <1>3, <1>11 DEF Holds
  <1>14. VdevInv(i)'
    <2>1. Unlisted(i)' <=> FALSE
      BY <1>3, <1>7, <1>8, <1>9, <1>10 DEF Unlisted, Owning, Removing
    <2>2. Claimed(i)' <=> FALSE
      BY <1>3, <1>7, <1>8, <1>9, <1>10 DEF Claimed, Owning, Removing
    <2>3. /\ VdevInv(i)
          /\ \A f \in Files : file'[f] = file[f]
          /\ vdev[i].misc \in BOOLEAN /\ vdev[i].active \in BOOLEAN
          /\ vdev[i].removing \in BOOLEAN
      BY <1>1, <1>6, FieldTypes
    <2>4. ~(i >= nextId')
      BY <1>1, <1>2, <1>3, <1>6, <1>9, <2>3, RegistryAssumption
      DEF VdevInv, Ids, TypeOK
    <2> QED
      BY <1>3, <1>7, <1>9, <1>11, <2>1, <2>2, <2>3, <2>4 DEF VdevInv
  <1>15. CallInv(p)'
    <2>1. CallInv(p)
      BY <1>1
    <2>2. module' = module /\ (r.pc \in Creating => call[p].channel \in hv')
      BY <1>3, <1>6, <1>8, <2>1 DEF CallInv, Creating
    <2> QED
      BY <1>2, <1>3, <1>7, <1>8, <1>9, <1>11, <2>1, <2>2
      DEF CallInv, Owning, Creating, Removing
  <1>16. CountInv' /\ count' \in 0 .. MaxVdevs
    <2>1. Counted' = Counted
      <3>1. \A j \in Ids : j # i => (Leaves(j)' <=> Leaves(j))
        BY <1>3, <1>7, <1>8, <1>9 DEF Leaves
      <3>2. Leaves(i)' <=> FALSE
        BY <1>3, <1>7, <1>8, <1>9, <1>10 DEF Leaves, Owning, Removing
      <3>3. Leaves(i) <=> TRUE
        BY <1>1, <1>3, <1>10 DEF Leaves, Owning, Removing
      <3> QED
        BY <1>3, <1>7, <1>8, <1>9, <3>1, <3>2, <3>3 DEF Counted
    <2> QED
      BY <1>1, <1>6, <2>1 DEF CountInv, TypeOK
  <1>17. NumberInv' /\ nextId' \in 1 .. (MaxCalls + 1)
    <2>1. Unnumbered' = Unnumbered
      BY <1>3, <1>7, <1>8, <1>9 DEF Unnumbered
    <2> QED
      BY <1>1, <1>6, <2>1 DEF NumberInv, TypeOK
  <1>18. /\ hv' \subseteq hv
         /\ \A c \in hv : c \in hv' \/ (Holds(i) /\ ~Holds(i)' /\ c = vdev[i].channel)
         /\ Holds(i) /\ ~Holds(i)' => vdev[i].channel \notin hv'
    BY <1>3, <1>6, <1>12, <1>13
  <1>19. /\ call[p].pc \in Owning => call[p].id = i
         /\ r.pc \in Owning => r.id = i
         /\ r.pc \in Creating <=> call[p].pc \in Creating
         /\ r.pc \in Creating => r.channel = call[p].channel
         /\ d.active <=> vdev[i].active
         /\ Listed(i) => d.channel = vdev[i].channel
    BY <1>3, <1>6, <1>8, <1>9, RegistryAssumption
    DEF Owning, Creating, Removing
  <1>20. \A j \in Ids \ {i} : j >= nextId' <=> j >= nextId
    BY <1>1, <1>2, <1>3, <1>6 DEF Ids, TypeOK
  <1>21. RegistryInv' /\ Table' = [Table EXCEPT ![i] = Table'[i]]
    BY <1>3, <1>4, <1>5, <1>6, <1>10, <1>11, <1>12, <1>13, <1>14, <1>15, <1>16,
       <1>17, <1>18, <1>19, <1>20, DeviceStep
  <1>22. TableStep
    <2>1. Table[i] = BlankRow(i, "gone") /\ Table'[i] = BlankRow(i, "gone")'
      BY <1>3, <1>7, <1>9, <1>11, RowNow, RowNext
    <2>2. ~vdev[i].active => vdev[i].active = FALSE
      BY <1>1, FieldTypes
    <2>3. Table'[i] = Table[i]
      BY <1>3, <1>7, <1>9, <2>1, <2>2 DEF Row, BlankRow
    <2>4. Table = [j \in Ids |-> Table[j]]
      BY DEF Table
    <2>5. Table' = Table
      BY <1>21, <2>3, <2>4
    <2> QED
      BY <2>5 DEF TableStep
  <1> QED
    BY <1>21, <1>22

-----------------------------------------------------------------------------
(* The list with one entry more, or one entry less.                        *)
LEMMA ListAppend ==
  ASSUME TypeOK, NEW i \in Ids
  PROVE  LET s == Append(list, i)
         IN  /\ s \in Seq(Ids)
             /\ Len(s) = Len(list) + 1
             /\ Len(list) \in Nat
             /\ \A m \in 1 .. Len(list) : s[m] = list[m]
             /\ s[Len(list) + 1] = i
  BY DEF TypeOK

(* list_del takes one entry out of the list.                               *)
LEMMA ListRemove ==
  ASSUME TypeOK, NEW n \in 1 .. Len(list)
  PROVE  LET s == ListDel(n)
         IN  /\ s \in Seq(Ids)
             /\ Len(s) = Len(list) - 1
             /\ Len(list) \in Nat
             /\ \A m \in 1 .. (Len(list) - 1) :
                  s[m] = IF m < n THEN list[m] ELSE list[m + 1]
  <1> DEFINE s == ListDel(n)
             k == Len(list) - 1
  <1>1. k \in Nat /\ Len(list) \in Nat
    BY DEF TypeOK
  <1>2. \A m \in 1 .. k : s[m] = IF m < n THEN list[m] ELSE list[m + 1]
    BY DEF ListDel
  <1>3. \A m \in 1 .. k : s[m] \in Ids
    BY <1>1, <1>2 DEF TypeOK
  <1>4. s \in [1 .. k -> Ids]
    BY <1>3 DEF ListDel
  <1>5. s \in Seq(Ids) /\ Len(s) = k
    BY <1>1, <1>4
  <1> QED
    BY <1>1, <1>2, <1>5

(* list_add_tail: a creation hands its channel over to the listed device.  *)
LEMMA StepAddToList ==
  ASSUME RegistryInv, NEW p \in Callers, AddToList(p)
  PROVE  RegistryInv' /\ TableStep
  <1>1. /\ TypeOK /\ ListInv /\ OwnerInv /\ HoldInv /\ FileInv /\ ModuleInv
        /\ KnownInv /\ CountInv /\ NumberInv
        /\ \A j \in Ids : VdevInv(j)
        /\ \A q \in Callers : CallInv(q)
    BY DEF RegistryInv
  <1>2. PICK i \in Ids : i = call[p].id
    BY <1>1 DEF AddToList, CallInv, Owning
  <1> DEFINE r == [call[p] EXCEPT !.pc = "copyout"]
  <1>3. /\ call[p].pc = "list" /\ module = "live" /\ call[p].channel \in hv
        /\ vdev[i].state = "live" /\ vdev[i].channel = call[p].channel
        /\ vdev[i].misc /\ ~vdev[i].removing /\ ~Listed(i)
    BY <1>1, <1>2, FieldTypes
    DEF AddToList, CallInv, Owning, Creating, Removing
  <1>4. r \in CallState
    BY <1>1, FieldTypes DEF CallState
  <1>5. /\ call' = [call EXCEPT ![p] = r]
        /\ list' = Append(list, i)
        /\ UNCHANGED <<hv, count, nextId, vdev, file, calls, stuck, module>>
    BY <1>1, <1>2 DEF AddToList, Goto, TypeOK
  <1>6. call'[p] = r /\ \A q \in Callers : q # p => call'[q] = call[q]
    BY <1>1, <1>5 DEF TypeOK
  <1>7. r.pc = "copyout" /\ r.channel = call[p].channel /\ r.id = i
    BY <1>1, <1>2, FieldTypes DEF CallState
  <1> HIDE DEF r
  <1>8. /\ list' \in Seq(Ids) /\ Len(list') = Len(list) + 1 /\ Len(list) \in Nat
        /\ \A m \in 1 .. Len(list) : list'[m] = list[m]
        /\ list'[Len(list) + 1] = i
    BY <1>1, <1>5, ListAppend
  <1>9. TypeOK'
    BY <1>1, <1>4, <1>5, <1>8 DEF TypeOK
  <1>10. \A q \in Callers : q # p /\ call[q].pc \in Owning => call[q].id # i
    BY <1>1, <1>2, <1>3 DEF OwnerInv, Owning
  <1>11. \A j \in Ids : /\ PastHypercall(j)' <=> PastHypercall(j)
                        /\ Claimed(j)' <=> Claimed(j)
                        /\ Leaves(j)' <=> Leaves(j)
    <2> SUFFICES ASSUME NEW j \in Ids
                 PROVE  /\ PastHypercall(j)' <=> PastHypercall(j)
                        /\ Claimed(j)' <=> Claimed(j)
                        /\ Leaves(j)' <=> Leaves(j)
      OBVIOUS
    <2>1. PastHypercall(j)' <=> PastHypercall(j)
      BY <1>3, <1>6, <1>7 DEF PastHypercall
    <2>2. Claimed(j)' <=> Claimed(j)
      BY <1>3, <1>6, <1>7 DEF Claimed, Removing
    <2>3. Leaves(j)' <=> Leaves(j)
      BY <1>3, <1>6, <1>7 DEF Leaves
    <2> QED
      BY <2>1, <2>2, <2>3
  <1>12. \A j \in Ids : j # i => (Unlisted(j)' <=> Unlisted(j))
    BY <1>2, <1>3, <1>6, <1>7 DEF Unlisted
  <1>13. Listed(i)' /\ \A j \in Ids : j # i => (Listed(j)' <=> Listed(j))
    <2>1. Listed(i)'
      BY <1>8 DEF Listed
    <2>2. ASSUME NEW j \in Ids, j # i PROVE Listed(j)' <=> Listed(j)
      <3>1. ASSUME NEW m \in 1 .. Len(list'), list'[m] = j
            PROVE  m \in 1 .. Len(list) /\ list[m] = j
        BY <1>8, <2>2, <3>1
      <3>2. ASSUME NEW m \in 1 .. Len(list), list[m] = j
            PROVE  m \in 1 .. Len(list') /\ list'[m] = j
        BY <1>8, <3>2
      <3> QED
        BY <3>1, <3>2 DEF Listed
    <2> QED
      BY <2>1, <2>2
  <1>14. ~PastHypercall(i)
    BY <1>3, <1>10 DEF PastHypercall, Owning, Removing
  <1>15. Holds(i)' /\ \A j \in Ids : j # i => (Holds(j)' <=> Holds(j))
    BY <1>11, <1>13, <1>14 DEF Holds
  <1>16. call[p].pc \in Creating /\ r.pc \notin Creating
    BY <1>3, <1>7 DEF Creating
  <1>17. ListInv'
    <2> SUFFICES ASSUME NEW m \in 1 .. Len(list'), NEW n \in 1 .. Len(list'), m < n
                 PROVE  /\ list'[m] # list'[n]
                        /\ vdev[list'[m]].channel = vdev[list'[n]].channel =>
                             PastHypercall(list[m])'
      BY <1>5 DEF ListInv
    <2>1. m \in 1 .. Len(list) /\ list'[m] = list[m] /\ list[m] \in Ids
          /\ Listed(list[m])
      BY <1>1, <1>8, FieldTypes DEF Listed
    <2>2. PastHypercall(list[m])' <=> PastHypercall(list'[m])
      <3>1. PICK j \in Ids : j = list'[m]
        BY <2>1
      <3>2. PastHypercall(j)' <=> PastHypercall(j)
        BY <1>11
      <3> QED
        BY <3>1, <3>2
    <2>3. CASE n \in 1 .. Len(list)
      BY <1>1, <1>8, <2>1, <2>2, <2>3 DEF ListInv
    <2>4. CASE n = Len(list) + 1
      <3>1. list'[n] = i /\ list[m] # i
        BY <1>3, <1>8, <2>1, <2>4
      <3>2. vdev[list[m]].channel = vdev[i].channel => PastHypercall(list[m])
        BY <1>1, <1>3, <1>16, <2>1 DEF HoldInv, Holds
      <3> QED
        BY <2>1, <2>2, <3>1, <3>2
    <2> QED
      BY <1>8, <2>3, <2>4
  <1>18. \A j \in Ids : VdevInv(j)'
    <2>1. ASSUME NEW j \in Ids, j # i PROVE VdevInv(j)'
      <3>1. VdevInv(j) /\ \A f \in Files : file'[f] = file[f]
        BY <1>1, <1>5
      <3> QED
        BY <1>5, <1>11, <1>12, <1>13, <2>1, <3>1 DEF VdevInv
    <2>2. VdevInv(i)'
      <3>1. VdevInv(i) /\ \A f \in Files : file'[f] = file[f]
        BY <1>1, <1>5
      <3> QED
        BY <1>3, <1>5, <1>11, <1>13, <3>1 DEF VdevInv
    <2> QED
      BY <2>1, <2>2
  <1>19. \A q \in Callers : CallInv(q)'
    <2>1. CallInv(p)'
      BY <1>1, <1>3, <1>5, <1>6, <1>7 DEF CallInv, Owning, Creating, Removing
    <2>2. ASSUME NEW q \in Callers, q # p PROVE CallInv(q)'
      <3>1. call[q].pc \in Owning =>
              call[q].id \in Ids /\ (Listed(call[q].id)' <=> Listed(call[q].id))
        BY <1>1, <1>6, <1>10, <1>13, <2>2 DEF CallInv
      <3> QED
        BY <1>1, <1>5, <1>6, <2>2, <3>1 DEF CallInv
    <2> QED
      BY <2>1, <2>2
  <1>20. OwnerInv'
    BY <1>1, <1>6, <1>7 DEF OwnerInv, Owning, Removing
  <1>21. HoldInv'
    <2>1. \A q, q2 \in Callers :
            call'[q].pc \in Creating /\ call'[q2].pc \in Creating
              /\ call'[q].channel = call'[q2].channel => q = q2
      BY <1>1, <1>6, <1>16 DEF HoldInv
    <2>2. ASSUME NEW j \in Ids, Holds(j)', j # i
          PROVE  /\ vdev[j].channel \in hv
                 /\ \A q \in Callers : call'[q].pc \in Creating =>
                      call'[q].channel # vdev[j].channel
                 /\ \A k \in Ids : Holds(k)' /\ vdev[k].channel = vdev[j].channel
                                     => k = j
      <3>1. Holds(j)
        BY <1>15, <2>2
      <3>2. vdev[j].channel # vdev[i].channel
        BY <1>1, <1>3, <1>16, <3>1 DEF HoldInv
      <3> QED
        BY <1>1, <1>6, <1>15, <1>16, <3>1, <3>2 DEF HoldInv
    <2>3. /\ vdev[i].channel \in hv
          /\ \A q \in Callers : call'[q].pc \in Creating =>
               call'[q].channel # vdev[i].channel
      BY <1>1, <1>3, <1>6, <1>16 DEF HoldInv
    <2>4. \A k \in Ids : Holds(k)' /\ vdev[k].channel = vdev[i].channel => k = i
      BY <1>1, <1>3, <1>15, <1>16 DEF HoldInv
    <2> QED
      BY <1>5, <2>1, <2>2, <2>3, <2>4 DEF HoldInv
  <1>22. FileInv'
    BY <1>1, <1>5 DEF FileInv
  <1>23. ModuleInv'
    BY <1>1, <1>3, <1>5 DEF ModuleInv
  <1>24. KnownInv'
    <2>1. ASSUME NEW c \in hv \ stuck
          PROVE  \/ \E q \in Callers : call'[q].pc \in Creating /\ call'[q].channel = c
                 \/ \E j \in Ids : Holds(j)' /\ vdev[j].channel = c
      <3>1. CASE \E q \in Callers : call[q].pc \in Creating /\ call[q].channel = c
        BY <1>3, <1>6, <1>15, <3>1
      <3>2. CASE \E j \in Ids : Holds(j) /\ vdev[j].channel = c
        BY <1>15, <3>2
      <3> QED
        BY <1>1, <3>1, <3>2 DEF KnownInv
    <2> QED
      BY <1>5, <2>1 DEF KnownInv
  <1>25. CountInv'
    <2>1. Counted' = Counted
      BY <1>5, <1>11 DEF Counted
    <2> QED
      BY <1>1, <1>5, <2>1 DEF CountInv
  <1>26. NumberInv'
    <2>1. Unnumbered' = Unnumbered
      BY <1>3, <1>6, <1>7 DEF Unnumbered
    <2> QED
      BY <1>1, <1>5, <2>1 DEF NumberInv
  <1>27. TableStep
    <2>1. Table[i] = Row(i, "new") /\ Table'[i] = Row(i, "listed")'
      BY <1>3, <1>5, <1>13, RowNow, RowNext
    <2>2. Table' = [Table EXCEPT ![i] = Table'[i]]
      BY <1>5, <1>11, <1>13, OthersKept DEF RowKept
    <2>3. Devices!List(i)
      BY <1>5, <2>1, <2>2 DEF Devices!List, Devices!Set, Row
    <2> QED
      BY <2>3 DEF TableStep, Devices!DeviceTableNext
  <1> QED
    BY <1>9, <1>17, <1>18, <1>19, <1>20, <1>21, <1>22, <1>23, <1>24, <1>25,
       <1>26, <1>27
    DEF RegistryInv

(* list_del: the device no longer counts, and only its memory is left.     *)
LEMMA StepUnlink ==
  ASSUME RegistryInv, NEW p \in Callers, Unlink(p)
  PROVE  RegistryInv' /\ TableStep
  <1>1. /\ TypeOK /\ ListInv /\ OwnerInv /\ HoldInv /\ FileInv /\ ModuleInv
        /\ KnownInv /\ CountInv /\ NumberInv
        /\ \A j \in Ids : VdevInv(j)
        /\ \A q \in Callers : CallInv(q)
    BY DEF RegistryInv
  <1>2. PICK i \in Ids : i = call[p].id
    BY <1>1 DEF Unlink, CallInv, Owning, Removing
  <1>3. PICK n \in 1 .. Len(list) : list[n] = i /\ list' = ListDel(n)
    BY <1>2 DEF Unlink
  <1> DEFINE r == [call[p] EXCEPT !.pc = "free"]
  <1>4. /\ call[p].pc = "unlink" /\ module = "live" /\ call[p].channel \in Channels
        /\ vdev[i].state = "live" /\ vdev[i].channel = call[p].channel
        /\ ~vdev[i].misc /\ vdev[i].removing /\ Listed(i)
    BY <1>1, <1>2, FieldTypes DEF Unlink, CallInv, Owning, Creating, Removing
  <1>5. r \in CallState
    BY <1>1, FieldTypes DEF CallState, Removing
  <1>6. /\ call' = [call EXCEPT ![p] = r]
        /\ count' = count - 1
        /\ UNCHANGED <<hv, nextId, vdev, file, calls, stuck, module>>
    BY <1>1, <1>2 DEF Unlink, Goto, TypeOK
  <1>7. call'[p] = r /\ \A q \in Callers : q # p => call'[q] = call[q]
    BY <1>1, <1>6 DEF TypeOK
  <1>8. r.pc = "free" /\ r.channel = call[p].channel /\ r.id = i
    BY <1>1, <1>2, FieldTypes DEF CallState
  <1> HIDE DEF r
  <1>9. /\ list' \in Seq(Ids) /\ Len(list') = Len(list) - 1 /\ Len(list) \in Nat
        /\ \A m \in 1 .. (Len(list) - 1) :
             list'[m] = IF m < n THEN list[m] ELSE list[m + 1]
    BY <1>1, <1>3, ListRemove
  <1>10. \A q \in Callers : q # p /\ call[q].pc \in Owning => call[q].id # i
    BY <1>1, <1>2, <1>4 DEF OwnerInv, Owning, Removing
  <1>11. ASSUME NEW j \in Ids
         PROVE  /\ Claimed(j)' <=> Claimed(j)
                /\ j # i => /\ PastHypercall(j)' <=> PastHypercall(j)
                            /\ Leaves(j)' <=> Leaves(j)
                            /\ Unlisted(j)' <=> Unlisted(j)
    <2>1. Claimed(j)' <=> Claimed(j)
      BY <1>2, <1>4, <1>7, <1>8 DEF Claimed, Removing
    <2>2. j # i => (PastHypercall(j)' <=> PastHypercall(j))
      BY <1>2, <1>4, <1>7, <1>8 DEF PastHypercall
    <2>3. j # i => (Leaves(j)' <=> Leaves(j))
      BY <1>4, <1>7, <1>8 DEF Leaves
    <2>4. j # i => (Unlisted(j)' <=> Unlisted(j))
      BY <1>4, <1>7, <1>8 DEF Unlisted
    <2> QED
      BY <2>1, <2>2, <2>3, <2>4
  <1>12. PastHypercall(i) /\ Unlisted(i)' /\ Leaves(i)' /\ ~Leaves(i)
    <2>1. PastHypercall(i)
      BY <1>2, <1>4 DEF PastHypercall
    <2>2. Unlisted(i)' /\ Leaves(i)'
      BY <1>7, <1>8 DEF Unlisted, Leaves
    <2>3. ~Leaves(i)
      BY <1>4, <1>10 DEF Leaves, Owning, Removing
    <2> QED
      BY <2>1, <2>2, <2>3
  <1>13. ~Listed(i)' /\ \A j \in Ids : j # i => (Listed(j)' <=> Listed(j))
    <2>1. ~Listed(i)'
      <3>1. ASSUME NEW m \in 1 .. Len(list') PROVE list'[m] # i
        <4>1. CASE m < n
          BY <1>1, <1>3, <1>9, <4>1 DEF ListInv
        <4>2. CASE m >= n
          <5>1. m + 1 \in 1 .. Len(list) /\ n < m + 1 /\ list'[m] = list[m + 1]
            BY <1>9, <4>2
          <5> QED
            BY <1>1, <1>3, <5>1 DEF ListInv
        <4> QED
          BY <1>9, <4>1, <4>2
      <3> QED
        BY <3>1 DEF Listed
    <2>2. ASSUME NEW j \in Ids, j # i PROVE Listed(j)' <=> Listed(j)
      <3>1. ASSUME NEW m \in 1 .. Len(list'), list'[m] = j
            PROVE  \E k \in 1 .. Len(list) : list[k] = j
        <4>1. CASE m < n
          BY <1>9, <3>1, <4>1
        <4>2. CASE m >= n
          <5>1. m + 1 \in 1 .. Len(list) /\ list[m + 1] = j
            BY <1>9, <3>1, <4>2
          <5> QED
            BY <5>1
        <4> QED
          BY <1>9, <4>1, <4>2
      <3>2. ASSUME NEW m \in 1 .. Len(list), list[m] = j
            PROVE  \E k \in 1 .. Len(list') : list'[k] = j
        <4>1. m # n
          BY <1>3, <2>2, <3>2
        <4>2. CASE m < n
          <5>1. m \in 1 .. Len(list') /\ list'[m] = j
            BY <1>9, <3>2, <4>2
          <5> QED
            BY <5>1
        <4>3. CASE m > n
          <5>1. m - 1 \in 1 .. Len(list') /\ ~(m - 1 < n) /\ (m - 1) + 1 = m
            BY <1>9, <3>2, <4>3
          <5>2. list'[m - 1] = j
            BY <1>9, <3>2, <5>1
          <5> QED
            BY <5>1, <5>2
        <4> QED
          BY <1>9, <4>1, <4>2, <4>3
      <3> QED
        BY <3>1, <3>2 DEF Listed
    <2> QED
      BY <2>1, <2>2
  <1>14. ~Holds(i) /\ ~Holds(i)' /\ \A j \in Ids : j # i => (Holds(j)' <=> Holds(j))
    BY <1>11, <1>12, <1>13 DEF Holds
  <1>15. r.pc \notin Creating /\ call[p].pc \notin Creating
    BY <1>4, <1>8 DEF Creating
  <1>16. \A q \in Callers : call'[q].pc \in Creating <=> call[q].pc \in Creating
    BY <1>7, <1>15
  <1>17. ListInv'
    <2> SUFFICES ASSUME NEW m \in 1 .. Len(list'), NEW k \in 1 .. Len(list'), m < k
                 PROVE  /\ list'[m] # list'[k]
                        /\ vdev[list'[m]].channel = vdev[list'[k]].channel =>
                             PastHypercall(list[m])'
      BY <1>6 DEF ListInv
    <2>1. PICK a \in 1 .. Len(list) :
            list'[m] = list[a] /\ a = IF m < n THEN m ELSE m + 1
      <3>1. (IF m < n THEN m ELSE m + 1) \in 1 .. Len(list)
        BY <1>9
      <3> QED
        BY <1>9, <3>1
    <2>2. PICK b \in 1 .. Len(list) :
            list'[k] = list[b] /\ b = IF k < n THEN k ELSE k + 1
      <3>1. (IF k < n THEN k ELSE k + 1) \in 1 .. Len(list)
        BY <1>9
      <3> QED
        BY <1>9, <3>1
    <2>3. a < b
      BY <1>9, <2>1, <2>2
    <2>4. /\ list[a] # list[b] /\ list[a] \in Ids
          /\ vdev[list[a]].channel = vdev[list[b]].channel => PastHypercall(list[a])
      BY <1>1, <2>3, FieldTypes DEF ListInv
    <2>5. list[a] # i
      <3>1. a # n
        BY <1>9, <2>1
      <3>2. a < n \/ n < a
        BY <1>9, <3>1
      <3> QED
        BY <1>1, <1>3, <3>2 DEF ListInv
    <2>6. PastHypercall(list[m])' <=> PastHypercall(list[a])
      <3>1. PICK j \in Ids : j = list'[m] /\ j = list[a]
        BY <2>1, <2>4
      <3>2. PastHypercall(j)' <=> PastHypercall(j)
        BY <1>11, <2>5, <3>1
      <3> QED
        BY <3>1, <3>2
    <2> QED
      BY <2>1, <2>2, <2>4, <2>6
  <1>18. \A j \in Ids : VdevInv(j)'
    <2>1. ASSUME NEW j \in Ids, j # i PROVE VdevInv(j)'
      <3>1. VdevInv(j) /\ \A f \in Files : file'[f] = file[f]
        BY <1>1, <1>6
      <3> QED
        BY <1>6, <1>11, <1>13, <2>1, <3>1 DEF VdevInv
    <2>2. VdevInv(i)'
      <3>1. VdevInv(i) /\ \A f \in Files : file'[f] = file[f]
        BY <1>1, <1>6
      <3> QED
        BY <1>4, <1>6, <1>11, <1>12, <1>13, <3>1 DEF VdevInv
    <2> QED
      BY <2>1, <2>2
  <1>19. \A q \in Callers : CallInv(q)'
    <2>1. CallInv(p)'
      BY <1>4, <1>6, <1>7, <1>8, <1>13 DEF CallInv, Owning, Creating, Removing
    <2>2. ASSUME NEW q \in Callers, q # p PROVE CallInv(q)'
      <3>1. call[q].pc \in Owning =>
              call[q].id \in Ids /\ (Listed(call[q].id)' <=> Listed(call[q].id))
        BY <1>1, <1>7, <1>10, <1>13, <2>2 DEF CallInv
      <3> QED
        BY <1>1, <1>6, <1>7, <2>2, <3>1 DEF CallInv
    <2> QED
      BY <2>1, <2>2
  <1>20. OwnerInv'
    BY <1>1, <1>7, <1>8, <1>10 DEF OwnerInv, Owning, Removing
  <1>21. HoldInv'
    <2>1. \A q \in Callers : call'[q].pc \in Creating => call'[q] = call[q]
      BY <1>7, <1>15
    <2>2. \A j \in Ids : Holds(j)' => Holds(j)
      BY <1>14
    <2> QED
      BY <1>1, <1>6, <1>16, <2>1, <2>2 DEF HoldInv
  <1>22. FileInv'
    BY <1>1, <1>6 DEF FileInv
  <1>23. ModuleInv'
    BY <1>1, <1>4, <1>6 DEF ModuleInv
  <1>24. KnownInv'
    <2>1. ASSUME NEW c \in hv \ stuck
          PROVE  \/ \E q \in Callers : call'[q].pc \in Creating /\ call'[q].channel = c
                 \/ \E j \in Ids : Holds(j)' /\ vdev[j].channel = c
      <3>1. CASE \E q \in Callers : call[q].pc \in Creating /\ call[q].channel = c
        BY <1>7, <1>15, <3>1
      <3>2. CASE \E j \in Ids : Holds(j) /\ vdev[j].channel = c
        BY <1>14, <3>2
      <3> QED
        BY <1>1, <3>1, <3>2 DEF KnownInv
    <2> QED
      BY <1>6, <2>1 DEF KnownInv
  <1>25. CountInv' /\ count' \in 0 .. MaxVdevs
    <2>1. Counted' = Counted \ {i} /\ i \in Counted
      BY <1>4, <1>6, <1>11, <1>12 DEF Counted
    <2>2. /\ Cardinality(Counted \ {i}) = Cardinality(Counted) - 1
          /\ Cardinality(Counted) \in Nat \ {0}
      BY <2>1, OneLess
    <2>3. count = Cardinality(Counted) /\ count \in 0 .. MaxVdevs
      BY <1>1, <1>4 DEF CountInv, TypeOK
    <2>4. count' \in 0 .. MaxVdevs
      BY <1>6, <2>2, <2>3, RegistryAssumption
    <2> QED
      BY <1>6, <2>1, <2>2, <2>3, <2>4 DEF CountInv
  <1>26. TypeOK'
    BY <1>1, <1>5, <1>6, <1>9, <1>25 DEF TypeOK
  <1>27. NumberInv'
    <2>1. Unnumbered' = Unnumbered
      BY <1>4, <1>7, <1>8 DEF Unnumbered
    <2> QED
      BY <1>1, <1>6, <2>1 DEF NumberInv
  <1>28. TableStep
    <2>1. Table[i] = Row(i, "leaving") /\ Table'[i] = BlankRow(i, "gone")'
      BY <1>4, <1>6, <1>12, <1>13, RowNow, RowNext
    <2>2. Table' = [Table EXCEPT ![i] = Table'[i]]
      BY <1>6, <1>11, <1>13, OthersKept DEF RowKept
    <2>3. vdev'[i].active = FALSE
      BY <1>1, <1>4, <1>6, FieldTypes DEF VdevInv
    <2>4. Table'[i] = Devices!GoneDevice
      BY <2>1, <2>3, Zenon DEF BlankRow, Devices!GoneDevice
    <2>5. Table[i].st = "leaving"
      BY <2>1 DEF Row
    <2>6. Devices!Drop(i)
      BY <2>2, <2>4, <2>5 DEF Devices!Drop
    <2> QED
      BY <2>6 DEF TableStep, Devices!DeviceTableNext
  <1> QED
    BY <1>17, <1>18, <1>19, <1>20, <1>21, <1>22, <1>23, <1>24, <1>25, <1>26,
       <1>27, <1>28
    DEF RegistryInv

-----------------------------------------------------------------------------
(* Opening and closing a device touch its active flag and the file only.   *)
LEMMA FileStep ==
  ASSUME RegistryInv, TypeOK', FileInv',
         UNCHANGED <<hv, list, count, nextId, call, calls, stuck, module>>,
         \A j \in Ids :
           /\ vdev'[j].state = vdev[j].state
           /\ vdev'[j].misc = vdev[j].misc
           /\ vdev'[j].removing = vdev[j].removing
           /\ vdev'[j].channel = vdev[j].channel
           /\ vdev'[j].active => /\ vdev[j].misc /\ ~vdev[j].removing
                                 /\ \E f \in Files : file'[f] = j
  PROVE  RegistryInv'
  <1>1. /\ TypeOK /\ ListInv /\ OwnerInv /\ HoldInv /\ ModuleInv
        /\ KnownInv /\ CountInv /\ NumberInv
        /\ \A j \in Ids : VdevInv(j)
        /\ \A q \in Callers : CallInv(q)
    BY DEF RegistryInv
  <1>2. \A j \in Ids : /\ Unlisted(j)' <=> Unlisted(j)
                       /\ Claimed(j)' <=> Claimed(j)
                       /\ Leaves(j)' <=> Leaves(j)
                       /\ PastHypercall(j)' <=> PastHypercall(j)
                       /\ Listed(j)' <=> Listed(j)
    BY DEF Unlisted, Claimed, Leaves, PastHypercall, Listed
  <1>3. \A j \in Ids : Holds(j)' <=> Holds(j)
    BY <1>2 DEF Holds
  <1>4. ListInv'
    BY <1>1, <1>2, FieldTypes DEF ListInv
  <1>5. \A j \in Ids : VdevInv(j)'
    BY <1>1, <1>2 DEF VdevInv
  <1>6. \A q \in Callers : CallInv(q)'
    BY <1>1, <1>2 DEF CallInv
  <1>7. OwnerInv' /\ ModuleInv'
    BY <1>1 DEF OwnerInv, ModuleInv
  <1>8. HoldInv'
    BY <1>1, <1>3 DEF HoldInv
  <1>9. KnownInv'
    BY <1>1, <1>3 DEF KnownInv
  <1>10. CountInv'
    <2>1. Counted' = Counted
      BY <1>2 DEF Counted
    <2> QED
      BY <1>1, <2>1 DEF CountInv
  <1>11. NumberInv'
    BY <1>1 DEF NumberInv, Unnumbered
  <1> QED
    BY <1>4, <1>5, <1>6, <1>7, <1>8, <1>9, <1>10, <1>11 DEF RegistryInv

(* axivc_publisher_open.                                                   *)
LEMMA StepOpen ==
  ASSUME RegistryInv, NEW f \in Files, NEW i \in Ids, Open(f, i)
  PROVE  RegistryInv' /\ TableStep
  <1> DEFINE d == [vdev[i] EXCEPT !.active = TRUE]
  <1>1. TypeOK /\ FileInv /\ \A j \in Ids : VdevInv(j)
    BY DEF RegistryInv
  <1>2. /\ module = "live" /\ file[f] = NoId
        /\ vdev[i].misc /\ ~vdev[i].active /\ ~vdev[i].removing
        /\ UNCHANGED <<hv, list, count, nextId, call, calls, stuck, module>>
        /\ vdev' = [vdev EXCEPT ![i] = d]
        /\ file' = [file EXCEPT ![f] = i]
    BY DEF Open
  <1>3. d \in Vdev
    BY <1>1, FieldTypes DEF Vdev
  <1>4. /\ d.state = vdev[i].state /\ d.misc = vdev[i].misc /\ d.active = TRUE
        /\ d.removing = vdev[i].removing /\ d.channel = vdev[i].channel
    BY <1>1, FieldTypes DEF Vdev
  <1> HIDE DEF d
  <1>5. TypeOK'
    BY <1>1, <1>2, <1>3 DEF TypeOK
  <1>6. /\ vdev'[i] = d /\ \A j \in Ids : j # i => vdev'[j] = vdev[j]
        /\ file'[f] = i /\ \A g \in Files : g # f => file'[g] = file[g]
    BY <1>1, <1>2 DEF TypeOK
  <1>7. \A g \in Files : file[g] # i
    BY <1>1, <1>2, FieldTypes DEF FileInv
  <1>8. FileInv'
    BY <1>1, <1>2, <1>4, <1>6, <1>7, FieldTypes DEF FileInv
  <1>9. \A j \in Ids :
          /\ vdev'[j].state = vdev[j].state
          /\ vdev'[j].misc = vdev[j].misc
          /\ vdev'[j].removing = vdev[j].removing
          /\ vdev'[j].channel = vdev[j].channel
    BY <1>4, <1>6
  <1>10. ASSUME NEW j \in Ids, vdev'[j].active
         PROVE  /\ vdev[j].misc /\ ~vdev[j].removing
                /\ \E g \in Files : file'[g] = j
    <2>1. CASE j = i
      BY <1>2, <1>6, <2>1
    <2>2. CASE j # i
      <3>1. vdev[j].active
        BY <1>6, <1>10, <2>2
      <3>2. PICK g \in Files : file[g] = j
        BY <1>1, <3>1 DEF VdevInv
      <3>3. file'[g] = j
        BY <1>1, <1>2, <1>6, <3>2, FieldTypes
      <3> QED
        BY <1>1, <3>1, <3>3 DEF VdevInv
    <2> QED
      BY <2>1, <2>2
  <1>11. RegistryInv'
    BY <1>2, <1>5, <1>8, <1>9, <1>10, FileStep
  <1>12. TableStep
    <2> DEFINE s == IF Listed(i) THEN "listed" ELSE "new"
    <2>1. (Listed(i)' <=> Listed(i)) /\ vdev[i].state = "live"
      BY <1>1, <1>2, FieldTypes DEF Listed, VdevInv
    <2>2. Table[i] = Row(i, s)
      BY <1>2, <2>1, RowNow
    <2>3. Table'[i] = [st |-> s, ch |-> vdev[i].channel, active |-> TRUE]
      <3>1. Table'[i] = [st |-> s, ch |-> vdev'[i].channel, active |-> vdev'[i].active]
        BY <1>2, <1>4, <1>6, <2>1, RowNext DEF Row
      <3>2. vdev'[i].active = TRUE /\ vdev'[i].channel = vdev[i].channel
        BY <1>2, <1>4, <1>6, <2>1
      <3> QED
        BY <3>1, <3>2, Zenon
    <2>4. Table' = [Table EXCEPT ![i] = Table'[i]]
      BY <1>2, <1>6, OthersKept DEF RowKept, Listed, PastHypercall
    <2>5. s \in {"new", "listed"}
      OBVIOUS
    <2> HIDE DEF s
    <2>6. Table[i].st = s /\ ~Table[i].active
      BY <1>2, <2>2 DEF Row
    <2>7. Table'[i] = [Table[i] EXCEPT !.active = TRUE]
      <3>1. PICK a : a = vdev[i].active
        OBVIOUS
      <3>2. PICK b : b = TRUE
        OBVIOUS
      <3>3. Table[i] = [st |-> s, ch |-> vdev[i].channel, active |-> a]
        BY <2>2, <3>1, Zenon DEF Row
      <3>4. [Table[i] EXCEPT !.active = b] = [st |-> s, ch |-> vdev[i].channel, active |-> b]
        BY <3>3
      <3> QED
        BY <2>3, <3>2, <3>4, Zenon
    <2>8. Devices!OpenDevice(i)
      BY <2>4, <2>5, <2>6, <2>7 DEF Devices!OpenDevice, Devices!Openable
    <2> QED
      BY <2>8 DEF TableStep, Devices!DeviceTableNext
  <1> QED
    BY <1>11, <1>12

(* axivc_publisher_release.                                                *)
LEMMA StepRelease ==
  ASSUME RegistryInv, NEW f \in Files, Release(f)
  PROVE  RegistryInv' /\ TableStep
  <1>1. TypeOK /\ FileInv /\ \A j \in Ids : VdevInv(j)
    BY DEF RegistryInv
  <1>2. PICK i \in Ids : i = file[f]
    BY <1>1, FieldTypes DEF Release
  <1> DEFINE d == [vdev[i] EXCEPT !.active = FALSE]
  <1>3. /\ UNCHANGED <<hv, list, count, nextId, call, calls, stuck, module>>
        /\ vdev' = [vdev EXCEPT ![i] = d]
        /\ file' = [file EXCEPT ![f] = NoId]
    BY <1>2 DEF Release
  <1>4. d \in Vdev
    BY <1>1, FieldTypes DEF Vdev
  <1>5. /\ d.state = vdev[i].state /\ d.misc = vdev[i].misc /\ d.active = FALSE
        /\ d.removing = vdev[i].removing /\ d.channel = vdev[i].channel
    BY <1>1, FieldTypes DEF Vdev
  <1> HIDE DEF d
  <1>6. TypeOK'
    BY <1>1, <1>3, <1>4 DEF TypeOK
  <1>7. /\ vdev'[i] = d /\ \A j \in Ids : j # i => vdev'[j] = vdev[j]
        /\ file'[f] = NoId /\ \A g \in Files : g # f => file'[g] = file[g]
    BY <1>1, <1>3 DEF TypeOK
  <1>8. \A g \in Files : g # f => file[g] # i
    BY <1>1, <1>2, FieldTypes DEF FileInv
  <1>9. FileInv'
    BY <1>1, <1>3, <1>7, <1>8, FieldTypes DEF FileInv
  <1>10. \A j \in Ids :
           /\ vdev'[j].state = vdev[j].state
           /\ vdev'[j].misc = vdev[j].misc
           /\ vdev'[j].removing = vdev[j].removing
           /\ vdev'[j].channel = vdev[j].channel
    BY <1>5, <1>7
  <1>11. ASSUME NEW j \in Ids, vdev'[j].active
         PROVE  /\ vdev[j].misc /\ ~vdev[j].removing
                /\ \E g \in Files : file'[g] = j
    <2>1. j # i /\ vdev[j].active
      BY <1>5, <1>7, <1>11
    <2>2. PICK g \in Files : file[g] = j
      BY <1>1, <2>1 DEF VdevInv
    <2>3. file'[g] = j
      BY <1>2, <1>7, <2>1, <2>2
    <2> QED
      BY <1>1, <2>1, <2>3 DEF VdevInv
  <1>12. RegistryInv'
    BY <1>3, <1>6, <1>9, <1>10, <1>11, FileStep
  <1>13. TableStep
    <2> DEFINE s == IF Listed(i) THEN "listed" ELSE "new"
    <2>1. /\ Listed(i)' <=> Listed(i)
          /\ vdev[i].active /\ ~vdev[i].removing /\ vdev[i].misc /\ vdev[i].state = "live"
      BY <1>1, <1>2, <1>3, FieldTypes DEF Listed, VdevInv, FileInv
    <2>2. Table[i] = Row(i, s)
      BY <2>1, RowNow
    <2>3. Table'[i] = [st |-> s, ch |-> vdev[i].channel, active |-> FALSE]
      <3>1. Table'[i] = [st |-> s, ch |-> vdev'[i].channel, active |-> vdev'[i].active]
        BY <1>5, <1>7, <2>1, RowNext DEF Row
      <3>2. vdev'[i].active = FALSE /\ vdev'[i].channel = vdev[i].channel
        BY <1>5, <1>7, <2>1
      <3> QED
        BY <3>1, <3>2, Zenon
    <2>4. Table' = [Table EXCEPT ![i] = Table'[i]]
      BY <1>3, <1>7, OthersKept DEF RowKept, Listed, PastHypercall
    <2> HIDE DEF s
    <2>5. Table[i].active
      BY <2>1, <2>2 DEF Row
    <2>6. Table'[i] = [Table[i] EXCEPT !.active = FALSE]
      <3>1. PICK a : a = vdev[i].active
        OBVIOUS
      <3>2. PICK b : b = FALSE
        OBVIOUS
      <3>3. Table[i] = [st |-> s, ch |-> vdev[i].channel, active |-> a]
        BY <2>2, <3>1, Zenon DEF Row
      <3>4. [Table[i] EXCEPT !.active = b] = [st |-> s, ch |-> vdev[i].channel, active |-> b]
        BY <3>3
      <3> QED
        BY <2>3, <3>2, <3>4, Zenon
    <2>7. Devices!CloseDevice(i)
      BY <2>4, <2>5, <2>6 DEF Devices!CloseDevice
    <2> QED
      BY <2>7 DEF TableStep, Devices!DeviceTableNext
  <1> QED
    BY <1>12, <1>13

-----------------------------------------------------------------------------
(* Unloading.  No call is in progress and no file is open.                 *)
LEMMA Quiet ==
  ASSUME RegistryInv, \A q \in Callers : call[q].pc = "idle"
  PROVE  \A j \in Ids : /\ ~Unlisted(j) /\ ~Claimed(j) /\ ~Leaves(j)
                        /\ ~PastHypercall(j)
                        /\ Holds(j) <=> Listed(j)
  <1>1. ASSUME NEW j \in Ids
        PROVE  ~Unlisted(j) /\ ~Claimed(j) /\ ~Leaves(j) /\ ~PastHypercall(j)
    BY DEF Unlisted, Claimed, Leaves, PastHypercall, Removing
  <1> QED
    BY <1>1 DEF Holds

(* uninit_ivc_devices starts.                                              *)
LEMMA StepUnload ==
  ASSUME RegistryInv, Unload
  PROVE  RegistryInv' /\ TableStep
  <1>1. /\ TypeOK /\ ListInv /\ OwnerInv /\ HoldInv /\ FileInv /\ ModuleInv
        /\ KnownInv /\ CountInv /\ NumberInv
        /\ \A j \in Ids : VdevInv(j)
        /\ \A q \in Callers : CallInv(q)
    BY DEF RegistryInv
  <1>2. /\ \A q \in Callers : call[q].pc = "idle"
        /\ \A f \in Files : file[f] = NoId
        /\ module' = "going"
        /\ UNCHANGED <<hv, list, count, nextId, vdev, call, file, calls, stuck>>
    BY DEF Unload
  <1>3. \A j \in Ids : /\ Unlisted(j)' <=> Unlisted(j)
                       /\ Claimed(j)' <=> Claimed(j)
                       /\ PastHypercall(j)' <=> PastHypercall(j)
                       /\ Listed(j)' <=> Listed(j)
    BY <1>2 DEF Unlisted, Claimed, PastHypercall, Listed
  <1>4. \A j \in Ids : Holds(j)' <=> Holds(j)
    BY <1>3 DEF Holds
  <1>5. TypeOK'
    BY <1>1, <1>2 DEF TypeOK
  <1>6. ListInv'
    BY <1>1, <1>2, <1>3, FieldTypes DEF ListInv
  <1>7. \A j \in Ids : VdevInv(j)'
    BY <1>1, <1>2, <1>3 DEF VdevInv
  <1>8. \A q \in Callers : CallInv(q)'
    BY <1>1, <1>2 DEF CallInv, Owning, Creating, Removing
  <1>9. OwnerInv' /\ FileInv' /\ ModuleInv'
    BY <1>1, <1>2 DEF OwnerInv, FileInv, ModuleInv
  <1>10. HoldInv'
    BY <1>1, <1>2, <1>4 DEF HoldInv
  <1>11. KnownInv'
    BY <1>1, <1>2, <1>4 DEF KnownInv
  <1>12. CountInv' /\ NumberInv'
    BY <1>1, <1>2 DEF CountInv, NumberInv, Unnumbered
  <1>13. TableStep
    BY <1>2, <1>3, AllKept DEF RowKept, TableStep
  <1> QED
    BY <1>5, <1>6, <1>7, <1>8, <1>9, <1>10, <1>11, <1>12, <1>13 DEF RegistryInv

(* uninit_ivc_devices is done with an empty list.                          *)
LEMMA StepUnloaded ==
  ASSUME RegistryInv, Unloaded
  PROVE  RegistryInv' /\ TableStep
  <1>1. /\ TypeOK /\ ListInv /\ OwnerInv /\ HoldInv /\ FileInv /\ ModuleInv
        /\ KnownInv /\ CountInv /\ NumberInv
        /\ \A j \in Ids : VdevInv(j)
        /\ \A q \in Callers : CallInv(q)
    BY DEF RegistryInv
  <1>2. /\ module = "going" /\ list = <<>>
        /\ module' = "gone"
        /\ UNCHANGED <<hv, list, count, nextId, vdev, call, file, calls, stuck>>
    BY DEF Unloaded
  <1>3. \A j \in Ids : /\ Unlisted(j)' <=> Unlisted(j)
                       /\ Claimed(j)' <=> Claimed(j)
                       /\ PastHypercall(j)' <=> PastHypercall(j)
                       /\ Listed(j)' <=> Listed(j)
    BY <1>2 DEF Unlisted, Claimed, PastHypercall, Listed
  <1>4. \A j \in Ids : Holds(j)' <=> Holds(j)
    BY <1>3 DEF Holds
  <1>5. TypeOK'
    BY <1>1, <1>2 DEF TypeOK
  <1>6. ListInv'
    BY <1>1, <1>2, <1>3, FieldTypes DEF ListInv
  <1>7. \A j \in Ids : VdevInv(j)'
    BY <1>1, <1>2, <1>3 DEF VdevInv
  <1>8. \A q \in Callers : CallInv(q)'
    BY <1>1, <1>2 DEF CallInv, ModuleInv, Owning, Creating, Removing
  <1>9. OwnerInv' /\ FileInv' /\ ModuleInv'
    BY <1>1, <1>2 DEF OwnerInv, FileInv, ModuleInv
  <1>10. HoldInv'
    BY <1>1, <1>2, <1>4 DEF HoldInv
  <1>11. KnownInv'
    BY <1>1, <1>2, <1>4 DEF KnownInv
  <1>12. CountInv' /\ NumberInv'
    BY <1>1, <1>2 DEF CountInv, NumberInv, Unnumbered
  <1>13. TableStep
    BY <1>2, <1>3, AllKept DEF RowKept, TableStep
  <1> QED
    BY <1>5, <1>6, <1>7, <1>8, <1>9, <1>10, <1>11, <1>12, <1>13 DEF RegistryInv

(* One round of uninit_ivc_devices takes the head of the list away.        *)
LEMMA StepUninit ==
  ASSUME RegistryInv, NEW ok \in BOOLEAN, Uninit(ok)
  PROVE  RegistryInv' /\ TableStep
  <1>1. /\ TypeOK /\ ListInv /\ OwnerInv /\ HoldInv /\ FileInv /\ ModuleInv
        /\ KnownInv /\ NumberInv
        /\ \A j \in Ids : VdevInv(j)
        /\ \A q \in Callers : CallInv(q)
    BY DEF RegistryInv
  <1>2. module = "going" /\ list # <<>> /\ \A q \in Callers : call[q].pc = "idle"
    BY <1>1 DEF Uninit, ModuleInv
  <1>3. /\ Len(list) \in Nat \ {0} /\ Head(list) = list[1]
        /\ Tail(list) \in Seq(Ids) /\ Len(Tail(list)) = Len(list) - 1
        /\ \A m \in 1 .. (Len(list) - 1) : Tail(list)[m] = list[m + 1]
    BY <1>1, <1>2 DEF TypeOK
  <1>4. PICK i \in Ids : i = list[1]
    BY <1>1, <1>3, FieldTypes
  <1> DEFINE d == [vdev[i] EXCEPT !.state = "freed", !.misc = FALSE]
  <1>5. /\ vdev' = [vdev EXCEPT ![i] = d]
        /\ list' = Tail(list)
        /\ UNCHANGED <<count, nextId, call, file, calls, module>>
        /\ \/ hv' = hv \ {vdev[i].channel} /\ stuck' = stuck
           \/ hv' = hv /\ stuck' = stuck \cup {vdev[i].channel}
    BY <1>1, <1>3, <1>4 DEF Uninit, TypeOK
  <1>6. d \in Vdev
    BY <1>1, FieldTypes DEF Vdev
  <1>7. /\ d.state = "freed" /\ ~d.misc /\ d.active = vdev[i].active
        /\ d.removing = vdev[i].removing /\ d.channel = vdev[i].channel
    BY <1>1, FieldTypes DEF Vdev
  <1> HIDE DEF d
  <1>8. vdev'[i] = d /\ \A j \in Ids : j # i => vdev'[j] = vdev[j]
    BY <1>1, <1>5 DEF TypeOK
  <1>9. /\ list' \in Seq(Ids) /\ Len(list') = Len(list) - 1
        /\ \A m \in 1 .. (Len(list) - 1) : list'[m] = list[m + 1]
    BY <1>3, <1>5
  <1>10. Listed(i) /\ ~Listed(i)'
    <2>1. Listed(i)
      BY <1>3, <1>4 DEF Listed
    <2>2. ASSUME NEW m \in 1 .. Len(list') PROVE list'[m] # i
      <3>1. m + 1 \in 1 .. Len(list) /\ 1 \in 1 .. Len(list) /\ 1 < m + 1
            /\ list'[m] = list[m + 1]
        BY <1>3, <1>9
      <3> QED
        BY <1>1, <1>4, <3>1 DEF ListInv
    <2> QED
      BY <2>1, <2>2 DEF Listed
  <1>11. ASSUME NEW j \in Ids, j # i PROVE Listed(j)' <=> Listed(j)
    <2>1. ASSUME NEW m \in 1 .. Len(list'), list'[m] = j
          PROVE  \E k \in 1 .. Len(list) : list[k] = j
      <3>1. m + 1 \in 1 .. Len(list) /\ list[m + 1] = j
        BY <1>3, <1>9, <2>1
      <3> QED
        BY <3>1
    <2>2. ASSUME NEW m \in 1 .. Len(list), list[m] = j
          PROVE  \E k \in 1 .. Len(list') : list'[k] = j
      <3>1. m - 1 \in 1 .. Len(list') /\ (m - 1) + 1 = m
        BY <1>3, <1>4, <1>9, <1>11, <2>2
      <3>2. list'[m - 1] = j
        BY <1>9, <2>2, <3>1
      <3> QED
        BY <3>1, <3>2
    <2> QED
      BY <2>1, <2>2 DEF Listed
  <1>12. \A j \in Ids : /\ ~Unlisted(j) /\ ~Claimed(j) /\ ~PastHypercall(j)
                        /\ Holds(j) <=> Listed(j)
    BY <1>2, Quiet
  <1>13. \A j \in Ids : ~Unlisted(j)' /\ ~Claimed(j)' /\ ~PastHypercall(j)'
    BY <1>5, <1>12 DEF Unlisted, Claimed, PastHypercall
  <1>14. ~Holds(i)' /\ \A j \in Ids : j # i => (Holds(j)' <=> Holds(j))
    BY <1>10, <1>11, <1>12, <1>13 DEF Holds
  <1>15. ~vdev[i].active /\ vdev[i].channel \in Channels /\ i < nextId
    <2>1. ~vdev[i].active
      BY <1>1, <1>2, FieldTypes DEF VdevInv, FileInv
    <2>2. vdev[i].state = "live"
      BY <1>1, <1>10, FieldTypes DEF VdevInv
    <2>3. ~(i >= nextId) /\ vdev[i].channel \in Channels
      BY <1>1, <2>2 DEF VdevInv
    <2> QED
      BY <1>1, <2>1, <2>3 DEF TypeOK, Ids
  <1>16. TypeOK'
    BY <1>1, <1>5, <1>6, <1>9, <1>15 DEF TypeOK
  <1>17. ListInv'
    <2> SUFFICES ASSUME NEW m \in 1 .. Len(list'), NEW n \in 1 .. Len(list'), m < n
                 PROVE  /\ list'[m] # list'[n]
                        /\ vdev'[list'[m]].channel # vdev'[list'[n]].channel
      BY DEF ListInv
    <2>1. /\ m + 1 \in 1 .. Len(list) /\ n + 1 \in 1 .. Len(list) /\ m + 1 < n + 1
          /\ list'[m] = list[m + 1] /\ list'[n] = list[n + 1]
      BY <1>3, <1>9
    <2>2. /\ list[m + 1] # list[n + 1]
          /\ vdev[list[m + 1]].channel = vdev[list[n + 1]].channel =>
               PastHypercall(list[m + 1])
      BY <1>1, <2>1 DEF ListInv
    <2>3. list[m + 1] \in Ids /\ list[n + 1] \in Ids
      BY <1>1, <2>1, FieldTypes
    <2>4. \A j \in Ids : vdev'[j].channel = vdev[j].channel
      BY <1>7, <1>8
    <2> QED
      BY <1>12, <2>1, <2>2, <2>3, <2>4
  <1>18. \A j \in Ids : VdevInv(j)'
    <2>1. ASSUME NEW j \in Ids, j # i PROVE VdevInv(j)'
      <3>1. VdevInv(j) /\ nextId' = nextId /\ \A f \in Files : file'[f] = file[f]
        BY <1>1, <1>5
      <3> QED
        BY <1>8, <1>11, <1>12, <1>13, <2>1, <3>1 DEF VdevInv
    <2>2. VdevInv(i)'
      <3>1. ~(i >= nextId')
        BY <1>1, <1>5, <1>15 DEF TypeOK, Ids
      <3> QED
        BY <1>7, <1>8, <1>10, <1>15, <3>1 DEF VdevInv
    <2> QED
      BY <2>1, <2>2
  <1>19. \A q \in Callers : CallInv(q)'
    BY <1>1, <1>2, <1>5 DEF CallInv, Owning, Creating, Removing
  <1>20. OwnerInv'
    BY <1>1, <1>5 DEF OwnerInv
  <1>21. ASSUME NEW j \in Ids, Holds(j)'
         PROVE  /\ j # i /\ Holds(j) /\ vdev'[j] = vdev[j]
                /\ vdev[j].channel \in hv'
    <2>1. j # i /\ Holds(j) /\ vdev'[j] = vdev[j]
      BY <1>8, <1>14, <1>21
    <2>2. Holds(i)
      BY <1>10, <1>12
    <2>3. vdev[j].channel # vdev[i].channel /\ vdev[j].channel \in hv
      BY <1>1, <2>1, <2>2 DEF HoldInv
    <2> QED
      BY <1>5, <2>1, <2>3
  <1>22. HoldInv'
    <2>1. \A q \in Callers : call'[q].pc \notin Creating
      BY <1>2, <1>5 DEF Creating
    <2> QED
      BY <1>1, <1>21, <2>1 DEF HoldInv
  <1>23. FileInv'
    <2>1. \A f \in Files : file[f] = NoId
      BY <1>1, <1>2 DEF FileInv
    <2> QED
      BY <1>5, <2>1 DEF FileInv
  <1>24. ModuleInv'
    BY <1>1, <1>2, <1>5 DEF ModuleInv
  <1>25. KnownInv'
    <2>1. ASSUME NEW c \in hv' \ stuck'
          PROVE  \E j \in Ids : Holds(j)' /\ vdev'[j].channel = c
      <3>1. c \in hv \ stuck /\ c # vdev[i].channel
        BY <1>5, <2>1
      <3>2. \A q \in Callers : call[q].pc \notin Creating
        BY <1>2 DEF Creating
      <3>3. PICK j \in Ids : Holds(j) /\ vdev[j].channel = c
        BY <1>1, <3>1, <3>2 DEF KnownInv
      <3> QED
        BY <1>8, <1>14, <3>1, <3>3
    <2> QED
      BY <2>1 DEF KnownInv
  <1>26. CountInv' /\ NumberInv'
    BY <1>1, <1>2, <1>5 DEF CountInv, NumberInv, Unnumbered
  <1>27. TableStep
    <2>1. /\ vdev[i].state = "live" /\ ~vdev[i].removing /\ vdev[i].misc
          /\ vdev[i].active = FALSE
      BY <1>1, <1>10, <1>12, <1>15, FieldTypes DEF VdevInv
    <2>2. Table[i] = Row(i, "listed") /\ Table'[i] = BlankRow(i, "gone")'
      BY <1>7, <1>8, <1>10, <2>1, RowNow, RowNext
    <2>3. Table' = [Table EXCEPT ![i] = Table'[i]]
      BY <1>8, <1>11, <1>12, <1>13, OthersKept DEF RowKept
    <2>4. vdev'[i].active = FALSE
      BY <1>7, <1>8, <2>1
    <2>5. Table'[i] = Devices!GoneDevice
      BY <2>2, <2>4, Zenon DEF BlankRow, Devices!GoneDevice
    <2>6. Table[i].st = "listed" /\ ~Table[i].active
      BY <2>1, <2>2 DEF Row
    <2>7. Devices!Discard(i)
      BY <2>3, <2>5, <2>6 DEF Devices!Discard
    <2> QED
      BY <2>7 DEF TableStep, Devices!DeviceTableNext
  <1> QED
    BY <1>16, <1>17, <1>18, <1>19, <1>20, <1>22, <1>23, <1>24, <1>25, <1>26,
       <1>27
    DEF RegistryInv

-----------------------------------------------------------------------------
(* The invariant holds when the module is loaded ...                       *)
LEMMA RegistryInit ==
  ASSUME Init
  PROVE  RegistryInv
  <1>1. TypeOK
    BY RegistryAssumption, IdleFields DEF Init, TypeOK, Vdev, NoVdev, Ids, NoId
  <1>2. Len(list) = 0 /\ \A q \in Callers : call[q] = Idle /\ call[q].pc = "idle"
    BY IdleFields DEF Init
  <1>3. ListInv
    BY <1>2 DEF ListInv
  <1>4. \A j \in Ids : ~Listed(j) /\ ~PastHypercall(j) /\ ~Holds(j)
    BY <1>2 DEF Listed, PastHypercall, Holds
  <1>5. \A j \in Ids : VdevInv(j)
    BY <1>4 DEF Init, NoVdev, VdevInv, Ids
  <1>6. \A q \in Callers : CallInv(q)
    BY <1>2 DEF CallInv, Owning, Creating, Removing
  <1>7. OwnerInv /\ FileInv /\ ModuleInv
    BY <1>2 DEF Init, OwnerInv, FileInv, ModuleInv, Owning, Removing
  <1>8. HoldInv
    BY <1>2, <1>4 DEF HoldInv, Creating
  <1>9. KnownInv
    BY DEF Init, KnownInv
  <1>10. CountInv
    <2>1. Counted = {}
      BY DEF Init, Counted, NoVdev
    <2> QED
      BY <2>1, FS_EmptySet DEF Init, CountInv
  <1>11. NumberInv
    <2>1. Unnumbered = {}
      BY <1>2 DEF Unnumbered
    <2> QED
      BY <2>1, FS_EmptySet DEF Init, NumberInv
  <1> QED
    BY <1>1, <1>3, <1>5, <1>6, <1>7, <1>8, <1>9, <1>10, <1>11 DEF RegistryInv

(* ... and is kept by every step, which is one of the table or leaves it.  *)
LEMMA RegistryStep ==
  ASSUME RegistryInv, Next
  PROVE  RegistryInv' /\ TableStep
  <1>1. ASSUME NEW p \in Callers, Ioctl(p)
        PROVE  RegistryInv' /\ TableStep
    <2>1. ASSUME NEW c \in Channels, PublishCall(p, c)
          PROVE  RegistryInv' /\ TableStep
      BY <2>1, StepPublishCall DEF TableStep
    <2>2. ASSUME NEW c \in Channels, UnpublishCall(p, c)
          PROVE  RegistryInv' /\ TableStep
      BY <2>2, StepUnpublishCall DEF TableStep
    <2>3. CASE Prepare(p)
      BY <2>3, StepPrepare DEF TableStep
    <2>4. CASE PrepareFail(p)
      BY <2>4, StepPrepareFail DEF TableStep
    <2>5. CASE Reserve(p)
      BY <2>5, StepReserve
    <2>6. CASE ReserveFull(p)
      BY <2>6, StepReserveFull DEF TableStep
    <2>7. CASE Register(p)
      BY <2>7, StepRegister
    <2>8. CASE RegisterFail(p)
      BY <2>8, StepRegisterFail
    <2>9. CASE AddToList(p)
      BY <2>9, StepAddToList
    <2>10. CASE CopyOut(p)
      BY <2>10, StepCopyOut DEF TableStep
    <2>11. CASE CopyOutFault(p)
      BY <2>11, StepCopyOutFault DEF TableStep
    <2>12. ASSUME NEW ok \in BOOLEAN, Rollback(p, ok)
           PROVE  RegistryInv' /\ TableStep
      BY <2>12, StepRollback DEF TableStep
    <2>13. CASE Find(p)
      BY <2>13, StepFind
    <2>14. CASE FindFail(p)
      BY <2>14, StepFindFail DEF TableStep
    <2>15. CASE Unpublish(p)
      BY <2>15, StepUnpublish
    <2>16. CASE UnpublishFail(p)
      BY <2>16, StepUnpublishFail
    <2>17. CASE Deregister(p)
      BY <2>17, StepDeregister
    <2>18. CASE Unlink(p)
      BY <2>18, StepUnlink
    <2>19. CASE FreeVdev(p)
      BY <2>19, StepFreeVdev
    <2> QED
      BY <1>1, <2>1, <2>2, <2>3, <2>4, <2>5, <2>6, <2>7, <2>8, <2>9, <2>10,
         <2>11, <2>12, <2>13, <2>14, <2>15, <2>16, <2>17, <2>18, <2>19
      DEF Ioctl
  <1>2. ASSUME NEW f \in Files, Release(f)
        PROVE  RegistryInv' /\ TableStep
    BY <1>2, StepRelease
  <1>3. ASSUME NEW f \in Files, NEW i \in Ids, Open(f, i)
        PROVE  RegistryInv' /\ TableStep
    BY <1>3, StepOpen
  <1>4. CASE Unload
    BY <1>4, StepUnload
  <1>5. ASSUME NEW ok \in BOOLEAN, Uninit(ok)
        PROVE  RegistryInv' /\ TableStep
    BY <1>5, StepUninit
  <1>6. CASE Unloaded
    BY <1>6, StepUnloaded
  <1> QED
    BY <1>1, <1>2, <1>3, <1>4, <1>5, <1>6 DEF Next

(* A step that changes nothing keeps the invariant and the table.          *)
LEMMA RegistryStutter ==
  ASSUME RegistryInv, UNCHANGED vars
  PROVE  RegistryInv' /\ Table' = Table
  <1>1. RegistryInv'
    BY DEF vars, RegistryInv, TypeOK, ListInv, VdevInv, CallInv, OwnerInv,
           HoldInv, FileInv, ModuleInv, KnownInv, CountInv, NumberInv, Counted,
           Unnumbered, Listed, Unlisted, Claimed, Leaves, Holds, PastHypercall
  <1>2. \A j \in Ids : RowKept(j)
    BY DEF vars, RowKept, Listed, PastHypercall
  <1> QED
    BY <1>1, <1>2, AllKept

(* The inductive invariant of the registry.                                *)
THEOREM RegistryInvariant == Spec => []RegistryInv
  <1>1. RegistryInv /\ [Next]_vars => RegistryInv'
    BY RegistryStep, RegistryStutter
  <1> QED
    BY <1>1, RegistryInit, PTL DEF Spec

(* Whoever has a device open has all of it: open excludes the removal of   *)
(* another process, which works unlocked between marking the device and    *)
(* freeing it (ivc.c:235-255, ivc.c:655).                                  *)
THEOREM OpensBacked == Spec => []OpenIsBacked
  <1>1. ASSUME RegistryInv PROVE OpenIsBacked
    <2>1. TypeOK /\ FileInv /\ HoldInv /\ \A j \in Ids : VdevInv(j)
          /\ \A q \in Callers : CallInv(q)
      BY <1>1 DEF RegistryInv
    <2>2. ASSUME NEW f \in Files, file[f] # NoId
          PROVE  /\ vdev[file[f]].state = "live"
                 /\ vdev[file[f]].active
                 /\ vdev[file[f]].channel \in hv
                 /\ \A g \in Files : file[g] = file[f] => g = f
      <3>1. PICK i \in Ids : i = file[f]
        BY <2>1, <2>2, FieldTypes
      <3>2. vdev[i].active /\ \A g \in Files : file[g] = i => g = f
        BY <2>1, <2>2, <3>1 DEF FileInv
      <3>3. vdev[i].misc /\ ~vdev[i].removing /\ vdev[i].state = "live"
        BY <2>1, <3>2 DEF VdevInv
      <3>4. \A q \in Callers : call[q].pc \in Removing => call[q].id # i
        BY <2>1, <3>3 DEF CallInv, Owning
      <3>5. CASE Listed(i)
        <4>1. Holds(i)
          BY <3>4, <3>5 DEF Holds, PastHypercall, Removing
        <4> QED
          BY <2>1, <3>1, <3>2, <3>3, <4>1 DEF HoldInv
      <3>6. CASE Unlisted(i)
        <4>1. PICK q \in Callers : call[q].pc \in {"register", "list"} /\ call[q].id = i
          BY <3>4, <3>6 DEF Unlisted, Removing
        <4>2. vdev[i].channel = call[q].channel /\ call[q].channel \in hv
          BY <2>1, <4>1 DEF CallInv, Owning, Creating
        <4> QED
          BY <3>1, <3>2, <3>3, <4>2
      <3> QED
        BY <2>1, <3>3, <3>5, <3>6 DEF VdevInv
    <2> QED
      BY <2>2 DEF OpenIsBacked
  <1> QED
    BY <1>1, RegistryInvariant, PTL

(* pub_vdev_count is the number of devices there are, on every path        *)
(* through creation, failure and removal, and never passes MAX_VDEVS       *)
(* (ivc.c:173, ivc.c:205, ivc.c:254).                                      *)
THEOREM CountExact == Spec => []CountIsExact
  <1>1. ASSUME RegistryInv PROVE CountIsExact
    <2> DEFINE leaving == {call[p].id : p \in {q \in Callers : call[q].pc = "free"}}
    <2>1. TypeOK /\ CountInv
      BY <1>1 DEF RegistryInv
    <2>2. \A i \in Ids : i \in leaving <=> Leaves(i)
      BY DEF Leaves
    <2>3. {i \in Ids : vdev[i].state = "live"} \ leaving = Counted
      BY <2>2 DEF Counted
    <2> HIDE DEF leaving
    <2>4. module = "live" =>
            count = Cardinality({i \in Ids : vdev[i].state = "live"} \ leaving)
      BY <2>1, <2>3 DEF CountInv
    <2> QED
      BY <2>1, <2>4 DEF CountIsExact, leaving
  <1> QED
    BY <1>1, RegistryInvariant, PTL

(* A channel the hypervisor holds is never forgotten: a creation that can  *)
(* roll it back or a listed device stands for it, unless the roll-back     *)
(* failed (ivc.c:101).                                                     *)
THEOREM ChannelsKnown == Spec => []NoForgottenChannel
  <1>1. ASSUME RegistryInv PROVE NoForgottenChannel
    <2>1. TypeOK /\ KnownInv /\ \A j \in Ids : VdevInv(j)
      BY <1>1 DEF RegistryInv
    <2>2. ASSUME NEW i \in Ids, Holds(i)
          PROVE  \E n \in 1 .. Len(list) :
                   /\ vdev[list[n]].channel = vdev[i].channel
                   /\ vdev[list[n]].state = "live"
      <3>1. PICK n \in 1 .. Len(list) : list[n] = i
        BY <2>2 DEF Holds, Listed
      <3>2. vdev[i].state = "live"
        BY <2>1, <2>2 DEF VdevInv, Holds
      <3> QED
        BY <3>1, <3>2
    <2> QED
      BY <2>1, <2>2 DEF KnownInv, NoForgottenChannel
  <1> QED
    BY <1>1, RegistryInvariant, PTL

(* Unloading the module leaves nothing behind but the channels the         *)
(* hypervisor refused to take back (uninit_ivc_devices, ivc.c).            *)
THEOREM UnloadClean == Spec => []UnloadIsClean
  <1>1. ASSUME RegistryInv, module = "gone"
        PROVE  /\ hv \subseteq stuck
               /\ \A i \in Ids : vdev[i].state # "live" /\ ~vdev[i].misc
    <2>1. /\ TypeOK /\ KnownInv /\ ModuleInv /\ \A j \in Ids : VdevInv(j)
      BY <1>1 DEF RegistryInv
    <2>2. list = <<>> /\ \A q \in Callers : call[q].pc = "idle"
      BY <1>1, <2>1 DEF ModuleInv
    <2>3. \A i \in Ids : ~Listed(i) /\ ~Holds(i)
      BY <2>2 DEF Listed, Holds
    <2>4. \A i \in Ids : ~Unlisted(i)
      BY <1>1, <2>2, Quiet
    <2>5. hv \subseteq stuck
      BY <2>1, <2>2, <2>3 DEF KnownInv, Creating
    <2>6. \A i \in Ids : vdev[i].state # "live" /\ ~vdev[i].misc
      BY <2>1, <2>3, <2>4 DEF VdevInv
    <2> QED
      BY <2>5, <2>6
  <1>2. RegistryInv => UnloadIsClean
    BY <1>1 DEF UnloadIsClean
  <1> QED
    BY <1>2, RegistryInvariant, PTL

(* The registry implements DeviceTable: however the critical sections,     *)
(* hypercalls and roll-backs of different processes interleave, programs   *)
(* see one device per channel, one opener and one remover of each, numbers *)
(* used once, and removals that find the oldest device (ivc.c:173-263,     *)
(* 650-677).                                                               *)
THEOREM RegistryImplementsTable == Spec => ImplementsDeviceTable
  <1>1. Init => Devices!DeviceTableInit
    <2> SUFFICES ASSUME Init PROVE Devices!DeviceTableInit
      OBVIOUS
    <2>1. ASSUME NEW i \in Ids PROVE Table[i] = Devices!NoDevice
      <3>1. vdev[i] = NoVdev
        BY DEF Init
      <3>2. vdev[i].state = "none" /\ vdev[i].active = FALSE
        BY <3>1 DEF NoVdev
      <3>3. Table[i] = BlankRow(i, "none")
        BY <3>2, RowNow
      <3> QED
        BY <3>2, <3>3, Zenon DEF BlankRow, Devices!NoDevice
    <2>2. Table = [i \in Ids |-> Table[i]]
      BY DEF Table
    <2> QED
      BY <2>1, <2>2 DEF Devices!DeviceTableInit
  <1>2. RegistryInv /\ [Next]_vars => [Devices!DeviceTableNext]_Table
    BY RegistryStep, RegistryStutter DEF TableStep
  <1> QED
    BY <1>1, <1>2, RegistryInvariant, PTL
    DEF Spec, ImplementsDeviceTable, Devices!DeviceTableSpec
=============================================================================
