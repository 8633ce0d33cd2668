---------------------------- MODULE LibivcProofs ----------------------------
(***************************************************************************)
(* Proofs about libivc, for any number of programs, channels and devices:  *)
(* the descriptors and devices of module Libivc; the Python binding's      *)
(* count of references and the ways out of the demo's main (Clients),      *)
(* whatever the other programs do; and what the two ends of a direction    *)
(* are told of their messages (LibivcIo), for all buffer sizes.            *)
(***************************************************************************)
EXTENDS Clients, LibivcIo, FiniteSetTheorems, WellFoundedInduction, TLAPS

(* Only a device that nobody removes is open.  A device has a channel from *)
(* its first to its last moment.                                           *)
DevInv ==
  \A i \in Ids :
    /\ dev[i].active => dev[i].st \in {"new", "listed"}
    /\ dev[i].st \in Present <=> dev[i].ch # NoChannel

(* A stranger has its device open, and no handle that is good is for it.   *)
StrangerInv ==
  stranger # NoId =>
    /\ dev[stranger].active
    /\ \A p \in Procs : \A h \in handles[p] :
         h.id = stranger => Releasing(p, h.id)

(* Where a call stands: what it knows of the device it has created or is   *)
(* giving back (id), and of the device its removal works on (target).      *)
CallInv(p) ==
  /\ proc[p].pc = "idle" => proc[p] = Idle
  /\ proc[p].pc = "ioctl" => proc[p].id = NoId
  /\ proc[p].pc \in {"list", "copyout", "open"} => proc[p].id # NoId
  /\ proc[p].pc \in {"ioctl", "list", "copyout", "open"} =>
       mgr[p].open /\ proc[p].ch \in Channels
  /\ proc[p].pc \in Removal /\ ~proc[p].undo =>
       \E h \in handles[p] : h.id = proc[p].id

IdInv(p) ==
  proc[p].id # NoId =>
    /\ IF proc[p].pc = "list" THEN dev[proc[p].id].st = "new"
       ELSE dev[proc[p].id].st \notin {"none", "new"}
    /\ dev[proc[p].id].st \in Present => dev[proc[p].id].ch = proc[p].ch
    /\ proc[p].pc \in {"hypercall", "drop"} =>
         proc[p].target = proc[p].id \/ dev[proc[p].id].st = "gone"
    /\ proc[p].pc = "done" /\ ~proc[p].failed => dev[proc[p].id].st = "gone"

TargetInv(p) ==
  /\ proc[p].pc \in {"hypercall", "drop"} <=> proc[p].target # NoId
  /\ proc[p].pc = "hypercall" => dev[proc[p].target].st = "taken"
  /\ proc[p].pc = "drop" => dev[proc[p].target].st = "leaving"

ProcInv == \A p \in Procs : CallInv(p) /\ IdInv(p) /\ TargetInv(p)

(* A device is removed by one call, and created or given back by one.      *)
UniqueInv ==
  /\ \A p, q \in Procs :
       /\ proc[p].target = proc[q].target => p = q \/ proc[p].target = NoId
       /\ proc[p].id = proc[q].id => p = q \/ proc[p].id = NoId
  /\ \A p, q \in Procs : \A h \in handles[q] :
       proc[p].id = h.id => p = q /\ Releasing(p, h.id)

HandleInv ==
  \A p \in Procs : \A h \in handles[p] :
    /\ dev[h.id].st \notin {"none", "new"}
    /\ ~Releasing(p, h.id) =>
         dev[h.id].st = "listed" /\ dev[h.id].ch = h.ch /\ dev[h.id].active
    /\ \A q \in Procs : \A g \in handles[q] : g.id = h.id => q = p /\ g = h

ManagerInv ==
  \A p \in Procs :
    /\ IsFiniteSet(handles[p])
    /\ mgr[p].active_endpoints = Cardinality(handles[p])
    /\ handles[p] # {} => mgr[p].open

(* Every device has somebody who answers for it, unless it was reported.   *)
OwnedInv ==
  \A i \in Ids \ lost : dev[i].st \in Present =>
    \E p \in Procs : proc[p].id = i \/ \E h \in handles[p] : h.id = i

LibInv ==
  /\ TypeOK /\ DevInv /\ StrangerInv /\ ProcInv /\ UniqueInv /\ HandleInv
  /\ ManagerInv /\ RemovedIsGone /\ OwnedInv

-----------------------------------------------------------------------------
(* What TypeOK says of the fields.                                         *)
LEMMA FieldTypes ==
  ASSUME TypeOK
  PROVE  /\ \A q \in Procs :
              /\ proc[q] \in CallState
              /\ proc[q].pc \in {"idle", "ioctl", "list", "copyout", "open"}
                                  \cup Removal
              /\ proc[q].id \in Ids \cup {NoId}
              /\ proc[q].target \in Ids \cup {NoId}
              /\ proc[q].ch \in Channels \cup {NoChannel}
              /\ proc[q].undo \in BOOLEAN
              /\ proc[q].failed \in BOOLEAN
         /\ \A q \in Procs : \A h \in handles[q] :
              h.id \in Ids /\ h.ch \in Channels /\ h \in Handle
         /\ \A i \in Ids :
              /\ dev[i] \in DevSet
              /\ dev[i].st \in Present \cup {"none", "gone"}
              /\ dev[i].ch \in Channels \cup {NoChannel}
              /\ dev[i].active \in BOOLEAN
  BY DEF TypeOK, Handle, DevSet, CallState

(* A slot with no call in progress.                                        *)
LEMMA IdleType == Idle \in CallState
  BY DEF Idle, CallState

(* A device that is gone is not open and has no channel.                   *)
LEMMA GoneFields ==
  /\ GoneDevice \in DevSet
  /\ GoneDevice.st = "gone" /\ GoneDevice.ch = NoChannel /\ ~GoneDevice.active
  BY DEF GoneDevice, NoDevice, DevSet

(* A step inside a call that touches no device and no handle.              *)
LEMMA CallStep ==
  ASSUME LibInv, NEW p \in Procs,
         UNCHANGED <<dev, mgr, handles, stranger, removed>>,
         NEW r \in CallState,
         proc' = [proc EXCEPT ![p] = r],
         lost \subseteq lost', lost' \subseteq Ids,
         r.id \in {NoId, proc[p].id},
         r.target \in {NoId, proc[p].target},
         \/ r.id # NoId
         \/ proc[p].id \in {NoId} \cup lost'
         \/ dev[proc[p].id].st = "gone",
         \A i \in Ids : Releasing(p, i) =>
           r.pc \in Removal /\ ~r.undo /\ r.id = i,
         CallInv(p)', IdInv(p)', TargetInv(p)'
  PROVE  LibInv'
  <1>1. /\ TypeOK /\ DevInv /\ StrangerInv /\ ProcInv /\ UniqueInv /\ HandleInv
        /\ ManagerInv /\ RemovedIsGone /\ OwnedInv
    BY DEF LibInv
  <1>2. proc'[p] = r /\ \A q \in Procs : q # p => proc'[q] = proc[q]
    BY <1>1 DEF TypeOK
  <1>3. TypeOK'
    BY <1>1 DEF TypeOK
  <1>4. \A q \in Procs : \A i \in Ids : Releasing(q, i) => Releasing(q, i)'
    BY <1>2 DEF Releasing
  <1>5. DevInv' /\ ManagerInv' /\ RemovedIsGone'
    BY <1>1 DEF DevInv, ManagerInv, RemovedIsGone
  <1>6. StrangerInv'
    BY <1>1, <1>4, FieldTypes DEF StrangerInv
  <1>7. ProcInv'
    <2>1. ASSUME NEW q \in Procs, q # p
          PROVE  CallInv(q)' /\ IdInv(q)' /\ TargetInv(q)'
      BY <1>1, <1>2, <2>1 DEF ProcInv, CallInv, IdInv, TargetInv
    <2> QED
      BY <2>1 DEF ProcInv
  <1>8. UniqueInv'
    <2>1. \A q \in Procs :
            /\ proc'[q].id \in {NoId, proc[q].id}
            /\ proc'[q].target \in {NoId, proc[q].target}
      BY <1>2
    <2>2. \A q, q2 \in Procs :
            /\ proc'[q].target = proc'[q2].target
                 => q = q2 \/ proc'[q].target = NoId
            /\ proc'[q].id = proc'[q2].id => q = q2 \/ proc'[q].id = NoId
      BY <1>1, <2>1 DEF UniqueInv
    <2>3. \A q, q2 \in Procs : \A h \in handles[q2] :
            proc'[q].id = h.id => q = q2 /\ Releasing(q, h.id)'
      BY <1>1, <1>4, <2>1, FieldTypes, LibivcAssumption DEF UniqueInv
    <2> QED
      BY <2>2, <2>3 DEF UniqueInv
  <1>9. HandleInv'
    <2>1. \A q \in Procs : \A h \in handles[q] :
            /\ dev[h.id].st \notin {"none", "new"}
            /\ ~Releasing(q, h.id)' =>
                 dev[h.id].st = "listed" /\ dev[h.id].ch = h.ch /\ dev[h.id].active
      BY <1>1, <1>4, FieldTypes DEF HandleInv
    <2> QED
      BY <1>1, <2>1 DEF HandleInv
  <1>10. OwnedInv'
    BY <1>1, <1>2, LibivcAssumption DEF OwnedInv, Present
  <1> QED
    BY <1>3, <1>5, <1>6, <1>7, <1>8, <1>9, <1>10 DEF LibInv

(* ivc_publish or ivc_subscribe starts its ioctl.                          *)
LEMMA StepAttach ==
  ASSUME LibInv, NEW p \in Procs, NEW c \in Channels, Attach(p, c)
  PROVE  LibInv'
  <1> DEFINE r == [Idle EXCEPT !.pc = "ioctl", !.ch = c]
  <1>1. TypeOK /\ CallInv(p) /\ IdInv(p) /\ TargetInv(p)
    BY DEF LibInv, ProcInv
  <1>2. r \in CallState
    BY <1>1, FieldTypes DEF CallState, Idle, Removal
  <1>3. /\ proc' = [proc EXCEPT ![p] = r]
        /\ UNCHANGED <<dev, mgr, handles, stranger, removed>>
        /\ lost \subseteq lost' /\ lost' \subseteq Ids
    BY <1>1, FieldTypes DEF Attach, TypeOK
  <1>4. proc'[p] = r
    BY <1>1, <1>3 DEF TypeOK
  <1>5. /\ r.id \in {NoId, proc[p].id}
        /\ r.target \in {NoId, proc[p].target}
        /\ \/ r.id # NoId
           \/ proc[p].id \in {NoId} \cup lost'
           \/ dev[proc[p].id].st = "gone"
        /\ \A i \in Ids : Releasing(p, i) =>
             r.pc \in Removal /\ ~r.undo /\ r.id = i
    BY <1>1, FieldTypes
    DEF Attach, Idle, CallInv, IdInv, Releasing, Removal, CallState
  <1>6. proc[p].pc = "idle" /\ mgr[p].open
    BY DEF Attach
  <1>7. CallInv(p)' /\ IdInv(p)' /\ TargetInv(p)'
    BY <1>1, <1>3, <1>4, <1>6, LibivcAssumption, FieldTypes
    DEF CallInv, IdInv, TargetInv, Idle, Removal, CallState
  <1> HIDE DEF r
  <1> QED
    BY <1>2, <1>3, <1>5, <1>7, CallStep

(* The ioctl fails before a device exists.                                 *)
LEMMA StepIoctlFail ==
  ASSUME LibInv, NEW p \in Procs, IoctlFail(p)
  PROVE  LibInv'
  <1> DEFINE r == Idle
  <1>1. TypeOK /\ CallInv(p) /\ IdInv(p) /\ TargetInv(p)
    BY DEF LibInv, ProcInv
  <1>2. r \in CallState
    BY <1>1, FieldTypes DEF CallState, Idle, Removal
  <1>3. /\ proc' = [proc EXCEPT ![p] = r]
        /\ UNCHANGED <<dev, mgr, handles, stranger, removed>>
        /\ lost \subseteq lost' /\ lost' \subseteq Ids
    BY <1>1, FieldTypes DEF IoctlFail, TypeOK
  <1>4. proc'[p] = r
    BY <1>1, <1>3 DEF TypeOK
  <1>5. /\ r.id \in {NoId, proc[p].id}
        /\ r.target \in {NoId, proc[p].target}
        /\ \/ r.id # NoId
           \/ proc[p].id \in {NoId} \cup lost'
           \/ dev[proc[p].id].st = "gone"
        /\ \A i \in Ids : Releasing(p, i) =>
             r.pc \in Removal /\ ~r.undo /\ r.id = i
    BY <1>1, FieldTypes
    DEF IoctlFail, Idle, CallInv, IdInv, Releasing, Removal, CallState
  <1>6. proc[p].pc = "ioctl"
    BY DEF IoctlFail
  <1>7. CallInv(p)' /\ IdInv(p)' /\ TargetInv(p)'
    BY <1>1, <1>3, <1>4, <1>6, LibivcAssumption, FieldTypes
    DEF CallInv, IdInv, TargetInv, Idle, Removal, CallState
  <1> HIDE DEF r
  <1> QED
    BY <1>2, <1>3, <1>5, <1>7, CallStep

(* The creating ioctl returns the device's name.                           *)
LEMMA StepIoctlReturn ==
  ASSUME LibInv, NEW p \in Procs, IoctlReturn(p)
  PROVE  LibInv'
  <1> DEFINE r == [proc[p] EXCEPT !.pc = "open"]
  <1>1. TypeOK /\ CallInv(p) /\ IdInv(p) /\ TargetInv(p)
    BY DEF LibInv, ProcInv
  <1>2. r \in CallState
    BY <1>1, FieldTypes DEF CallState, Idle, Removal
  <1>3. /\ proc' = [proc EXCEPT ![p] = r]
        /\ UNCHANGED <<dev, mgr, handles, stranger, removed>>
        /\ lost \subseteq lost' /\ lost' \subseteq Ids
    BY <1>1, FieldTypes DEF IoctlReturn, Goto, TypeOK
  <1>4. proc'[p] = r
    BY <1>1, <1>3 DEF TypeOK
  <1>5. /\ r.id \in {NoId, proc[p].id}
        /\ r.target \in {NoId, proc[p].target}
        /\ \/ r.id # NoId
           \/ proc[p].id \in {NoId} \cup lost'
           \/ dev[proc[p].id].st = "gone"
        /\ \A i \in Ids : Releasing(p, i) =>
             r.pc \in Removal /\ ~r.undo /\ r.id = i
    BY <1>1, FieldTypes
    DEF IoctlReturn, Idle, CallInv, IdInv, Releasing, Removal, CallState
  <1>6. proc[p].pc = "copyout"
    BY DEF IoctlReturn
  <1>7. CallInv(p)' /\ IdInv(p)' /\ TargetInv(p)'
    BY <1>1, <1>3, <1>4, <1>6, LibivcAssumption, FieldTypes
    DEF CallInv, IdInv, TargetInv, Idle, Removal, CallState
  <1> HIDE DEF r
  <1> QED
    BY <1>2, <1>3, <1>5, <1>7, CallStep

(* The driver could not copy the name out and removes what it created.     *)
LEMMA StepIoctlFault ==
  ASSUME LibInv, NEW p \in Procs, IoctlFault(p)
  PROVE  LibInv'
  <1> DEFINE r == [proc[p] EXCEPT !.pc = "find", !.undo = TRUE]
  <1>1. TypeOK /\ CallInv(p) /\ IdInv(p) /\ TargetInv(p)
    BY DEF LibInv, ProcInv
  <1>2. r \in CallState
    BY <1>1, FieldTypes DEF CallState, Idle, Removal
  <1>3. /\ proc' = [proc EXCEPT ![p] = r]
        /\ UNCHANGED <<dev, mgr, handles, stranger, removed>>
        /\ lost \subseteq lost' /\ lost' \subseteq Ids
    BY <1>1, FieldTypes DEF IoctlFault, TypeOK
  <1>4. proc'[p] = r
    BY <1>1, <1>3 DEF TypeOK
  <1>5. /\ r.id \in {NoId, proc[p].id}
        /\ r.target \in {NoId, proc[p].target}
        /\ \/ r.id # NoId
           \/ proc[p].id \in {NoId} \cup lost'
           \/ dev[proc[p].id].st = "gone"
        /\ \A i \in Ids : Releasing(p, i) =>
             r.pc \in Removal /\ ~r.undo /\ r.id = i
    BY <1>1, FieldTypes
    DEF IoctlFault, Idle, CallInv, IdInv, Releasing, Removal, CallState
  <1>6. proc[p].pc = "copyout"
    BY DEF IoctlFault
  <1>7. CallInv(p)' /\ IdInv(p)' /\ TargetInv(p)'
    BY <1>1, <1>3, <1>4, <1>6, LibivcAssumption, FieldTypes
    DEF CallInv, IdInv, TargetInv, Idle, Removal, CallState
  <1> HIDE DEF r
  <1> QED
    BY <1>2, <1>3, <1>5, <1>7, CallStep

(* open of the device fails: the library rolls back.                       *)
LEMMA StepOpenFail ==
  ASSUME LibInv, NEW p \in Procs, OpenFail(p)
  PROVE  LibInv'
  <1> DEFINE r == [proc[p] EXCEPT !.pc = "find", !.undo = TRUE]
  <1>1. TypeOK /\ CallInv(p) /\ IdInv(p) /\ TargetInv(p)
    BY DEF LibInv, ProcInv
  <1>2. r \in CallState
    BY <1>1, FieldTypes DEF CallState, Idle, Removal
  <1>3. /\ proc' = [proc EXCEPT ![p] = r]
        /\ UNCHANGED <<dev, mgr, handles, stranger, removed>>
        /\ lost \subseteq lost' /\ lost' \subseteq Ids
    BY <1>1, FieldTypes DEF OpenFail, TypeOK
  <1>4. proc'[p] = r
    BY <1>1, <1>3 DEF TypeOK
  <1>5. /\ r.id \in {NoId, proc[p].id}
        /\ r.target \in {NoId, proc[p].target}
        /\ \/ r.id # NoId
           \/ proc[p].id \in {NoId} \cup lost'
           \/ dev[proc[p].id].st = "gone"
        /\ \A i \in Ids : Releasing(p, i) =>
             r.pc \in Removal /\ ~r.undo /\ r.id = i
    BY <1>1, FieldTypes
    DEF OpenFail, Idle, CallInv, IdInv, Releasing, Removal, CallState
  <1>6. proc[p].pc = "open"
    BY DEF OpenFail
  <1>7. CallInv(p)' /\ IdInv(p)' /\ TargetInv(p)'
    BY <1>1, <1>3, <1>4, <1>6, LibivcAssumption, FieldTypes
    DEF CallInv, IdInv, TargetInv, Idle, Removal, CallState
  <1> HIDE DEF r
  <1> QED
    BY <1>2, <1>3, <1>5, <1>7, CallStep

(* The roll-back is over, its failure only logged.                         *)
LEMMA StepRollbackReturn ==
  ASSUME LibInv, NEW p \in Procs, RollbackReturn(p)
  PROVE  LibInv'
  <1> DEFINE r == Idle
  <1>1. TypeOK /\ CallInv(p) /\ IdInv(p) /\ TargetInv(p)
    BY DEF LibInv, ProcInv
  <1>2. r \in CallState
    BY <1>1, FieldTypes DEF CallState, Idle, Removal
  <1>3. /\ proc' = [proc EXCEPT ![p] = r]
        /\ UNCHANGED <<dev, mgr, handles, stranger, removed>>
        /\ lost \subseteq lost' /\ lost' \subseteq Ids
    BY <1>1, FieldTypes DEF RollbackReturn, TypeOK
  <1>4. proc'[p] = r
    BY <1>1, <1>3 DEF TypeOK
  <1>5. /\ r.id \in {NoId, proc[p].id}
        /\ r.target \in {NoId, proc[p].target}
        /\ \/ r.id # NoId
           \/ proc[p].id \in {NoId} \cup lost'
           \/ dev[proc[p].id].st = "gone"
        /\ \A i \in Ids : Releasing(p, i) =>
             r.pc \in Removal /\ ~r.undo /\ r.id = i
    BY <1>1, FieldTypes
    DEF RollbackReturn, Idle, CallInv, IdInv, Releasing, Removal, CallState
  <1>6. proc[p].pc = "done" /\ proc[p].undo
    BY DEF RollbackReturn
  <1>7. CallInv(p)' /\ IdInv(p)' /\ TargetInv(p)'
    BY <1>1, <1>3, <1>4, <1>6, LibivcAssumption, FieldTypes
    DEF CallInv, IdInv, TargetInv, Idle, Removal, CallState
  <1> HIDE DEF r
  <1> QED
    BY <1>2, <1>3, <1>5, <1>7, CallStep

(* The driver finds no device to remove, or one it will not remove.        *)
LEMMA StepRemoveRefused ==
  ASSUME LibInv, NEW p \in Procs, RemoveRefused(p)
  PROVE  LibInv'
  <1> DEFINE r == [proc[p] EXCEPT !.pc = "done", !.failed = TRUE]
  <1>1. TypeOK /\ CallInv(p) /\ IdInv(p) /\ TargetInv(p)
    BY DEF LibInv, ProcInv
  <1>2. r \in CallState
    BY <1>1, FieldTypes DEF CallState, Idle, Removal
  <1>3. /\ proc' = [proc EXCEPT ![p] = r]
        /\ UNCHANGED <<dev, mgr, handles, stranger, removed>>
        /\ lost \subseteq lost' /\ lost' \subseteq Ids
    BY <1>1, FieldTypes DEF RemoveRefused, TypeOK
  <1>4. proc'[p] = r
    BY <1>1, <1>3 DEF TypeOK
  <1>5. /\ r.id \in {NoId, proc[p].id}
        /\ r.target \in {NoId, proc[p].target}
        /\ \/ r.id # NoId
           \/ proc[p].id \in {NoId} \cup lost'
           \/ dev[proc[p].id].st = "gone"
        /\ \A i \in Ids : Releasing(p, i) =>
             r.pc \in Removal /\ ~r.undo /\ r.id = i
    BY <1>1, FieldTypes
    DEF RemoveRefused, Idle, CallInv, IdInv, Releasing, Removal, CallState
  <1>6. proc[p].pc = "find"
    BY DEF RemoveRefused
  <1>7. CallInv(p)' /\ IdInv(p)' /\ TargetInv(p)'
    BY <1>1, <1>3, <1>4, <1>6, LibivcAssumption, FieldTypes
    DEF CallInv, IdInv, TargetInv, Idle, Removal, CallState
  <1> HIDE DEF r
  <1> QED
    BY <1>2, <1>3, <1>5, <1>7, CallStep

(* A program removes a channel by the public ioctl, without a handle.      *)
LEMMA StepRawRemove ==
  ASSUME LibInv, NEW p \in Procs, NEW c \in Channels, RawRemove(p, c)
  PROVE  LibInv'
  <1> DEFINE r == [Idle EXCEPT !.pc = "find", !.ch = c, !.undo = TRUE]
  <1>1. TypeOK /\ CallInv(p) /\ IdInv(p) /\ TargetInv(p)
    BY DEF LibInv, ProcInv
  <1>2. r \in CallState
    BY <1>1, FieldTypes DEF CallState, Idle, Removal
  <1>3. /\ proc' = [proc EXCEPT ![p] = r]
        /\ UNCHANGED <<dev, mgr, handles, stranger, removed>>
        /\ lost \subseteq lost' /\ lost' \subseteq Ids
    BY <1>1, FieldTypes DEF RawRemove, TypeOK
  <1>4. proc'[p] = r
    BY <1>1, <1>3 DEF TypeOK
  <1>5. /\ r.id \in {NoId, proc[p].id}
        /\ r.target \in {NoId, proc[p].target}
        /\ \/ r.id # NoId
           \/ proc[p].id \in {NoId} \cup lost'
           \/ dev[proc[p].id].st = "gone"
        /\ \A i \in Ids : Releasing(p, i) =>
             r.pc \in Removal /\ ~r.undo /\ r.id = i
    BY <1>1, FieldTypes
    DEF RawRemove, Idle, CallInv, IdInv, Releasing, Removal, CallState
  <1>6. proc[p].pc = "idle"
    BY DEF RawRemove
  <1>7. CallInv(p)' /\ IdInv(p)' /\ TargetInv(p)'
    BY <1>1, <1>3, <1>4, <1>6, LibivcAssumption, FieldTypes
    DEF CallInv, IdInv, TargetInv, Idle, Removal, CallState
  <1> HIDE DEF r
  <1> QED
    BY <1>2, <1>3, <1>5, <1>7, CallStep

-----------------------------------------------------------------------------
(* A step of a call that changes one device as well.                       *)
LEMMA DeviceStep ==
  ASSUME LibInv, NEW p \in Procs, NEW i \in Ids,
         UNCHANGED <<mgr, handles, stranger, removed, lost>>,
         NEW r \in CallState, proc' = [proc EXCEPT ![p] = r],
         NEW d \in DevSet, dev' = [dev EXCEPT ![i] = d],
         d.active => d.st \in {"new", "listed"},
         d.st \in Present <=> d.ch # NoChannel,
         stranger = i => d.active,
         i \in removed => d.st = "gone",
         \A j \in Ids : Releasing(p, j) =>
           r.pc \in Removal /\ ~r.undo /\ r.id = j,
         \A q \in Procs : \A h \in handles[q] : h.id = i =>
           /\ d.st \notin {"none", "new"}
           /\ ~Releasing(q, h.id)' =>
                d.st = "listed" /\ d.ch = h.ch /\ d.active,
         CallInv(p)', IdInv(p)', TargetInv(p)',
         \A q \in Procs : q # p => /\ proc[q].id = i => IdInv(q)'
                                   /\ proc[q].target # i,
         proc[p].id \in {NoId, r.id},
         r.id # proc[p].id =>
           /\ \A q \in Procs : q # p => proc[q].id # r.id
           /\ \A q \in Procs : \A h \in handles[q] :
                h.id = r.id => q = p /\ Releasing(p, h.id)',
         r.target # proc[p].target =>
           \A q \in Procs : q # p /\ r.target # NoId => proc[q].target # r.target,
         d.st \in Present => \/ dev[i].st \in Present
                             \/ r.id = i
  PROVE  LibInv'
  <1>1. /\ TypeOK /\ DevInv /\ StrangerInv /\ ProcInv /\ UniqueInv /\ HandleInv
        /\ ManagerInv /\ RemovedIsGone /\ OwnedInv
    BY DEF LibInv
  <1>2. proc'[p] = r /\ \A q \in Procs : q # p => proc'[q] = proc[q]
    BY <1>1 DEF TypeOK
  <1>3. dev'[i] = d /\ \A j \in Ids : j # i => dev'[j] = dev[j]
    BY <1>1 DEF TypeOK
  <1>4. TypeOK'
    BY <1>1 DEF TypeOK
  <1>5. \A q \in Procs : \A j \in Ids : Releasing(q, j) => Releasing(q, j)'
    BY <1>2 DEF Releasing
  <1>6. DevInv'
    BY <1>1, <1>3 DEF DevInv
  <1>7. ManagerInv' /\ RemovedIsGone'
    BY <1>1, <1>3 DEF ManagerInv, RemovedIsGone, TypeOK
  <1>8. StrangerInv'
    <2>1. stranger # NoId => dev'[stranger].active
      BY <1>1, <1>3 DEF StrangerInv, TypeOK
    <2>2. \A q \in Procs : \A h \in handles[q] :
            stranger # NoId /\ h.id = stranger => Releasing(q, h.id)'
      BY <1>1, <1>5, FieldTypes DEF StrangerInv
    <2> QED
      BY <2>1, <2>2 DEF StrangerInv
  <1>9. ProcInv'
    <2>1. ASSUME NEW q \in Procs, q # p
          PROVE  CallInv(q)' /\ IdInv(q)' /\ TargetInv(q)'
      <3>1. CallInv(q)'
        BY <1>1, <1>2, <2>1 DEF ProcInv, CallInv
      <3>2. CASE proc[q].id = i
        <4>1. IdInv(q)'
          BY <2>1, <3>2
        <4>2. TargetInv(q)'
          BY <1>1, <1>2, <1>3, <2>1, FieldTypes DEF ProcInv, TargetInv
        <4> QED
          BY <3>1, <4>1, <4>2
      <3>3. CASE proc[q].id # i
        <4>1. IdInv(q)'
          BY <1>1, <1>2, <1>3, <2>1, <3>3, FieldTypes DEF ProcInv, IdInv
        <4>2. TargetInv(q)'
          BY <1>1, <1>2, <1>3, <2>1, FieldTypes DEF ProcInv, TargetInv
        <4> QED
          BY <3>1, <4>1, <4>2
      <3> QED
        BY <3>2, <3>3
    <2> QED
      BY <2>1 DEF ProcInv
  <1>10. UniqueInv'
    <2>1. \A q, q2 \in Procs :
            /\ proc'[q].target = proc'[q2].target
                 => q = q2 \/ proc'[q].target = NoId
            /\ proc'[q].id = proc'[q2].id => q = q2 \/ proc'[q].id = NoId
      BY <1>1, <1>2 DEF UniqueInv
    <2>2. \A q, q2 \in Procs : \A h \in handles[q2] :
            proc'[q].id = h.id => q = q2 /\ Releasing(q, h.id)'
      BY <1>1, <1>2, <1>5, FieldTypes DEF UniqueInv
    <2> QED
      BY <2>1, <2>2 DEF UniqueInv
  <1>11. HandleInv'
    <2>1. \A q \in Procs : \A h \in handles[q] :
            /\ dev'[h.id].st \notin {"none", "new"}
            /\ ~Releasing(q, h.id)' =>
                 /\ dev'[h.id].st = "listed" /\ dev'[h.id].ch = h.ch
                 /\ dev'[h.id].active
      BY <1>1, <1>3, <1>5, FieldTypes DEF HandleInv
    <2> QED
      BY <1>1, <2>1 DEF HandleInv
  <1>12. OwnedInv'
    BY <1>1, <1>2, <1>3, LibivcAssumption DEF OwnedInv
  <1> QED
    BY <1>4, <1>6, <1>7, <1>8, <1>9, <1>10, <1>11, <1>12 DEF LibInv

(* The driver makes the device appear.                                     *)
LEMMA StepIoctlCreate ==
  ASSUME LibInv, NEW p \in Procs, IoctlCreate(p)
  PROVE  LibInv'
  <1>1. PICK i \in Ids :
         /\ Appear(i, proc[p].ch)
         /\ proc' = [proc EXCEPT ![p].pc = "list", ![p].id = i]
    BY DEF IoctlCreate
  <1> DEFINE r == [proc[p] EXCEPT !.pc = "list", !.id = i]
             d == [st |-> "new", ch |-> proc[p].ch, active |-> FALSE]
  <1>2. /\ TypeOK /\ DevInv /\ StrangerInv /\ ProcInv /\ UniqueInv /\ HandleInv
        /\ RemovedIsGone
        /\ CallInv(p) /\ IdInv(p) /\ TargetInv(p)
    BY DEF LibInv, ProcInv
  <1>3. proc[p].pc = "ioctl" /\ dev[i].st = "none" /\ proc[p].ch \in Channels
    BY <1>1, <1>2, FieldTypes, LibivcAssumption
    DEF IoctlCreate, Appear, DevInv, IdInv, CallInv, TargetInv
  <1>4. r \in CallState
    BY <1>2, FieldTypes DEF CallState, Removal
  <1>5. d \in DevSet
    BY <1>2, <1>3, FieldTypes, LibivcAssumption DEF DevSet, Present
  <1>6. /\ proc' = [proc EXCEPT ![p] = r]
        /\ dev' = [dev EXCEPT ![i] = d]
        /\ UNCHANGED <<mgr, handles, stranger, removed, lost>>
    BY <1>1, <1>2, FieldTypes DEF IoctlCreate, Appear, TypeOK
  <1>7. /\ proc'[p] = r /\ dev'[i] = d
        /\ \A q \in Procs : q # p => proc'[q] = proc[q]
        /\ \A j \in Ids : j # i => dev'[j] = dev[j]
    BY <1>2, <1>3, <1>6 DEF TypeOK
  <1>8. /\ d.active => d.st \in {"new", "listed"}
        /\ d.st \in Present <=> d.ch # NoChannel
        /\ stranger = i => d.active
        /\ i \in removed => d.st = "gone"
        /\ d.st \in Present => dev[i].st \in Present \/ r.id = i
    BY <1>2, <1>3, FieldTypes, LibivcAssumption
    DEF DevInv, StrangerInv, RemovedIsGone, Present, DevSet, Idle, CallState
  <1>9. \A j \in Ids : Releasing(p, j) =>
           r.pc \in Removal /\ ~r.undo /\ r.id = j
    BY <1>2, <1>3, FieldTypes DEF Releasing, Removal, Idle, CallState
  <1>10. \A q \in Procs : \A j \in Ids : Releasing(q, j) => Releasing(q, j)'
    BY <1>7, <1>9 DEF Releasing
  <1>11. CallInv(p)'
    BY <1>2, <1>3, <1>6, <1>7, FieldTypes, LibivcAssumption
    DEF CallInv, Removal, Idle, CallState
  <1>12. TargetInv(p)'
    BY <1>2, <1>3, <1>7, FieldTypes, LibivcAssumption
    DEF TargetInv, Removal, Idle, CallState, DevSet
  <1>13. IdInv(p)'
    BY <1>2, <1>3, <1>7, FieldTypes, LibivcAssumption
    DEF IdInv, CallInv, TargetInv, Removal, Present, Idle, CallState, DevSet
  <1>14. \A q \in Procs : q # p => proc[q].target # i
    BY <1>2, <1>3, FieldTypes, LibivcAssumption
    DEF UniqueInv, ProcInv, TargetInv
  <1>15. \A q \in Procs : q # p => /\ proc[q].id = i => IdInv(q)'
                                  /\ proc[q].target # i
    <2>1. ASSUME NEW q \in Procs, q # p, proc[q].id = i
          PROVE  IdInv(q)'
      BY <1>2, <1>3, <1>7, <1>14, <2>1, FieldTypes, LibivcAssumption
      DEF UniqueInv, ProcInv, IdInv, TargetInv, Present, Removal, DevSet
    <2> QED
      BY <1>14, <2>1
  <1>16. \A q \in Procs : \A g \in handles[q] : g.id = i =>
           /\ d.st \notin {"none", "new"}
           /\ ~Releasing(q, g.id)' =>
                d.st = "listed" /\ d.ch = g.ch /\ d.active
    BY <1>2, <1>3, <1>10, FieldTypes DEF HandleInv, DevSet
  <1>17. /\ proc[p].id \in {NoId, r.id}
         /\ r.id # proc[p].id =>
              /\ \A q \in Procs : q # p => proc[q].id # r.id
              /\ \A q \in Procs : \A g \in handles[q] :
                   g.id = r.id => q = p /\ Releasing(p, g.id)'
         /\ r.target # proc[p].target =>
              \A q \in Procs : q # p /\ r.target # NoId => proc[q].target # r.target
    BY <1>2, <1>3, <1>7, <1>14, FieldTypes, LibivcAssumption
    DEF UniqueInv, HandleInv, ProcInv, IdInv, CallInv, Idle, CallState,
        Releasing, Removal
  <1>18. i \in Ids
    BY <1>3
  <1> HIDE DEF r, d
  <1> QED
    BY <1>4, <1>5, <1>6, <1>8, <1>9, <1>11, <1>12, <1>13, <1>15, <1>16, <1>17,
       <1>18, DeviceStep

(* The driver lists the device.                                            *)
LEMMA StepIoctlList ==
  ASSUME LibInv, NEW p \in Procs, IoctlList(p)
  PROVE  LibInv'
  <1> DEFINE i == proc[p].id
  <1> DEFINE r == [proc[p] EXCEPT !.pc = "copyout"]
             d == [dev[i] EXCEPT !.st = "listed"]
  <1>1. /\ TypeOK /\ DevInv /\ StrangerInv /\ ProcInv /\ UniqueInv /\ HandleInv
        /\ RemovedIsGone
        /\ CallInv(p) /\ IdInv(p) /\ TargetInv(p)
    BY DEF LibInv, ProcInv
  <1>2. proc[p].pc = "list" /\ i \in Ids /\ dev[i].st = "new"
    BY <1>1, FieldTypes, LibivcAssumption
    DEF IoctlList, List, Set, Goto, DevInv, IdInv, CallInv, TargetInv
  <1>3. r \in CallState
    BY <1>1, FieldTypes DEF CallState, Removal
  <1>4. d \in DevSet
    BY <1>1, <1>2, FieldTypes, LibivcAssumption DEF DevSet, Present
  <1>5. /\ proc' = [proc EXCEPT ![p] = r]
        /\ dev' = [dev EXCEPT ![i] = d]
        /\ UNCHANGED <<mgr, handles, stranger, removed, lost>>
    BY <1>1, FieldTypes DEF IoctlList, List, Set, Goto, TypeOK
  <1>6. /\ proc'[p] = r /\ dev'[i] = d
        /\ \A q \in Procs : q # p => proc'[q] = proc[q]
        /\ \A j \in Ids : j # i => dev'[j] = dev[j]
    BY <1>1, <1>2, <1>5 DEF TypeOK
  <1>7. /\ d.active => d.st \in {"new", "listed"}
        /\ d.st \in Present <=> d.ch # NoChannel
        /\ stranger = i => d.active
        /\ i \in removed => d.st = "gone"
        /\ d.st \in Present => dev[i].st \in Present \/ r.id = i
    BY <1>1, <1>2, FieldTypes, LibivcAssumption
    DEF DevInv, StrangerInv, RemovedIsGone, Present, DevSet, Idle, CallState
  <1>8. \A j \in Ids : Releasing(p, j) =>
           r.pc \in Removal /\ ~r.undo /\ r.id = j
    BY <1>1, <1>2, FieldTypes DEF Releasing, Removal, Idle, CallState
  <1>9. \A q \in Procs : \A j \in Ids : Releasing(q, j) => Releasing(q, j)'
    BY <1>6, <1>8 DEF Releasing
  <1>10. CallInv(p)'
    BY <1>1, <1>2, <1>5, <1>6, FieldTypes, LibivcAssumption
    DEF CallInv, Removal, Idle, CallState
  <1>11. TargetInv(p)'
    BY <1>1, <1>2, <1>6, FieldTypes, LibivcAssumption
    DEF TargetInv, Removal, Idle, CallState, DevSet
  <1>12. IdInv(p)'
    BY <1>1, <1>2, <1>6, FieldTypes, LibivcAssumption
    DEF IdInv, CallInv, TargetInv, Removal, Present, Idle, CallState, DevSet
  <1>13. \A q \in Procs : q # p => proc[q].target # i
    BY <1>1, <1>2, FieldTypes, LibivcAssumption
    DEF UniqueInv, ProcInv, TargetInv
  <1>14. \A q \in Procs : q # p => /\ proc[q].id = i => IdInv(q)'
                                  /\ proc[q].target # i
    <2>1. ASSUME NEW q \in Procs, q # p, proc[q].id = i
          PROVE  IdInv(q)'
      BY <1>1, <1>2, <1>6, <1>13, <2>1, FieldTypes, LibivcAssumption
      DEF UniqueInv, ProcInv, IdInv, TargetInv, Present, Removal, DevSet
    <2> QED
      BY <1>13, <2>1
  <1>15. \A q \in Procs : \A g \in handles[q] : g.id = i =>
           /\ d.st \notin {"none", "new"}
           /\ ~Releasing(q, g.id)' =>
                d.st = "listed" /\ d.ch = g.ch /\ d.active
    BY <1>1, <1>2, <1>9, FieldTypes DEF HandleInv, DevSet
  <1>16. /\ proc[p].id \in {NoId, r.id}
         /\ r.id # proc[p].id =>
              /\ \A q \in Procs : q # p => proc[q].id # r.id
              /\ \A q \in Procs : \A g \in handles[q] :
                   g.id = r.id => q = p /\ Releasing(p, g.id)'
         /\ r.target # proc[p].target =>
              \A q \in Procs : q # p /\ r.target # NoId => proc[q].target # r.target
    BY <1>1, <1>2, <1>6, <1>13, FieldTypes, LibivcAssumption
    DEF UniqueInv, HandleInv, ProcInv, IdInv, CallInv, Idle, CallState,
        Releasing, Removal
  <1>17. i \in Ids
    BY <1>2
  <1> HIDE DEF r, d, i
  <1> QED
    BY <1>3, <1>4, <1>5, <1>7, <1>8, <1>10, <1>11, <1>12, <1>14, <1>15, <1>16,
       <1>17, DeviceStep

(* A removal claims the device it found.                                   *)
LEMMA StepRemoveFind ==
  ASSUME LibInv, NEW p \in Procs, RemoveFind(p)
  PROVE  LibInv'
  <1>1. PICK i \in Ids :
         /\ dev[i].ch = proc[p].ch
         /\ Take(i)
         /\ proc' = [proc EXCEPT ![p].pc = "hypercall", ![p].target = i]
    BY DEF RemoveFind
  <1> DEFINE r == [proc[p] EXCEPT !.pc = "hypercall", !.target = i]
             d == [dev[i] EXCEPT !.st = "taken"]
  <1>2. /\ TypeOK /\ DevInv /\ StrangerInv /\ ProcInv /\ UniqueInv /\ HandleInv
        /\ RemovedIsGone
        /\ CallInv(p) /\ IdInv(p) /\ TargetInv(p)
    BY DEF LibInv, ProcInv
  <1>3. /\ proc[p].pc = "find"
        /\ dev[i].st = "listed" /\ ~dev[i].active /\ dev[i].ch = proc[p].ch
        /\ \A j \in Ids \ {i} :
             dev[j].ch = dev[i].ch => dev[j].st \notin {"listed", "taken", "leaving"}
    BY <1>1, <1>2, FieldTypes, LibivcAssumption
    DEF RemoveFind, Take, Removable, Set, DevInv, IdInv, CallInv, TargetInv
  <1>4. r \in CallState
    BY <1>2, FieldTypes DEF CallState, Removal
  <1>5. d \in DevSet
    BY <1>2, <1>3, FieldTypes, LibivcAssumption DEF DevSet, Present
  <1>6. /\ proc' = [proc EXCEPT ![p] = r]
        /\ dev' = [dev EXCEPT ![i] = d]
        /\ UNCHANGED <<mgr, handles, stranger, removed, lost>>
    BY <1>1, <1>2, FieldTypes DEF RemoveFind, Take, Removable, Set, TypeOK
  <1>7. /\ proc'[p] = r /\ dev'[i] = d
        /\ \A q \in Procs : q # p => proc'[q] = proc[q]
        /\ \A j \in Ids : j # i => dev'[j] = dev[j]
    BY <1>2, <1>3, <1>6 DEF TypeOK
  <1>8. /\ d.active => d.st \in {"new", "listed"}
        /\ d.st \in Present <=> d.ch # NoChannel
        /\ stranger = i => d.active
        /\ i \in removed => d.st = "gone"
        /\ d.st \in Present => dev[i].st \in Present \/ r.id = i
    BY <1>2, <1>3, FieldTypes, LibivcAssumption
    DEF DevInv, StrangerInv, RemovedIsGone, Present, DevSet, Idle, CallState
  <1>9. \A j \in Ids : Releasing(p, j) =>
           r.pc \in Removal /\ ~r.undo /\ r.id = j
    BY <1>2, <1>3, FieldTypes DEF Releasing, Removal, Idle, CallState
  <1>10. \A q \in Procs : \A j \in Ids : Releasing(q, j) => Releasing(q, j)'
    BY <1>7, <1>9 DEF Releasing
  <1>11. CallInv(p)'
    BY <1>2, <1>3, <1>6, <1>7, FieldTypes, LibivcAssumption
    DEF CallInv, Removal, Idle, CallState
  <1>12. TargetInv(p)'
    BY <1>2, <1>3, <1>7, FieldTypes, LibivcAssumption
    DEF TargetInv, Removal, Idle, CallState, DevSet
  <1>13. IdInv(p)'
    BY <1>2, <1>3, <1>7, FieldTypes, LibivcAssumption
    DEF IdInv, CallInv, TargetInv, Removal, Present, Idle, CallState, DevSet
  <1>14. \A q \in Procs : q # p => proc[q].target # i
    BY <1>2, <1>3, FieldTypes, LibivcAssumption
    DEF UniqueInv, ProcInv, TargetInv
  <1>15. \A q \in Procs : q # p => /\ proc[q].id = i => IdInv(q)'
                                  /\ proc[q].target # i
    <2>1. ASSUME NEW q \in Procs, q # p, proc[q].id = i
          PROVE  IdInv(q)'
      BY <1>2, <1>3, <1>7, <1>14, <2>1, FieldTypes, LibivcAssumption
      DEF UniqueInv, ProcInv, IdInv, TargetInv, Present, Removal, DevSet
    <2> QED
      BY <1>14, <2>1
  <1>16. \A q \in Procs : \A g \in handles[q] : g.id = i =>
           /\ d.st \notin {"none", "new"}
           /\ ~Releasing(q, g.id)' =>
                d.st = "listed" /\ d.ch = g.ch /\ d.active
    BY <1>2, <1>3, <1>10, FieldTypes DEF HandleInv, DevSet
  <1>17. /\ proc[p].id \in {NoId, r.id}
         /\ r.id # proc[p].id =>
              /\ \A q \in Procs : q # p => proc[q].id # r.id
              /\ \A q \in Procs : \A g \in handles[q] :
                   g.id = r.id => q = p /\ Releasing(p, g.id)'
         /\ r.target # proc[p].target =>
              \A q \in Procs : q # p /\ r.target # NoId => proc[q].target # r.target
    BY <1>2, <1>3, <1>7, <1>14, FieldTypes, LibivcAssumption
    DEF UniqueInv, HandleInv, ProcInv, IdInv, CallInv, Idle, CallState,
        Releasing, Removal
  <1>18. i \in Ids
    BY <1>3
  <1> HIDE DEF r, d
  <1> QED
    BY <1>4, <1>5, <1>6, <1>8, <1>9, <1>11, <1>12, <1>13, <1>15, <1>16, <1>17,
       <1>18, DeviceStep

(* The removal's hypercall gives the channel up.                           *)
LEMMA StepRemoveLeave ==
  ASSUME LibInv, NEW p \in Procs, RemoveLeave(p)
  PROVE  LibInv'
  <1> DEFINE i == proc[p].target
  <1> DEFINE r == [proc[p] EXCEPT !.pc = "drop"]
             d == [dev[i] EXCEPT !.st = "leaving"]
  <1>1. /\ TypeOK /\ DevInv /\ StrangerInv /\ ProcInv /\ UniqueInv /\ HandleInv
        /\ RemovedIsGone
        /\ CallInv(p) /\ IdInv(p) /\ TargetInv(p)
    BY DEF LibInv, ProcInv
  <1>2. proc[p].pc = "hypercall" /\ i \in Ids /\ dev[i].st = "taken" /\ ~dev[i].active
    BY <1>1, FieldTypes, LibivcAssumption
    DEF RemoveLeave, Leave, Set, Goto, DevInv, IdInv, CallInv, TargetInv
  <1>3. r \in CallState
    BY <1>1, FieldTypes DEF CallState, Removal
  <1>4. d \in DevSet
    BY <1>1, <1>2, FieldTypes, LibivcAssumption DEF DevSet, Present
  <1>5. /\ proc' = [proc EXCEPT ![p] = r]
        /\ dev' = [dev EXCEPT ![i] = d]
        /\ UNCHANGED <<mgr, handles, stranger, removed, lost>>
    BY <1>1, FieldTypes DEF RemoveLeave, Leave, Set, Goto, TypeOK
  <1>6. /\ proc'[p] = r /\ dev'[i] = d
        /\ \A q \in Procs : q # p => proc'[q] = proc[q]
        /\ \A j \in Ids : j # i => dev'[j] = dev[j]
    BY <1>1, <1>2, <1>5 DEF TypeOK
  <1>7. /\ d.active => d.st \in {"new", "listed"}
        /\ d.st \in Present <=> d.ch # NoChannel
        /\ stranger = i => d.active
        /\ i \in removed => d.st = "gone"
        /\ d.st \in Present => dev[i].st \in Present \/ r.id = i
    BY <1>1, <1>2, FieldTypes, LibivcAssumption
    DEF DevInv, StrangerInv, RemovedIsGone, Present, DevSet, Idle, CallState
  <1>8. \A j \in Ids : Releasing(p, j) =>
           r.pc \in Removal /\ ~r.undo /\ r.id = j
    BY <1>1, <1>2, FieldTypes DEF Releasing, Removal, Idle, CallState
  <1>9. \A q \in Procs : \A j \in Ids : Releasing(q, j) => Releasing(q, j)'
    BY <1>6, <1>8 DEF Releasing
  <1>10. CallInv(p)'
    BY <1>1, <1>2, <1>5, <1>6, FieldTypes, LibivcAssumption
    DEF CallInv, Removal, Idle, CallState
  <1>11. TargetInv(p)'
    BY <1>1, <1>2, <1>6, FieldTypes, LibivcAssumption
    DEF TargetInv, Removal, Idle, CallState, DevSet
  <1>12. IdInv(p)'
    BY <1>1, <1>2, <1>6, FieldTypes, LibivcAssumption
    DEF IdInv, CallInv, TargetInv, Removal, Present, Idle, CallState, DevSet
  <1>13. \A q \in Procs : q # p => proc[q].target # i
    BY <1>1, <1>2, FieldTypes, LibivcAssumption
    DEF UniqueInv, ProcInv, TargetInv
  <1>14. \A q \in Procs : q # p => /\ proc[q].id = i => IdInv(q)'
                                  /\ proc[q].target # i
    <2>1. ASSUME NEW q \in Procs, q # p, proc[q].id = i
          PROVE  IdInv(q)'
      BY <1>1, <1>2, <1>6, <1>13, <2>1, FieldTypes, LibivcAssumption
      DEF UniqueInv, ProcInv, IdInv, TargetInv, Present, Removal, DevSet
    <2> QED
      BY <1>13, <2>1
  <1>15. \A q \in Procs : \A g \in handles[q] : g.id = i =>
           /\ d.st \notin {"none", "new"}
           /\ ~Releasing(q, g.id)' =>
                d.st = "listed" /\ d.ch = g.ch /\ d.active
    BY <1>1, <1>2, <1>9, FieldTypes DEF HandleInv, DevSet
  <1>16. /\ proc[p].id \in {NoId, r.id}
         /\ r.id # proc[p].id =>
              /\ \A q \in Procs : q # p => proc[q].id # r.id
              /\ \A q \in Procs : \A g \in handles[q] :
                   g.id = r.id => q = p /\ Releasing(p, g.id)'
         /\ r.target # proc[p].target =>
              \A q \in Procs : q # p /\ r.target # NoId => proc[q].target # r.target
    BY <1>1, <1>2, <1>6, <1>13, FieldTypes, LibivcAssumption
    DEF UniqueInv, HandleInv, ProcInv, IdInv, CallInv, Idle, CallState,
        Releasing, Removal
  <1>17. i \in Ids
    BY <1>2
  <1> HIDE DEF r, d, i
  <1> QED
    BY <1>3, <1>4, <1>5, <1>7, <1>8, <1>10, <1>11, <1>12, <1>14, <1>15, <1>16,
       <1>17, DeviceStep

(* The hypercall fails and the device is given back.                       *)
LEMMA StepRemoveGiveBack ==
  ASSUME LibInv, NEW p \in Procs, RemoveGiveBack(p)
  PROVE  LibInv'
  <1> DEFINE i == proc[p].target
  <1> DEFINE r == [proc[p] EXCEPT !.pc = "done", !.target = NoId, !.failed = TRUE]
             d == [dev[i] EXCEPT !.st = "listed"]
  <1>1. /\ TypeOK /\ DevInv /\ StrangerInv /\ ProcInv /\ UniqueInv /\ HandleInv
        /\ RemovedIsGone
        /\ CallInv(p) /\ IdInv(p) /\ TargetInv(p)
    BY DEF LibInv, ProcInv
  <1>2. proc[p].pc = "hypercall" /\ i \in Ids /\ dev[i].st = "taken" /\ ~dev[i].active
    BY <1>1, FieldTypes, LibivcAssumption
    DEF RemoveGiveBack, GiveBack, Set, DevInv, IdInv, CallInv, TargetInv
  <1>3. r \in CallState
    BY <1>1, FieldTypes DEF CallState, Removal
  <1>4. d \in DevSet
    BY <1>1, <1>2, FieldTypes, LibivcAssumption DEF DevSet, Present
  <1>5. /\ proc' = [proc EXCEPT ![p] = r]
        /\ dev' = [dev EXCEPT ![i] = d]
        /\ UNCHANGED <<mgr, handles, stranger, removed, lost>>
    BY <1>1, FieldTypes DEF RemoveGiveBack, GiveBack, Set, TypeOK
  <1>6. /\ proc'[p] = r /\ dev'[i] = d
        /\ \A q \in Procs : q # p => proc'[q] = proc[q]
        /\ \A j \in Ids : j # i => dev'[j] = dev[j]
    BY <1>1, <1>2, <1>5 DEF TypeOK
  <1>7. /\ d.active => d.st \in {"new", "listed"}
        /\ d.st \in Present <=> d.ch # NoChannel
        /\ stranger = i => d.active
        /\ i \in removed => d.st = "gone"
        /\ d.st \in Present => dev[i].st \in Present \/ r.id = i
    BY <1>1, <1>2, FieldTypes, LibivcAssumption
    DEF DevInv, StrangerInv, RemovedIsGone, Present, DevSet, Idle, CallState
  <1>8. \A j \in Ids : Releasing(p, j) =>
           r.pc \in Removal /\ ~r.undo /\ r.id = j
    BY <1>1, <1>2, FieldTypes DEF Releasing, Removal, Idle, CallState
  <1>9. \A q \in Procs : \A j \in Ids : Releasing(q, j) => Releasing(q, j)'
    BY <1>6, <1>8 DEF Releasing
  <1>10. CallInv(p)'
    BY <1>1, <1>2, <1>5, <1>6, FieldTypes, LibivcAssumption
    DEF CallInv, Removal, Idle, CallState
  <1>11. TargetInv(p)'
    BY <1>1, <1>2, <1>6, FieldTypes, LibivcAssumption
    DEF TargetInv, Removal, Idle, CallState, DevSet
  <1>12. IdInv(p)'
    BY <1>1, <1>2, <1>6, FieldTypes, LibivcAssumption
    DEF IdInv, CallInv, TargetInv, Removal, Present, Idle, CallState, DevSet
  <1>13. \A q \in Procs : q # p => proc[q].target # i
    BY <1>1, <1>2, FieldTypes, LibivcAssumption
    DEF UniqueInv, ProcInv, TargetInv
  <1>14. \A q \in Procs : q # p => /\ proc[q].id = i => IdInv(q)'
                                  /\ proc[q].target # i
    <2>1. ASSUME NEW q \in Procs, q # p, proc[q].id = i
          PROVE  IdInv(q)'
      BY <1>1, <1>2, <1>6, <1>13, <2>1, FieldTypes, LibivcAssumption
      DEF UniqueInv, ProcInv, IdInv, TargetInv, Present, Removal, DevSet
    <2> QED
      BY <1>13, <2>1
  <1>15. \A q \in Procs : \A g \in handles[q] : g.id = i =>
           /\ d.st \notin {"none", "new"}
           /\ ~Releasing(q, g.id)' =>
                d.st = "listed" /\ d.ch = g.ch /\ d.active
    BY <1>1, <1>2, <1>9, FieldTypes DEF HandleInv, DevSet
  <1>16. /\ proc[p].id \in {NoId, r.id}
         /\ r.id # proc[p].id =>
              /\ \A q \in Procs : q # p => proc[q].id # r.id
              /\ \A q \in Procs : \A g \in handles[q] :
                   g.id = r.id => q = p /\ Releasing(p, g.id)'
         /\ r.target # proc[p].target =>
              \A q \in Procs : q # p /\ r.target # NoId => proc[q].target # r.target
    BY <1>1, <1>2, <1>6, <1>13, FieldTypes, LibivcAssumption
    DEF UniqueInv, HandleInv, ProcInv, IdInv, CallInv, Idle, CallState,
        Releasing, Removal
  <1>17. i \in Ids
    BY <1>2
  <1> HIDE DEF r, d, i
  <1> QED
    BY <1>3, <1>4, <1>5, <1>7, <1>8, <1>10, <1>11, <1>12, <1>14, <1>15, <1>16,
       <1>17, DeviceStep

(* The device is gone.                                                     *)
LEMMA StepRemoveDrop ==
  ASSUME LibInv, NEW p \in Procs, RemoveDrop(p)
  PROVE  LibInv'
  <1> DEFINE i == proc[p].target
  <1> DEFINE r == [proc[p] EXCEPT !.pc = "done", !.target = NoId]
             d == GoneDevice
  <1>1. /\ TypeOK /\ DevInv /\ StrangerInv /\ ProcInv /\ UniqueInv /\ HandleInv
        /\ RemovedIsGone
        /\ CallInv(p) /\ IdInv(p) /\ TargetInv(p)
    BY DEF LibInv, ProcInv
  <1>2. proc[p].pc = "drop" /\ i \in Ids /\ dev[i].st = "leaving" /\ ~dev[i].active
    BY <1>1, FieldTypes, LibivcAssumption
    DEF RemoveDrop, Drop, DevInv, IdInv, CallInv, TargetInv
  <1>3. r \in CallState
    BY <1>1, FieldTypes DEF CallState, Removal
  <1>4. d \in DevSet
    BY <1>1, <1>2, FieldTypes, LibivcAssumption, GoneFields DEF DevSet, Present
  <1>5. /\ proc' = [proc EXCEPT ![p] = r]
        /\ dev' = [dev EXCEPT ![i] = d]
        /\ UNCHANGED <<mgr, handles, stranger, removed, lost>>
    BY <1>1, FieldTypes DEF RemoveDrop, Drop, TypeOK
  <1>6. /\ proc'[p] = r /\ dev'[i] = d
        /\ \A q \in Procs : q # p => proc'[q] = proc[q]
        /\ \A j \in Ids : j # i => dev'[j] = dev[j]
    BY <1>1, <1>2, <1>5 DEF TypeOK
  <1>7. /\ d.active => d.st \in {"new", "listed"}
        /\ d.st \in Present <=> d.ch # NoChannel
        /\ stranger = i => d.active
        /\ i \in removed => d.st = "gone"
        /\ d.st \in Present => dev[i].st \in Present \/ r.id = i
    BY <1>1, <1>2, FieldTypes, LibivcAssumption, GoneFields
    DEF DevInv, StrangerInv, RemovedIsGone, Present, DevSet, Idle, CallState
  <1>8. \A j \in Ids : Releasing(p, j) =>
           r.pc \in Removal /\ ~r.undo /\ r.id = j
    BY <1>1, <1>2, FieldTypes DEF Releasing, Removal, Idle, CallState
  <1>9. \A q \in Procs : \A j \in Ids : Releasing(q, j) => Releasing(q, j)'
    BY <1>6, <1>8 DEF Releasing
  <1>10. CallInv(p)'
    BY <1>1, <1>2, <1>5, <1>6, FieldTypes, LibivcAssumption
    DEF CallInv, Removal, Idle, CallState
  <1>11. TargetInv(p)'
    BY <1>1, <1>2, <1>6, FieldTypes, LibivcAssumption, GoneFields
    DEF TargetInv, Removal, Idle, CallState, DevSet
  <1>12. IdInv(p)'
    BY <1>1, <1>2, <1>6, FieldTypes, LibivcAssumption, GoneFields
    DEF IdInv, CallInv, TargetInv, Removal, Present, Idle, CallState, DevSet
  <1>13. \A q \in Procs : q # p => proc[q].target # i
    BY <1>1, <1>2, FieldTypes, LibivcAssumption
    DEF UniqueInv, ProcInv, TargetInv
  <1>14. \A q \in Procs : q # p => /\ proc[q].id = i => IdInv(q)'
                                  /\ proc[q].target # i
    <2>1. ASSUME NEW q \in Procs, q # p, proc[q].id = i
          PROVE  IdInv(q)'
      BY <1>1, <1>2, <1>6, <1>13, <2>1, FieldTypes, LibivcAssumption,
         GoneFields
      DEF UniqueInv, ProcInv, IdInv, TargetInv, Present, Removal, DevSet
    <2> QED
      BY <1>13, <2>1
  <1>15. \A q \in Procs : \A g \in handles[q] : g.id = i =>
           /\ d.st \notin {"none", "new"}
           /\ ~Releasing(q, g.id)' =>
                d.st = "listed" /\ d.ch = g.ch /\ d.active
    BY <1>1, <1>2, <1>9, FieldTypes, GoneFields DEF HandleInv, DevSet
  <1>16. /\ proc[p].id \in {NoId, r.id}
         /\ r.id # proc[p].id =>
              /\ \A q \in Procs : q # p => proc[q].id # r.id
              /\ \A q \in Procs : \A g \in handles[q] :
                   g.id = r.id => q = p /\ Releasing(p, g.id)'
         /\ r.target # proc[p].target =>
              \A q \in Procs : q # p /\ r.target # NoId => proc[q].target # r.target
    BY <1>1, <1>2, <1>6, <1>13, FieldTypes, LibivcAssumption
    DEF UniqueInv, HandleInv, ProcInv, IdInv, CallInv, Idle, CallState,
        Releasing, Removal
  <1>17. i \in Ids
    BY <1>2
  <1> HIDE DEF r, d, i
  <1> QED
    BY <1>3, <1>4, <1>5, <1>7, <1>8, <1>10, <1>11, <1>12, <1>14, <1>15, <1>16,
       <1>17, DeviceStep

(* close of the device file, which ends ivc_unpublish's first half.        *)
LEMMA StepDetach ==
  ASSUME LibInv, NEW p \in Procs, NEW h \in handles[p], NEW e \in BOOLEAN, Detach(p, h, e)
  PROVE  LibInv'
  <1> DEFINE i == h.id
  <1> DEFINE r == [Idle EXCEPT !.pc = "find", !.ch = h.ch, !.id = h.id, !.failed = e]
             d == [dev[i] EXCEPT !.active = FALSE]
  <1>1. /\ TypeOK /\ DevInv /\ StrangerInv /\ ProcInv /\ UniqueInv /\ HandleInv
        /\ RemovedIsGone
        /\ CallInv(p) /\ IdInv(p) /\ TargetInv(p)
    BY DEF LibInv, ProcInv
  <1>2. /\ proc[p].pc = "idle" /\ i \in Ids /\ dev[i].st = "listed"
        /\ dev[i].ch = h.ch /\ dev[i].active /\ stranger # i /\ h.ch \in Channels
    BY <1>1, FieldTypes, LibivcAssumption
    DEF Detach, CloseDevice, DevInv, IdInv, CallInv, TargetInv, StrangerInv,
        HandleInv, Releasing, Removal
  <1>3. r \in CallState
    BY <1>1, FieldTypes DEF CallState, Removal, Idle
  <1>4. d \in DevSet
    BY <1>1, <1>2, FieldTypes, LibivcAssumption DEF DevSet, Present
  <1>5. /\ proc' = [proc EXCEPT ![p] = r]
        /\ dev' = [dev EXCEPT ![i] = d]
        /\ UNCHANGED <<mgr, handles, stranger, removed, lost>>
    BY <1>1, FieldTypes DEF Detach, CloseDevice, TypeOK
  <1>6. /\ proc'[p] = r /\ dev'[i] = d
        /\ \A q \in Procs : q # p => proc'[q] = proc[q]
        /\ \A j \in Ids : j # i => dev'[j] = dev[j]
    BY <1>1, <1>2, <1>5 DEF TypeOK
  <1>7. /\ d.active => d.st \in {"new", "listed"}
        /\ d.st \in Present <=> d.ch # NoChannel
        /\ stranger = i => d.active
        /\ i \in removed => d.st = "gone"
        /\ d.st \in Present => dev[i].st \in Present \/ r.id = i
    BY <1>1, <1>2, FieldTypes, LibivcAssumption
    DEF DevInv, StrangerInv, RemovedIsGone, Present, DevSet, Idle, CallState
  <1>8. \A j \in Ids : Releasing(p, j) =>
           r.pc \in Removal /\ ~r.undo /\ r.id = j
    BY <1>1, <1>2, FieldTypes DEF Releasing, Removal, Idle, CallState
  <1>9. \A q \in Procs : \A j \in Ids : Releasing(q, j) => Releasing(q, j)'
    BY <1>6, <1>8 DEF Releasing
  <1>10. CallInv(p)'
    BY <1>1, <1>2, <1>5, <1>6, FieldTypes, LibivcAssumption
    DEF CallInv, Removal, Idle, CallState
  <1>11. TargetInv(p)'
    BY <1>1, <1>2, <1>6, FieldTypes, LibivcAssumption
    DEF TargetInv, Removal, Idle, CallState, DevSet
  <1>12. IdInv(p)'
    BY <1>1, <1>2, <1>6, FieldTypes, LibivcAssumption
    DEF IdInv, CallInv, TargetInv, Removal, Present, Idle, CallState, DevSet
  <1>13. \A q \in Procs : q # p => proc[q].target # i
    BY <1>1, <1>2, FieldTypes, LibivcAssumption
    DEF UniqueInv, ProcInv, TargetInv
  <1>14. \A q \in Procs : q # p => /\ proc[q].id = i => IdInv(q)'
                                  /\ proc[q].target # i
    <2>1. ASSUME NEW q \in Procs, q # p, proc[q].id = i
          PROVE  IdInv(q)'
      BY <1>1, <1>2, <1>6, <1>13, <2>1, FieldTypes, LibivcAssumption
      DEF UniqueInv, ProcInv, IdInv, TargetInv, Present, Removal, DevSet
    <2> QED
      BY <1>13, <2>1
  <1>15. \A q \in Procs : \A g \in handles[q] : g.id = i =>
           /\ d.st \notin {"none", "new"}
           /\ ~Releasing(q, g.id)' =>
                d.st = "listed" /\ d.ch = g.ch /\ d.active
    <2>1. Releasing(p, h.id)'
      BY <1>6 DEF Releasing, Removal, Idle
    <2> QED
      BY <1>1, <1>2, <2>1, FieldTypes DEF HandleInv, DevSet
  <1>16. /\ proc[p].id \in {NoId, r.id}
         /\ r.id # proc[p].id =>
              /\ \A q \in Procs : q # p => proc[q].id # r.id
              /\ \A q \in Procs : \A g \in handles[q] :
                   g.id = r.id => q = p /\ Releasing(p, g.id)'
         /\ r.target # proc[p].target =>
              \A q \in Procs : q # p /\ r.target # NoId => proc[q].target # r.target
    BY <1>1, <1>2, <1>6, <1>13, FieldTypes, LibivcAssumption
    DEF UniqueInv, HandleInv, ProcInv, IdInv, CallInv, Idle, CallState,
        Releasing, Removal
  <1>17. i \in Ids
    BY <1>2
  <1> HIDE DEF r, d, i
  <1> QED
    BY <1>3, <1>4, <1>5, <1>7, <1>8, <1>10, <1>11, <1>12, <1>14, <1>15, <1>16,
       <1>17, DeviceStep

-----------------------------------------------------------------------------
(* The manager.                                                            *)

(* ivc_open_manager and ivc_close_manager.                                 *)
LEMMA StepManager ==
  ASSUME LibInv, NEW p \in Procs, ivc_open_manager(p) \/ ivc_close_manager(p)
  PROVE  LibInv'
  <1>1. /\ TypeOK /\ DevInv /\ StrangerInv /\ ProcInv /\ UniqueInv /\ HandleInv
        /\ ManagerInv /\ RemovedIsGone /\ OwnedInv
    BY DEF LibInv
  <1>2. UNCHANGED <<dev, handles, proc, stranger, removed, lost>>
    BY DEF ivc_open_manager, ivc_close_manager
  <1>3. handles[p] = {} /\ proc[p].pc = "idle"
    <2>1. IsFiniteSet(handles[p])
      BY <1>1 DEF ManagerInv
    <2>2. ivc_open_manager(p) => handles[p] = {}
      BY <1>1 DEF ManagerInv, ivc_open_manager
    <2>3. ivc_close_manager(p) => Cardinality(handles[p]) = 0
      BY <1>1 DEF ManagerInv, ivc_close_manager
    <2> QED
      BY <2>1, <2>2, <2>3, FS_EmptySet DEF ivc_open_manager, ivc_close_manager
  <1>4. /\ mgr' \in [Procs -> Manager]
        /\ mgr'[p].active_endpoints = 0
        /\ \A q \in Procs : q # p => mgr'[q] = mgr[q]
    <2>1. CASE ivc_open_manager(p)
      <3>1. [open |-> TRUE, active_endpoints |-> 0] \in Manager
        BY DEF Manager
      <3> QED
        BY <1>1, <2>1, <3>1 DEF TypeOK, ivc_open_manager
    <2>2. CASE ivc_close_manager(p)
      <3>1. [mgr[p] EXCEPT !.open = FALSE] \in Manager
        BY <1>1 DEF TypeOK, Manager
      <3>2. mgr' = [mgr EXCEPT ![p] = [mgr[p] EXCEPT !.open = FALSE]]
        BY <2>2 DEF ivc_close_manager
      <3>3. mgr[p] \in Manager /\ mgr[p].active_endpoints = 0
        BY <1>1, <2>2 DEF TypeOK, ivc_close_manager
      <3>4. mgr' \in [Procs -> Manager] /\ \A q \in Procs : q # p => mgr'[q] = mgr[q]
        BY <1>1, <3>1, <3>2 DEF TypeOK
      <3>5. mgr'[p].active_endpoints = 0
        BY <1>1, <3>2, <3>3 DEF TypeOK, Manager
      <3> QED
        BY <3>4, <3>5
    <2> QED
      BY <2>1, <2>2
  <1>5. TypeOK'
    BY <1>1, <1>2, <1>4 DEF TypeOK
  <1>6. DevInv' /\ StrangerInv' /\ UniqueInv' /\ RemovedIsGone' /\ OwnedInv'
    BY <1>1, <1>2
    DEF DevInv, StrangerInv, UniqueInv, RemovedIsGone, OwnedInv, Releasing
  <1>7. HandleInv'
    BY <1>1, <1>2 DEF HandleInv, Releasing
  <1>8. ManagerInv'
    BY <1>1, <1>2, <1>3, <1>4, FS_EmptySet DEF ManagerInv
  <1>9. ProcInv'
    BY <1>1, <1>2, <1>3, <1>4 DEF ProcInv, CallInv, IdInv, TargetInv
  <1> QED
    BY <1>5, <1>6, <1>7, <1>8, <1>9 DEF LibInv

-----------------------------------------------------------------------------
(* Handles.                                                                *)

(* open of the device succeeds: the caller has its handle.                 *)
LEMMA StepOpenEndpoint ==
  ASSUME LibInv, NEW p \in Procs, OpenEndpoint(p)
  PROVE  LibInv'
  <1> DEFINE i == proc[p].id
             n == [ch |-> proc[p].ch, id |-> proc[p].id]
             d == [dev[i] EXCEPT !.active = TRUE]
  <1>1. /\ TypeOK /\ DevInv /\ StrangerInv /\ ProcInv /\ UniqueInv /\ HandleInv
        /\ ManagerInv /\ RemovedIsGone /\ OwnedInv
        /\ CallInv(p) /\ IdInv(p) /\ TargetInv(p)
    BY DEF LibInv, ProcInv
  <1>2. /\ proc[p].pc = "open" /\ i \in Ids /\ ~dev[i].active
        /\ dev[i].st = "listed" /\ dev[i].ch = proc[p].ch
        /\ proc[p].ch \in Channels /\ mgr[p].open /\ proc[p].target = NoId
    BY <1>1, FieldTypes
    DEF OpenEndpoint, OpenDevice, Openable, CallInv, IdInv, TargetInv, Present
  <1>3. n \in Handle /\ d \in DevSet /\ Idle \in CallState
    <2>1. n \in Handle
      BY <1>2 DEF Handle
    <2>2. d \in DevSet
      BY <1>1, <1>2, FieldTypes DEF DevSet
    <2> QED
      BY <2>1, <2>2, IdleType
  <1>4. /\ proc' = [proc EXCEPT ![p] = Idle]
        /\ dev' = [dev EXCEPT ![i] = d]
        /\ handles' = [handles EXCEPT ![p] = handles[p] \cup {n}]
        /\ mgr' = [mgr EXCEPT ![p].active_endpoints = @ + 1]
        /\ UNCHANGED <<stranger, removed, lost>>
    BY DEF OpenEndpoint, OpenDevice
  <1>5. /\ proc'[p] = Idle
        /\ \A q \in Procs : q # p => proc'[q] = proc[q]
        /\ dev'[i] = d /\ \A j \in Ids : j # i => dev'[j] = dev[j]
        /\ handles'[p] = handles[p] \cup {n}
        /\ \A q \in Procs : q # p => handles'[q] = handles[q]
    BY <1>1, <1>2, <1>4 DEF TypeOK
  <1>6. /\ d.st = "listed" /\ d.ch = proc[p].ch /\ d.active
        /\ n.id = i /\ n.ch = proc[p].ch
    BY <1>1, <1>2, FieldTypes DEF DevSet
  <1>7. /\ mgr' \in [Procs -> Manager]
        /\ mgr'[p].active_endpoints = mgr[p].active_endpoints + 1
        /\ mgr'[p].open
        /\ \A q \in Procs : q # p => mgr'[q] = mgr[q]
    <2>1. mgr[p] \in Manager
      BY <1>1 DEF TypeOK
    <2>2. [mgr[p] EXCEPT !.active_endpoints = @ + 1] \in Manager
      BY <2>1 DEF Manager
    <2>3. mgr' = [mgr EXCEPT ![p] = [mgr[p] EXCEPT !.active_endpoints = @ + 1]]
      BY <1>4
    <2>4. mgr' \in [Procs -> Manager] /\ \A q \in Procs : q # p => mgr'[q] = mgr[q]
      BY <1>1, <2>2, <2>3 DEF TypeOK
    <2> QED
      BY <1>1, <1>2, <2>1, <2>3, <2>4 DEF TypeOK, Manager
  <1> HIDE DEF n, d, i
  <1>8. TypeOK'
    <2>1. handles[p] \cup {n} \in SUBSET Handle
      BY <1>1, <1>3 DEF TypeOK
    <2> QED
      BY <1>1, <1>3, <1>4, <1>7, <2>1 DEF TypeOK
  <1>9. \A q \in Procs, j \in Ids : Releasing(q, j)' <=> Releasing(q, j)
    BY <1>2, <1>5 DEF Releasing, Idle, Removal
  <1>10. \A q \in Procs : \A h \in handles[q] : h.id # i
    BY <1>1, <1>2 DEF UniqueInv, Releasing, Removal, i
  <1>11. DevInv'
    BY <1>1, <1>2, <1>5, <1>6, LibivcAssumption DEF DevInv, Present
  <1>12. StrangerInv'
    <2>1. stranger # NoId => stranger # i
      BY <1>1, <1>2 DEF StrangerInv
    <2> QED
      BY <1>1, <1>4, <1>5, <1>6, <1>9, <2>1, FieldTypes DEF StrangerInv, TypeOK
  <1>13. ManagerInv'
    <2>1. n \notin handles[p]
      BY <1>6, <1>10
    <2>2. IsFiniteSet(handles'[p]) /\ Cardinality(handles'[p]) = Cardinality(handles[p]) + 1
      <3>1. IsFiniteSet(handles[p])
        BY <1>1 DEF ManagerInv
      <3>2. /\ IsFiniteSet(handles[p] \cup {n})
            /\ Cardinality(handles[p] \cup {n}) = Cardinality(handles[p]) + 1
        BY <2>1, <3>1, FS_AddElement
      <3> QED
        BY <1>5, <3>2
    <2> QED
      BY <1>1, <1>5, <1>7, <2>2 DEF ManagerInv
  <1>14. RemovedIsGone'
    BY <1>1, <1>2, <1>4, <1>5 DEF RemovedIsGone, TypeOK
  <1>15. ProcInv'
    <2>1. CallInv(p)' /\ IdInv(p)' /\ TargetInv(p)'
      BY <1>5, LibivcAssumption DEF CallInv, IdInv, TargetInv, Idle, Removal
    <2>2. ASSUME NEW q \in Procs, q # p
          PROVE  CallInv(q)' /\ IdInv(q)' /\ TargetInv(q)'
      <3>1. CallInv(q) /\ IdInv(q) /\ TargetInv(q) /\ proc'[q] = proc[q]
            /\ handles'[q] = handles[q] /\ mgr'[q] = mgr[q] /\ proc[q].id # i
        BY <1>1, <1>2, <1>5, <1>7, <2>2, LibivcAssumption
        DEF ProcInv, UniqueInv, i
      <3>2. \A j \in Ids : dev'[j].st = dev[j].st /\ dev'[j].ch = dev[j].ch
        BY <1>2, <1>5, <1>6
      <3> QED
        BY <1>1, <3>1, <3>2, FieldTypes DEF CallInv, IdInv, TargetInv
    <2> QED
      BY <2>1, <2>2 DEF ProcInv
  <1>16. UniqueInv'
    <2>1. \A q, q2 \in Procs :
            /\ proc'[q].target = proc'[q2].target
                 => q = q2 \/ proc'[q].target = NoId
            /\ proc'[q].id = proc'[q2].id => q = q2 \/ proc'[q].id = NoId
      BY <1>1, <1>5 DEF UniqueInv, Idle
    <2>2. ASSUME NEW q \in Procs, NEW q2 \in Procs, NEW h \in handles'[q2],
                 proc'[q].id = h.id
          PROVE  q = q2 /\ Releasing(q, h.id)'
      <3>1. h.id \in Ids
        BY <1>1, <1>2, <1>5, <1>6, FieldTypes
      <3>2. q # p /\ proc[q].id = h.id
        BY <1>5, <2>2, <3>1, LibivcAssumption DEF Idle
      <3>3. h.id # i
        BY <1>1, <1>2, <3>2, LibivcAssumption DEF UniqueInv, i
      <3>4. h \in handles[q2]
        BY <1>5, <1>6, <3>3
      <3> QED
        BY <1>1, <1>9, <3>1, <3>2, <3>4 DEF UniqueInv
    <2> QED
      BY <2>1, <2>2 DEF UniqueInv
  <1>17. HandleInv'
    <2>1. ASSUME NEW q \in Procs, NEW h \in handles'[q]
          PROVE  /\ dev'[h.id].st \notin {"none", "new"}
                 /\ ~Releasing(q, h.id)' =>
                      /\ dev'[h.id].st = "listed" /\ dev'[h.id].ch = h.ch
                      /\ dev'[h.id].active
      <3>1. CASE h \in handles[q]
        BY <1>1, <1>5, <1>9, <1>10, <3>1, FieldTypes DEF HandleInv
      <3>2. CASE h \notin handles[q]
        <4>1. q = p /\ h = n
          BY <1>5, <2>1, <3>2
        <4> QED
          BY <1>5, <1>6, <4>1
      <3> QED
        BY <3>1, <3>2
    <2>2. ASSUME NEW q \in Procs, NEW h \in handles'[q],
                 NEW q2 \in Procs, NEW g \in handles'[q2], g.id = h.id
          PROVE  q2 = q /\ g = h
      <3>1. h \in handles[q] \/ (q = p /\ h = n)
        BY <1>5
      <3>2. g \in handles[q2] \/ (q2 = p /\ g = n)
        BY <1>5
      <3> QED
        BY <1>1, <1>6, <1>10, <2>2, <3>1, <3>2 DEF HandleInv
    <2> QED
      BY <2>1, <2>2 DEF HandleInv
  <1>18. OwnedInv'
    <2>1. ASSUME NEW j \in Ids \ lost, dev'[j].st \in Present
          PROVE  \E q \in Procs : proc'[q].id = j \/ \E h \in handles'[q] : h.id = j
      <3>1. CASE j = i
        BY <1>5, <1>6, <3>1
      <3>2. CASE j # i
        <4>1. dev[j].st \in Present
          BY <1>5, <2>1, <3>2
        <4>2. PICK q \in Procs : proc[q].id = j \/ \E h \in handles[q] : h.id = j
          BY <1>1, <4>1 DEF OwnedInv
        <4> QED
          BY <1>5, <3>2, <4>2 DEF i
      <3> QED
        BY <3>1, <3>2
    <2> QED
      BY <1>4, <2>1 DEF OwnedInv
  <1> QED
    BY <1>8, <1>11, <1>12, <1>13, <1>14, <1>15, <1>16, <1>17, <1>18 DEF LibInv

(* The endpoint is freed and released, whatever failed before.             *)
LEMMA StepConsume ==
  ASSUME LibInv, NEW p \in Procs, Consume(p)
  PROVE  LibInv'
  <1> DEFINE i == proc[p].id
  <1>1. /\ TypeOK /\ DevInv /\ StrangerInv /\ ProcInv /\ UniqueInv /\ HandleInv
        /\ ManagerInv /\ RemovedIsGone /\ OwnedInv
        /\ CallInv(p) /\ IdInv(p) /\ TargetInv(p)
    BY DEF LibInv, ProcInv
  <1>2. proc[p].pc = "done" /\ ~proc[p].undo
    BY DEF Consume
  <1>3. PICK k \in handles[p] : k.id = i
    BY <1>1, <1>2 DEF CallInv, Removal
  <1>4. i \in Ids /\ i # NoId /\ ~proc[p].failed => dev[i].st = "gone"
    BY <1>1, <1>2 DEF IdInv
  <1>5. i \in Ids /\ i # NoId
    BY <1>1, <1>3, FieldTypes, LibivcAssumption
  <1>6. {h \in handles[p] : h.id # proc[p].id} = handles[p] \ {k}
    BY <1>1, <1>3 DEF HandleInv
  <1>7. /\ proc' = [proc EXCEPT ![p] = Idle]
        /\ handles' = [handles EXCEPT ![p] = handles[p] \ {k}]
        /\ removed' = IF proc[p].failed THEN removed ELSE removed \cup {i}
        /\ lost' = IF proc[p].failed THEN lost \cup {i} ELSE lost
        /\ UNCHANGED <<dev, stranger>>
    BY <1>6 DEF Consume
  <1>8. /\ proc'[p] = Idle
        /\ \A q \in Procs : q # p => proc'[q] = proc[q]
        /\ handles'[p] = handles[p] \ {k}
        /\ \A q \in Procs : q # p => handles'[q] = handles[q]
    BY <1>1, <1>7 DEF TypeOK
  <1>9. /\ IsFiniteSet(handles'[p])
        /\ Cardinality(handles'[p]) = Cardinality(handles[p]) - 1
        /\ Cardinality(handles[p]) \in Nat /\ Cardinality(handles[p]) # 0
        /\ mgr[p].open
    <2>1. IsFiniteSet(handles[p]) /\ mgr[p].open
      BY <1>1, <1>3 DEF ManagerInv
    <2>2. Cardinality(handles[p]) \in Nat /\ Cardinality(handles[p]) # 0
      BY <1>3, <2>1, FS_CardinalityType, FS_EmptySet
    <2>3. /\ IsFiniteSet(handles[p] \ {k})
          /\ Cardinality(handles[p] \ {k}) = Cardinality(handles[p]) - 1
      BY <1>3, <2>1, FS_RemoveElement
    <2> QED
      BY <1>8, <2>1, <2>2, <2>3
  <1>10. /\ mgr' \in [Procs -> Manager]
         /\ mgr'[p].active_endpoints = mgr[p].active_endpoints - 1
         /\ mgr'[p].open
         /\ \A q \in Procs : q # p => mgr'[q] = mgr[q]
    <2>1. mgr[p] \in Manager /\ mgr[p].active_endpoints # 0
      BY <1>1, <1>9 DEF TypeOK, ManagerInv
    <2>2. mgr' = [mgr EXCEPT ![p] = [mgr[p] EXCEPT !.active_endpoints = @ - 1]]
      BY <2>1 DEF Consume, ivc_manager_release_endpoint
    <2>3. [mgr[p] EXCEPT !.active_endpoints = @ - 1] \in Manager
      BY <2>1 DEF Manager
    <2>4. mgr' \in [Procs -> Manager] /\ \A q \in Procs : q # p => mgr'[q] = mgr[q]
      BY <1>1, <2>2, <2>3 DEF TypeOK
    <2> QED
      BY <1>1, <1>9, <2>1, <2>2, <2>4 DEF TypeOK, Manager
  <1>11. TypeOK'
    BY <1>1, <1>5, <1>7, <1>10, IdleType DEF TypeOK
  <1>12. \A q \in Procs, j \in Ids :
           Releasing(q, j) => Releasing(q, j)' \/ (q = p /\ j = i)
    BY <1>8 DEF Releasing
  <1>13. \A q \in Procs : \A h \in handles'[q] : h \in handles[q] /\ h.id # i
    BY <1>1, <1>3, <1>8 DEF HandleInv
  <1>14. DevInv'
    BY <1>1, <1>7 DEF DevInv
  <1>15. StrangerInv'
    BY <1>1, <1>7, <1>12, <1>13, FieldTypes DEF StrangerInv
  <1>16. ManagerInv'
    BY <1>1, <1>8, <1>9, <1>10 DEF ManagerInv
  <1>17. RemovedIsGone'
    BY <1>1, <1>4, <1>5, <1>7 DEF RemovedIsGone
  <1>18. ProcInv'
    <2>1. CallInv(p)' /\ IdInv(p)' /\ TargetInv(p)'
      BY <1>8, LibivcAssumption DEF CallInv, IdInv, TargetInv, Idle, Removal
    <2>2. ASSUME NEW q \in Procs, q # p
          PROVE  CallInv(q)' /\ IdInv(q)' /\ TargetInv(q)'
      BY <1>1, <1>7, <1>8, <1>10, <2>2 DEF ProcInv, CallInv, IdInv, TargetInv
    <2> QED
      BY <2>1, <2>2 DEF ProcInv
  <1>19. UniqueInv'
    <2>1. \A q, q2 \in Procs :
            /\ proc'[q].target = proc'[q2].target
                 => q = q2 \/ proc'[q].target = NoId
            /\ proc'[q].id = proc'[q2].id => q = q2 \/ proc'[q].id = NoId
      BY <1>1, <1>8 DEF UniqueInv, Idle
    <2>2. ASSUME NEW q \in Procs, NEW q2 \in Procs, NEW h \in handles'[q2],
                 proc'[q].id = h.id
          PROVE  q = q2 /\ Releasing(q, h.id)'
      <3>1. h \in handles[q2] /\ h.id \in Ids /\ h.id # i
        BY <1>1, <1>13, FieldTypes
      <3>2. q # p /\ proc[q].id = h.id
        BY <1>8, <2>2, <3>1, LibivcAssumption DEF Idle
      <3> QED
        BY <1>1, <1>12, <3>1, <3>2 DEF UniqueInv
    <2> QED
      BY <2>1, <2>2 DEF UniqueInv
  <1>20. HandleInv'
    <2>1. \A q \in Procs : \A h \in handles'[q] :
            /\ dev[h.id].st \notin {"none", "new"}
            /\ ~Releasing(q, h.id)' =>
                 dev[h.id].st = "listed" /\ dev[h.id].ch = h.ch /\ dev[h.id].active
      BY <1>1, <1>12, <1>13, FieldTypes DEF HandleInv
    <2>2. \A q, q2 \in Procs : \A h \in handles'[q], g \in handles'[q2] :
            g.id = h.id => q2 = q /\ g = h
      BY <1>1, <1>13 DEF HandleInv
    <2> QED
      BY <1>7, <2>1, <2>2 DEF HandleInv
  <1>21. OwnedInv'
    <2>1. ASSUME NEW j \in Ids \ lost', dev[j].st \in Present
          PROVE  \E q \in Procs : proc'[q].id = j \/ \E h \in handles'[q] : h.id = j
      <3>1. j # i /\ j \notin lost
        BY <1>4, <1>5, <1>7, <2>1 DEF Present
      <3>2. PICK q \in Procs : proc[q].id = j \/ \E h \in handles[q] : h.id = j
        BY <1>1, <2>1, <3>1 DEF OwnedInv
      <3> QED
        BY <1>3, <1>8, <3>1, <3>2
    <2> QED
      BY <1>7, <2>1 DEF OwnedInv
  <1> QED
    BY <1>11, <1>14, <1>15, <1>16, <1>17, <1>18, <1>19, <1>20, <1>21 DEF LibInv

(* A program is killed: the kernel closes its files, the devices stay.     *)
LEMMA StepKill ==
  ASSUME LibInv, NEW p \in Procs, Kill(p)
  PROVE  LibInv'
  <1> DEFINE closed == {h.id : h \in handles[p]} \ {i \in Ids : Releasing(p, i)}
  <1>1. /\ TypeOK /\ DevInv /\ StrangerInv /\ ProcInv /\ UniqueInv /\ HandleInv
        /\ ManagerInv /\ RemovedIsGone /\ OwnedInv
        /\ CallInv(p) /\ IdInv(p) /\ TargetInv(p)
    BY DEF LibInv, ProcInv
  <1>2. proc[p].target = NoId
    BY <1>1 DEF Kill, TargetInv
  <1>3. /\ proc' = [proc EXCEPT ![p] = Idle]
        /\ handles' = [handles EXCEPT ![p] = {}]
        /\ mgr' = [mgr EXCEPT ![p] = [open |-> FALSE, active_endpoints |-> 0]]
        /\ lost' = lost \cup closed \cup ({proc[p].id} \ {NoId})
        /\ dev' = [i \in Ids |-> IF i \in closed
                                 THEN [dev[i] EXCEPT !.active = FALSE]
                                 ELSE dev[i]]
        /\ UNCHANGED <<stranger, removed>>
    BY DEF Kill
  <1>4. /\ proc'[p] = Idle
        /\ \A q \in Procs : q # p => proc'[q] = proc[q]
        /\ handles'[p] = {}
        /\ \A q \in Procs : q # p => handles'[q] = handles[q]
        /\ mgr'[p] = [open |-> FALSE, active_endpoints |-> 0]
        /\ \A q \in Procs : q # p => mgr'[q] = mgr[q]
    BY <1>1, <1>3 DEF TypeOK
  <1>5. closed \subseteq Ids
    BY <1>1, FieldTypes
  <1>6. \A h \in handles[p] : h.id \in closed \/ Releasing(p, h.id)
    OBVIOUS
  <1>7. \A j \in closed : ~Releasing(p, j) /\ \E h \in handles[p] : h.id = j
    BY <1>5
  <1> HIDE DEF closed
  <1>8. \A j \in Ids : /\ dev'[j] \in DevSet
                       /\ dev'[j].st = dev[j].st /\ dev'[j].ch = dev[j].ch
                       /\ dev'[j].active => dev[j].active
                       /\ j \notin closed => dev'[j] = dev[j]
    <2>1. ASSUME NEW j \in Ids, j \in closed
          PROVE  /\ dev'[j] \in DevSet
                 /\ dev'[j].st = dev[j].st /\ dev'[j].ch = dev[j].ch
                 /\ ~dev'[j].active
      <3>1. dev'[j] = [dev[j] EXCEPT !.active = FALSE]
        BY <1>3, <2>1
      <3>2. dev[j] \in DevSet
        BY <1>1, FieldTypes
      <3> QED
        BY <3>1, <3>2 DEF DevSet
    <2>2. ASSUME NEW j \in Ids, j \notin closed
          PROVE  dev'[j] = dev[j] /\ dev[j] \in DevSet
      BY <1>1, <1>3, <2>2, FieldTypes
    <2> QED
      BY <2>1, <2>2
  <1>9. TypeOK'
    <2>1. [open |-> FALSE, active_endpoints |-> 0] \in Manager
      BY DEF Manager
    <2>2. mgr' \in [Procs -> Manager] /\ proc' \in [Procs -> CallState]
      BY <1>1, <1>3, <2>1, IdleType DEF TypeOK
    <2>3. handles' \in [Procs -> SUBSET Handle]
      BY <1>1, <1>3 DEF TypeOK
    <2>4. dev' \in [Ids -> DevSet]
      BY <1>3, <1>8
    <2>5. lost' \subseteq Ids
      BY <1>1, <1>3, <1>5, FieldTypes DEF TypeOK
    <2> QED
      BY <1>1, <1>3, <2>2, <2>3, <2>4, <2>5 DEF TypeOK
  <1>10. \A q \in Procs, j \in Ids : q # p => (Releasing(q, j)' <=> Releasing(q, j))
    BY <1>4 DEF Releasing
  <1>11. DevInv'
    BY <1>1, <1>8 DEF DevInv
  <1>12. StrangerInv'
    <2>1. stranger # NoId => stranger \in Ids /\ stranger \notin closed
      BY <1>1, <1>7 DEF StrangerInv, TypeOK
    <2> QED
      BY <1>1, <1>3, <1>4, <1>8, <1>10, <2>1, FieldTypes DEF StrangerInv
  <1>13. ManagerInv'
    <2>1. mgr'[p].active_endpoints = 0
      BY <1>4
    <2> QED
      BY <1>1, <1>4, <2>1, FS_EmptySet DEF ManagerInv
  <1>14. RemovedIsGone'
    BY <1>1, <1>3, <1>8 DEF RemovedIsGone, TypeOK
  <1>15. ProcInv'
    <2>1. CallInv(p)' /\ IdInv(p)' /\ TargetInv(p)'
      BY <1>4, LibivcAssumption DEF CallInv, IdInv, TargetInv, Idle, Removal
    <2>2. ASSUME NEW q \in Procs, q # p
          PROVE  CallInv(q)' /\ IdInv(q)' /\ TargetInv(q)'
      BY <1>1, <1>4, <1>8, <2>2, FieldTypes
      DEF ProcInv, CallInv, IdInv, TargetInv
    <2> QED
      BY <2>1, <2>2 DEF ProcInv
  <1>16. UniqueInv'
    <2>1. \A q, q2 \in Procs :
            /\ proc'[q].target = proc'[q2].target
                 => q = q2 \/ proc'[q].target = NoId
            /\ proc'[q].id = proc'[q2].id => q = q2 \/ proc'[q].id = NoId
      BY <1>1, <1>4 DEF UniqueInv, Idle
    <2>2. ASSUME NEW q \in Procs, NEW q2 \in Procs, NEW h \in handles'[q2],
                 proc'[q].id = h.id
          PROVE  q = q2 /\ Releasing(q, h.id)'
      <3>1. q2 # p /\ h \in handles[q2] /\ h.id \in Ids
        BY <1>1, <1>4, <2>2, FieldTypes
      <3>2. q # p /\ proc[q].id = h.id
        BY <1>4, <2>2, <3>1, LibivcAssumption DEF Idle
      <3> QED
        BY <1>1, <1>10, <3>1, <3>2 DEF UniqueInv
    <2> QED
      BY <2>1, <2>2 DEF UniqueInv
  <1>17. HandleInv'
    <2>1. ASSUME NEW q \in Procs, NEW h \in handles'[q]
          PROVE  /\ dev'[h.id].st \notin {"none", "new"}
                 /\ ~Releasing(q, h.id)' =>
                      /\ dev'[h.id].st = "listed" /\ dev'[h.id].ch = h.ch
                      /\ dev'[h.id].active
      <3>1. q # p /\ h \in handles[q] /\ h.id \in Ids
        BY <1>1, <1>4, <2>1, FieldTypes
      <3>2. h.id \notin closed
        BY <1>1, <1>7, <3>1 DEF HandleInv
      <3>3. dev'[h.id] = dev[h.id]
        BY <1>8, <3>1, <3>2
      <3> QED
        BY <1>1, <1>10, <3>1, <3>3 DEF HandleInv
    <2>2. \A q, q2 \in Procs : \A h \in handles'[q], g \in handles'[q2] :
            g.id = h.id => q2 = q /\ g = h
      BY <1>1, <1>4 DEF HandleInv
    <2> QED
      BY <2>1, <2>2 DEF HandleInv
  <1>18. OwnedInv'
    <2>1. ASSUME NEW j \in Ids \ lost', dev'[j].st \in Present
          PROVE  \E q \in Procs : proc'[q].id = j \/ \E h \in handles'[q] : h.id = j
      <3>1. j \notin lost /\ j \notin closed /\ dev[j].st \in Present /\ j # NoId
        BY <1>3, <1>8, <2>1, LibivcAssumption
      <3>2. j # proc[p].id
        BY <1>3, <2>1, <3>1
      <3>3. PICK q \in Procs : proc[q].id = j \/ \E h \in handles[q] : h.id = j
        BY <1>1, <2>1, <3>1 DEF OwnedInv
      <3>4. ~(\E h \in handles[p] : h.id = j)
        BY <1>6, <3>1, <3>2 DEF Releasing
      <3> QED
        BY <1>4, <3>2, <3>3, <3>4
    <2> QED
      BY <2>1 DEF OwnedInv
  <1> QED
    BY <1>9, <1>11, <1>12, <1>13, <1>14, <1>15, <1>16, <1>17, <1>18 DEF LibInv

-----------------------------------------------------------------------------
(* A program without the library.                                          *)

(* Another program opens or closes a device file.                          *)
LEMMA StepStranger ==
  ASSUME LibInv, Stranger
  PROVE  LibInv'
  <1>1. /\ TypeOK /\ DevInv /\ StrangerInv /\ ProcInv /\ UniqueInv /\ HandleInv
        /\ ManagerInv /\ RemovedIsGone /\ OwnedInv
    BY DEF LibInv
  <1>2. UNCHANGED <<mgr, handles, proc, removed, lost>>
    BY DEF Stranger, StrangerOpen, StrangerClose
  <1>3. PICK i \in Ids, b \in BOOLEAN :
          /\ dev' = [dev EXCEPT ![i].active = b]
          /\ b => dev[i].st \in {"new", "listed"} /\ ~dev[i].active
                  /\ stranger = NoId /\ stranger' = i
          /\ ~b => stranger = i /\ stranger' = NoId
    <2>1. CASE StrangerClose
      BY <1>1, <2>1 DEF StrangerClose, CloseDevice, TypeOK
    <2>2. CASE \E i \in Ids : StrangerOpen(i)
      BY <2>2 DEF StrangerOpen, OpenDevice, Openable
    <2> QED
      BY <2>1, <2>2 DEF Stranger
  <1>4. /\ dev' \in [Ids -> DevSet]
        /\ dev'[i].st = dev[i].st /\ dev'[i].ch = dev[i].ch /\ dev'[i].active = b
        /\ \A j \in Ids : j # i => dev'[j] = dev[j]
    <2>1. [dev[i] EXCEPT !.active = b] \in DevSet
      BY <1>1, FieldTypes DEF DevSet
    <2>2. dev' = [dev EXCEPT ![i] = [dev[i] EXCEPT !.active = b]]
      BY <1>3
    <2>3. dev' \in [Ids -> DevSet] /\ \A j \in Ids : j # i => dev'[j] = dev[j]
      BY <1>1, <2>1, <2>2 DEF TypeOK
    <2>4. dev'[i] = [dev[i] EXCEPT !.active = b] /\ dev[i] \in DevSet
      BY <1>1, <2>2 DEF TypeOK
    <2> QED
      BY <2>3, <2>4 DEF DevSet
  <1>5. \A j \in Ids : dev'[j].st = dev[j].st /\ dev'[j].ch = dev[j].ch
    BY <1>4
  <1>6. \A q \in Procs, j \in Ids : Releasing(q, j)' <=> Releasing(q, j)
    BY <1>2 DEF Releasing
  <1>7. \A q \in Procs : \A h \in handles[q] : h.id = i => Releasing(q, h.id)
    BY <1>1, <1>3, LibivcAssumption DEF StrangerInv, HandleInv
  <1>8. TypeOK'
    BY <1>1, <1>2, <1>3, <1>4 DEF TypeOK
  <1>9. DevInv'
    BY <1>1, <1>3, <1>4, <1>5 DEF DevInv
  <1>10. StrangerInv'
    BY <1>1, <1>2, <1>3, <1>4, <1>6, <1>7, FieldTypes DEF StrangerInv
  <1>11. ProcInv'
    BY <1>1, <1>2, <1>5, FieldTypes DEF ProcInv, CallInv, IdInv, TargetInv
  <1>12. UniqueInv' /\ ManagerInv'
    BY <1>1, <1>2 DEF UniqueInv, ManagerInv, Releasing
  <1>13. HandleInv'
    <2>1. \A q \in Procs : \A h \in handles[q] :
            /\ dev'[h.id].st \notin {"none", "new"}
            /\ ~Releasing(q, h.id)' =>
                 /\ dev'[h.id].st = "listed" /\ dev'[h.id].ch = h.ch
                 /\ dev'[h.id].active
      BY <1>1, <1>4, <1>5, <1>6, <1>7, FieldTypes DEF HandleInv
    <2> QED
      BY <1>1, <1>2, <2>1 DEF HandleInv
  <1>14. RemovedIsGone' /\ OwnedInv'
    BY <1>1, <1>2, <1>5 DEF RemovedIsGone, OwnedInv, TypeOK
  <1> QED
    BY <1>8, <1>9, <1>10, <1>11, <1>12, <1>13, <1>14 DEF LibInv

-----------------------------------------------------------------------------
(* The invariant holds at the start.                                       *)
LEMMA LibInit == Init => LibInv
  <1> SUFFICES ASSUME Init PROVE LibInv
    OBVIOUS
  <1>1. /\ \A i \in Ids : dev[i] = NoDevice
        /\ dev = [i \in Ids |-> NoDevice]
        /\ \A p \in Procs : proc[p] = Idle /\ handles[p] = {}
        /\ stranger = NoId /\ removed = {}
        /\ \A p \in Procs : mgr[p].active_endpoints = 0
    BY DEF Init, DeviceTableInit
  <1>2. NoDevice \in DevSet /\ NoDevice.st = "none" /\ NoDevice.ch = NoChannel
        /\ ~NoDevice.active
    BY DEF NoDevice, DevSet
  <1>3. TypeOK
    <2>1. [open |-> FALSE, active_endpoints |-> 0] \in Manager
      BY DEF Manager
    <2> QED
      BY <1>1, <1>2, <2>1, IdleType DEF Init, TypeOK
  <1>4. DevInv /\ StrangerInv /\ UniqueInv /\ HandleInv /\ RemovedIsGone
    BY <1>1, <1>2
    DEF DevInv, StrangerInv, UniqueInv, HandleInv, RemovedIsGone, Present, Idle
  <1>5. ProcInv
    <2>1. \A p \in Procs : /\ proc[p].pc = "idle" /\ proc[p] = Idle
                          /\ proc[p].id = NoId /\ proc[p].target = NoId
      <3>1. Idle.pc = "idle" /\ Idle.id = NoId /\ Idle.target = NoId
        BY DEF Idle
      <3> QED
        BY <1>1, <3>1
    <2> QED
      BY <2>1 DEF ProcInv, CallInv, IdInv, TargetInv, Removal
  <1>6. ManagerInv
    BY <1>1, FS_EmptySet DEF ManagerInv
  <1>7. OwnedInv
    BY <1>1, <1>2 DEF OwnedInv, Present
  <1> QED
    BY <1>3, <1>4, <1>5, <1>6, <1>7 DEF LibInv

(* A step that changes nothing keeps the invariant.                        *)
LEMMA LibStutter == LibInv /\ UNCHANGED vars => LibInv'
  <1> SUFFICES ASSUME LibInv, UNCHANGED vars PROVE LibInv'
    OBVIOUS
  <1>1. UNCHANGED <<dev, mgr, handles, proc, stranger, removed, lost>>
    BY DEF vars
  <1>2. TypeOK' /\ DevInv' /\ StrangerInv' /\ UniqueInv'
    BY <1>1 DEF LibInv, TypeOK, DevInv, StrangerInv, UniqueInv, Releasing
  <1>3. ProcInv'
    BY <1>1 DEF LibInv, ProcInv, CallInv, IdInv, TargetInv
  <1>4. HandleInv' /\ ManagerInv' /\ RemovedIsGone' /\ OwnedInv'
    BY <1>1
    DEF LibInv, HandleInv, ManagerInv, RemovedIsGone, OwnedInv, Releasing
  <1> QED
    BY <1>2, <1>3, <1>4 DEF LibInv

(* Every step keeps the invariant.                                         *)
LEMMA LibStep == LibInv /\ [Next]_vars => LibInv'
  <1> SUFFICES ASSUME LibInv, [Next]_vars PROVE LibInv'
    OBVIOUS
  <1>1. ASSUME NEW p \in Procs, Call(p) PROVE LibInv'
    <2>1. CASE ivc_publish(p) \/ ivc_subscribe(p)
      BY <2>1, LibivcAssumption, StepAttach DEF ivc_publish, ivc_subscribe
    <2>2. CASE ivc_unpublish(p) \/ ivc_unsubscribe(p)
      BY <2>2, StepDetach DEF ivc_unpublish, ivc_unsubscribe
    <2> QED
      BY <1>1, <2>1, <2>2, StepManager, StepRawRemove DEF Call
  <1>2. ASSUME NEW p \in Procs, Step(p) PROVE LibInv'
    BY <1>2, StepIoctlFail, StepIoctlCreate, StepIoctlList, StepIoctlReturn,
       StepIoctlFault, StepOpenEndpoint, StepOpenFail, StepRollbackReturn,
       StepRemoveFind, StepRemoveRefused, StepRemoveLeave, StepRemoveGiveBack,
       StepRemoveDrop, StepConsume
    DEF Step
  <1> QED
    BY <1>1, <1>2, StepKill, StepStranger, LibStutter DEF Next

(* The inductive invariant of libivc over the driver's table.              *)
THEOREM LibivcInvariant == Spec => []LibInv
  BY LibInit, LibStep, PTL DEF Spec

(* A handle that has not been given back stays good, however removals and  *)
(* roll-backs by channel of other programs interleave with it: libivc's    *)
(* calls name a channel, not a device (ivc_ulib.c:137, 310-327).           *)
THEOREM HandlesBacked == Spec => []HandleIsBacked
  <1>1. LibInv => HandleIsBacked
    <2> SUFFICES ASSUME LibInv, NEW p \in Procs, NEW h \in handles[p],
                        ~Releasing(p, h.id)
                 PROVE  /\ dev[h.id] = [st |-> "listed", ch |-> h.ch, active |-> TRUE]
                        /\ stranger # h.id
                        /\ \A q \in Procs : \A g \in handles[q] :
                             g.id = h.id => q = p /\ g = h
      BY DEF HandleIsBacked
    <2>1. TypeOK /\ HandleInv /\ StrangerInv
      BY DEF LibInv
    <2>2. /\ dev[h.id].st = "listed" /\ dev[h.id].ch = h.ch /\ dev[h.id].active
          /\ h.id \in Ids /\ dev[h.id] \in DevSet
      BY <2>1, FieldTypes DEF HandleInv
    <2>3. dev[h.id] = [st |-> "listed", ch |-> h.ch, active |-> TRUE]
      BY <2>2 DEF DevSet
    <2>4. stranger # h.id
      BY <2>1, <2>2, LibivcAssumption DEF StrangerInv
    <2> QED
      BY <2>1, <2>3, <2>4 DEF HandleInv
  <1> QED
    BY <1>1, LibivcInvariant, PTL

(* active_endpoints counts the handles exactly, so the EBUSY of            *)
(* ivc_close_manager protects each of them (ivc_ulib.c:67).                *)
THEOREM ManagersOutlive == Spec => []ManagerOutlivesEndpoints
  <1>1. LibInv => ManagerOutlivesEndpoints
    BY DEF LibInv, ManagerInv, ManagerOutlivesEndpoints
  <1> QED
    BY <1>1, LibivcInvariant, PTL

(* A removal that returned 0 has removed the device of the handle, and not *)
(* a younger device of the same channel (ivc_ulib.c:242-269).              *)
THEOREM RemovedStaysGone == Spec => []RemovedIsGone
  <1>1. LibInv => RemovedIsGone
    BY DEF LibInv
  <1> QED
    BY <1>1, LibivcInvariant, PTL

(* A device nobody answers for has been reported (ivc_ulib.c:131-147).     *)
THEOREM OrphansReported == Spec => []NoSilentOrphan
  <1>1. LibInv => NoSilentOrphan
    BY DEF LibInv, OwnedInv, NoSilentOrphan
  <1> QED
    BY <1>1, LibivcInvariant, PTL

-----------------------------------------------------------------------------
(* The Python binding and the demo's main (module Clients).                *)

(* p is inside ivc_publish or ivc_subscribe, or an ioctl of its own; p is  *)
(* inside ivc_unpublish or ivc_unsubscribe.                                *)
Attaching(p) ==
  \/ proc[p].pc \in {"ioctl", "list", "copyout", "open"}
  \/ proc[p].pc \in Removal /\ proc[p].undo

Detaching(p) == proc[p].pc \in Removal /\ ~proc[p].undo

(* The shared_ptrs there are to the manager: one in the Manager object,    *)
(* one in each endpoint object, one in an endpoint object that is being    *)
(* made or destroyed and has no handle yet or any more.                    *)
InWrapper(p) == IF py[p].wrapper THEN 1 ELSE 0

RefsInv(p) ==
  LET n == InWrapper(p) + mgr[p].active_endpoints
  IN  /\ py[p].pc \in {"idle", "close"} => py[p].refs = n
      /\ py[p].pc = "ctor" =>
           py[p].refs = IF handles[p] = py[p].had THEN n + 1 ELSE n
      /\ py[p].pc = "dtor" =>
           py[p].refs = IF proc[p].pc = "idle" THEN n + 1 ELSE n

PyCallInv(p) ==
  /\ py[p].pc \in {"idle", "close"} => proc[p].pc = "idle"
  /\ py[p].pc = "ctor" =>
       /\ proc[p].pc # "idle" => Attaching(p) /\ handles[p] = py[p].had
       /\ py[p].wrapper
  /\ py[p].pc = "dtor" /\ proc[p].pc # "idle" => Detaching(p)
  /\ py[p].pc = "close" => py[p].refs = 0
  /\ py[p].pc # "close" => (mgr[p].open <=> py[p].refs > 0)
  /\ py[p].pc = "close" => mgr[p].open

PyInv(p) == RefsInv(p) /\ PyCallInv(p)

(* main, place by place.                                                   *)
MainInv(p) ==
  /\ main[p].pc \notin {"attaching", "detaching"} => proc[p].pc = "idle"
  /\ main[p].pc \in {"start", "exit"} <=> ~mgr[p].open
  /\ main[p].pc \in {"start", "attach", "close", "exit"} => handles[p] = {}
  /\ main[p].pc \in {"start", "attach", "attaching", "run"} => main[p].ret = 0
  /\ main[p].pc = "attaching" =>
       IF proc[p].pc = "idle" THEN \A g, h \in handles[p] : g = h
       ELSE Attaching(p) /\ handles[p] = {}
  /\ main[p].pc \in {"run", "detach", "detaching"} =>
       /\ main[p].id \in Ids
       /\ \A h \in handles[p] : h.id = main[p].id
  /\ main[p].pc \in {"detach", "detaching"} => main[p].ret \in {0, 3}
  /\ main[p].pc = "detaching" =>
       IF proc[p].pc = "idle" THEN handles[p] = {}
       ELSE Detaching(p) /\ proc[p].id = main[p].id
  /\ main[p].pc \in {"close", "exit"} /\ main[p].ret \in {0, 3} =>
       main[p].id \in removed

(* And a program that is no demo never starts main.                        *)
ClientsInv ==
  /\ LibInv /\ PyTypeOK /\ MainTypeOK
  /\ kind \in [Procs -> {"library", "python", "demo"}]
  /\ \A p \in Procs : /\ kind[p] = "python" => PyInv(p)
                      /\ kind[p] = "demo" => MainInv(p)
                      /\ kind[p] # "demo" => main[p].pc = "start"

-----------------------------------------------------------------------------
(* A call of one program leaves the others as they are.                    *)
LEMMA OthersKeep ==
  ASSUME TypeOK, NEW p \in Procs, NEW q \in Procs, p # q,
         Call(q) \/ Step(q) \/ Kill(q)
  PROVE  /\ mgr'[p] = mgr[p] /\ handles'[p] = handles[p] /\ proc'[p] = proc[p]
         /\ removed \subseteq removed'
  <1> USE DEF TypeOK
  <1>1. CASE Call(q)
    <2>1. CASE ivc_open_manager(q) \/ ivc_close_manager(q)
      BY <2>1 DEF ivc_open_manager, ivc_close_manager
    <2>2. CASE ivc_publish(q) \/ ivc_subscribe(q)
      BY <2>2 DEF ivc_publish, ivc_subscribe, Attach
    <2>3. CASE ivc_unpublish(q) \/ ivc_unsubscribe(q)
      BY <2>3 DEF ivc_unpublish, ivc_unsubscribe, Detach
    <2>4. CASE \E c \in Channels : RawRemove(q, c)
      BY <2>4 DEF RawRemove
    <2> QED
      BY <1>1, <2>1, <2>2, <2>3, <2>4 DEF Call
  <1>2. CASE Step(q)
    <2>1. CASE IoctlFail(q) \/ IoctlCreate(q) \/ IoctlList(q) \/ IoctlReturn(q)
                 \/ IoctlFault(q) \/ OpenFail(q)
      BY <2>1
      DEF IoctlFail, IoctlCreate, IoctlList, IoctlReturn, IoctlFault, OpenFail,
          Goto
    <2>2. CASE RemoveFind(q) \/ RemoveRefused(q) \/ RemoveLeave(q)
                 \/ RemoveGiveBack(q) \/ RemoveDrop(q) \/ RollbackReturn(q)
      BY <2>2
      DEF RemoveFind, RemoveRefused, RemoveLeave, RemoveGiveBack, RemoveDrop,
          RollbackReturn, Goto
    <2>3. CASE OpenEndpoint(q)
      BY <2>3 DEF OpenEndpoint
    <2>4. CASE Consume(q)
      BY <2>4 DEF Consume, ivc_manager_release_endpoint
    <2> QED
      BY <1>2, <2>1, <2>2, <2>3, <2>4 DEF Step
  <1>3. CASE Kill(q)
    BY <1>3 DEF Kill
  <1> QED
    BY <1>1, <1>2, <1>3

(* So does a program without the library.                                  *)
LEMMA StrangerKeeps ==
  ASSUME Stranger
  PROVE  UNCHANGED <<mgr, handles, proc, removed>>
  BY DEF Stranger, StrangerOpen, StrangerClose

(* A step of ivc_publish or ivc_subscribe: still inside, or back without   *)
(* or with a new handle.                                                   *)
LEMMA AttachStep ==
  ASSUME TypeOK, NEW p \in Procs, Attaching(p), Step(p)
  PROVE  /\ removed' = removed
         /\ \/ /\ mgr'[p] = mgr[p] /\ handles'[p] = handles[p]
               /\ Attaching(p)' \/ proc'[p].pc = "idle"
            \/ /\ proc'[p].pc = "idle"
               /\ mgr'[p].open = mgr[p].open
               /\ mgr'[p].active_endpoints = mgr[p].active_endpoints + 1
               /\ \E h : handles'[p] = handles[p] \cup {h}
  <1>1. /\ proc[p].pc \in {"idle", "ioctl", "list", "copyout", "open"}
                                  \cup Removal
        /\ proc \in [Procs -> CallState]
        /\ mgr \in [Procs -> Manager]
        /\ handles \in [Procs -> SUBSET Handle]
    BY FieldTypes DEF TypeOK
  <1> USE DEF Removal
  <1>2. CASE IoctlFail(p) \/ IoctlCreate(p) \/ IoctlList(p) \/ IoctlReturn(p)
               \/ IoctlFault(p) \/ OpenFail(p)
    BY <1>1, <1>2
    DEF IoctlFail, IoctlCreate, IoctlList, IoctlReturn, IoctlFault, OpenFail,
        Goto, Attaching, CallState, Idle
  <1>3. CASE RemoveFind(p) \/ RemoveRefused(p) \/ RemoveLeave(p)
               \/ RemoveGiveBack(p) \/ RemoveDrop(p) \/ RollbackReturn(p)
    BY <1>1, <1>3
    DEF RemoveFind, RemoveRefused, RemoveLeave, RemoveGiveBack, RemoveDrop,
        RollbackReturn, Goto, Attaching, CallState, Idle
  <1>4. CASE OpenEndpoint(p)
    <2>1. removed' = removed /\ proc'[p].pc = "idle"
      BY <1>1, <1>4 DEF OpenEndpoint, Idle
    <2>2. /\ mgr'[p].open = mgr[p].open
          /\ mgr'[p].active_endpoints = mgr[p].active_endpoints + 1
      BY <1>1, <1>4 DEF OpenEndpoint, Manager
    <2>3. \E h : handles'[p] = handles[p] \cup {h}
      BY <1>1, <1>4 DEF OpenEndpoint
    <2> QED
      BY <2>1, <2>2, <2>3
  <1>5. CASE Consume(p)
    BY <1>5 DEF Consume, Attaching
  <1> QED
    BY <1>2, <1>3, <1>4, <1>5 DEF Step

(* A step of ivc_unpublish or ivc_unsubscribe: still inside, or back and   *)
(* the handle consumed.                                                    *)
LEMMA DetachStep ==
  ASSUME LibInv, NEW p \in Procs, Detaching(p), Step(p)
  PROVE  /\ removed \subseteq removed'
         /\ mgr'[p].open = mgr[p].open
         /\ \/ /\ mgr'[p] = mgr[p] /\ handles'[p] = handles[p]
               /\ Detaching(p)' /\ proc'[p].id = proc[p].id
            \/ /\ proc'[p].pc = "idle"
               /\ mgr[p].active_endpoints = mgr'[p].active_endpoints + 1
               /\ handles'[p] = {h \in handles[p] : h.id # proc[p].id}
  <1>1. /\ proc[p].pc \in {"idle", "ioctl", "list", "copyout", "open"}
                                  \cup Removal
        /\ proc \in [Procs -> CallState]
        /\ mgr \in [Procs -> Manager]
        /\ handles \in [Procs -> SUBSET Handle]
    BY FieldTypes DEF LibInv, TypeOK
  <1> USE DEF Removal
  <1>2. CASE IoctlFail(p) \/ IoctlCreate(p) \/ IoctlList(p) \/ IoctlReturn(p)
               \/ IoctlFault(p) \/ OpenFail(p) \/ OpenEndpoint(p)
    BY <1>2
    DEF IoctlFail, IoctlCreate, IoctlList, IoctlReturn, IoctlFault, OpenFail,
        OpenEndpoint, Detaching
  <1>3. CASE RemoveFind(p) \/ RemoveRefused(p) \/ RemoveLeave(p)
               \/ RemoveGiveBack(p) \/ RemoveDrop(p)
    BY <1>1, <1>3
    DEF RemoveFind, RemoveRefused, RemoveLeave, RemoveGiveBack, RemoveDrop,
        Goto, Detaching, CallState
  <1>4. CASE RollbackReturn(p)
    BY <1>4 DEF RollbackReturn, Detaching
  <1>5. CASE Consume(p)
    <2>1. /\ proc'[p].pc = "idle" /\ removed \subseteq removed'
          /\ handles'[p] = {h \in handles[p] : h.id # proc[p].id}
      BY <1>1, <1>5 DEF Consume, Idle
    <2>2. mgr[p].active_endpoints \in Nat \ {0}
      <3>1. PICK h \in handles[p] : h.id = proc[p].id
        BY DEF LibInv, ProcInv, CallInv, Detaching
      <3>2. /\ IsFiniteSet(handles[p])
            /\ mgr[p].active_endpoints = Cardinality(handles[p])
        BY DEF LibInv, ManagerInv
      <3> QED
        BY <3>1, <3>2, FS_EmptySet, FS_CardinalityType
    <2>3. /\ mgr'[p].open = mgr[p].open
          /\ mgr[p].active_endpoints = mgr'[p].active_endpoints + 1
      BY <1>1, <1>5, <2>2 DEF Consume, ivc_manager_release_endpoint, Manager
    <2> QED
      BY <2>1, <2>3
  <1> QED
    BY <1>2, <1>3, <1>4, <1>5 DEF Step

-----------------------------------------------------------------------------
(* A program has at most one handle for each device.                       *)
LEMMA HandleCount ==
  ASSUME NEW S, IsFiniteSet(S),
         \A h \in S : h.id \in Ids, \A g, h \in S : g.id = h.id => g = h
  PROVE  /\ Cardinality(S) \in 0 .. Cardinality(Ids)
         /\ Cardinality(Ids) \in Nat
         /\ Cardinality(S) = 0 <=> S = {}
  <1> DEFINE f == [h \in S |-> h.id]
  <1>1. f \in Injection(S, Ids)
    BY DEF IsInjective, Injection
  <1>2. Cardinality(S) <= Cardinality(Ids)
    BY <1>1, FS_Injection, LibivcAssumption
  <1> QED
    BY <1>2, FS_CardinalityType, FS_EmptySet, LibivcAssumption

(* active_endpoints is no larger than the number of devices.               *)
EndpointsBounded ==
  \A p \in Procs :
    /\ mgr[p].active_endpoints \in 0 .. Cardinality(Ids)
    /\ Cardinality(Ids) \in Nat
    /\ mgr[p].active_endpoints = 0 <=> handles[p] = {}

(* In a state that Libivc can reach.                                       *)
LEMMA EndpointBound == LibInv => EndpointsBounded
  <1> SUFFICES ASSUME LibInv, NEW p \in Procs
               PROVE  /\ mgr[p].active_endpoints \in 0 .. Cardinality(Ids)
                      /\ Cardinality(Ids) \in Nat
                      /\ mgr[p].active_endpoints = 0 <=> handles[p] = {}
    BY DEF EndpointsBounded
  <1>1. /\ IsFiniteSet(handles[p])
        /\ mgr[p].active_endpoints = Cardinality(handles[p])
    BY DEF LibInv, ManagerInv
  <1>2. /\ \A h \in handles[p] : h.id \in Ids
        /\ \A g, h \in handles[p] : g.id = h.id => g = h
    BY FieldTypes DEF LibInv, HandleInv
  <1> QED
    BY <1>1, <1>2, HandleCount

(* And in the next.                                                        *)
LEMMA EndpointBoundNext == LibInv' => EndpointsBounded'
  BY EndpointBound, PTL

(* A Python program and a demo change the library's state by calling it,   *)
(* and nothing of another program.                                         *)
LEMMA PyCalls ==
  ASSUME NEW p \in Procs, PyStep(p)
  PROVE  /\ Call(p) \/ Kill(p) \/ UNCHANGED vars
         /\ \A q \in Procs \ {p} : PyTypeOK => py'[q] = py[q]
  <1>1. Call(p) \/ Kill(p) \/ UNCHANGED vars
    BY DEF PyStep, NewManager, DropManager, NewEndpoint, EndpointCreated,
           EndpointThrows, DropEndpoint, EndpointDropped, CloseManager,
           KillPython, Call
  <1>2. ASSUME NEW q \in Procs \ {p}, PyTypeOK PROVE py'[q] = py[q]
    BY <1>2
    DEF PyStep, NewManager, DropManager, NewEndpoint, EndpointCreated,
        EndpointThrows, DropEndpoint, EndpointDropped, CloseManager,
        KillPython, PyTypeOK
  <1> QED
    BY <1>1, <1>2

(* The same for the demo.                                                  *)
LEMMA MainCalls ==
  ASSUME NEW p \in Procs, MainStep(p)
  PROVE  /\ Call(p) \/ Kill(p) \/ UNCHANGED vars
         /\ \A q \in Procs \ {p} : MainTypeOK => main'[q] = main[q]
  <1>1. Call(p) \/ Kill(p) \/ UNCHANGED vars
    BY DEF MainStep, OpenManager, NoManager, AttachChannel, Attached,
           NotAttached, Run, DetachChannel, Detached, CloseAndExit, RunAgain,
           KillMain, Call
  <1>2. ASSUME NEW q \in Procs \ {p}, MainTypeOK PROVE main'[q] = main[q]
    BY <1>2
    DEF MainStep, OpenManager, NoManager, AttachChannel, Attached, NotAttached,
        Run, DetachChannel, Detached, CloseAndExit, RunAgain, KillMain,
        MainTypeOK, To, Fail
  <1> QED
    BY <1>1, <1>2

(* Every step of a program is a step that module Libivc lets it take.      *)
LEMMA ClientsStepIsStep == [ClientsNext]_clientvars => [Next]_vars
  BY PyCalls, MainCalls DEF ClientsNext, clientvars, Next

-----------------------------------------------------------------------------
(* The state of a Python program, with any use count.                      *)
PyObjects == [pc : {"idle", "ctor", "dtor", "close"}, wrapper : BOOLEAN,
              refs : Int, had : SUBSET Handle]

(* The records that the steps of a Python program make.                    *)
LEMMA PyUpdates ==
  ASSUME NEW x \in PyObjects, NEW h \in SUBSET Handle
  PROVE  /\ [x EXCEPT !.wrapper = TRUE, !.refs = 1] \in PyObjects
         /\ [x EXCEPT !.pc = "ctor", !.refs = @ + 1, !.had = h] \in PyObjects
         /\ [x EXCEPT !.pc = IF x.refs = 1 THEN "close" ELSE "idle",
                      !.refs = @ - 1] \in PyObjects
  <1> DEFINE m == 1
             n == x.refs + 1
             k == x.refs - 1
             a == IF x.refs = 1 THEN "close" ELSE "idle"
  <1>1. m \in Int /\ n \in Int /\ k \in Int
    BY DEF PyObjects
  <1>2. a \in {"close", "idle"}
    OBVIOUS
  <1> HIDE DEF m, n, k, a
  <1>3. [x EXCEPT !.wrapper = TRUE, !.refs = m] \in PyObjects
    BY <1>1 DEF PyObjects
  <1>4. [x EXCEPT !.pc = "ctor", !.refs = n, !.had = h] \in PyObjects
    BY <1>1 DEF PyObjects
  <1>5. [x EXCEPT !.pc = a, !.refs = k] \in PyObjects
    BY <1>1, <1>2 DEF PyObjects
  <1> QED
    BY <1>3, <1>4, <1>5 DEF m, n, k, a

(* A step that leaves a Python program alone.                              *)
LEMMA PyKeep ==
  ASSUME NEW p \in Procs, PyInv(p), py'[p] = py[p],
         mgr'[p] = mgr[p], handles'[p] = handles[p], proc'[p] = proc[p]
  PROVE  PyInv(p)'
  BY DEF PyInv, RefsInv, PyCallInv, InWrapper, Attaching, Detaching

(* The use count a Python program can reach.                               *)
LEMMA PyTyped ==
  ASSUME LibInv', PyTypeOK, NEW p \in Procs, PyInv(p)',
         NEW r \in PyObjects, py' = [py EXCEPT ![p] = r]
  PROVE  PyTypeOK'
  <1>1. py'[p] = r
    BY DEF PyTypeOK
  <1>2. /\ mgr'[p].active_endpoints \in 0 .. Cardinality(Ids)
        /\ Cardinality(Ids) \in Nat
    BY EndpointBoundNext DEF EndpointsBounded
  <1>3. InWrapper(p)' \in 0 .. 1
    BY DEF InWrapper
  <1>4. r.refs \in 0 .. (Cardinality(Ids) + 2)
    <2> DEFINE n == InWrapper(p)' + mgr'[p].active_endpoints
    <2>1. r.refs = n \/ r.refs = n + 1
      <3>1. py'[p].pc \in {"idle", "ctor", "dtor", "close"}
        BY <1>1 DEF PyObjects
      <3>2. py'[p].refs = n \/ py'[p].refs = n + 1
        BY <3>1 DEF PyInv, RefsInv
      <3> QED
        BY <1>1, <3>2
    <2> QED
      BY <1>2, <1>3, <2>1
  <1> QED
    BY <1>4 DEF PyTypeOK, PyObjects

(* What PyTypeOK says of the fields.                                       *)
LEMMA PyFields ==
  ASSUME PyTypeOK, NEW p \in Procs
  PROVE  /\ py[p].pc \in {"idle", "ctor", "dtor", "close"}
         /\ py[p].wrapper \in BOOLEAN
         /\ py[p].refs \in Nat /\ py[p].refs \in Int
         /\ py[p].had \subseteq Handle
         /\ py[p] \in PyObjects
         /\ DOMAIN py = Procs /\ py = [q \in Procs |-> py[q]]
  <1>1. Cardinality(Ids) \in Nat
    BY LibivcAssumption, FS_CardinalityType
  <1> QED
    BY <1>1 DEF PyTypeOK, PyObjects

(* Inside a call of the library.                                           *)
LEMMA PyInside ==
  ASSUME LibInv, LibInv', PyTypeOK, NEW p \in Procs, PyInv(p), Step(p),
         py'[p] = py[p]
  PROVE  PyInv(p)'
  <1>1. mgr[p].active_endpoints \in Nat /\ mgr'[p].active_endpoints \in Nat
    BY EndpointBound, EndpointBoundNext DEF EndpointsBounded
  <1>2. InWrapper(p) \in Nat /\ InWrapper(p)' = InWrapper(p)
    BY DEF InWrapper
  <1>3. proc[p].pc # "idle" /\ TypeOK
    BY DEF LibInv, Step, IoctlFail, IoctlCreate, IoctlList, IoctlReturn,
           IoctlFault, OpenEndpoint, OpenFail, RollbackReturn, RemoveFind,
           RemoveRefused, RemoveLeave, RemoveGiveBack, RemoveDrop, Consume
  <1>4. CASE py[p].pc = "ctor"
    <2>1. Attaching(p) /\ handles[p] = py[p].had /\ py[p].wrapper
      BY <1>3, <1>4 DEF PyInv, PyCallInv
    <2>2. CASE /\ mgr'[p] = mgr[p] /\ handles'[p] = handles[p]
               /\ Attaching(p)' \/ proc'[p].pc = "idle"
      BY <1>2, <1>4, <2>1, <2>2 DEF PyInv, RefsInv, PyCallInv
    <2>3. CASE /\ proc'[p].pc = "idle"
               /\ mgr'[p].open = mgr[p].open
               /\ mgr'[p].active_endpoints = mgr[p].active_endpoints + 1
      <3>1. handles'[p] # handles[p]
        BY <1>1, <2>3 DEF LibInv, ManagerInv
      <3> QED
        BY <1>1, <1>2, <1>4, <2>1, <2>3, <3>1 DEF PyInv, RefsInv, PyCallInv
    <2> QED
      BY <1>3, <2>1, <2>2, <2>3, AttachStep
  <1>5. CASE py[p].pc = "dtor"
    <2>1. Detaching(p)
      BY <1>3, <1>5 DEF PyInv, PyCallInv
    <2>2. CASE /\ mgr'[p] = mgr[p] /\ handles'[p] = handles[p]
               /\ Detaching(p)'
      <3>1. proc'[p].pc # "idle"
        BY <2>2 DEF Detaching, Removal
      <3> QED
        BY <1>2, <1>3, <1>5, <2>2, <3>1 DEF PyInv, RefsInv, PyCallInv
    <2>3. CASE /\ proc'[p].pc = "idle" /\ mgr'[p].open = mgr[p].open
               /\ mgr[p].active_endpoints = mgr'[p].active_endpoints + 1
      BY <1>1, <1>2, <1>3, <1>5, <2>3 DEF PyInv, RefsInv, PyCallInv
    <2> QED
      BY <2>1, <2>2, <2>3, DetachStep
  <1>6. CASE py[p].pc \in {"idle", "close"}
    BY <1>3, <1>6 DEF PyInv, PyCallInv
  <1> QED
    BY <1>4, <1>5, <1>6, PyFields

(* The steps of a Python program between its calls.                        *)
LEMMA PyOwn ==
  ASSUME LibInv, LibInv', PyTypeOK, NEW p \in Procs, PyInv(p), PyStep(p)
  PROVE  PyInv(p)' /\ PyTypeOK'
  <1>1. /\ mgr[p].active_endpoints \in Nat /\ mgr'[p].active_endpoints \in Nat
        /\ mgr[p].active_endpoints = 0 <=> handles[p] = {}
    BY EndpointBound, EndpointBoundNext DEF EndpointsBounded
  <1>2. /\ InWrapper(p) \in 0 .. 1
        /\ py[p].wrapper = TRUE => InWrapper(p) = 1
        /\ py[p].wrapper = FALSE => InWrapper(p) = 0
        /\ py'[p].wrapper = TRUE => InWrapper(p)' = 1
        /\ py'[p].wrapper = FALSE => InWrapper(p)' = 0
    BY DEF InWrapper
  <1>3. /\ py[p].pc \in {"idle", "ctor", "dtor", "close"}
        /\ py[p].wrapper \in BOOLEAN
        /\ py[p].refs \in Nat /\ py[p].refs \in Int
        /\ py[p].had \subseteq Handle
        /\ py[p] \in PyObjects
        /\ DOMAIN py = Procs /\ py = [q \in Procs |-> py[q]]
    BY PyFields
  <1>4. /\ proc \in [Procs -> CallState]
        /\ mgr \in [Procs -> Manager]
        /\ handles \in [Procs -> SUBSET Handle]
    BY DEF LibInv, TypeOK
  <1>5. py[p] \in PyObjects
    BY PyFields
  <1>6. handles[p] \in SUBSET Handle
    BY <1>4
  <1>7. Unref(p) \in PyObjects
    BY <1>5, <1>6, PyUpdates DEF Unref
  <1>8. SUFFICES \E r \in PyObjects : py' = [py EXCEPT ![p] = r] /\ PyInv(p)'
    BY <1>8, PyTyped
  <1>9. CASE NewManager(p)
    <2> DEFINE r == [py[p] EXCEPT !.wrapper = TRUE, !.refs = 1]
    <2>1. py[p].pc = "idle" /\ py[p].refs = 0 /\ py' = [py EXCEPT ![p] = r]
      BY <1>3, <1>9 DEF NewManager
    <2>2. py'[p] = r
      BY <1>3, <2>1
    <2>3. /\ r.pc = "idle"
          /\ r.wrapper = TRUE
          /\ r.refs = 1
          /\ r.had = py[p].had
      BY <1>3, <2>1 DEF PyObjects
    <2>4. r \in PyObjects
      BY <1>5, <1>6, PyUpdates
    <2> HIDE DEF r
    <2>5. /\ r \in PyObjects
          /\ py'[p].pc = "idle"
          /\ py'[p].wrapper = TRUE
          /\ py'[p].refs = 1
          /\ py'[p].had = py[p].had
      BY <2>2, <2>3, <2>4
    <2>6. /\ mgr'[p].open = TRUE /\ mgr'[p].active_endpoints = 0
          /\ proc'[p] = proc[p]
      BY <1>4, <1>9 DEF NewManager, ivc_open_manager
    <2>7. PyInv(p)'
      <3>1. proc[p].pc = "idle"
        BY <2>1 DEF PyInv, PyCallInv
      <3> QED
        BY <1>2, <2>5, <2>6, <3>1 DEF PyInv, PyCallInv, RefsInv
    <2> QED
      BY <2>1, <2>5, <2>7
  <1>10. CASE DropManager(p)
    <2> DEFINE r == [Unref(p) EXCEPT !.wrapper = FALSE]
    <2>1. py[p].pc = "idle" /\ py[p].wrapper = TRUE /\ py' = [py EXCEPT ![p] = r]
      BY <1>3, <1>10 DEF DropManager, Unref
    <2>2. py'[p] = r
      BY <1>3, <2>1
    <2>3. /\ r.pc = IF py[p].refs = 1 THEN "close" ELSE "idle"
          /\ r.wrapper = FALSE
          /\ r.refs = py[p].refs - 1
          /\ r.had = py[p].had
      BY <1>3, <2>1 DEF PyObjects, Unref
    <2>4. r \in PyObjects
      BY <1>7 DEF PyObjects
    <2> HIDE DEF r
    <2>5. /\ r \in PyObjects
          /\ py'[p].pc = IF py[p].refs = 1 THEN "close" ELSE "idle"
          /\ py'[p].wrapper = FALSE
          /\ py'[p].refs = py[p].refs - 1
          /\ py'[p].had = py[p].had
      BY <2>2, <2>3, <2>4
    <2>6. mgr'[p] = mgr[p] /\ proc'[p] = proc[p] /\ handles'[p] = handles[p]
      BY <1>10 DEF DropManager, vars
    <2>7. PyInv(p)'
      BY <1>1, <1>2, <1>3, <2>1, <2>5, <2>6 DEF PyInv, PyCallInv, RefsInv
    <2> QED
      BY <2>1, <2>5, <2>7
  <1>11. CASE NewEndpoint(p)
    <2> DEFINE r == [py[p] EXCEPT !.pc = "ctor", !.refs = @ + 1, !.had = handles[p]]
    <2>1. py[p].pc = "idle" /\ py[p].wrapper = TRUE /\ py' = [py EXCEPT ![p] = r]
      BY <1>3, <1>11 DEF NewEndpoint
    <2>2. py'[p] = r
      BY <1>3, <2>1
    <2>3. /\ r.pc = "ctor"
          /\ r.wrapper = TRUE
          /\ r.refs = py[p].refs + 1
          /\ r.had = handles[p]
      BY <1>3, <2>1 DEF PyObjects
    <2>4. r \in PyObjects
      BY <1>5, <1>6, PyUpdates
    <2> HIDE DEF r
    <2>5. /\ r \in PyObjects
          /\ py'[p].pc = "ctor"
          /\ py'[p].wrapper = TRUE
          /\ py'[p].refs = py[p].refs + 1
          /\ py'[p].had = handles[p]
      BY <2>2, <2>3, <2>4
    <2>6. mgr'[p] = mgr[p] /\ handles'[p] = handles[p] /\ proc'[p].pc = "ioctl"
      <3>1. PICK c : Attach(p, c)
        BY <1>11 DEF NewEndpoint, ivc_publish, ivc_subscribe
      <3> QED
        BY <1>4, <3>1 DEF Attach, Idle
    <2>7. Attaching(p)'
      BY <2>6 DEF Attaching
    <2>8. PyInv(p)'
      BY <1>1, <1>2, <1>3, <2>1, <2>5, <2>6, <2>7 DEF PyInv, PyCallInv, RefsInv
    <2> QED
      BY <2>1, <2>5, <2>8
  <1>12. CASE EndpointCreated(p)
    <2> DEFINE r == [py[p] EXCEPT !.pc = "idle", !.had = {}]
    <2>1. /\ py[p].pc = "ctor" /\ proc[p].pc = "idle" /\ handles[p] # py[p].had
          /\ py' = [py EXCEPT ![p] = r]
      BY <1>3, <1>12 DEF EndpointCreated
    <2>2. py'[p] = r
      BY <1>3, <2>1
    <2>3. /\ r.pc = "idle"
          /\ r.wrapper = py[p].wrapper
          /\ r.refs = py[p].refs
          /\ r.had = {}
      BY <1>3, <2>1 DEF PyObjects
    <2>4. r \in PyObjects
      BY <1>5, <1>6 DEF PyObjects
    <2> HIDE DEF r
    <2>5. /\ r \in PyObjects
          /\ py'[p].pc = "idle"
          /\ py'[p].wrapper = py[p].wrapper
          /\ py'[p].refs = py[p].refs
          /\ py'[p].had = {}
      BY <2>2, <2>3, <2>4
    <2>6. mgr'[p] = mgr[p] /\ proc'[p] = proc[p] /\ handles'[p] = handles[p]
      BY <1>12 DEF EndpointCreated, vars
    <2>7. PyInv(p)'
      BY <1>1, <1>2, <1>3, <2>1, <2>5, <2>6 DEF PyInv, PyCallInv, RefsInv
    <2> QED
      BY <2>1, <2>5, <2>7
  <1>13. CASE EndpointThrows(p)
    <2> DEFINE r == [Unref(p) EXCEPT !.had = {}]
    <2>1. /\ py[p].pc = "ctor" /\ proc[p].pc = "idle" /\ handles[p] = py[p].had
          /\ py' = [py EXCEPT ![p] = r]
      BY <1>3, <1>13 DEF EndpointThrows, Unref
    <2>2. py'[p] = r
      BY <1>3, <2>1
    <2>3. /\ r.pc = IF py[p].refs = 1 THEN "close" ELSE "idle"
          /\ r.wrapper = py[p].wrapper
          /\ r.refs = py[p].refs - 1
          /\ r.had = {}
      BY <1>3, <2>1 DEF PyObjects, Unref
    <2>4. r \in PyObjects
      BY <1>7 DEF PyObjects
    <2> HIDE DEF r
    <2>5. /\ r \in PyObjects
          /\ py'[p].pc = IF py[p].refs = 1 THEN "close" ELSE "idle"
          /\ py'[p].wrapper = py[p].wrapper
          /\ py'[p].refs = py[p].refs - 1
          /\ py'[p].had = {}
      BY <2>2, <2>3, <2>4
    <2>6. mgr'[p] = mgr[p] /\ proc'[p] = proc[p] /\ handles'[p] = handles[p]
      BY <1>13 DEF EndpointThrows, vars
    <2>7. py[p].wrapper = TRUE
      BY <1>3, <2>1 DEF PyInv, PyCallInv
    <2>8. PyInv(p)'
      BY <1>1, <1>2, <1>3, <2>1, <2>5, <2>6, <2>7 DEF PyInv, PyCallInv, RefsInv
    <2> QED
      BY <2>1, <2>5, <2>8
  <1>14. CASE DropEndpoint(p)
    <2> DEFINE r == [py[p] EXCEPT !.pc = "dtor"]
    <2>1. py[p].pc = "idle" /\ py' = [py EXCEPT ![p] = r]
      BY <1>3, <1>14 DEF DropEndpoint
    <2>2. py'[p] = r
      BY <1>3, <2>1
    <2>3. /\ r.pc = "dtor"
          /\ r.wrapper = py[p].wrapper
          /\ r.refs = py[p].refs
          /\ r.had = py[p].had
      BY <1>3, <2>1 DEF PyObjects
    <2>4. r \in PyObjects
      BY <1>5, <1>6 DEF PyObjects
    <2> HIDE DEF r
    <2>5. /\ r \in PyObjects
          /\ py'[p].pc = "dtor"
          /\ py'[p].wrapper = py[p].wrapper
          /\ py'[p].refs = py[p].refs
          /\ py'[p].had = py[p].had
      BY <2>2, <2>3, <2>4
    <2>6. /\ mgr'[p] = mgr[p] /\ handles'[p] = handles[p]
          /\ proc'[p].pc = "find" /\ proc'[p].undo = FALSE
      BY <1>4, <1>14
      DEF DropEndpoint, ivc_unpublish, ivc_unsubscribe, Detach, Idle
    <2>7. Detaching(p)'
      BY <2>6 DEF Detaching, Removal
    <2>8. PyInv(p)'
      BY <1>1, <1>2, <1>3, <2>1, <2>5, <2>6, <2>7 DEF PyInv, PyCallInv, RefsInv
    <2> QED
      BY <2>1, <2>5, <2>8
  <1>15. CASE EndpointDropped(p)
    <2> DEFINE r == Unref(p)
    <2>1. py[p].pc = "dtor" /\ proc[p].pc = "idle" /\ py' = [py EXCEPT ![p] = r]
      BY <1>3, <1>15 DEF EndpointDropped, Unref
    <2>2. py'[p] = r
      BY <1>3, <2>1
    <2>3. /\ r.pc = IF py[p].refs = 1 THEN "close" ELSE "idle"
          /\ r.wrapper = py[p].wrapper
          /\ r.refs = py[p].refs - 1
          /\ r.had = py[p].had
      BY <1>3, <2>1 DEF PyObjects, Unref
    <2>4. r \in PyObjects
      BY <1>7 DEF PyObjects
    <2> HIDE DEF r
    <2>5. /\ r \in PyObjects
          /\ py'[p].pc = IF py[p].refs = 1 THEN "close" ELSE "idle"
          /\ py'[p].wrapper = py[p].wrapper
          /\ py'[p].refs = py[p].refs - 1
          /\ py'[p].had = py[p].had
      BY <2>2, <2>3, <2>4
    <2>6. mgr'[p] = mgr[p] /\ proc'[p] = proc[p] /\ handles'[p] = handles[p]
      BY <1>15 DEF EndpointDropped, vars
    <2>7. /\ InWrapper(p)' = InWrapper(p)
          /\ py[p].refs = InWrapper(p) + mgr[p].active_endpoints + 1
      BY <1>1, <1>2, <2>1, <2>5 DEF PyInv, RefsInv, InWrapper
    <2>8. RefsInv(p)'
      BY <1>1, <1>2, <2>5, <2>6, <2>7 DEF RefsInv
    <2>9. PyCallInv(p)'
      BY <1>1, <1>2, <1>3, <2>1, <2>5, <2>6, <2>7 DEF PyInv, PyCallInv
    <2> QED
      BY <2>1, <2>5, <2>8, <2>9 DEF PyInv
  <1>16. CASE CloseManager(p)
    <2> DEFINE r == [py[p] EXCEPT !.pc = "idle"]
    <2>1. py[p].pc = "close" /\ py' = [py EXCEPT ![p] = r]
      BY <1>3, <1>16 DEF CloseManager
    <2>2. py'[p] = r
      BY <1>3, <2>1
    <2>3. /\ r.pc = "idle"
          /\ r.wrapper = py[p].wrapper
          /\ r.refs = py[p].refs
          /\ r.had = py[p].had
      BY <1>3, <2>1 DEF PyObjects
    <2>4. r \in PyObjects
      BY <1>5, <1>6 DEF PyObjects
    <2> HIDE DEF r
    <2>5. /\ r \in PyObjects
          /\ py'[p].pc = "idle"
          /\ py'[p].wrapper = py[p].wrapper
          /\ py'[p].refs = py[p].refs
          /\ py'[p].had = py[p].had
      BY <2>2, <2>3, <2>4
    <2>6. py[p].refs = 0 /\ mgr[p].active_endpoints = 0
      BY <1>1, <1>2, <2>1 DEF PyInv, PyCallInv, RefsInv
    <2>7. /\ mgr'[p].open = FALSE /\ proc'[p] = proc[p] /\ handles'[p] = handles[p]
          /\ mgr'[p].active_endpoints = mgr[p].active_endpoints
      BY <1>4, <1>16, <2>6 DEF CloseManager, ivc_close_manager, Manager
    <2>8. PyInv(p)'
      BY <1>1, <1>2, <1>3, <2>1, <2>5, <2>6, <2>7 DEF PyInv, PyCallInv, RefsInv
    <2> QED
      BY <2>1, <2>5, <2>8
  <1>17. CASE KillPython(p)
    <2>1. py' = [py EXCEPT ![p] = NoPy] /\ py'[p] = NoPy
      BY <1>3, <1>17 DEF KillPython
    <2>2. /\ mgr'[p].open = FALSE /\ mgr'[p].active_endpoints = 0
          /\ proc'[p].pc = "idle"
      BY <1>4, <1>17 DEF KillPython, Kill, Idle
    <2>3. PyInv(p)'
      BY <1>2, <2>1, <2>2 DEF PyInv, PyCallInv, RefsInv, NoPy
    <2> QED
      <3>1. NoPy \in PyObjects
        BY DEF NoPy, PyObjects
      <3> QED
        BY <2>1, <2>3, <3>1
  <1> QED
    BY <1>9, <1>10, <1>11, <1>12, <1>13, <1>14, <1>15, <1>16, <1>17 DEF PyStep

-----------------------------------------------------------------------------
(* A step that leaves a demo alone.                                        *)
LEMMA MainKeep ==
  ASSUME NEW p \in Procs, MainInv(p), main'[p] = main[p],
         mgr'[p] = mgr[p], handles'[p] = handles[p], proc'[p] = proc[p],
         removed \subseteq removed'
  PROVE  MainInv(p)'
  BY DEF MainInv, Attaching, Detaching

(* A demo inside a call of the library.                                    *)
LEMMA MainInside ==
  ASSUME LibInv, NEW p \in Procs, MainInv(p), Step(p), main'[p] = main[p]
  PROVE  MainInv(p)'
  <1>1. proc[p].pc # "idle" /\ TypeOK
    BY DEF LibInv, Step, IoctlFail, IoctlCreate, IoctlList, IoctlReturn,
           IoctlFault, OpenEndpoint, OpenFail, RollbackReturn, RemoveFind,
           RemoveRefused, RemoveLeave, RemoveGiveBack, RemoveDrop, Consume
  <1>2. CASE main[p].pc = "attaching"
    <2>1. Attaching(p) /\ handles[p] = {}
      BY <1>1, <1>2 DEF MainInv
    <2>2. CASE /\ mgr'[p] = mgr[p] /\ handles'[p] = handles[p]
               /\ Attaching(p)' \/ proc'[p].pc = "idle"
      BY <1>2, <2>1, <2>2 DEF MainInv
    <2>3. CASE /\ proc'[p].pc = "idle"
               /\ mgr'[p].open = mgr[p].open
               /\ \E h : handles'[p] = handles[p] \cup {h}
      <3>1. \A g, h \in handles'[p] : g = h
        BY <2>1, <2>3
      <3> QED
        BY <1>2, <2>3, <3>1 DEF MainInv
    <2> QED
      BY <1>1, <2>1, <2>2, <2>3, AttachStep
  <1>3. CASE main[p].pc = "detaching"
    <2>1. Detaching(p) /\ proc[p].id = main[p].id
      BY <1>1, <1>3 DEF MainInv
    <2>2. CASE /\ mgr'[p] = mgr[p] /\ handles'[p] = handles[p]
               /\ Detaching(p)' /\ proc'[p].id = proc[p].id
      <3>1. proc'[p].pc # "idle"
        BY <2>2 DEF Detaching, Removal
      <3> QED
        BY <1>3, <2>1, <2>2, <3>1 DEF MainInv
    <2>3. CASE /\ proc'[p].pc = "idle" /\ mgr'[p].open = mgr[p].open
               /\ handles'[p] = {h \in handles[p] : h.id # proc[p].id}
      <3>1. handles'[p] = {}
        BY <1>3, <2>1, <2>3 DEF MainInv
      <3> QED
        BY <1>3, <2>3, <3>1 DEF MainInv
    <2> QED
      BY <2>1, <2>2, <2>3, DetachStep
  <1> QED
    BY <1>1, <1>2, <1>3 DEF MainInv

(* What Fail makes of a demo.                                              *)
LEMMA FailType ==
  ASSUME MainTypeOK, NEW p \in Procs, NEW pc \in {"close", "exit", "detach"},
         NEW ret \in 0 .. 5, Fail(p, pc, ret)
  PROVE  main'[p].pc = pc /\ main'[p].ret = ret /\ MainTypeOK'
  BY DEF Fail, MainTypeOK

(* The steps of main between its calls.                                    *)
LEMMA MainOwn ==
  ASSUME LibInv, LibInv', MainTypeOK, NEW p \in Procs, MainInv(p), MainStep(p)
  PROVE  MainInv(p)' /\ MainTypeOK'
  <1>1. /\ mgr[p].active_endpoints = 0 <=> handles[p] = {}
    BY EndpointBound DEF EndpointsBounded
  <1>2. /\ proc \in [Procs -> CallState]
        /\ mgr \in [Procs -> Manager]
        /\ handles \in [Procs -> SUBSET Handle]
    BY DEF LibInv, TypeOK
  <1>3. CASE OpenManager(p)
    <2>1. main[p].pc = "start" /\ proc[p].pc = "idle"
      BY <1>3 DEF OpenManager, ivc_open_manager
    <2>2. mgr'[p].open = TRUE /\ handles'[p] = handles[p] /\ proc'[p] = proc[p]
      BY <1>2, <1>3 DEF OpenManager, ivc_open_manager
    <2>3. /\ main'[p].pc = "attach" /\ main'[p].ret = main[p].ret
          /\ main'[p].id = main[p].id /\ MainTypeOK'
      BY <1>3 DEF OpenManager, To, MainTypeOK
    <2> QED
      BY <2>1, <2>2, <2>3 DEF MainInv
  <1>4. CASE NoManager(p)
    <2>1. main[p].pc = "start"
      BY <1>4 DEF NoManager
    <2>2. mgr'[p] = mgr[p] /\ handles'[p] = handles[p] /\ proc'[p] = proc[p]
      BY <1>4 DEF NoManager, vars
    <2>3. main'[p].pc = "exit" /\ main'[p].ret = 1 /\ MainTypeOK'
      BY <1>4, FailType DEF NoManager
    <2> QED
      BY <2>1, <2>2, <2>3 DEF MainInv
  <1>5. CASE AttachChannel(p)
    <2>1. main[p].pc = "attach"
      BY <1>5 DEF AttachChannel
    <2>2. /\ mgr'[p] = mgr[p] /\ handles'[p] = handles[p]
          /\ proc'[p].pc = "ioctl"
      <3>1. PICK c : Attach(p, c)
        BY <1>5 DEF AttachChannel, ivc_publish, ivc_subscribe
      <3> QED
        BY <1>2, <3>1 DEF Attach, Idle
    <2>3. Attaching(p)'
      BY <2>2 DEF Attaching
    <2>4. /\ main'[p].pc = "attaching" /\ main'[p].ret = main[p].ret
          /\ main'[p].id = main[p].id /\ MainTypeOK'
      BY <1>5 DEF AttachChannel, To, MainTypeOK
    <2> QED
      BY <2>1, <2>2, <2>3, <2>4 DEF MainInv
  <1>6. CASE Attached(p)
    <2>1. main[p].pc = "attaching" /\ proc[p].pc = "idle"
      BY <1>6 DEF Attached
    <2>2. mgr'[p] = mgr[p] /\ handles'[p] = handles[p] /\ proc'[p] = proc[p]
      BY <1>6 DEF Attached, vars
    <2>3. PICK h \in handles[p] :
            main' = [main EXCEPT ![p].pc = "run", ![p].id = h.id]
      BY <1>6 DEF Attached
    <2>4. h.id \in Ids
      BY FieldTypes DEF LibInv
    <2>5. /\ main'[p].pc = "run" /\ main'[p].ret = main[p].ret
          /\ main'[p].id = h.id /\ MainTypeOK'
      BY <2>3, <2>4 DEF MainTypeOK
    <2>6. \A g \in handles[p] : g.id = h.id
      BY <2>1, <2>3 DEF MainInv
    <2> QED
      BY <2>1, <2>2, <2>4, <2>5, <2>6 DEF MainInv
  <1>7. CASE NotAttached(p)
    <2>1. main[p].pc = "attaching" /\ proc[p].pc = "idle" /\ handles[p] = {}
      BY <1>7 DEF NotAttached
    <2>2. mgr'[p] = mgr[p] /\ handles'[p] = handles[p] /\ proc'[p] = proc[p]
      BY <1>7 DEF NotAttached, vars
    <2>3. main'[p].pc = "close" /\ main'[p].ret = 2 /\ MainTypeOK'
      BY <1>7, FailType DEF NotAttached
    <2> QED
      BY <2>1, <2>2, <2>3 DEF MainInv
  <1>8. ASSUME NEW ok \in BOOLEAN, Run(p, ok) PROVE MainInv(p)' /\ MainTypeOK'
    <2>1. main[p].pc = "run"
      BY <1>8 DEF Run
    <2>2. mgr'[p] = mgr[p] /\ handles'[p] = handles[p] /\ proc'[p] = proc[p]
      BY <1>8 DEF Run, vars
    <2>3. /\ main'[p].pc = "detach" /\ main'[p].ret \in {main[p].ret, 3}
          /\ main'[p].id = main[p].id /\ MainTypeOK'
      BY <1>8 DEF Run, To, Fail, MainTypeOK
    <2> QED
      BY <2>1, <2>2, <2>3 DEF MainInv
  <1>9. CASE DetachChannel(p)
    <2>1. main[p].pc = "detach"
      BY <1>9 DEF DetachChannel
    <2>2. /\ mgr'[p] = mgr[p] /\ handles'[p] = handles[p]
          /\ proc'[p].pc = "find" /\ proc'[p].undo = FALSE
          /\ \E h \in handles[p] : proc'[p].id = h.id
      BY <1>2, <1>9
      DEF DetachChannel, ivc_unpublish, ivc_unsubscribe, Detach, Idle
    <2>3. Detaching(p)'
      BY <2>2 DEF Detaching, Removal
    <2>4. /\ main'[p].pc = "detaching" /\ main'[p].ret = main[p].ret
          /\ main'[p].id = main[p].id /\ MainTypeOK'
      BY <1>9 DEF DetachChannel, To, MainTypeOK
    <2> QED
      BY <2>1, <2>2, <2>3, <2>4 DEF MainInv
  <1>10. CASE Detached(p)
    <2>1. main[p].pc = "detaching" /\ proc[p].pc = "idle"
      BY <1>10 DEF Detached
    <2>2. /\ mgr'[p] = mgr[p] /\ handles'[p] = handles[p] /\ proc'[p] = proc[p]
          /\ removed' = removed
      BY <1>10 DEF Detached, vars
    <2>3. /\ main'[p].pc = "close" /\ main'[p].id = main[p].id /\ MainTypeOK'
          /\ \/ main[p].id \in removed /\ main'[p].ret = main[p].ret
             \/ main'[p].ret = 4
      BY <1>10 DEF Detached, To, Fail, MainTypeOK
    <2> QED
      BY <2>1, <2>2, <2>3 DEF MainInv
  <1>11. ASSUME NEW error \in BOOLEAN, CloseAndExit(p, error)
         PROVE  MainInv(p)' /\ MainTypeOK'
    <2>1. main[p].pc = "close" /\ mgr[p].active_endpoints = 0
      BY <1>1, <1>11 DEF CloseAndExit, MainInv
    <2>2. /\ mgr'[p].open = FALSE /\ handles'[p] = handles[p]
          /\ proc'[p] = proc[p] /\ removed' = removed
      BY <1>2, <1>11, <2>1 DEF CloseAndExit, ivc_close_manager, Manager
    <2>3. /\ main'[p].pc = "exit" /\ main'[p].id = main[p].id /\ MainTypeOK'
          /\ main'[p].ret \in {main[p].ret, 5}
      BY <1>11, <2>1 DEF CloseAndExit, To, Fail, MainTypeOK
    <2> QED
      BY <2>1, <2>2, <2>3 DEF MainInv
  <1>12. CASE RunAgain(p)
    <2>1. main[p].pc = "exit"
      BY <1>12 DEF RunAgain
    <2>2. mgr'[p] = mgr[p] /\ handles'[p] = handles[p] /\ proc'[p] = proc[p]
      BY <1>12 DEF RunAgain, vars
    <2>3. main'[p].pc = "start" /\ main'[p].ret = 0 /\ MainTypeOK'
      BY <1>12 DEF RunAgain, Start, MainTypeOK
    <2> QED
      BY <2>1, <2>2, <2>3 DEF MainInv
  <1>13. CASE KillMain(p)
    <2>1. mgr'[p].open = FALSE /\ handles'[p] = {} /\ proc'[p].pc = "idle"
      BY <1>2, <1>13 DEF KillMain, Kill, Idle
    <2>2. main'[p].pc = "start" /\ main'[p].ret = 0 /\ MainTypeOK'
      BY <1>13 DEF KillMain, Start, MainTypeOK
    <2> QED
      BY <2>1, <2>2 DEF MainInv
  <1> QED
    BY <1>3, <1>4, <1>5, <1>6, <1>7, <1>8, <1>9, <1>10, <1>11, <1>12, <1>13
    DEF MainStep

-----------------------------------------------------------------------------
(* Before any program has started.                                         *)
LEMMA ClientsInvInit == ClientsInit => ClientsInv
  <1> SUFFICES ASSUME ClientsInit PROVE ClientsInv
    OBVIOUS
  <1>1. LibInv
    BY LibInit DEF ClientsInit
  <1>2. PyTypeOK
    <2>1. Cardinality(Ids) \in Nat
      BY LibivcAssumption, FS_CardinalityType
    <2>2. py = [p \in Procs |-> NoPy]
      BY DEF ClientsInit, PyInit
    <2> QED
      BY <2>1, <2>2 DEF PyTypeOK, NoPy
  <1>3. MainTypeOK
    BY DEF ClientsInit, MainInit, MainTypeOK, Start
  <1>4. ASSUME NEW p \in Procs
        PROVE  PyInv(p) /\ MainInv(p) /\ main[p].pc = "start"
    <2>1. /\ mgr[p].open = FALSE /\ mgr[p].active_endpoints = 0
          /\ handles[p] = {} /\ proc[p].pc = "idle"
      BY DEF ClientsInit, Init, Idle
    <2>2. py[p].pc = "idle" /\ py[p].wrapper = FALSE /\ py[p].refs = 0
      BY DEF ClientsInit, PyInit, NoPy
    <2>3. main[p].pc = "start" /\ main[p].ret = 0
      BY DEF ClientsInit, MainInit, Start
    <2>4. InWrapper(p) = 0
      BY <2>2 DEF InWrapper
    <2>5. PyInv(p)
      BY <2>1, <2>2, <2>4 DEF PyInv, RefsInv, PyCallInv
    <2>6. MainInv(p)
      BY <2>1, <2>3 DEF MainInv
    <2> QED
      BY <2>3, <2>5, <2>6
  <1> QED
    BY <1>1, <1>2, <1>3, <1>4 DEF ClientsInv, ClientsInit

(* Every step of every program.                                            *)
LEMMA ClientsInvStep == ClientsInv /\ [ClientsNext]_clientvars => ClientsInv'
  <1> SUFFICES ASSUME ClientsInv, [ClientsNext]_clientvars PROVE ClientsInv'
    OBVIOUS
  <1>1. LibInv /\ TypeOK /\ LibInv' /\ PyTypeOK /\ MainTypeOK
    BY ClientsStepIsStep, LibStep DEF ClientsInv, LibInv
  <1>2. kind' = kind
    BY DEF ClientsNext, clientvars
  <1>3. SUFFICES /\ PyTypeOK' /\ MainTypeOK'
                 /\ \A p \in Procs : /\ kind[p] = "python" => PyInv(p)'
                                     /\ kind[p] = "demo" => MainInv(p)'
                                     /\ kind[p] # "demo" => main'[p].pc = "start"
    BY <1>1, <1>2, <1>3 DEF ClientsInv
  <1>4. \A p \in Procs : /\ kind[p] = "python" => PyInv(p)
                         /\ kind[p] = "demo" => MainInv(p)
                         /\ kind[p] # "demo" => main[p].pc = "start"
    BY DEF ClientsInv
  <1>5. CASE Stranger /\ UNCHANGED <<py, main>>
    <2>1. UNCHANGED <<mgr, handles, proc, removed, py, main>>
      BY <1>5, StrangerKeeps
    <2> QED
      BY <1>1, <1>4, <2>1, PyKeep, MainKeep DEF PyTypeOK, MainTypeOK
  <1>6. CASE UNCHANGED clientvars
    <2>1. UNCHANGED <<mgr, handles, proc, removed, py, main>>
      BY <1>6 DEF clientvars, vars
    <2> QED
      BY <1>1, <1>4, <2>1, PyKeep, MainKeep DEF PyTypeOK, MainTypeOK
  <1>7. ASSUME NEW q \in Procs,
               \/ kind[q] = "library" /\ (Call(q) \/ Kill(q)) /\ UNCHANGED <<py, main>>
               \/ kind[q] = "python" /\ PyStep(q) /\ UNCHANGED main
               \/ kind[q] = "demo" /\ MainStep(q) /\ UNCHANGED py
               \/ Step(q) /\ UNCHANGED <<py, main>>
        PROVE  /\ PyTypeOK' /\ MainTypeOK'
               /\ \A p \in Procs : /\ kind[p] = "python" => PyInv(p)'
                                   /\ kind[p] = "demo" => MainInv(p)'
                                   /\ kind[p] # "demo" => main'[p].pc = "start"
    <2>1. \A p \in Procs \ {q} : /\ mgr'[p] = mgr[p] /\ handles'[p] = handles[p]
                                 /\ proc'[p] = proc[p]
                                 /\ removed \subseteq removed'
      <3>1. Call(q) \/ Step(q) \/ Kill(q) \/ UNCHANGED vars
        BY <1>7, PyCalls, MainCalls
      <3>2. CASE UNCHANGED vars
        BY <3>2 DEF vars
      <3> QED
        BY <1>1, <3>1, <3>2, OthersKeep
    <2>2. \A p \in Procs \ {q} : py'[p] = py[p] /\ main'[p] = main[p]
      BY <1>1, <1>7, PyCalls, MainCalls
    <2>3. \A p \in Procs \ {q} : /\ kind[p] = "python" => PyInv(p)'
                                 /\ kind[p] = "demo" => MainInv(p)'
                                 /\ kind[p] # "demo" => main'[p].pc = "start"
      BY <1>4, <2>1, <2>2, PyKeep, MainKeep
    <2>4. CASE kind[q] = "library" /\ (Call(q) \/ Kill(q)) /\ UNCHANGED <<py, main>>
      BY <1>1, <1>4, <2>3, <2>4 DEF PyTypeOK, MainTypeOK
    <2>5. CASE kind[q] = "python" /\ PyStep(q) /\ UNCHANGED main
      <3>1. PyInv(q)' /\ PyTypeOK'
        BY <1>1, <1>4, <2>5, PyOwn
      <3> QED
        BY <1>1, <1>4, <2>3, <2>5, <3>1 DEF MainTypeOK
    <2>6. CASE kind[q] = "demo" /\ MainStep(q) /\ UNCHANGED py
      <3>1. MainInv(q)' /\ MainTypeOK'
        BY <1>1, <1>4, <2>6, MainOwn
      <3> QED
        BY <1>1, <2>3, <2>6, <3>1 DEF PyTypeOK
    <2>7. CASE Step(q) /\ UNCHANGED <<py, main>>
      <3>1. kind[q] = "python" => PyInv(q)'
        BY <1>1, <1>4, <2>7, PyInside
      <3>2. kind[q] = "demo" => MainInv(q)'
        BY <1>1, <1>4, <2>7, MainInside
      <3> QED
        BY <1>1, <1>4, <2>3, <2>7, <3>1, <3>2 DEF PyTypeOK, MainTypeOK
    <2> QED
      BY <1>7, <2>4, <2>5, <2>6, <2>7
  <1> QED
    BY <1>5, <1>6, <1>7 DEF ClientsNext

-----------------------------------------------------------------------------
(* The programs use the library as module Libivc lets them, so that what   *)
(* is proved of Libivc holds of them: they are the programs the run with   *)
(* clients checks.                                                         *)
THEOREM ClientsUseLibivc == ClientsSpec => Spec
  <1>1. ClientsInit => Init
    BY DEF ClientsInit
  <1> QED
    BY <1>1, ClientsStepIsStep, PTL DEF ClientsSpec, Spec

(* The invariant holds in every state of the programs.                     *)
THEOREM ClientsInvariant == ClientsSpec => []ClientsInv
  BY ClientsInvInit, ClientsInvStep, PTL DEF ClientsSpec

(* The use count of the shared_ptr is the number of objects that hold it,  *)
(* on every path through their constructors and destructors: the manager   *)
(* is open while one does, and closed with the last (ivc_pybind.cpp:26).   *)
THEOREM ManagersLive == ClientsSpec => []ManagerLivesWithObjects
  <1>1. ClientsInv => ManagerLivesWithObjects
    <2> SUFFICES ASSUME ClientsInv, NEW p \in Procs, kind[p] = "python"
                 PROVE  ManagerLivesWith(p)
      BY DEF ClientsInv, ManagerLivesWithObjects
    <2>1. PyInv(p) /\ LibInv /\ PyTypeOK
      BY DEF ClientsInv
    <2>2. /\ mgr[p].active_endpoints \in Nat
          /\ mgr[p].active_endpoints = 0 <=> handles[p] = {}
      BY <2>1, EndpointBound DEF EndpointsBounded
    <2>3. /\ InWrapper(p) \in Nat
          /\ py[p].wrapper = TRUE => InWrapper(p) = 1
      BY DEF InWrapper
    <2>4. /\ py[p].pc \in {"idle", "ctor", "dtor", "close"}
          /\ py[p].wrapper \in BOOLEAN
          /\ py[p].refs \in Nat
      BY <2>1, PyFields
    <2>5. \/ py[p].refs = InWrapper(p) + mgr[p].active_endpoints
          \/ py[p].refs = InWrapper(p) + mgr[p].active_endpoints + 1
      BY <2>1, <2>4 DEF PyInv, RefsInv
    <2>6. py[p].wrapper \/ handles[p] # {} => py[p].refs > 0
      BY <2>2, <2>3, <2>4, <2>5
    <2>7. /\ py[p].refs > 0 => mgr[p].open
          /\ py[p].refs = 0 /\ py[p].pc = "idle" => ~mgr[p].open
      BY <2>1, <2>4 DEF PyInv, PyCallInv
    <2> QED
      BY <2>6, <2>7 DEF ManagerLivesWith
  <1> QED
    BY <1>1, ClientsInvariant, PTL

(* Whatever call of main fails, its manager is closed and its endpoint     *)
(* given back at exit; and with status 0 or 3 the device of the endpoint   *)
(* is gone (publish.c:190-213, subscribe.c:170-199).                       *)
THEOREM ExitsTell == ClientsSpec => []ExitTellsLeftover
  <1>1. ClientsInv => ExitTellsLeftover
    <2> SUFFICES ASSUME ClientsInv, NEW p \in Procs, main[p].pc = "exit"
                 PROVE  /\ handles[p] = {} /\ ~mgr[p].open
                        /\ main[p].ret \in {0, 3} => dev[main[p].id].st = "gone"
      BY DEF ExitTellsLeftover
    <2>1. MainInv(p) /\ RemovedIsGone
      BY DEF ClientsInv, LibInv
    <2> QED
      BY <2>1 DEF MainInv, RemovedIsGone
  <1> QED
    BY <1>1, ClientsInvariant, PTL

-----------------------------------------------------------------------------
(* Sending and receiving (module LibivcIo).  First, sums of sequences;     *)
(* induction is by the least counterexample.                               *)

(* Every set of natural numbers but the empty one has a least element.     *)
LEMMA LeastNat ==
  ASSUME NEW T, T \subseteq Nat, T # {}
  PROVE  \E x \in T : \A y \in T : x <= y
  <1> DEFINE R == OpToRel(<, Nat)
  <1>1. IsWellFoundedOn(R, Nat)
    BY NatLessThanWellFounded
  <1>2. \A x, y \in Nat : <<y, x>> \in R <=> y < x
    BY DEF OpToRel
  <1> HIDE DEF R
  <1>3. \E x \in T : \A y \in T : ~(<<y, x>> \in R)
    BY <1>1, WFMin
  <1>4. PICK x \in T : \A y \in T : ~(<<y, x>> \in R)
    BY <1>3
  <1>5. \A y \in T : ~(y < x)
    BY <1>2, <1>4
  <1>6. \A y \in T : x <= y
    BY <1>5
  <1> QED
    BY <1>6

(* Induction over the natural numbers, for a property that is given as the *)
(* set of the numbers that have it.                                        *)
LEMMA SetInduction ==
  ASSUME NEW T, 0 \in T, \A n \in Nat : n \in T => n + 1 \in T
  PROVE  Nat \subseteq T
  <1> DEFINE B == Nat \ T
  <1> SUFFICES ASSUME B # {} PROVE FALSE
    OBVIOUS
  <1>1. PICK x \in B : \A y \in B : x <= y
    BY LeastNat
  <1>2. x \in Nat /\ x # 0 /\ x \notin T
    OBVIOUS
  <1>3. x - 1 \in Nat /\ x - 1 \notin B
    BY <1>1, <1>2
  <1> QED
    BY <1>2, <1>3

(* f is the table of the partial sums of s.                                *)
Sums(s, f) ==
  f = [k \in 0 .. Len(s) |-> IF k = 0 THEN 0 ELSE f[k - 1] + s[k]]

(* What a table of partial sums holds at each place.                       *)
LEMMA SumsAt ==
  ASSUME NEW s \in Seq(Nat), NEW f, Sums(s, f)
  PROVE  f[0] = 0 /\ \A k \in 1 .. Len(s) : f[k] = f[k - 1] + s[k]
  <1>1. f[0] = 0
    BY DEF Sums
  <1>2. ASSUME NEW k \in 1 .. Len(s) PROVE f[k] = f[k - 1] + s[k]
    <2>1. k \in 0 .. Len(s) /\ k # 0
      OBVIOUS
    <2> QED
      BY <2>1 DEF Sums
  <1> QED
    BY <1>1, <1>2

(* Every sequence of natural numbers has a table of partial sums, built    *)
(* one place at a time.                                                    *)
LEMMA SumsExist ==
  ASSUME NEW s \in Seq(Nat)
  PROVE  \E f \in [0 .. Len(s) -> Nat] : Sums(s, f)
  <1> DEFINE Upto(f, m) ==
               f[0] = 0 /\ \A k \in 1 .. m : f[k] = f[k - 1] + s[k]
             Some(m) == \E f \in [0 .. m -> Nat] : Upto(f, m)
             T == {m \in Nat : m <= Len(s) => Some(m)}
  <1>1. Some(0)
    <2> DEFINE z == [k \in 0 .. 0 |-> 0]
    <2>1. z \in [0 .. 0 -> Nat] /\ Upto(z, 0)
      OBVIOUS
    <2> QED
      BY <2>1
  <1>2. ASSUME NEW m \in Nat, m + 1 <= Len(s), Some(m) PROVE Some(m + 1)
    <2>1. PICK f \in [0 .. m -> Nat] : Upto(f, m)
      BY <1>2
    <2> DEFINE g == [k \in 0 .. (m + 1) |-> IF k = m + 1 THEN f[m] + s[m + 1]
                                            ELSE f[k]]
    <2>2. s[m + 1] \in Nat
      BY <1>2
    <2>3. g \in [0 .. (m + 1) -> Nat]
      BY <2>2
    <2>4. g[0] = 0
      BY <2>1
    <2>5. \A k \in 1 .. (m + 1) : g[k] = g[k - 1] + s[k]
      <3>1. g[m + 1] = f[m] + s[m + 1] /\ \A k \in 0 .. m : g[k] = f[k]
        OBVIOUS
      <3> HIDE DEF g
      <3>2. \A k \in 1 .. m : g[k] = g[k - 1] + s[k]
        <4> TAKE k \in 1 .. m
        <4>1. f[k] = f[k - 1] + s[k]
          BY <2>1
        <4>2. k \in 0 .. m /\ k - 1 \in 0 .. m
          OBVIOUS
        <4> QED
          BY <3>1, <4>1, <4>2
      <3>3. g[m + 1] = g[(m + 1) - 1] + s[m + 1]
        BY <3>1
      <3> TAKE k \in 1 .. (m + 1)
      <3>4. k \in 1 .. m \/ k = m + 1
        OBVIOUS
      <3> QED
        BY <3>2, <3>3, <3>4
    <2> HIDE DEF g
    <2> QED
      BY <2>3, <2>4, <2>5
  <1> HIDE DEF Some
  <1>3. 0 \in T /\ \A m \in Nat : m \in T => m + 1 \in T
    BY <1>1, <1>2
  <1>4. Nat \subseteq T
    <2> HIDE DEF T
    <2> QED
      BY <1>3, SetInduction
  <1>5. Some(Len(s))
    BY <1>4
  <1>6. PICK f \in [0 .. Len(s) -> Nat] : Upto(f, Len(s))
    BY <1>5 DEF Some
  <1>7. Sums(s, f)
    BY <1>6 DEF Sums
  <1> QED
    BY <1>7

(* Two tables of partial sums of a sequence agree at every place.          *)
LEMMA SumsUnique ==
  ASSUME NEW s \in Seq(Nat), NEW f, NEW g, Sums(s, f), Sums(s, g)
  PROVE  f = g
  <1> DEFINE T == {m \in Nat : m <= Len(s) => f[m] = g[m]}
  <1>1. /\ DOMAIN f = 0 .. Len(s) /\ DOMAIN g = 0 .. Len(s)
        /\ f = [k \in 0 .. Len(s) |-> f[k]]
        /\ g = [k \in 0 .. Len(s) |-> g[k]]
    BY DEF Sums
  <1>2. 0 \in T
    BY DEF Sums
  <1>3. ASSUME NEW m \in Nat, m \in T PROVE m + 1 \in T
    <2> SUFFICES ASSUME m + 1 <= Len(s) PROVE f[m + 1] = g[m + 1]
      OBVIOUS
    <2>1. f[m] = g[m] /\ m + 1 \in 0 .. Len(s) /\ (m + 1) - 1 = m /\ m + 1 # 0
      BY <1>3
    <2>2. f[m + 1] = f[m] + s[m + 1]
      BY <2>1 DEF Sums
    <2>3. g[m + 1] = g[m] + s[m + 1]
      BY <2>1 DEF Sums
    <2> QED
      BY <2>1, <2>2, <2>3
  <1> HIDE DEF T
  <1>4. Nat \subseteq T
    BY <1>2, <1>3, SetInduction
  <1> USE DEF T
  <1>5. \A k \in 0 .. Len(s) : f[k] = g[k]
    BY <1>4
  <1> QED
    BY <1>1, <1>5

(* Total reads the last entry of the table.                                *)
LEMMA TotalSums ==
  ASSUME NEW s \in Seq(Nat), NEW f, Sums(s, f)
  PROVE  Total(s) = f[Len(s)]
  <1> DEFINE c == CHOOSE g : Sums(s, g)
  <1>1. Sums(s, c)
    OBVIOUS
  <1>2. c = f
    BY <1>1, SumsUnique
  <1>3. Total(s) = c[Len(s)]
    BY DEF Total, Sums
  <1> QED
    BY <1>2, <1>3

(* The sum of nothing is 0.                                                *)
LEMMA TotalEmpty == Total(<<>>) = 0
  <1> DEFINE z == [k \in 0 .. 0 |-> 0]
  <1>1. Sums(<<>>, z)
    BY DEF Sums
  <1> QED
    BY <1>1, TotalSums

(* The sum of natural numbers is one.                                      *)
LEMMA TotalType ==
  ASSUME NEW s \in Seq(Nat)
  PROVE  Total(s) \in Nat
  <1>1. PICK f \in [0 .. Len(s) -> Nat] : Sums(s, f)
    BY SumsExist
  <1>2. Total(s) = f[Len(s)]
    BY <1>1, TotalSums
  <1> QED
    BY <1>2

(* A number at the end of a sequence is added to its sum.                  *)
LEMMA TotalAppend ==
  ASSUME NEW s \in Seq(Nat), NEW x \in Nat
  PROVE  Total(Append(s, x)) = Total(s) + x
  <1> DEFINE t == Append(s, x)
             n == Len(s)
  <1>1. t \in Seq(Nat) /\ Len(t) = n + 1 /\ t[n + 1] = x /\ n \in Nat
        /\ \A k \in 1 .. n : t[k] = s[k]
    OBVIOUS
  <1>2. PICK f \in [0 .. n -> Nat] : Sums(s, f)
    BY SumsExist
  <1>3. PICK g \in [0 .. Len(t) -> Nat] : Sums(t, g)
    BY <1>1, SumsExist
  <1> HIDE DEF t
  <1> DEFINE h == [k \in 0 .. n |-> g[k]]
  <1>4. h[0] = 0 /\ \A k \in 1 .. n : h[k] = h[k - 1] + s[k]
    <2>1. g[0] = 0 /\ \A k \in 1 .. (n + 1) : g[k] = g[k - 1] + t[k]
      <3>1. g[0] = 0 /\ \A k \in 1 .. Len(t) : g[k] = g[k - 1] + t[k]
        BY <1>1, <1>3, SumsAt, Zenon
      <3> QED
        BY <1>1, <3>1
    <2>2. ASSUME NEW k \in 1 .. n PROVE h[k] = h[k - 1] + s[k]
      <3>1. k \in 1 .. (n + 1) /\ k \in 0 .. n /\ k - 1 \in 0 .. n
        BY <1>1
      <3>2. g[k] = g[k - 1] + s[k]
        BY <1>1, <2>1, <3>1
      <3> QED
        BY <3>1, <3>2
    <2> QED
      BY <1>1, <2>1, <2>2
  <1>5. Sums(s, h)
    <2>1. \A k \in 0 .. n : h[k] = IF k = 0 THEN 0 ELSE h[k - 1] + s[k]
      <3> TAKE k \in 0 .. n
      <3>1. k = 0 \/ k \in 1 .. n
        BY <1>1
      <3> HIDE DEF h
      <3> QED
        BY <1>4, <3>1
    <2>2. h = [k \in 0 .. n |-> h[k]]
      OBVIOUS
    <2> HIDE DEF h
    <2> QED
      BY <2>1, <2>2 DEF Sums
  <1>6. f = h
    BY <1>2, <1>5, SumsUnique
  <1>7. Total(s) = g[n]
    BY <1>1, <1>2, <1>6, TotalSums
  <1>8. Total(t) = g[n + 1] /\ g[n + 1] = g[n] + x
    <2>1. Total(t) = g[n + 1]
      BY <1>1, <1>3, TotalSums
    <2>2. n + 1 \in 0 .. Len(t) /\ n + 1 # 0 /\ (n + 1) - 1 = n
      BY <1>1
    <2>3. g[n + 1] = g[n] + t[n + 1]
      BY <1>3, <2>2 DEF Sums
    <2> QED
      BY <1>1, <2>1, <2>3
  <1> QED
    BY <1>7, <1>8 DEF t

(* Two sequences that differ in one place differ as much in their sum.     *)
LEMMA TotalChange ==
  ASSUME NEW s \in Seq(Nat), NEW t \in Seq(Nat), Len(t) = Len(s),
         NEW j \in 1 .. Len(s),
         \A k \in 1 .. Len(s) : k # j => t[k] = s[k]
  PROVE  Total(t) + s[j] = Total(s) + t[j]
  <1> DEFINE n == Len(s)
  <1>1. PICK f \in [0 .. n -> Nat] : Sums(s, f)
    BY SumsExist
  <1>2. PICK g \in [0 .. n -> Nat] : Sums(t, g)
    BY SumsExist
  <1>3. /\ f[0] = 0 /\ g[0] = 0
        /\ \A k \in 1 .. n : f[k] = f[k - 1] + s[k]
        /\ \A k \in 1 .. n : g[k] = g[k - 1] + t[k]
    <2>1. f[0] = 0 /\ \A k \in 1 .. Len(s) : f[k] = f[k - 1] + s[k]
      BY <1>1, SumsAt
    <2>2. g[0] = 0 /\ \A k \in 1 .. Len(t) : g[k] = g[k - 1] + t[k]
      BY <1>2, SumsAt
    <2> QED
      BY <2>1, <2>2
  <1>4. n \in Nat /\ \A k \in 1 .. n : s[k] \in Nat /\ t[k] \in Nat
    OBVIOUS
  <1> DEFINE P(k) == IF k < j THEN g[k] = f[k]
                     ELSE g[k] + s[j] = f[k] + t[j]
             T == {k \in Nat : k <= n => P(k)}
  <1> HIDE DEF n
  <1>5. P(0)
    BY <1>3
  <1>6. ASSUME NEW k \in Nat, k + 1 <= n, P(k) PROVE P(k + 1)
    <2>1. k + 1 \in 1 .. n /\ (k + 1) - 1 = k /\ k \in 0 .. n
      BY <1>4, <1>6
    <2>2. f[k + 1] = f[k] + s[k + 1] /\ g[k + 1] = g[k] + t[k + 1]
      BY <1>3, <2>1
    <2>3. /\ f[k] \in Nat /\ g[k] \in Nat
          /\ s[k + 1] \in Nat /\ t[k + 1] \in Nat
          /\ s[j] \in Nat /\ t[j] \in Nat
      BY <1>4, <2>1 DEF n
    <2>4. k + 1 # j => t[k + 1] = s[k + 1]
      BY <2>1 DEF n
    <2>5. CASE k + 1 < j
      BY <1>6, <2>2, <2>3, <2>4, <2>5
    <2>6. CASE k + 1 = j
      BY <1>6, <2>2, <2>3, <2>6
    <2>7. CASE k + 1 > j
      <3>1. g[k] + s[j] = f[k] + t[j]
        BY <1>6, <2>7
      <3>2. t[k + 1] = s[k + 1]
        BY <2>4, <2>7
      <3>3. g[k + 1] + s[j] = f[k + 1] + t[j]
        <4> DEFINE gk == g[k]
                   fk == f[k]
                   sj == s[j]
                   tj == t[j]
                   x == s[k + 1]
        <4>1. /\ gk \in Nat /\ fk \in Nat /\ sj \in Nat /\ tj \in Nat
              /\ x \in Nat /\ gk + sj = fk + tj
          BY <2>3, <3>1
        <4>2. g[k + 1] = gk + x /\ f[k + 1] = fk + x
          BY <2>2, <3>2
        <4> HIDE DEF gk, fk, sj, tj, x
        <4>3. (gk + x) + sj = (fk + x) + tj
          BY <4>1
        <4> QED
          BY <4>2, <4>3 DEF sj, tj
      <3> QED
        BY <2>7, <3>3
    <2> QED
      BY <2>5, <2>6, <2>7
  <1> HIDE DEF P
  <1>7. 0 \in T /\ \A k \in Nat : k \in T => k + 1 \in T
    BY <1>4, <1>5, <1>6
  <1>8. Nat \subseteq T
    <2> HIDE DEF T
    <2> QED
      BY <1>7, SetInduction
  <1>9. g[n] + s[j] = f[n] + t[j]
    BY <1>4, <1>8 DEF P, n
  <1> QED
    BY <1>1, <1>2, <1>9, TotalSums DEF n

-----------------------------------------------------------------------------
(* The inductive invariant of LibivcIo.                                    *)

(* A send that reported success has sent its buffer, in one message.       *)
SuccessTrue ==
  \A n \in DOMAIN sends : sends[n].result # -1 =>
    /\ sends[n].result = sends[n].count
    /\ \E k \in DOMAIN accepted :
         {j \in DOMAIN accepted : accepted[j].n = n} = {k}

(* A message that is not its buffer was cut, and reported as a failure.    *)
FailureTrue ==
  \A k \in DOMAIN accepted :
    accepted[k].len # sends[accepted[k].n].count =>
      sends[accepted[k].n].result = -1 /\ accepted[k].len = MaxRw

(* Every message in the channel is that of a call of send.                 *)
ChannelSane ==
  /\ Len(delivered) <= Len(accepted)
  /\ \A k \in DOMAIN accepted : accepted[k].n \in DOMAIN sends

(* What the two applications rely on; the counters need ChannelSane.       *)
IoInv ==
  IoTypeOK /\ ChannelSane /\ SuccessTrue /\ FailureTrue /\ CountersAgree

(* The cast to int keeps every value up to INT_MAX.                        *)
LEMMA IntOfSmall ==
  ASSUME NEW x \in 0 .. IntMax
  PROVE  ToInt(x) = x
  <1> DEFINE w == 2 * IntMax + 2
  <1>1. w \in Nat /\ x \in 0 .. (w - 1) /\ w > 0
    BY LibivcIoAssumption
  <1>2. x % w = x
    BY <1>1
  <1> QED
    BY <1>2, LibivcIoAssumption DEF ToInt

(* The lengths on the way, and those that were cut, can be summed.         *)
LEMMA LensTypes ==
  ASSUME IoTypeOK, ChannelSane
  PROVE  OnTheWay \in Seq(Nat) /\ Cut \in Seq(Nat)
  <1>1. \A k \in 1 .. Len(accepted) : accepted[k].len \in Nat
    <2>1. \A k \in 1 .. Len(accepted) : accepted[k] \in Message
      BY DEF IoTypeOK
    <2>2. \A m \in Message : m.len \in Nat
      BY LibivcIoAssumption DEF Message
    <2> QED
      BY <2>1, <2>2
  <1>2. Len(accepted) \in Nat
    BY DEF IoTypeOK
  <1>3. OnTheWay \in [1 .. Len(accepted) -> Nat]
    BY <1>1 DEF OnTheWay
  <1>4. Cut \in [1 .. Len(accepted) -> Nat]
    BY <1>1 DEF Cut
  <1> QED
    BY <1>2, <1>3, <1>4

(* Nothing has been sent or received.                                      *)
LEMMA IoInitial == IoInit => IoInv
  <1> SUFFICES ASSUME IoInit PROVE IoInv
    OBVIOUS
  <1> USE DEF IoInit, Channel!Init
  <1>1. IoTypeOK /\ ChannelSane /\ SuccessTrue /\ FailureTrue
    BY DEF IoTypeOK, ChannelSane, SuccessTrue, FailureTrue
  <1>2. OnTheWay = <<>> /\ Cut = <<>>
    BY DEF OnTheWay, Cut
  <1>3. CountersAgree
    BY <1>2, TotalEmpty DEF CountersAgree
  <1> QED
    BY <1>1, <1>3 DEF IoInv

(* A send that fails is counted nowhere, and no message is its.            *)
LEMMA IoSendError ==
  ASSUME IoInv, NEW count \in Counts, SendError(count)
  PROVE  IoInv'
  <1> DEFINE r == [count |-> count, result |-> -1]
  <1>1. /\ accepted' = accepted /\ delivered' = delivered
        /\ writable' \in BOOLEAN /\ readable' = readable
        /\ sends' = Append(sends, r)
        /\ bytes_sent' = bytes_sent /\ bytes_received' = bytes_received
    BY DEF SendError, Returns, channel, Channel!BreakWriter, IoInv, IoTypeOK
  <1>2. /\ sends' \in Seq([count : Counts, result : -1 .. IntMax])
        /\ Len(sends') = Len(sends) + 1 /\ sends'[Len(sends) + 1] = r
        /\ \A n \in 1 .. Len(sends) : sends'[n] = sends[n]
    BY <1>1, LibivcIoAssumption DEF IoInv, IoTypeOK
  <1>3. /\ DOMAIN sends = 1 .. Len(sends) /\ DOMAIN sends' = 1 .. Len(sends')
        /\ DOMAIN accepted = 1 .. Len(accepted) /\ Len(sends) \in Nat
    BY <1>2 DEF IoInv, IoTypeOK
  <1>4. IoTypeOK'
    BY <1>1, <1>2 DEF IoInv, IoTypeOK
  <1>5. ChannelSane'
    BY <1>1, <1>2, <1>3 DEF IoInv, ChannelSane
  <1>6. \A k \in DOMAIN accepted :
          /\ accepted[k].n \in 1 .. Len(sends)
          /\ sends'[accepted[k].n] = sends[accepted[k].n]
    BY <1>2, <1>3 DEF IoInv, ChannelSane
  <1>7. SuccessTrue'
    <2> SUFFICES ASSUME NEW n \in DOMAIN sends', sends'[n].result # -1
                 PROVE  /\ sends'[n].result = sends'[n].count
                        /\ \E k \in DOMAIN accepted :
                             {j \in DOMAIN accepted : accepted[j].n = n} = {k}
      BY <1>1 DEF SuccessTrue
    <2>1. n # Len(sends) + 1
      BY <1>2
    <2>2. n \in DOMAIN sends /\ sends'[n] = sends[n]
      BY <1>2, <1>3, <2>1
    <2> QED
      BY <2>2 DEF IoInv, SuccessTrue
  <1>8. FailureTrue'
    BY <1>1, <1>6 DEF IoInv, FailureTrue
  <1>9. OnTheWay' = OnTheWay /\ Cut' = Cut
    <2>1. OnTheWay' = OnTheWay
      BY <1>1 DEF OnTheWay
    <2>2. Cut' = Cut
      BY <1>1, <1>3, <1>6 DEF Cut
    <2> QED
      BY <2>1, <2>2
  <1>10. CountersAgree'
    BY <1>1, <1>9 DEF IoInv, CountersAgree
  <1> QED
    BY <1>4, <1>5, <1>7, <1>8, <1>10 DEF IoInv

(* A send that wrote puts its one message at the end of the channel; what  *)
(* the kernel cut off is reported as a failure.                            *)
LEMMA IoSendWrite ==
  ASSUME IoInv, NEW count \in Counts, SendWrite(count)
  PROVE  IoInv'
  <1> DEFINE m == [n |-> Len(sends) + 1, len |-> Cap(count)]
             ok == Cap(count) = count
             r == [count |-> count, result |-> IF ok THEN count ELSE -1]
             N == Len(accepted)
             S == Len(sends)
  <1>1. count \in 1 .. IntMax
    BY LibivcIoAssumption DEF SendWrite, SendRefuses
  <1>2. ToInt(count) = count
    BY <1>1, IntOfSmall, LibivcIoAssumption
  <1>3. Cap(count) \in 1 .. MaxRw /\ (~ok => Cap(count) = MaxRw)
    BY <1>1, LibivcIoAssumption DEF Cap
  <1>4. /\ accepted' = Append(accepted, m) /\ delivered' = delivered
        /\ writable' = writable /\ readable' = readable
        /\ S < MaxCalls
        /\ bytes_received' = bytes_received
    BY DEF SendWrite, Channel!Accept
  <1>5. /\ sends' = Append(sends, r)
        /\ bytes_sent' = bytes_sent + (IF ok THEN count ELSE 0)
    <2>1. CASE ok
      BY <1>2, <2>1 DEF SendWrite, Returns
    <2>2. CASE ~ok
      BY <1>2, <2>2 DEF SendWrite, Returns, IoInv, IoTypeOK
    <2> QED
      BY <2>1, <2>2
  <1>6. /\ accepted \in Seq(Message) /\ N \in Nat /\ S \in Nat
        /\ DOMAIN accepted = 1 .. N /\ DOMAIN sends = 1 .. S
        /\ \A k \in 1 .. N : accepted[k] \in Message
    BY DEF IoInv, IoTypeOK
  <1>7. m \in Message /\ r \in [count : Counts, result : -1 .. IntMax]
    BY <1>1, <1>3, <1>4, <1>6, LibivcIoAssumption DEF Message
  <1> HIDE DEF m, r
  <1>8. /\ accepted' \in Seq(Message) /\ Len(accepted') = N + 1
        /\ accepted'[N + 1] = m
        /\ \A k \in 1 .. N : accepted'[k] = accepted[k]
        /\ DOMAIN accepted' = 1 .. (N + 1)
    BY <1>4, <1>6, <1>7
  <1>9. /\ sends' \in Seq([count : Counts, result : -1 .. IntMax])
        /\ Len(sends') = S + 1 /\ sends'[S + 1] = r
        /\ \A n \in 1 .. S : sends'[n] = sends[n]
        /\ DOMAIN sends' = 1 .. (S + 1)
    BY <1>5, <1>7 DEF IoInv, IoTypeOK
  <1>10. m.n = S + 1 /\ m.len = Cap(count)
    BY DEF m
  <1>11. r.count = count /\ r.result = IF ok THEN count ELSE -1
    BY DEF r
  <1> HIDE DEF N, S
  <1>12. IoTypeOK'
    BY <1>1, <1>4, <1>5, <1>8, <1>9 DEF IoInv, IoTypeOK
  <1>13. \A k \in 1 .. N : /\ accepted[k].n \in 1 .. S
                           /\ sends'[accepted[k].n] = sends[accepted[k].n]
    BY <1>6, <1>9 DEF IoInv, ChannelSane
  <1>14. ChannelSane'
    <2>1. Len(delivered') <= Len(accepted')
      BY <1>4, <1>6, <1>8 DEF IoInv, IoTypeOK, ChannelSane, N
    <2>2. ASSUME NEW k \in 1 .. (N + 1) PROVE accepted'[k].n \in 1 .. (S + 1)
      <3>1. CASE k = N + 1
        BY <1>6, <1>8, <1>10, <3>1
      <3>2. CASE k \in 1 .. N
        BY <1>6, <1>8, <1>13, <3>2
      <3> QED
        BY <1>6, <3>1, <3>2
    <2> QED
      BY <1>8, <1>9, <2>1, <2>2 DEF ChannelSane
  <1>15. SuccessTrue'
    <2> SUFFICES ASSUME NEW n \in 1 .. (S + 1), sends'[n].result # -1
                 PROVE  /\ sends'[n].result = sends'[n].count
                        /\ \E k \in 1 .. (N + 1) :
                             {j \in 1 .. (N + 1) : accepted'[j].n = n} = {k}
      BY <1>8, <1>9 DEF SuccessTrue
    <2>1. CASE n = S + 1
      <3>1. \A j \in 1 .. N : accepted'[j].n # n
        BY <1>6, <1>8, <1>13, <2>1
      <3>2. accepted'[N + 1].n = n
        BY <1>8, <1>10, <2>1
      <3>3. {j \in 1 .. (N + 1) : accepted'[j].n = n} = {N + 1}
        BY <1>6, <3>1, <3>2
      <3>4. sends'[n].result = sends'[n].count
        BY <1>9, <1>11, <2>1
      <3> QED
        BY <1>6, <3>3, <3>4
    <2>2. CASE n \in 1 .. S
      <3>1. sends'[n] = sends[n]
        BY <1>9, <2>2
      <3>2. PICK k \in 1 .. N : {j \in 1 .. N : accepted[j].n = n} = {k}
        BY <1>6, <2>2, <3>1 DEF IoInv, SuccessTrue
      <3>3. accepted'[N + 1].n # n
        BY <1>6, <1>8, <1>10, <2>2
      <3>4. {j \in 1 .. (N + 1) : accepted'[j].n = n} = {k}
        <4>1. \A j \in 1 .. N : accepted'[j].n = n <=> j = k
          BY <1>8, <3>2
        <4>2. k \in 1 .. (N + 1) /\ k # N + 1
          BY <1>6
        <4>3. \A j \in 1 .. (N + 1) : j \in 1 .. N \/ j = N + 1
          BY <1>6
        <4>4. \A j \in 1 .. (N + 1) : accepted'[j].n = n <=> j = k
          BY <3>3, <4>1, <4>2, <4>3
        <4> QED
          BY <4>2, <4>4
      <3>5. sends'[n].result = sends'[n].count
        BY <1>6, <2>2, <3>1 DEF IoInv, SuccessTrue
      <3> QED
        BY <1>6, <3>4, <3>5
    <2> QED
      BY <1>6, <2>1, <2>2
  <1>16. FailureTrue'
    <2> SUFFICES ASSUME NEW k \in 1 .. (N + 1),
                        accepted'[k].len # sends'[accepted'[k].n].count
                 PROVE  /\ sends'[accepted'[k].n].result = -1
                        /\ accepted'[k].len = MaxRw
      BY <1>8 DEF FailureTrue
    <2>1. CASE k = N + 1
      BY <1>3, <1>8, <1>9, <1>10, <1>11, <2>1
    <2>2. CASE k \in 1 .. N
      BY <1>6, <1>8, <1>13, <2>2 DEF IoInv, FailureTrue
    <2> QED
      BY <1>6, <2>1, <2>2
  <1>17. CountersAgree'
    <2> DEFINE x == Cap(count)
               y == IF ok THEN 0 ELSE x
    <2>1. OnTheWay \in Seq(Nat) /\ Cut \in Seq(Nat)
      BY LensTypes DEF IoInv
    <2>2. /\ Len(OnTheWay) = N /\ Len(Cut) = N
          /\ OnTheWay = [k \in 1 .. N |->
                           IF k > Len(delivered) THEN accepted[k].len ELSE 0]
          /\ Cut = [k \in 1 .. N |->
                      IF sends[accepted[k].n].result = -1
                      THEN accepted[k].len ELSE 0]
      BY <1>6 DEF OnTheWay, Cut, N
    <2>3. x \in Nat /\ y \in Nat /\ count \in Nat
      BY <1>1, <1>3, LibivcIoAssumption
    <2>4. OnTheWay' = Append(OnTheWay, x)
      <3>1. OnTheWay' = [k \in 1 .. (N + 1) |->
                           IF k > Len(delivered)
                           THEN accepted'[k].len ELSE 0]
        BY <1>4, <1>8 DEF OnTheWay
      <3>2. N + 1 > Len(delivered)
        BY <1>6 DEF IoInv, IoTypeOK, ChannelSane, N
      <3>3. Append(OnTheWay, x) =
              [k \in 1 .. (N + 1) |-> IF k = N + 1 THEN x ELSE OnTheWay[k]]
        BY <1>6, <2>1, <2>2
      <3>4. ASSUME NEW k \in 1 .. (N + 1)
            PROVE  (IF k > Len(delivered) THEN accepted'[k].len ELSE 0)
                     = IF k = N + 1 THEN x ELSE OnTheWay[k]
        <4>1. CASE k = N + 1
          BY <1>8, <1>10, <3>2, <4>1
        <4>2. CASE k \in 1 .. N /\ k # N + 1
          BY <1>8, <2>2, <4>2
        <4> QED
          BY <1>6, <4>1, <4>2
      <3> QED
        BY <3>1, <3>3, <3>4
    <2>5. Cut' = Append(Cut, y)
      <3>1. Cut' = [k \in 1 .. (N + 1) |->
                      IF sends'[accepted'[k].n].result = -1
                      THEN accepted'[k].len ELSE 0]
        BY <1>8 DEF Cut
      <3>2. Append(Cut, y) =
              [k \in 1 .. (N + 1) |-> IF k = N + 1 THEN y ELSE Cut[k]]
        BY <1>6, <2>1, <2>2
      <3>3. ASSUME NEW k \in 1 .. (N + 1)
            PROVE  (IF sends'[accepted'[k].n].result = -1
                    THEN accepted'[k].len ELSE 0)
                     = IF k = N + 1 THEN y ELSE Cut[k]
        <4>1. CASE k = N + 1
          BY <1>1, <1>8, <1>9, <1>10, <1>11, <4>1
        <4>2. CASE k \in 1 .. N /\ k # N + 1
          BY <1>8, <1>13, <2>2, <4>2
        <4> QED
          BY <1>6, <4>1, <4>2
      <3> QED
        BY <3>1, <3>2, <3>3
    <2> HIDE DEF x, y
    <2>6. /\ Total(OnTheWay') = Total(OnTheWay) + x
          /\ Total(Cut') = Total(Cut) + y
      BY <2>1, <2>3, <2>4, <2>5, TotalAppend
    <2>7. x = (IF ok THEN count ELSE 0) + y
      BY <2>3 DEF x, y
    <2>8. /\ Total(OnTheWay) \in Nat /\ Total(Cut) \in Nat
          /\ bytes_sent \in Nat /\ bytes_received \in Nat
      BY <2>1, TotalType DEF IoInv, IoTypeOK
    <2>9. bytes_received + Total(OnTheWay) = bytes_sent + Total(Cut)
      BY DEF IoInv, CountersAgree
    <2>10. bytes_received' + Total(OnTheWay') = bytes_sent' + Total(Cut')
      <3> DEFINE way == Total(OnTheWay)
                 cut == Total(Cut)
                 z == IF ok THEN count ELSE 0
      <3>1. z \in Nat /\ x = z + y /\ way \in Nat /\ cut \in Nat
        BY <2>3, <2>7, <2>8
      <3>2. /\ bytes_received' = bytes_received
            /\ bytes_sent' = bytes_sent + z
            /\ Total(OnTheWay') = way + x /\ Total(Cut') = cut + y
            /\ bytes_received + way = bytes_sent + cut
        BY <1>4, <1>5, <2>6, <2>9
      <3> HIDE DEF way, cut, z
      <3>3. bytes_received + (way + x) = (bytes_sent + z) + (cut + y)
        BY <2>3, <2>8, <3>1, <3>2
      <3> QED
        BY <3>2, <3>3
    <2> QED
      BY <2>10 DEF CountersAgree
  <1> QED
    BY <1>12, <1>14, <1>15, <1>16, <1>17 DEF IoInv

(* A receive takes the next message off the way and counts it.             *)
LEMMA IoRecv ==
  ASSUME IoInv, NEW count \in Counts, Recv(count)
  PROVE  IoInv'
  <1> DEFINE N == Len(accepted)
             d == Len(delivered) + 1
             x == accepted[d].len
  <1>1. /\ accepted' = accepted /\ delivered' = Append(delivered, accepted[d])
        /\ writable' = writable /\ readable' = readable
        /\ sends' = sends /\ bytes_sent' = bytes_sent
        /\ bytes_received' = bytes_received + ToInt(x)
        /\ Len(delivered) < N
    BY DEF Recv, Channel!Deliver
  <1>2. /\ accepted \in Seq(Message) /\ delivered \in Seq(Message)
        /\ N \in Nat /\ Len(delivered) \in Nat /\ d \in 1 .. N
    BY <1>1 DEF IoInv, IoTypeOK
  <1>3. accepted[d] \in Message
    BY <1>2
  <1>4. x \in 1 .. MaxRw
    BY <1>3 DEF Message
  <1>5. ToInt(x) = x /\ x \in Nat
    BY <1>4, IntOfSmall, LibivcIoAssumption
  <1>6. delivered' \in Seq(Message) /\ Len(delivered') = d
    BY <1>1, <1>2, <1>3
  <1> HIDE DEF x
  <1>7. IoTypeOK'
    BY <1>1, <1>5, <1>6 DEF IoInv, IoTypeOK
  <1>8. ChannelSane' /\ SuccessTrue' /\ FailureTrue'
    <2>1. ChannelSane'
      BY <1>1, <1>2, <1>6 DEF IoInv, ChannelSane
    <2>2. SuccessTrue'
      BY <1>1 DEF IoInv, SuccessTrue
    <2>3. FailureTrue'
      BY <1>1 DEF IoInv, FailureTrue
    <2> QED
      BY <2>1, <2>2, <2>3
  <1>9. CountersAgree'
    <2>1. OnTheWay \in Seq(Nat) /\ Cut \in Seq(Nat)
      BY LensTypes DEF IoInv
    <2>2. Cut' = Cut
      BY <1>1 DEF Cut
    <2>3. Len(OnTheWay') = N /\ Len(OnTheWay) = N
      BY <1>1, <1>2 DEF OnTheWay
    <2>4. OnTheWay[d] = x /\ OnTheWay'[d] = 0
      BY <1>1, <1>2, <1>6 DEF OnTheWay, x
    <2>5. \A k \in 1 .. N : k # d => OnTheWay'[k] = OnTheWay[k]
      BY <1>1, <1>2, <1>6 DEF OnTheWay
    <2>6. OnTheWay' \in Seq(Nat)
      <3>1. OnTheWay' = [k \in 1 .. N |-> OnTheWay'[k]]
        BY <1>1 DEF OnTheWay
      <3>2. \A k \in 1 .. N : OnTheWay[k] \in Nat
        BY <2>1, <2>3
      <3>3. \A k \in 1 .. N : OnTheWay'[k] \in Nat
        BY <2>4, <2>5, <3>2
      <3>4. OnTheWay' \in [1 .. N -> Nat]
        BY <3>1, <3>3, Zenon
      <3> QED
        BY <1>2, <3>4
    <2> HIDE DEF d, N
    <2>7. Total(OnTheWay') + x = Total(OnTheWay) + 0
      <3>1. /\ Len(OnTheWay') = Len(OnTheWay) /\ d \in 1 .. Len(OnTheWay)
            /\ \A k \in 1 .. Len(OnTheWay) :
                 k # d => OnTheWay'[k] = OnTheWay[k]
        BY <1>2, <2>3, <2>5
      <3>2. Total(OnTheWay') + OnTheWay[d] = Total(OnTheWay) + OnTheWay'[d]
        BY <2>1, <2>6, <3>1, TotalChange, Zenon
      <3> QED
        BY <2>4, <3>2
    <2>8. /\ Total(OnTheWay) \in Nat /\ Total(OnTheWay') \in Nat
          /\ Total(Cut) \in Nat /\ bytes_sent \in Nat /\ bytes_received \in Nat
      BY <2>1, <2>6, TotalType DEF IoInv, IoTypeOK
    <2>9. bytes_received + Total(OnTheWay) = bytes_sent + Total(Cut)
      BY DEF IoInv, CountersAgree
    <2>10. (bytes_received + x) + Total(OnTheWay') = bytes_sent + Total(Cut)
      <3> DEFINE way == Total(OnTheWay)
                 left == Total(OnTheWay')
                 cut == Total(Cut)
      <3>1. /\ way \in Nat /\ left \in Nat /\ cut \in Nat
            /\ left + x = way + 0 /\ bytes_received + way = bytes_sent + cut
        BY <2>7, <2>8, <2>9
      <3> HIDE DEF way, left, cut
      <3>2. (bytes_received + x) + left = bytes_sent + cut
        BY <1>5, <2>8, <3>1
      <3> QED
        BY <3>2 DEF left, cut
    <2> QED
      BY <1>1, <1>5, <2>2, <2>10 DEF CountersAgree
  <1> QED
    BY <1>7, <1>8, <1>9 DEF IoInv

(* A step that changes neither the messages nor what the ends have counted *)
(* keeps the invariant.                                                    *)
LEMMA IoQuiet ==
  ASSUME IoInv, accepted' = accepted, delivered' = delivered,
         writable' \in BOOLEAN, readable' \in BOOLEAN, sends' = sends,
         bytes_sent' = bytes_sent, bytes_received' = bytes_received
  PROVE  IoInv'
  <1>1. IoTypeOK' /\ ChannelSane'
    BY DEF IoInv, IoTypeOK, ChannelSane
  <1>2. SuccessTrue'
    BY DEF IoInv, SuccessTrue
  <1>3. FailureTrue'
    BY DEF IoInv, FailureTrue
  <1>4. OnTheWay' = OnTheWay /\ Cut' = Cut
    BY DEF OnTheWay, Cut
  <1>5. CountersAgree'
    BY <1>4 DEF IoInv, CountersAgree
  <1> QED
    BY <1>1, <1>2, <1>3, <1>5 DEF IoInv

(* Every call of the two applications keeps the invariant.                 *)
LEMMA IoStep == IoInv /\ [IoNext]_ioVars => IoInv'
  <1> SUFFICES ASSUME IoInv, [IoNext]_ioVars PROVE IoInv'
    OBVIOUS
  <1>1. ASSUME NEW count \in Counts, SendError(count) PROVE IoInv'
    BY <1>1, IoSendError
  <1>2. ASSUME NEW count \in Counts, SendWrite(count) PROVE IoInv'
    BY <1>2, IoSendWrite
  <1>3. ASSUME NEW count \in Counts, Recv(count) \/ PyRecv(count) PROVE IoInv'
    BY <1>3, IoRecv DEF PyRecv
  <1>4. CASE RecvError
    BY <1>4, IoQuiet DEF RecvError, Channel!BreakReader, IoInv, IoTypeOK
  <1>5. CASE UNCHANGED ioVars
    BY <1>5, IoQuiet DEF ioVars, channel, IoInv, IoTypeOK
  <1> QED
    BY <1>1, <1>2, <1>3, <1>4, <1>5 DEF IoNext

(* The invariant holds in every state of the two applications.             *)
THEOREM IoInvariant == IoSpec => []IoInv
  BY IoInitial, IoStep, PTL DEF IoSpec

(* What send and the counters report is true, for all buffer sizes, any    *)
(* INT_MAX and any MAX_RW_COUNT below it: a success is one message of the  *)
(* buffer's size, a failure that left a message in the channel is a cut    *)
(* one, and the counters differ by what is on the way and what was cut     *)
(* (ivc_ulib.c:177, 193-225, 354, 369-401).                                *)
THEOREM ReportsTrue == IoSpec => []ReportIsTrue
  <1>1. IoInv => ReportIsTrue
    BY DEF IoInv, ReportIsTrue, SuccessTrue, FailureTrue
  <1> QED
    BY <1>1, IoInvariant, PTL
=============================================================================
