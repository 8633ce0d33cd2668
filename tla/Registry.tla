------------------------------ MODULE Registry ------------------------------
(***************************************************************************)
(* The life of the endpoint devices of one guest: the ioctls of            *)
(* /dev/axivc that create and remove them, open and close of the devices,  *)
(* and the removal of everything when the module is unloaded (src/ivc/     *)
(* ivc.c).                                                                 *)
(*                                                                         *)
(* The driver has this code twice, for publisher devices (a channel is a   *)
(* key) and for subscriber devices (a channel is a publisher and a key).   *)
(* The two differ only in how the region is prepared between the hypercall *)
(* and the allocation, which matters here only for whether it succeeds; so *)
(* one model stands for either.  Names follow the publisher's half.        *)
(*                                                                         *)
(* A step is one critical section of pub_vdev_lock, one hypercall, or one  *)
(* call of the misc device core.  ioctls of different processes interleave *)
(* freely: axivc_manager_ioctl takes no lock of its own.                   *)
(***************************************************************************)
EXTENDS Integers, Sequences, FiniteSets

CONSTANTS
  Callers,    \* processes that issue ioctls on /dev/axivc
  Files,      \* file descriptors endpoint devices are opened with
  Channels,   \* the channels that are published (or subscribed to)
  MaxVdevs,   \* MAX_VDEVS
  MaxCalls,   \* bound: ioctls that create a device
  NoChannel   \* no channel

ASSUME RegistryAssumption ==
  /\ MaxVdevs \in Nat \ {0}
  /\ MaxCalls \in Nat
  /\ NoChannel \notin Channels

VARIABLES
  hv,       \* channels the hypervisor holds for this guest
  list,     \* pub_vdev_list_head: ids of the listed devices
  count,    \* pub_vdev_count
  nextId,   \* next_pub_vdev_id
  vdev,     \* the devices by id
  call,     \* each caller inside axivc_manager_ioctl
  file,     \* the device each file has open, or NoId
  calls,    \* number of creating ioctls so far
  stuck,    \* channels whose roll-back or final unpublish failed
  module    \* "live", "going" (uninit_ivc_devices runs) or "gone"

vars == <<hv, list, count, nextId, vdev, call, file, calls, stuck, module>>

NoId == 0
Ids == 1 .. MaxCalls

(* state   "none", "live" (kzalloc'ed, its region mapped) or "freed"       *)
(* misc    registered with misc_register: the device can be opened         *)
NoVdev == [state |-> "none", misc |-> FALSE, active |-> FALSE,
           removing |-> FALSE, channel |-> NoChannel]

Idle == [pc |-> "idle", channel |-> NoChannel, id |-> NoId]

Creating == {"prepare", "reserve", "register", "list", "rollback"}
Removing == {"hypercall", "deregister", "unlink", "free"}

Vdev ==
  [state : {"none", "live", "freed"}, misc : BOOLEAN, active : BOOLEAN,
   removing : BOOLEAN, channel : Channels \cup {NoChannel}]

CallState ==
  [pc : {"idle", "copyout", "find"} \cup Creating \cup Removing,
   channel : Channels \cup {NoChannel}, id : Ids \cup {NoId}]

TypeOK ==
  /\ hv \subseteq Channels
  /\ list \in Seq(Ids)
  /\ count \in 0 .. MaxVdevs
  /\ nextId \in 1 .. (MaxCalls + 1)
  /\ vdev \in [Ids -> Vdev]
  /\ call \in [Callers -> CallState]
  /\ file \in [Files -> Ids \cup {NoId}]
  /\ calls \in 0 .. MaxCalls
  /\ stuck \subseteq Channels
  /\ module \in {"live", "going", "gone"}

Init ==
  /\ hv = {}
  /\ list = <<>>
  /\ count = 0
  /\ nextId = 1
  /\ vdev = [i \in Ids |-> NoVdev]
  /\ call = [p \in Callers |-> Idle]
  /\ file = [f \in Files |-> NoId]
  /\ calls = 0
  /\ stuck = {}
  /\ module = "live"

Goto(p, pc) == call' = [call EXCEPT ![p].pc = pc]
Return(p) == call' = [call EXCEPT ![p] = Idle]

-----------------------------------------------------------------------------
(* ivc_publish_channel (and ivc_subscribe_channel).                        *)

\* hvc_publish_channel succeeds.  The hypervisor gives a channel out once.
\* A hypercall that fails returns -EIO and changes nothing.
PublishCall(p, c) ==
  /\ module = "live"
  /\ call[p].pc = "idle"
  /\ calls < MaxCalls
  /\ c \notin hv
  /\ hv' = hv \cup {c}
  /\ calls' = calls + 1
  /\ call' = [call EXCEPT ![p] = [pc |-> "prepare", channel |-> c,
                                  id |-> NoId]]
  /\ UNCHANGED <<list, count, nextId, vdev, file, stuck, module>>

\* memremap, axivc_region_init_publisher (axivc_region_validate with its
\* wait, for a subscriber) and kzalloc all succeed ...
Prepare(p) ==
  /\ call[p].pc = "prepare"
  /\ Goto(p, "reserve")
  /\ UNCHANGED <<hv, list, count, nextId, vdev, file, calls, stuck, module>>

\* ... or one of them fails and what was done is undone.
PrepareFail(p) ==
  /\ call[p].pc = "prepare"
  /\ Goto(p, "rollback")
  /\ UNCHANGED <<hv, list, count, nextId, vdev, file, calls, stuck, module>>

\* Under the lock: a number for the device, if there is room.
Reserve(p) ==
  /\ call[p].pc = "reserve"
  /\ count < MaxVdevs
  /\ nextId' = nextId + 1
  /\ count' = count + 1
  /\ vdev' = [vdev EXCEPT ![nextId] =
                [NoVdev EXCEPT !.state = "live", !.channel = call[p].channel]]
  /\ call' = [call EXCEPT ![p].pc = "register", ![p].id = nextId]
  /\ UNCHANGED <<hv, list, file, calls, stuck, module>>

\* Under the lock: -ENOSPC.
ReserveFull(p) ==
  /\ call[p].pc = "reserve"
  /\ count >= MaxVdevs
  /\ Goto(p, "rollback")
  /\ UNCHANGED <<hv, list, count, nextId, vdev, file, calls, stuck, module>>

\* misc_register: from here on the device can be opened.
Register(p) ==
  /\ call[p].pc = "register"
  /\ vdev' = [vdev EXCEPT ![call[p].id].misc = TRUE]
  /\ Goto(p, "list")
  /\ UNCHANGED <<hv, list, count, nextId, file, calls, stuck, module>>

\* Mutants: the failure path forgets the count; it forgets the channel.
RegisterFailKeepsCount(p) ==
  /\ call[p].pc = "register"
  /\ vdev' = [vdev EXCEPT ![call[p].id].state = "freed"]
  /\ call' = [call EXCEPT ![p].pc = "rollback", ![p].id = NoId]
  /\ UNCHANGED <<hv, list, count, nextId, file, calls, stuck, module>>

RegisterFailKeepsChannel(p) ==
  /\ call[p].pc = "register"
  /\ count' = count - 1
  /\ vdev' = [vdev EXCEPT ![call[p].id].state = "freed"]
  /\ Return(p)
  /\ UNCHANGED <<hv, list, nextId, file, calls, stuck, module>>

\* misc_register fails: give the number back, free, roll back.
RegisterFail(p) ==
  /\ call[p].pc = "register"
  /\ count' = count - 1
  /\ vdev' = [vdev EXCEPT ![call[p].id].state = "freed"]
  /\ call' = [call EXCEPT ![p].pc = "rollback", ![p].id = NoId]
  /\ UNCHANGED <<hv, list, nextId, file, calls, stuck, module>>

\* Under the lock: list_add_tail.
AddToList(p) ==
  /\ call[p].pc = "list"
  /\ list' = Append(list, call[p].id)
  /\ Goto(p, "copyout")
  /\ UNCHANGED <<hv, count, nextId, vdev, file, calls, stuck, module>>

\* copy_to_user of the device name succeeds: the ioctl returns 0.
CopyOut(p) ==
  /\ call[p].pc = "copyout"
  /\ Return(p)
  /\ UNCHANGED <<hv, list, count, nextId, vdev, file, calls, stuck, module>>

\* copy_to_user fails: ivc_unpublish_channel with the same key.
CopyOutFault(p) ==
  /\ call[p].pc = "copyout"
  /\ call' = [call EXCEPT ![p].pc = "find", ![p].id = NoId]
  /\ UNCHANGED <<hv, list, count, nextId, vdev, file, calls, stuck, module>>

\* axivc_rollback_publish: a failing hypercall is only logged.
Rollback(p, ok) ==
  /\ call[p].pc = "rollback"
  /\ hv' = IF ok THEN hv \ {call[p].channel} ELSE hv
  /\ stuck' = IF ok THEN stuck ELSE stuck \cup {call[p].channel}
  /\ Return(p)
  /\ UNCHANGED <<list, count, nextId, vdev, file, calls, module>>

-----------------------------------------------------------------------------
(* ivc_unpublish_channel (and ivc_unsubscribe_channel).                    *)

UnpublishCall(p, c) ==
  /\ module = "live"
  /\ call[p].pc = "idle"
  /\ call' = [call EXCEPT ![p] = [pc |-> "find", channel |-> c,
                                  id |-> NoId]]
  /\ UNCHANGED <<hv, list, count, nextId, vdev, file, calls, stuck, module>>

(* The first listed device of the caller's channel.                        *)
IsFirst(p, n) ==
  /\ vdev[list[n]].channel = call[p].channel
  /\ \A m \in 1 .. (n - 1) : vdev[list[m]].channel # call[p].channel

\* Mutant: a removal that is under way is not noticed.
FindRemovable(p) ==
  /\ call[p].pc = "find"
  /\ \E n \in 1 .. Len(list) :
       /\ IsFirst(p, n)
       /\ ~vdev[list[n]].active
       /\ vdev' = [vdev EXCEPT ![list[n]].removing = TRUE]
       /\ call' = [call EXCEPT ![p].pc = "hypercall", ![p].id = list[n]]
  /\ UNCHANGED <<hv, list, count, nextId, file, calls, stuck, module>>

\* Under the lock: the device is found and marked.
Find(p) ==
  /\ call[p].pc = "find"
  /\ \E n \in 1 .. Len(list) :
       /\ IsFirst(p, n)
       /\ ~vdev[list[n]].active /\ ~vdev[list[n]].removing
       /\ vdev' = [vdev EXCEPT ![list[n]].removing = TRUE]
       /\ call' = [call EXCEPT ![p].pc = "hypercall", ![p].id = list[n]]
  /\ UNCHANGED <<hv, list, count, nextId, file, calls, stuck, module>>

\* Under the lock: -ENOENT, or -EBUSY for one that is open or being removed.
FindFail(p) ==
  /\ call[p].pc = "find"
  /\ \A n \in 1 .. Len(list) :
       IsFirst(p, n) => vdev[list[n]].active \/ vdev[list[n]].removing
  /\ Return(p)
  /\ UNCHANGED <<hv, list, count, nextId, vdev, file, calls, stuck, module>>

\* hvc_unpublish_channel; if it fails the device is unmarked again: -EIO.
Unpublish(p) ==
  /\ call[p].pc = "hypercall"
  /\ hv' = hv \ {call[p].channel}
  /\ Goto(p, "deregister")
  /\ UNCHANGED <<list, count, nextId, vdev, file, calls, stuck, module>>

UnpublishFail(p) ==
  /\ call[p].pc = "hypercall"
  /\ vdev' = [vdev EXCEPT ![call[p].id].removing = FALSE]
  /\ Return(p)
  /\ UNCHANGED <<hv, list, count, nextId, file, calls, stuck, module>>

\* misc_deregister: excludes and outlasts any open in progress (misc_mtx).
Deregister(p) ==
  /\ call[p].pc = "deregister"
  /\ vdev' = [vdev EXCEPT ![call[p].id].misc = FALSE]
  /\ Goto(p, "unlink")
  /\ UNCHANGED <<hv, list, count, nextId, file, calls, stuck, module>>

(* The list without its n-th entry.                                        *)
ListDel(n) ==
  [m \in 1 .. (Len(list) - 1) |-> IF m < n THEN list[m] ELSE list[m + 1]]

\* Under the lock: list_del.
Unlink(p) ==
  /\ call[p].pc = "unlink"
  /\ \E n \in 1 .. Len(list) : list[n] = call[p].id /\ list' = ListDel(n)
  /\ count' = count - 1
  /\ Goto(p, "free")
  /\ UNCHANGED <<hv, nextId, vdev, file, calls, stuck, module>>

\* memunmap and kfree.
FreeVdev(p) ==
  /\ call[p].pc = "free"
  /\ vdev' = [vdev EXCEPT ![call[p].id].state = "freed"]
  /\ Return(p)
  /\ UNCHANGED <<hv, list, count, nextId, file, calls, stuck, module>>

-----------------------------------------------------------------------------
(* The device file.                                                        *)

\* Mutant: a device that is being removed can be opened.
OpenRemoving(f, i) ==
  /\ module = "live"
  /\ file[f] = NoId
  /\ vdev[i].misc /\ ~vdev[i].active
  /\ vdev' = [vdev EXCEPT ![i].active = TRUE]
  /\ file' = [file EXCEPT ![f] = i]
  /\ UNCHANGED <<hv, list, count, nextId, call, calls, stuck, module>>

\* axivc_publisher_open; -EBUSY and -ENODEV change nothing.
Open(f, i) ==
  /\ module = "live"
  /\ file[f] = NoId
  /\ vdev[i].misc /\ ~vdev[i].active /\ ~vdev[i].removing
  /\ vdev' = [vdev EXCEPT ![i].active = TRUE]
  /\ file' = [file EXCEPT ![f] = i]
  /\ UNCHANGED <<hv, list, count, nextId, call, calls, stuck, module>>

\* axivc_publisher_release, once no read or write is in progress.
Release(f) ==
  /\ file[f] # NoId
  /\ vdev' = [vdev EXCEPT ![file[f]].active = FALSE]
  /\ file' = [file EXCEPT ![f] = NoId]
  /\ UNCHANGED <<hv, list, count, nextId, call, calls, stuck, module>>

-----------------------------------------------------------------------------
(* axvisor_exit.  Every file_operations names THIS_MODULE as its owner, so *)
(* the module is in use while any of its files is open; an ioctl needs an  *)
(* open /dev/axivc.  uninit_ivc_devices therefore runs alone.              *)

Unload ==
  /\ module = "live"
  /\ \A p \in Callers : call[p].pc = "idle"
  /\ \A f \in Files : file[f] = NoId
  /\ module' = "going"
  /\ UNCHANGED <<hv, list, count, nextId, vdev, call, file, calls, stuck>>

\* Mutant: the channel is not given back.
UninitKeepsChannel(ok) ==
  /\ module = "going"
  /\ list # <<>>
  /\ UNCHANGED <<hv, stuck>>
  /\ vdev' = [vdev EXCEPT ![Head(list)].state = "freed",
                         ![Head(list)].misc = FALSE]
  /\ list' = Tail(list)
  /\ UNCHANGED <<count, nextId, call, file, calls, module>>

\* One round of the loop of uninit_ivc_devices; the hypercall's result is
\* not looked at.
Uninit(ok) ==
  /\ module = "going"
  /\ list # <<>>
  /\ LET c == vdev[Head(list)].channel
     IN  /\ hv' = IF ok THEN hv \ {c} ELSE hv
         /\ stuck' = IF ok THEN stuck ELSE stuck \cup {c}
  /\ vdev' = [vdev EXCEPT ![Head(list)].state = "freed",
                         ![Head(list)].misc = FALSE]
  /\ list' = Tail(list)
  /\ UNCHANGED <<count, nextId, call, file, calls, module>>

\* misc_deregister of /dev/axivc.
Unloaded ==
  /\ module = "going"
  /\ list = <<>>
  /\ module' = "gone"
  /\ UNCHANGED <<hv, list, count, nextId, vdev, call, file, calls, stuck>>

-----------------------------------------------------------------------------
Ioctl(p) ==
  \/ \E c \in Channels : PublishCall(p, c) \/ UnpublishCall(p, c)
  \/ Prepare(p)
  \/ PrepareFail(p)
  \/ Reserve(p)
  \/ ReserveFull(p)
  \/ Register(p)
  \/ RegisterFail(p)
  \/ AddToList(p)
  \/ CopyOut(p)
  \/ CopyOutFault(p)
  \/ \E ok \in BOOLEAN : Rollback(p, ok)
  \/ Find(p)
  \/ FindFail(p)
  \/ Unpublish(p)
  \/ UnpublishFail(p)
  \/ Deregister(p)
  \/ Unlink(p)
  \/ FreeVdev(p)

Next ==
  \/ \E p \in Callers : Ioctl(p)
  \/ \E f \in Files : Release(f) \/ \E i \in Ids : Open(f, i)
  \/ Unload
  \/ \E ok \in BOOLEAN : Uninit(ok)
  \/ Unloaded

Spec == Init /\ [][Next]_vars

-----------------------------------------------------------------------------
(* An open device is whole: its memory is not freed, its region is mapped, *)
(* the hypervisor still holds its channel, and nobody else has it open.    *)
(* Open races with the removal by another process, which unlocks between   *)
(* marking the device and freeing it (ivc.c:235-255, ivc.c:655).           *)
OpenIsBacked ==
  \A f \in Files : file[f] # NoId =>
    /\ vdev[file[f]].state = "live"
    /\ vdev[file[f]].active
    /\ vdev[file[f]].channel \in hv
    /\ \A g \in Files : file[g] = file[f] => g = f

(* pub_vdev_count is the number of devices that exist, on every path       *)
(* through creation and removal, and stays below the limit (ivc.c:173,     *)
(* ivc.c:205, ivc.c:254).                                                  *)
CountIsExact ==
  /\ TypeOK
  /\ module = "live" =>
       LET leaving == {call[p].id : p \in {q \in Callers : call[q].pc = "free"}}
       IN  count = Cardinality({i \in Ids : vdev[i].state = "live"} \ leaving)

(* A channel the hypervisor holds is never forgotten: a creation that can  *)
(* still roll it back or a listed device that can still be removed stands  *)
(* for it, unless a roll-back failed and was only logged (ivc.c:101).      *)
NoForgottenChannel ==
  \A c \in hv \ stuck :
    \/ \E p \in Callers : call[p].pc \in Creating /\ call[p].channel = c
    \/ \E n \in 1 .. Len(list) :
         /\ vdev[list[n]].channel = c
         /\ vdev[list[n]].state = "live"

(* Unloading the module leaves nothing behind: every device is gone and    *)
(* every channel given back, except where the hypervisor refused.          *)
UnloadIsClean ==
  module = "gone" =>
    /\ hv \subseteq stuck
    /\ \A i \in Ids : vdev[i].state # "live" /\ ~vdev[i].misc

-----------------------------------------------------------------------------
(* What a program sees of a device: it is there from misc_register to      *)
(* list_del, and keeps its channel until the removal's hypercall.          *)
Listed(i) == \E n \in 1 .. Len(list) : list[n] = i
PastHypercall(i) ==
  \E p \in Callers : call[p].pc \in {"deregister", "unlink"} /\ call[p].id = i

StatusOf(i) ==
  CASE vdev[i].state = "freed" -> "gone"
    [] vdev[i].state = "live" /\ vdev[i].removing ->
         IF ~Listed(i) THEN "gone"
         ELSE IF PastHypercall(i) THEN "leaving" ELSE "taken"
    [] vdev[i].state = "live" /\ ~vdev[i].removing /\ vdev[i].misc ->
         IF Listed(i) THEN "listed" ELSE "new"
    [] OTHER -> "none"

Table ==
  [i \in Ids |->
     [st |-> StatusOf(i),
      ch |-> IF StatusOf(i) \in {"none", "gone"} THEN NoChannel
             ELSE vdev[i].channel,
      active |-> vdev[i].active]]

Devices == INSTANCE DeviceTable WITH dev <- Table

(* The registry, with its critical sections, hypercalls and roll-backs     *)
(* interleaved between processes, keeps the promise of DeviceTable: one    *)
(* device per channel, one opener, one remover, numbers used once, and     *)
(* removal by channel finds the oldest device (ivc.c:173-263, 650-677).    *)
ImplementsDeviceTable == Devices!DeviceTableSpec
=============================================================================
