------------------------------- MODULE Libivc -------------------------------
(***************************************************************************)
(* libivc (src/userspace/ivc): the manager and endpoint handles of         *)
(* programs over the endpoint devices of one guest.  Programs run side by  *)
(* side, one call at a time each, and can be killed.  The kernel's side is *)
(* the table of devices that Registry is shown to implement.               *)
(*                                                                         *)
(* The library has its calls twice, for publishers (a channel is a key)    *)
(* and for subscribers (a publisher and a key); Pubs and Subs are the two  *)
(* sorts of channels.  A step is one system call, or one of the steps of   *)
(* an ioctl that other programs can see.                                   *)
(***************************************************************************)
EXTENDS FiniteSets, DeviceTable

CONSTANTS
  Procs,        \* programs that use the library
  Pubs, Subs,   \* channels to publish, channels to subscribe to
  NoId          \* no device

ASSUME LibivcAssumption ==
  /\ Channels = Pubs \cup Subs
  /\ Pubs \cap Subs = {}
  /\ NoChannel \notin Channels
  /\ NoId \notin Ids
  /\ IsFiniteSet(Ids)

VARIABLES
  mgr,        \* each program's manager: open or not, active_endpoints
  handles,    \* each program's endpoint handles
  proc,       \* each program inside a call of the library
  stranger,   \* the device a program without the library has open, or NoId
  removed,    \* devices whose ivc_unpublish returned 0
  lost        \* devices left behind by a call that failed or a program killed

vars == <<dev, mgr, handles, proc, stranger, removed, lost>>

(* publish_arg.channel_key, and the device that fd has open.               *)
Handle == [ch : Channels, id : Ids]

(* id      the device named by the ioctl, or by the handle given back      *)
(* target  the device the removing ioctl works on                          *)
(* undo    the removal is not ivc_unpublish's: it undoes a publish         *)
(* failed  saved_errno, or a failed roll-back                              *)
Idle == [pc |-> "idle", ch |-> NoChannel, id |-> NoId, target |-> NoId,
         undo |-> FALSE, failed |-> FALSE]

Removal == {"find", "hypercall", "drop", "done"}

Manager == [open : BOOLEAN, active_endpoints : Nat]

CallState ==
  [pc : {"idle", "ioctl", "list", "copyout", "open"} \cup Removal,
   ch : Channels \cup {NoChannel},
   id : Ids \cup {NoId}, target : Ids \cup {NoId},
   undo : BOOLEAN, failed : BOOLEAN]

TypeOK ==
  /\ dev \in [Ids -> DevSet]
  /\ mgr \in [Procs -> Manager]
  /\ handles \in [Procs -> SUBSET Handle]
  /\ proc \in [Procs -> CallState]
  /\ stranger \in Ids \cup {NoId}
  /\ removed \subseteq Ids
  /\ lost \subseteq Ids

Init ==
  /\ DeviceTableInit
  /\ mgr = [p \in Procs |-> [open |-> FALSE, active_endpoints |-> 0]]
  /\ handles = [p \in Procs |-> {}]
  /\ proc = [p \in Procs |-> Idle]
  /\ stranger = NoId
  /\ removed = {}
  /\ lost = {}

Goto(p, pc) == proc' = [proc EXCEPT ![p].pc = pc]

(* p is in ivc_unpublish or ivc_unsubscribe of device i.                   *)
Releasing(p, i) ==
  proc[p].pc \in Removal /\ ~proc[p].undo /\ proc[p].id = i

-----------------------------------------------------------------------------
(* The manager.  A malloc or open that fails leaves nothing behind.        *)

ivc_open_manager(p) ==
  /\ proc[p].pc = "idle" /\ ~mgr[p].open
  /\ mgr' = [mgr EXCEPT ![p] = [open |-> TRUE, active_endpoints |-> 0]]
  /\ UNCHANGED <<dev, handles, proc, stranger, removed, lost>>

\* With endpoints in use the call returns EBUSY and changes nothing.
ivc_close_manager(p) ==
  /\ proc[p].pc = "idle" /\ mgr[p].open
  /\ mgr[p].active_endpoints = 0
  /\ mgr' = [mgr EXCEPT ![p].open = FALSE]
  /\ UNCHANGED <<dev, handles, proc, stranger, removed, lost>>

-----------------------------------------------------------------------------
(* ivc_publish and ivc_subscribe: ioctl, then open of the device it names. *)

Attach(p, c) ==
  /\ proc[p].pc = "idle" /\ mgr[p].open
  /\ proc' = [proc EXCEPT ![p] = [Idle EXCEPT !.pc = "ioctl", !.ch = c]]
  /\ UNCHANGED <<dev, mgr, handles, stranger, removed, lost>>

ivc_publish(p) == \E c \in Pubs : Attach(p, c)
ivc_subscribe(p) == \E c \in Subs : Attach(p, c)

\* The ioctl fails before the device exists; the kernel has undone it.
IoctlFail(p) ==
  /\ proc[p].pc = "ioctl"
  /\ proc' = [proc EXCEPT ![p] = Idle]
  /\ UNCHANGED <<dev, mgr, handles, stranger, removed, lost>>

IoctlCreate(p) ==
  /\ proc[p].pc = "ioctl"
  /\ \E i \in Ids :
       /\ Appear(i, proc[p].ch)
       /\ proc' = [proc EXCEPT ![p].pc = "list", ![p].id = i]
  /\ UNCHANGED <<mgr, handles, stranger, removed, lost>>

IoctlList(p) ==
  /\ proc[p].pc = "list"
  /\ List(proc[p].id)
  /\ Goto(p, "copyout")
  /\ UNCHANGED <<mgr, handles, stranger, removed, lost>>

IoctlReturn(p) ==
  /\ proc[p].pc = "copyout"
  /\ Goto(p, "open")
  /\ UNCHANGED <<dev, mgr, handles, stranger, removed, lost>>

\* The name cannot be copied out: the kernel removes the channel's device.
IoctlFault(p) ==
  /\ proc[p].pc = "copyout"
  /\ proc' = [proc EXCEPT ![p].pc = "find", ![p].undo = TRUE]
  /\ UNCHANGED <<dev, mgr, handles, stranger, removed, lost>>

\* Mutant: the endpoint is not counted.
OpenUncounted(p) ==
  /\ proc[p].pc = "open"
  /\ OpenDevice(proc[p].id)
  /\ handles' = [handles EXCEPT ![p] =
                   @ \cup {[ch |-> proc[p].ch, id |-> proc[p].id]}]
  /\ proc' = [proc EXCEPT ![p] = Idle]
  /\ UNCHANGED <<mgr, stranger, removed, lost>>

OpenEndpoint(p) ==
  /\ proc[p].pc = "open"
  /\ OpenDevice(proc[p].id)
  /\ handles' = [handles EXCEPT ![p] =
                   @ \cup {[ch |-> proc[p].ch, id |-> proc[p].id]}]
  /\ mgr' = [mgr EXCEPT ![p].active_endpoints = @ + 1]
  /\ proc' = [proc EXCEPT ![p] = Idle]
  /\ UNCHANGED <<stranger, removed, lost>>

\* Mutant: the library returns NULL without a roll-back.
OpenFailKeeps(p) ==
  /\ proc[p].pc = "open"
  /\ proc' = [proc EXCEPT ![p] = Idle]
  /\ UNCHANGED <<dev, mgr, handles, stranger, removed, lost>>

\* open fails: somebody else has the device open or has removed it, or the
\* program has no descriptor left.  The roll-back is by channel.
OpenFail(p) ==
  /\ proc[p].pc = "open"
  /\ proc' = [proc EXCEPT ![p].pc = "find", ![p].undo = TRUE]
  /\ UNCHANGED <<dev, mgr, handles, stranger, removed, lost>>

\* The roll-back is over, a failure of it only logged: NULL.
RollbackReturn(p) ==
  /\ proc[p].pc = "done" /\ proc[p].undo
  /\ lost' = IF proc[p].failed THEN lost \cup ({proc[p].id} \ {NoId}) ELSE lost
  /\ proc' = [proc EXCEPT ![p] = Idle]
  /\ UNCHANGED <<dev, mgr, handles, stranger, removed>>

-----------------------------------------------------------------------------
(* The ioctls that remove a channel's device.                              *)

RemoveFind(p) ==
  /\ proc[p].pc = "find"
  /\ \E i \in Ids :
       /\ dev[i].ch = proc[p].ch
       /\ Take(i)
       /\ proc' = [proc EXCEPT ![p].pc = "hypercall", ![p].target = i]
  /\ UNCHANGED <<mgr, handles, stranger, removed, lost>>

\* -ENOENT or -EBUSY
RemoveRefused(p) ==
  /\ proc[p].pc = "find"
  /\ \A i \in Ids : dev[i].ch = proc[p].ch => ~Removable(i)
  /\ proc' = [proc EXCEPT ![p].pc = "done", ![p].failed = TRUE]
  /\ UNCHANGED <<dev, mgr, handles, stranger, removed, lost>>

RemoveLeave(p) ==
  /\ proc[p].pc = "hypercall"
  /\ Leave(proc[p].target)
  /\ Goto(p, "drop")
  /\ UNCHANGED <<mgr, handles, stranger, removed, lost>>

\* -EIO
RemoveGiveBack(p) ==
  /\ proc[p].pc = "hypercall"
  /\ GiveBack(proc[p].target)
  /\ proc' = [proc EXCEPT ![p].pc = "done", ![p].target = NoId,
                         ![p].failed = TRUE]
  /\ UNCHANGED <<mgr, handles, stranger, removed, lost>>

RemoveDrop(p) ==
  /\ proc[p].pc = "drop"
  /\ Drop(proc[p].target)
  /\ proc' = [proc EXCEPT ![p].pc = "done", ![p].target = NoId]
  /\ UNCHANGED <<mgr, handles, stranger, removed, lost>>

-----------------------------------------------------------------------------
(* ivc_unpublish and ivc_unsubscribe.                                      *)

\* close of the device file, which gives the descriptor back even when it
\* reports an error.
Detach(p, h, error) ==
  /\ proc[p].pc = "idle"
  /\ CloseDevice(h.id)
  /\ proc' = [proc EXCEPT ![p] = [Idle EXCEPT !.pc = "find", !.ch = h.ch,
                                             !.id = h.id, !.failed = error]]
  /\ UNCHANGED <<mgr, handles, stranger, removed, lost>>

ivc_unpublish(p) ==
  \E h \in handles[p], error \in BOOLEAN : h.ch \in Pubs /\ Detach(p, h, error)
ivc_unsubscribe(p) ==
  \E h \in handles[p], error \in BOOLEAN : h.ch \in Subs /\ Detach(p, h, error)

ivc_manager_release_endpoint(p) ==
  mgr' = [mgr EXCEPT ![p].active_endpoints = IF @ = 0 THEN 0 ELSE @ - 1]

\* Mutants: a failed removal keeps the handle; it is not reported.
ConsumeOnSuccess(p) ==
  /\ proc[p].pc = "done" /\ ~proc[p].undo
  /\ ivc_manager_release_endpoint(p)
  /\ handles' = [handles EXCEPT ![p] =
                   IF proc[p].failed THEN @ ELSE {h \in @ : h.id # proc[p].id}]
  /\ removed' = IF proc[p].failed THEN removed ELSE removed \cup {proc[p].id}
  /\ lost' = IF proc[p].failed THEN lost \cup {proc[p].id} ELSE lost
  /\ proc' = [proc EXCEPT ![p] = Idle]
  /\ UNCHANGED <<dev, stranger>>

ConsumeUnchecked(p) ==
  /\ proc[p].pc = "done" /\ ~proc[p].undo
  /\ ivc_manager_release_endpoint(p)
  /\ handles' = [handles EXCEPT ![p] = {h \in @ : h.id # proc[p].id}]
  /\ removed' = removed \cup {proc[p].id}
  /\ lost' = lost
  /\ proc' = [proc EXCEPT ![p] = Idle]
  /\ UNCHANGED <<dev, stranger>>

\* Whatever failed, the endpoint is released and freed; the first error is
\* returned.
Consume(p) ==
  /\ proc[p].pc = "done" /\ ~proc[p].undo
  /\ ivc_manager_release_endpoint(p)
  /\ handles' = [handles EXCEPT ![p] = {h \in @ : h.id # proc[p].id}]
  /\ removed' = IF proc[p].failed THEN removed ELSE removed \cup {proc[p].id}
  /\ lost' = IF proc[p].failed THEN lost \cup {proc[p].id} ELSE lost
  /\ proc' = [proc EXCEPT ![p] = Idle]
  /\ UNCHANGED <<dev, stranger>>

-----------------------------------------------------------------------------
(* The environment.                                                        *)

\* A program is killed outside of an ioctl.  The kernel closes its files;
\* axivc_manager_release removes no device.
Kill(p) ==
  LET closed == {h.id : h \in handles[p]} \ {i \in Ids : Releasing(p, i)}
  IN  /\ mgr[p].open
      /\ proc[p].pc \in {"idle", "open", "find", "done"}
      /\ dev' = [i \in Ids |-> IF i \in closed
                               THEN [dev[i] EXCEPT !.active = FALSE]
                               ELSE dev[i]]
      /\ lost' = lost \cup closed \cup ({proc[p].id} \ {NoId})
      /\ mgr' = [mgr EXCEPT ![p] = [open |-> FALSE, active_endpoints |-> 0]]
      /\ handles' = [handles EXCEPT ![p] = {}]
      /\ proc' = [proc EXCEPT ![p] = Idle]
      /\ UNCHANGED <<stranger, removed>>

\* The ioctls are a public ABI: a program may remove a channel it has no
\* handle for.
RawRemove(p, c) ==
  /\ proc[p].pc = "idle"
  /\ proc' = [proc EXCEPT ![p] = [Idle EXCEPT !.pc = "find", !.ch = c,
                                             !.undo = TRUE]]
  /\ UNCHANGED <<dev, mgr, handles, stranger, removed, lost>>

\* Any program may open a device file.
StrangerOpen(i) ==
  /\ stranger = NoId
  /\ OpenDevice(i)
  /\ stranger' = i
  /\ UNCHANGED <<mgr, handles, proc, removed, lost>>

StrangerClose ==
  /\ stranger # NoId
  /\ CloseDevice(stranger)
  /\ stranger' = NoId
  /\ UNCHANGED <<mgr, handles, proc, removed, lost>>

-----------------------------------------------------------------------------
(* The steps of p after it has called the library.                         *)
Step(p) ==
  \/ IoctlFail(p) \/ IoctlCreate(p) \/ IoctlList(p)
  \/ IoctlReturn(p) \/ IoctlFault(p)
  \/ OpenEndpoint(p) \/ OpenFail(p) \/ RollbackReturn(p)
  \/ RemoveFind(p) \/ RemoveRefused(p)
  \/ RemoveLeave(p) \/ RemoveGiveBack(p) \/ RemoveDrop(p)
  \/ Consume(p)

(* What a program may do outside of a call.                                *)
Call(p) ==
  \/ ivc_open_manager(p) \/ ivc_close_manager(p)
  \/ ivc_publish(p) \/ ivc_subscribe(p)
  \/ ivc_unpublish(p) \/ ivc_unsubscribe(p)
  \/ \E c \in Channels : RawRemove(p, c)

Stranger == StrangerClose \/ \E i \in Ids : StrangerOpen(i)

Next ==
  \/ \E p \in Procs : Call(p) \/ Step(p) \/ Kill(p)
  \/ Stranger

Spec == Init /\ [][Next]_vars

-----------------------------------------------------------------------------
(* A handle the program has not given back is good: its device is there,   *)
(* is of the handle's channel and is open for this program alone, however  *)
(* other programs' removals and roll-backs by channel interleave with its  *)
(* publish (ivc_ulib.c:310-327, 137, ivc.c:235, 761).                      *)
HandleIsBacked ==
  \A p \in Procs : \A h \in handles[p] :
    Releasing(p, h.id) \/
      /\ dev[h.id] = [st |-> "listed", ch |-> h.ch, active |-> TRUE]
      /\ stranger # h.id
      /\ \A q \in Procs : \A g \in handles[q] : g.id = h.id => q = p /\ g = h

(* active_endpoints is the number of the program's handles, on every path  *)
(* through the two calls, and no handle outlives its manager, whose fd     *)
(* ivc_unpublish needs (ivc_ulib.c:67, 149, 257, 326, 433).                *)
ManagerOutlivesEndpoints ==
  TypeOK /\ \A p \in Procs :
    /\ mgr[p].active_endpoints = Cardinality(handles[p])
    /\ handles[p] # {} => mgr[p].open

(* When ivc_unpublish or ivc_unsubscribe returns 0 the device is gone,     *)
(* although the ioctl names the channel and others may have removed the    *)
(* device and published the channel again in between (ivc_ulib.c:242-269). *)
RemovedIsGone == \A i \in removed : dev[i].st = "gone"

(* No device is left behind silently: each one has a handle, or a call     *)
(* under way that will return it or remove it, unless a call reported its  *)
(* failure or a program was killed (ivc_ulib.c:131-147, 310-324).          *)
NoSilentOrphan ==
  \A i \in Ids \ lost : dev[i].st \in Present =>
    \E p \in Procs :
      \/ proc[p].id = i \/ proc[p].target = i
      \/ \E h \in handles[p] : h.id = i
=============================================================================
