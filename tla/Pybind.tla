------------------------------- MODULE Pybind -------------------------------
(***************************************************************************)
(* The Python binding (src/pybind/ivc_pybind.cpp): who keeps the manager   *)
(* alive.  A Manager object and every Publisher and Subscriber object hold *)
(* a shared_ptr to one ManagerPointerManager, whose destructor closes the  *)
(* manager and ignores the result.  Python drops the objects in any order. *)
(* The calls into libivc hold the interpreter lock, so a program is in one *)
(* of them at a time.                                                      *)
(***************************************************************************)
EXTENDS Libivc

VARIABLE py

(* wrapper  the Manager object exists                                      *)
(* refs     use count of the shared_ptr                                    *)
(* had      the endpoints there were when a constructor began              *)
NoPy == [pc |-> "idle", wrapper |-> FALSE, refs |-> 0, had |-> {}]

PyTypeOK ==
  py \in [Procs -> [pc : {"idle", "ctor", "dtor", "close"}, wrapper : BOOLEAN,
                    refs : 0 .. (Cardinality(Ids) + 2), had : SUBSET Handle]]

PyInit == py = [p \in Procs |-> NoPy]

(* A shared_ptr goes away; the last one runs ~ManagerPointerManager.       *)
Unref(p) ==
  [py[p] EXCEPT !.pc = IF py[p].refs = 1 THEN "close" ELSE "idle",
                !.refs = @ - 1]

-----------------------------------------------------------------------------
\* Manager(); when the manager cannot be opened it throws.
NewManager(p) ==
  /\ py[p].pc = "idle" /\ py[p].refs = 0
  /\ ivc_open_manager(p)
  /\ py' = [py EXCEPT ![p].wrapper = TRUE, ![p].refs = 1]

\* ~Manager
DropManager(p) ==
  /\ py[p].pc = "idle" /\ py[p].wrapper
  /\ py' = [py EXCEPT ![p] = [Unref(p) EXCEPT !.wrapper = FALSE]]
  /\ UNCHANGED vars

\* Mutant: the endpoint object does not share in the manager.
NewEndpointUnshared(p) ==
  /\ py[p].pc = "idle" /\ py[p].wrapper
  /\ ivc_publish(p) \/ ivc_subscribe(p)
  /\ py' = [py EXCEPT ![p].pc = "ctor", ![p].had = handles[p]]

\* Publisher(manager, ...) and Subscriber(manager, ...)
NewEndpoint(p) ==
  /\ py[p].pc = "idle" /\ py[p].wrapper
  /\ ivc_publish(p) \/ ivc_subscribe(p)
  /\ py' = [py EXCEPT ![p].pc = "ctor", ![p].refs = @ + 1, ![p].had = handles[p]]

\* The library has returned a handle ...
EndpointCreated(p) ==
  /\ py[p].pc = "ctor" /\ proc[p].pc = "idle"
  /\ handles[p] # py[p].had
  /\ py' = [py EXCEPT ![p].pc = "idle", ![p].had = {}]
  /\ UNCHANGED vars

\* ... or NULL: the constructor throws, and only its members are destroyed.
EndpointThrows(p) ==
  /\ py[p].pc = "ctor" /\ proc[p].pc = "idle"
  /\ handles[p] = py[p].had
  /\ py' = [py EXCEPT ![p] = [Unref(p) EXCEPT !.had = {}]]
  /\ UNCHANGED vars

\* ~Publisher and ~Subscriber: the handle first, then the members.
DropEndpoint(p) ==
  /\ py[p].pc = "idle"
  /\ ivc_unpublish(p) \/ ivc_unsubscribe(p)
  /\ py' = [py EXCEPT ![p].pc = "dtor"]

EndpointDropped(p) ==
  /\ py[p].pc = "dtor" /\ proc[p].pc = "idle"
  /\ py' = [py EXCEPT ![p] = Unref(p)]
  /\ UNCHANGED vars

\* ~ManagerPointerManager
CloseManager(p) ==
  /\ py[p].pc = "close"
  /\ IF mgr[p].active_endpoints = 0 THEN ivc_close_manager(p) ELSE UNCHANGED vars
  /\ py' = [py EXCEPT ![p].pc = "idle"]

\* The interpreter is killed with its program.
KillPython(p) == Kill(p) /\ py' = [py EXCEPT ![p] = NoPy]

PyStep(p) ==
  \/ NewManager(p) \/ DropManager(p)
  \/ NewEndpoint(p) \/ EndpointCreated(p) \/ EndpointThrows(p)
  \/ DropEndpoint(p) \/ EndpointDropped(p)
  \/ CloseManager(p) \/ KillPython(p)

-----------------------------------------------------------------------------
(* The manager of p is open while an object uses it, and no longer.        *)
ManagerLivesWith(p) ==
  /\ py[p].wrapper \/ handles[p] # {} => py[p].refs > 0
  /\ py[p].refs > 0 => mgr[p].open
  /\ py[p].refs = 0 /\ py[p].pc = "idle" => ~mgr[p].open
=============================================================================
