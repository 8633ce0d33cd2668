------------------------------ MODULE DemoMain ------------------------------
(***************************************************************************)
(* main of the demo applications (src/demo/publish.c, subscribe.c) over    *)
(* libivc: the order of the calls, the exit paths and the exit status.     *)
(* What happens between attaching and detaching is module Demo; here it    *)
(* succeeds or fails.                                                      *)
(***************************************************************************)
EXTENDS Libivc

VARIABLE main

(* id  the device of the program's endpoint                                *)
Start == [pc |-> "start", ret |-> 0, id |-> NoId]

MainTypeOK ==
  main \in [Procs -> [pc : {"start", "attach", "attaching", "run", "detach",
                            "detaching", "close", "exit"},
                      ret : 0 .. 5, id : Ids \cup {NoId}]]

MainInit == main = [p \in Procs |-> Start]

To(p, pc) == main' = [main EXCEPT ![p].pc = pc]

Fail(p, pc, ret) == main' = [main EXCEPT ![p].pc = pc, ![p].ret = ret]

-----------------------------------------------------------------------------
OpenManager(p) ==
  /\ main[p].pc = "start"
  /\ ivc_open_manager(p)
  /\ To(p, "attach")

NoManager(p) ==
  /\ main[p].pc = "start"
  /\ Fail(p, "exit", 1)
  /\ UNCHANGED vars

AttachChannel(p) ==
  /\ main[p].pc = "attach"
  /\ ivc_publish(p) \/ ivc_subscribe(p)
  /\ To(p, "attaching")

Attached(p) ==
  /\ main[p].pc = "attaching" /\ proc[p].pc = "idle"
  /\ \E h \in handles[p] :
       main' = [main EXCEPT ![p].pc = "run", ![p].id = h.id]
  /\ UNCHANGED vars

NotAttached(p) ==
  /\ main[p].pc = "attaching" /\ proc[p].pc = "idle"
  /\ handles[p] = {}
  /\ Fail(p, "close", 2)
  /\ UNCHANGED vars

\* All messages sent and received, or a failure on the way.
Run(p, ok) ==
  /\ main[p].pc = "run"
  /\ IF ok THEN To(p, "detach") ELSE Fail(p, "detach", 3)
  /\ UNCHANGED vars

DetachChannel(p) ==
  /\ main[p].pc = "detach"
  /\ ivc_unpublish(p) \/ ivc_unsubscribe(p)
  /\ To(p, "detaching")

\* Mutant: the result is not looked at.
DetachedUnchecked(p) ==
  /\ main[p].pc = "detaching" /\ proc[p].pc = "idle"
  /\ To(p, "close")
  /\ UNCHANGED vars

Detached(p) ==
  /\ main[p].pc = "detaching" /\ proc[p].pc = "idle"
  /\ IF main[p].id \in removed THEN To(p, "close") ELSE Fail(p, "close", 4)
  /\ UNCHANGED vars

\* The manager is consumed even when close(2) reports an error.
CloseAndExit(p, error) ==
  /\ main[p].pc = "close"
  /\ IF mgr[p].active_endpoints = 0
     THEN /\ ivc_close_manager(p)
          /\ IF error THEN Fail(p, "exit", 5) ELSE To(p, "exit")
     ELSE UNCHANGED vars /\ Fail(p, "exit", 5)

\* The program is run again, by hand or by a script.
RunAgain(p) ==
  /\ main[p].pc = "exit" /\ ~mgr[p].open
  /\ main' = [main EXCEPT ![p] = Start]
  /\ UNCHANGED vars

KillMain(p) == Kill(p) /\ main' = [main EXCEPT ![p] = Start]

MainStep(p) ==
  \/ OpenManager(p) \/ NoManager(p)
  \/ AttachChannel(p) \/ Attached(p) \/ NotAttached(p)
  \/ \E ok \in BOOLEAN : Run(p, ok)
  \/ DetachChannel(p) \/ Detached(p)
  \/ \E error \in BOOLEAN : CloseAndExit(p, error)
  \/ RunAgain(p) \/ KillMain(p)

-----------------------------------------------------------------------------
(* Every way out of main gives the endpoint back before the manager, so    *)
(* that closing the manager is not refused; and a program that ends with   *)
(* status 0 or 3 leaves no device behind: the device of its endpoint is    *)
(* gone, whatever other programs do to the channel (publish.c:190-213,     *)
(* subscribe.c:170-199).                                                   *)
ExitTellsLeftover ==
  \A p \in Procs : main[p].pc = "exit" =>
    /\ handles[p] = {} /\ ~mgr[p].open
    /\ main[p].ret \in {0, 3} => dev[main[p].id].st = "gone"
=============================================================================
