------------------------------ MODULE Clients -------------------------------
(***************************************************************************)
(* The programs that use libivc, side by side on the endpoint devices of   *)
(* one guest: programs that call the library as they like, Python programs *)
(* (Pybind) and demo applications (DemoMain).                              *)
(***************************************************************************)
EXTENDS Pybind, DemoMain

VARIABLE kind   \* what each program is; it does not change

clientvars == <<vars, py, main, kind>>

ClientsInit ==
  /\ Init /\ PyInit /\ MainInit
  /\ kind \in [Procs -> {"library", "python", "demo"}]

ClientsNext ==
  /\ \/ \E p \in Procs :
          \/ kind[p] = "library" /\ (Call(p) \/ Kill(p)) /\ UNCHANGED <<py, main>>
          \/ kind[p] = "python" /\ PyStep(p) /\ UNCHANGED main
          \/ kind[p] = "demo" /\ MainStep(p) /\ UNCHANGED py
          \/ Step(p) /\ UNCHANGED <<py, main>>
     \/ Stranger /\ UNCHANGED <<py, main>>
  /\ UNCHANGED kind

ClientsSpec == ClientsInit /\ [][ClientsNext]_clientvars

-----------------------------------------------------------------------------
(* The manager of a Python program is there as long as an object uses it   *)
(* and is closed with the last one, whichever order Python drops them in   *)
(* and whichever calls fail: the EBUSY that ~ManagerPointerManager would   *)
(* ignore, leaking the descriptor, does not come (ivc_pybind.cpp:26, 58,   *)
(* 68, 119, 129).                                                          *)
ManagerLivesWithObjects ==
  /\ PyTypeOK /\ MainTypeOK
  /\ \A p \in Procs : kind[p] = "python" => ManagerLivesWith(p)
=============================================================================
