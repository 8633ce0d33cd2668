-------------------------- MODULE IvshmemUioProofs --------------------------
(***************************************************************************)
(* Proofs about module IvshmemUio: what the driver holds follows from the  *)
(* step its probe or remove has reached, and the depth of the line from    *)
(* irq_disabled and the one call that is still owed to the line.           *)
(***************************************************************************)
EXTENDS IvshmemUio, TLAPS

(* The UIO core knows the device and may call back.                        *)
Registered == {"start", "bound", "unregister"}

(* What probe holds at each step, on the way up and down the ladder.       *)
Owned ==
  CASE pc \in {"unbound", "device"} -> {}
    [] pc = "regions" -> {"device"}
    [] pc = "vectors" -> {"device", "regions"}
    [] pc = "registers" -> {"device", "regions", "vectors"}
    [] pc \in Registered -> Resources
    [] OTHER -> Resources \ {"uio"}

(* The enable_irq, or the disable_irq_nosync (-1), that a critical section *)
(* has decided on and that is still to come.                               *)
Owed ==
  IF irqcontrol = "enable" \/ pc = "enable" THEN 1
  ELSE IF irqcontrol = "disable" THEN -1 ELSE 0

(* A driver is bound only in a module that is loaded.                      *)
LadderInv ==
  /\ held = Owned
  /\ module \in {"out", "ivc"} => pc = "unbound"

(* Who may run and what may be pending at each step.                       *)
CallbackInv ==
  /\ handler # "idle" \/ irqcontrol # "idle" \/ app # "read" =>
       pc \in Registered
  /\ intctrl => pc = "bound"
  /\ latched => pc \in {"bound", "unregister"}

(* The line between irq_disabled and the call that is owed.  A flag that   *)
(* is set outlives its registration only up to remove's own section.       *)
LineInv ==
  /\ depth = (IF irq_disabled THEN 1 ELSE 0) + Owed
  /\ irqcontrol = "disable" => irq_disabled
  /\ irq_disabled => pc \in Registered \cup {"unflag"}

DriverInv == TypeOK /\ LadderInv /\ CallbackInv /\ LineInv

(* The module is not loaded and the device not bound.                      *)
LEMMA DriverInit == Init => DriverInv
  <1> SUFFICES ASSUME Init PROVE DriverInv
    OBVIOUS
  <1>1. TypeOK
    BY DEF Init, TypeOK
  <1>2. LadderInv
    BY DEF Init, LadderInv, Owned, Registered
  <1>3. CallbackInv
    BY DEF Init, CallbackInv
  <1>4. LineInv
    BY DEF Init, LineInv, Owed
  <1> QED
    BY <1>1, <1>2, <1>3, <1>4 DEF DriverInv

(* The critical section of irqcontrol changes the flag and notes the call  *)
(* it owes; the depth stays.                                               *)
LEMMA IrqcontrolKeepsLine ==
  ASSUME DriverInv, NEW on \in BOOLEAN, ivshmem_uio_irqcontrol(on),
         depth' = depth, pc' = pc
  PROVE  LineInv'
  <1> USE DEF DriverInv, TypeOK, LadderInv, Owned, LineInv, Owed, Registered,
              ivshmem_uio_irqcontrol, Resources
  <1>1. pc \in Registered
    OBVIOUS
  <1>2. CASE on /\ irq_disabled
    <2>1. irqcontrol' = "enable" /\ ~irq_disabled'
      BY <1>2
    <2> QED
      BY <1>1, <1>2, <2>1
  <1>3. CASE ~on /\ ~irq_disabled
    <2>1. irqcontrol' = "disable" /\ irq_disabled'
      BY <1>3
    <2> QED
      BY <1>1, <1>3, <2>1
  <1>4. CASE on /\ ~irq_disabled
    BY <1>1, <1>4
  <1>5. CASE ~on /\ irq_disabled
    BY <1>1, <1>5
  <1> QED
    BY <1>2, <1>3, <1>4, <1>5

(* Every step of the module entry, probe, remove, the callbacks, the       *)
(* application and the device keeps the invariant.                         *)
LEMMA DriverStep == DriverInv /\ [Next]_vars => DriverInv'
  <1> SUFFICES ASSUME DriverInv, [Next]_vars PROVE DriverInv'
    OBVIOUS
  <1> USE DEF DriverInv, TypeOK, LadderInv, Owned, CallbackInv, LineInv,
              Owed, Registered, Probing, Removing, Resources
  <1>1. CASE LoadIvc \/ axvisor_ivshmem_register \/ UnloadIvc
    BY <1>1
    DEF LoadIvc, axvisor_ivshmem_register, UnloadIvc, line, callbacks, device
  <1>2. CASE axvisor_exit \/ axvisor_ivshmem_unregister
    BY <1>2
    DEF axvisor_exit, axvisor_ivshmem_unregister, line, callbacks, device
  <1>3. CASE ProbeBegin
    BY <1>3 DEF ProbeBegin, callbacks, device
  <1>4. CASE ProbeAcquire
    BY <1>4 DEF ProbeAcquire, NextStep, line, callbacks, device
  <1>5. CASE ProbeFail
    <2>1. held \ Undone(pc) = {}
      <3>1. CASE pc = "device"
        BY <1>5, <3>1 DEF ProbeFail
      <3>2. CASE pc = "regions"
        BY <1>5, <3>2 DEF ProbeFail, Undone, Label, Ladder
      <3>3. CASE pc = "vectors"
        BY <1>5, <3>3 DEF ProbeFail, Undone, Label, Ladder
      <3>4. CASE pc = "registers"
        BY <1>5, <3>4 DEF ProbeFail, Undone, Label, Ladder
      <3>5. CASE pc = "uio"
        BY <1>5, <3>5 DEF ProbeFail, Undone, Label, Ladder
      <3> QED
        BY <1>5, <3>1, <3>2, <3>3, <3>4, <3>5 DEF ProbeFail
    <2> QED
      BY <1>5, <2>1 DEF ProbeFail, line, callbacks, device
  <1>6. CASE ProbeStart
    BY <1>6 DEF ProbeStart, line, callbacks
  <1>7. CASE RemoveSilence
    BY <1>7 DEF RemoveSilence, line, callbacks
  <1>8. CASE RemoveUnregister
    BY <1>8 DEF RemoveUnregister, line
  <1>9. CASE RemoveUnflag
    <2>1. TypeOK'
      BY <1>9 DEF RemoveUnflag, callbacks, device
    <2>2. LadderInv'
      BY <1>9 DEF RemoveUnflag, callbacks, device
    <2>3. CallbackInv'
      BY <1>9 DEF RemoveUnflag, callbacks, device
    <2>4. LineInv'
      BY <1>9 DEF RemoveUnflag, callbacks, device
    <2> QED
      BY <2>1, <2>2, <2>3, <2>4
  <1>10. CASE RemoveEnable
    BY <1>10 DEF RemoveEnable, callbacks, device
  <1>11. CASE RemoveRelease
    BY <1>11 DEF RemoveRelease, line, callbacks, device
  <1>12. CASE HandlerEnter
    <2>1. TypeOK'
      BY <1>12 DEF HandlerEnter, entry, line
    <2>2. LadderInv'
      BY <1>12 DEF HandlerEnter, entry, line
    <2>3. CallbackInv'
      BY <1>12 DEF HandlerEnter, entry, line
    <2>4. LineInv'
      BY <1>12 DEF HandlerEnter, entry, line
    <2> QED
      BY <2>1, <2>2, <2>3, <2>4
  <1>13. CASE HandlerStatus
    BY <1>13 DEF HandlerStatus, entry, line, device
  <1>14. CASE HandlerLock
    BY <1>14 DEF HandlerLock, entry, device
  <1>15. CASE IrqcontrolLine
    BY <1>15 DEF IrqcontrolLine, entry, device
  <1>16. CASE OtherWrite
    <2>1. TypeOK'
      BY <1>16 DEF OtherWrite, ivshmem_uio_irqcontrol, entry, device
    <2>2. LadderInv'
      BY <1>16 DEF OtherWrite, ivshmem_uio_irqcontrol, entry, device
    <2>3. CallbackInv'
      BY <1>16 DEF OtherWrite, ivshmem_uio_irqcontrol, entry, device
    <2>4. LineInv'
      BY <1>16, IrqcontrolKeepsLine DEF OtherWrite, entry
    <2> QED
      BY <2>1, <2>2, <2>3, <2>4
  <1>17. CASE AppRead
    BY <1>17 DEF AppRead, entry, line, device
  <1>18. CASE AppClear
    <2>1. TypeOK'
      BY <1>18 DEF AppClear, entry, line
    <2>2. LadderInv'
      BY <1>18 DEF AppClear, entry, line
    <2>3. CallbackInv'
      BY <1>18 DEF AppClear, entry, line
    <2>4. LineInv'
      BY <1>18 DEF AppClear, entry, line
    <2> QED
      BY <2>1, <2>2, <2>3, <2>4
  <1>19. CASE AppRearm
    <2>1. TypeOK'
      BY <1>19 DEF AppRearm, ivshmem_uio_irqcontrol, entry, device
    <2>2. LadderInv'
      BY <1>19 DEF AppRearm, ivshmem_uio_irqcontrol, entry, device
    <2>3. CallbackInv'
      BY <1>19 DEF AppRearm, ivshmem_uio_irqcontrol, entry, device
    <2>4. LineInv'
      BY <1>19, IrqcontrolKeepsLine DEF AppRearm, entry
    <2> QED
      BY <2>1, <2>2, <2>3, <2>4
  <1>20. CASE Event
    <2>1. TypeOK'
      <3>1. latched' \in BOOLEAN
        BY <1>20 DEF Event
      <3> QED
        BY <1>20, <3>1 DEF Event, entry, line, callbacks
    <2>2. LadderInv'
      BY <1>20 DEF Event, entry, line, callbacks
    <2>3. CallbackInv'
      BY <1>20 DEF Event, entry, line, callbacks
    <2>4. LineInv'
      BY <1>20 DEF Event, entry, line, callbacks
    <2> QED
      BY <2>1, <2>2, <2>3, <2>4
  <1>21. CASE UNCHANGED vars
    BY <1>21 DEF vars, entry, line, callbacks, device
  <1> QED
    BY <1>1, <1>2, <1>3, <1>4, <1>5, <1>6, <1>7, <1>8, <1>9, <1>10, <1>11,
       <1>12, <1>13, <1>14, <1>15, <1>16, <1>17, <1>18, <1>19, <1>20, <1>21
    DEF Next, Probe, Remove, Handler, Application

-----------------------------------------------------------------------------
(* The invariant holds in every state of the driver.                       *)
THEOREM DriverInvariant == Spec => []DriverInv
  BY DriverInit, DriverStep, PTL DEF Spec

(* Outside of the gap between a critical section and its call, the line is *)
(* disabled, and disabled once, exactly when irq_disabled says so, for any *)
(* interleaving of the handler, irqcontrol and remove (uio_ivshmem.c:52,   *)
(* 68-80, 169-175).                                                        *)
THEOREM LineFollows == Spec => []LineFollowsFlag
  <1>1. DriverInv => LineFollowsFlag
    BY DEF DriverInv, LineInv, Owed, LineFollowsFlag, TypeOK
  <1> QED
    BY <1>1, DriverInvariant, PTL

(* No callback runs without all that probe has acquired, by a bound driver *)
(* of a loaded module (uio_ivshmem.c:140, 166, main.c:76).                 *)
THEOREM CallbacksSafe == Spec => []CallbacksHaveDevice
  <1>1. DriverInv => CallbacksHaveDevice
    BY DEF DriverInv, TypeOK, CallbackInv, LadderInv, Owned, Registered,
           CallbacksHaveDevice
  <1> QED
    BY <1>1, DriverInvariant, PTL

(* A probe that fails at any step, and a remove, give back everything and  *)
(* leave the line enabled and the device silent; the module stays while    *)
(* the driver is bound (uio_ivshmem.c:109-181, main.c:76-77).              *)
THEOREM DriverLeavesNothing == Spec => []NothingLeftBehind
  <1>1. DriverInv => NothingLeftBehind
    BY DEF DriverInv, LadderInv, CallbackInv, LineInv, Owned, Owed, Registered,
           TypeOK, NothingLeftBehind
  <1> QED
    BY <1>1, DriverInvariant, PTL
=============================================================================
