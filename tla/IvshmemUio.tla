----------------------------- MODULE IvshmemUio -----------------------------
(***************************************************************************)
(* The ivshmem UIO driver (src/uio_ivshmem/uio_ivshmem.c) for one device,  *)
(* with the module entry that registers it (src/ivc/main.c): probe and     *)
(* remove on the driver core's thread, the interrupt handler, irqcontrol   *)
(* from the applications' writes, and the device.                          *)
(*                                                                         *)
(* External, as the driver uses it: the driver core does not overlap probe *)
(* and remove of one device; the UIO core calls irqcontrol under its       *)
(* info_lock; uio_unregister_device takes that lock and frees the          *)
(* interrupt, which waits for a running handler; a handler is not entered  *)
(* while the line is disabled or the handler runs, and one interrupt that  *)
(* arrives meanwhile is kept; an open device file holds the module.        *)
(***************************************************************************)
EXTENDS Integers

VARIABLES
  module,        \* main.c: "out", "ivc" (IVC devices only), "in", "leaving"
  pc,            \* the device's probe or remove: the step to come
  held,          \* what probe has acquired
  irq_disabled,  \* ivshmem_uio.irq_disabled
  depth,         \* calls of disable_irq_nosync less calls of enable_irq:
                 \* the driver's own, not what the kernel does to its depth
                 \* when uio_unregister_device frees the line
  handler,       \* the interrupt handler: "idle", "status", "lock"
  irqcontrol,    \* the call of irqcontrol: "idle", "enable", "disable"
  app,           \* the application's loop: "read", "clear", "rearm"
  notified,      \* an event read(2) has not returned yet
  latched,       \* an interrupt sent and not yet handled
  status,        \* EVENT_STATUS
  intctrl,       \* INTERRUPT_CTRL
  others         \* programs besides the application use irqcontrol; constant

entry == <<module, pc, held, others>>
line == <<irq_disabled, depth>>
device == <<latched, status, intctrl>>
callbacks == <<handler, irqcontrol, app, notified>>
vars == <<entry, line, callbacks, device>>

Resources == {"device", "regions", "vectors", "registers", "uio"}

(* In probe, pc is the resource acquired next; "start" is its last step.   *)
Probing == Resources \cup {"start"}
Removing == {"unregister", "unflag", "enable", "release"}

TypeOK ==
  /\ module \in {"out", "ivc", "in", "leaving"}
  /\ pc \in {"unbound", "bound"} \cup Probing \cup Removing
  /\ held \subseteq Resources
  /\ irq_disabled \in BOOLEAN
  /\ depth \in Nat
  /\ handler \in {"idle", "status", "lock"}
  /\ irqcontrol \in {"idle", "enable", "disable"}
  /\ app \in {"read", "clear", "rearm"}
  /\ notified \in BOOLEAN
  /\ latched \in BOOLEAN
  /\ status \in BOOLEAN
  /\ intctrl \in BOOLEAN
  /\ others \in BOOLEAN

Init ==
  /\ module = "out"
  /\ pc = "unbound"
  /\ held = {}
  /\ irq_disabled = FALSE
  /\ depth = 0
  /\ handler = "idle"
  /\ irqcontrol = "idle"
  /\ app = "read"
  /\ notified = FALSE
  /\ latched = FALSE
  /\ status \in BOOLEAN
  /\ intctrl = FALSE
  /\ others \in BOOLEAN

-----------------------------------------------------------------------------
(* main.c                                                                  *)

LoadIvc ==
  /\ module = "out"
  /\ module' = "ivc"
  /\ UNCHANGED <<pc, held, others, line, callbacks, device>>

axvisor_ivshmem_register ==
  /\ module = "ivc"
  /\ module' = "in"
  /\ UNCHANGED <<pc, held, others, line, callbacks, device>>

\* uninit_ivc_devices: the registration has failed, or the module leaves.
UnloadIvc ==
  /\ module = "ivc"
  /\ module' = "out"
  /\ UNCHANGED <<pc, held, others, line, callbacks, device>>

\* Refused while a program has the device file open.
axvisor_exit ==
  /\ module = "in"
  /\ irqcontrol = "idle" /\ app = "read"
  /\ module' = "leaving"
  /\ UNCHANGED <<pc, held, others, line, callbacks, device>>

\* pci_unregister_driver has removed the driver from its device.
axvisor_ivshmem_unregister ==
  /\ module = "leaving" /\ pc = "unbound"
  /\ module' = "ivc"
  /\ UNCHANGED <<pc, held, others, line, callbacks, device>>

-----------------------------------------------------------------------------
(* ivshmem_uio_probe                                                       *)

NextStep == [device |-> "regions", regions |-> "vectors",
             vectors |-> "registers", registers |-> "uio", uio |-> "start"]

(* The ladder of labels at the end of probe: unmap_registers,              *)
(* free_vectors, release_regions, disable_device.                          *)
Ladder == <<"registers", "vectors", "regions", "device">>

\* Mutant: a mapping that fails goes to release_regions.
LabelSkips == [device |-> 5, regions |-> 4, vectors |-> 3, registers |-> 3,
               uio |-> 1]

(* The label a failing step goes to; 5 returns at once.  A vector count    *)
(* other than 1 goes the way of a failed mapping.                          *)
Label == [device |-> 5, regions |-> 4, vectors |-> 3, registers |-> 2,
          uio |-> 1]

Undone(r) == {Ladder[k] : k \in Label[r] .. 4}

ProbeBegin ==
  /\ module = "in" /\ pc = "unbound"
  /\ pc' = "device"
  /\ irq_disabled' = FALSE
  /\ UNCHANGED <<module, others, held, depth, callbacks, device>>

ProbeAcquire ==
  /\ pc \in Resources
  /\ held' = held \cup {pc}
  /\ pc' = NextStep[pc]
  /\ UNCHANGED <<module, others, line, callbacks, device>>

\* A wrong revision or no memory fails like pci_enable_device_mem.
ProbeFail ==
  /\ pc \in Resources
  /\ held' = held \ Undone(pc)
  /\ pc' = "unbound"
  /\ UNCHANGED <<module, others, line, callbacks, device>>

\* The device may interrupt from here on.
ProbeStart ==
  /\ pc = "start"
  /\ intctrl' = TRUE
  /\ pc' = "bound"
  /\ UNCHANGED <<module, others, held, line, callbacks, latched, status>>

-----------------------------------------------------------------------------
(* ivshmem_uio_remove, by unbind or by axvisor_ivshmem_unregister          *)

RemoveSilence ==
  /\ pc = "bound"
  /\ intctrl' = FALSE
  /\ pc' = "unregister"
  /\ UNCHANGED <<module, others, held, line, callbacks, latched, status>>

\* Mutant: the registers are unmapped before the device is unregistered.
UnregisterUnmapped ==
  /\ pc = "unregister"
  /\ IF "registers" \in held
     THEN /\ held' = held \ {"registers"}
          /\ UNCHANGED <<pc, app, notified, latched>>
     ELSE /\ irqcontrol = "idle" /\ handler = "idle"
          /\ held' = held \ {"uio"}
          /\ app' = "read" /\ notified' = FALSE /\ latched' = FALSE
          /\ pc' = "unflag"
  /\ UNCHANGED <<module, others, line, handler, irqcontrol, status, intctrl>>

\* uio_unregister_device; the application's file is dead afterwards.
RemoveUnregister ==
  /\ pc = "unregister"
  /\ irqcontrol = "idle" /\ handler = "idle"
  /\ held' = held \ {"uio"}
  /\ app' = "read" /\ notified' = FALSE
  /\ latched' = FALSE
  /\ pc' = "unflag"
  /\ UNCHANGED <<module, others, line, handler, irqcontrol, status, intctrl>>

RemoveUnflag ==
  /\ pc = "unflag"
  /\ irq_disabled' = FALSE
  /\ pc' = IF irq_disabled THEN "enable" ELSE "release"
  /\ UNCHANGED <<module, others, held, depth, callbacks, device>>

RemoveEnable ==
  /\ pc = "enable"
  /\ depth' = depth - 1
  /\ pc' = "release"
  /\ UNCHANGED <<module, others, held, irq_disabled, callbacks, device>>

RemoveRelease ==
  /\ pc = "release"
  /\ held' = held \ {"registers", "vectors", "regions", "device"}
  /\ pc' = "unbound"
  /\ UNCHANGED <<module, others, line, callbacks, device>>

-----------------------------------------------------------------------------
(* ivshmem_uio_irq_handler                                                 *)

HandlerEnter ==
  /\ "uio" \in held
  /\ latched /\ depth = 0 /\ handler = "idle"
  /\ latched' = FALSE
  /\ handler' = "status"
  /\ UNCHANGED <<entry, line, irqcontrol, app, notified, status, intctrl>>

HandlerStatus ==
  /\ handler = "status"
  /\ handler' = IF status THEN "lock" ELSE "idle"
  /\ UNCHANGED <<entry, line, irqcontrol, app, notified, device>>

\* Mutants: the flag is not looked at; disable_irq waits for the handler
\* that calls it.
HandlerBlind ==
  /\ handler = "lock"
  /\ depth' = depth + 1
  /\ irq_disabled' = TRUE
  /\ notified' = TRUE
  /\ handler' = "idle"
  /\ UNCHANGED <<entry, irqcontrol, app, device>>

HandlerWaits ==
  /\ handler = "lock" /\ irq_disabled
  /\ notified' = TRUE
  /\ handler' = "idle"
  /\ UNCHANGED <<entry, line, irqcontrol, app, device>>

\* The critical section, and IRQ_HANDLED for the UIO core's event count.
HandlerLock ==
  /\ handler = "lock"
  /\ depth' = IF irq_disabled THEN depth ELSE depth + 1
  /\ irq_disabled' = TRUE
  /\ notified' = TRUE
  /\ handler' = "idle"
  /\ UNCHANGED <<entry, irqcontrol, app, device>>

-----------------------------------------------------------------------------
(* ivshmem_uio_irqcontrol: the critical section, then the line outside it. *)

\* Mutant: the flag is cleared but the line is not enabled.
IrqcontrolForgets(on) ==
  /\ "uio" \in held
  /\ irqcontrol = "idle"
  /\ irq_disabled' = ~on
  /\ irqcontrol' = IF ~on /\ ~irq_disabled THEN "disable" ELSE "idle"

ivshmem_uio_irqcontrol(on) ==
  /\ "uio" \in held
  /\ irqcontrol = "idle"
  /\ irq_disabled' = ~on
  /\ irqcontrol' = CASE on /\ irq_disabled -> "enable"
                     [] ~on /\ ~irq_disabled -> "disable"
                     [] OTHER -> "idle"

IrqcontrolLine ==
  /\ irqcontrol # "idle"
  /\ depth' = IF irqcontrol = "enable" THEN depth - 1 ELSE depth + 1
  /\ irqcontrol' = "idle"
  /\ UNCHANGED <<entry, irq_disabled, handler, app, notified, device>>

OtherWrite ==
  /\ others /\ module = "in"
  /\ \E on \in BOOLEAN : ivshmem_uio_irqcontrol(on)
  /\ UNCHANGED <<entry, depth, handler, app, notified, device>>

-----------------------------------------------------------------------------
(* The application: read(2) until an event comes, clear EVENT_STATUS in    *)
(* the mapped registers, look at the shared memory, write(2) a 1.          *)

AppRead ==
  /\ module = "in" /\ "uio" \in held
  /\ app = "read" /\ notified
  /\ notified' = FALSE
  /\ app' = "clear"
  /\ UNCHANGED <<entry, line, handler, irqcontrol, device>>

AppClear ==
  /\ app = "clear"
  /\ status' = FALSE
  /\ app' = "rearm"
  /\ UNCHANGED <<entry, line, handler, irqcontrol, notified, latched, intctrl>>

AppRearm ==
  /\ app = "rearm"
  /\ ivshmem_uio_irqcontrol(TRUE)
  /\ app' = "read"
  /\ UNCHANGED <<entry, depth, handler, notified, device>>

\* The peer rings.  With an event pending the device may send another
\* interrupt or not.
Event ==
  /\ status' = TRUE
  /\ latched' \in IF ~intctrl THEN {latched}
                  ELSE IF status THEN {latched, TRUE} ELSE {TRUE}
  /\ UNCHANGED <<entry, line, callbacks, intctrl>>

-----------------------------------------------------------------------------
Probe == ProbeAcquire \/ ProbeFail \/ ProbeStart
Remove == RemoveUnregister \/ RemoveUnflag \/ RemoveEnable \/ RemoveRelease
Handler == HandlerEnter \/ HandlerStatus \/ HandlerLock
Application == AppRead \/ AppClear \/ AppRearm

Next ==
  \/ LoadIvc \/ axvisor_ivshmem_register \/ UnloadIvc
  \/ axvisor_exit \/ axvisor_ivshmem_unregister
  \/ ProbeBegin \/ Probe
  \/ RemoveSilence \/ Remove
  \/ Handler
  \/ IrqcontrolLine \/ OtherWrite
  \/ Application
  \/ Event

Spec == Init /\ [][Next]_vars

(* The kernel runs the handler and finishes what it has begun; the         *)
(* application keeps to its loop.  An unbind need not come, but the        *)
(* unregistration asks for one.                                            *)
Fairness ==
  /\ WF_vars(Handler)
  /\ WF_vars(IrqcontrolLine)
  /\ WF_vars(Application)
  /\ WF_vars(Probe)
  /\ WF_vars(Remove)
  /\ WF_vars(module = "leaving" /\ RemoveSilence)
  /\ WF_vars(axvisor_ivshmem_unregister)

FairSpec == Spec /\ Fairness

-----------------------------------------------------------------------------
(* Outside of the gap between a critical section and its enable_irq or     *)
(* disable_irq_nosync, the line is disabled, and disabled once, exactly    *)
(* when irq_disabled says so, although the handler may come into the gap   *)
(* (uio_ivshmem.c:52, 68-80, 169-175).                                     *)
LineFollowsFlag ==
  /\ TypeOK
  /\ irqcontrol = "idle" /\ pc # "enable" =>
       depth = IF irq_disabled THEN 1 ELSE 0

(* Neither the handler nor irqcontrol runs without the mapped registers,   *)
(* the vector and the memory of a bound driver in a loaded module          *)
(* (uio_ivshmem.c:140, 166, main.c:76).                                    *)
CallbacksHaveDevice ==
  handler # "idle" \/ irqcontrol # "idle" =>
    /\ held = Resources
    /\ pc \in {"start", "bound", "unregister"}
    /\ module \in {"in", "leaving"}

(* A probe that fails at any step, and a remove, leave no resource behind, *)
(* the line as it was found and a device that does not interrupt; and the  *)
(* module does not go while its driver is bound (uio_ivshmem.c:109-157,    *)
(* 159-181, main.c:76-77).                                                 *)
NothingLeftBehind ==
  /\ pc = "unbound" => held = {} /\ depth = 0 /\ ~intctrl /\ ~latched
  /\ module \in {"out", "ivc"} => pc = "unbound"

(* No interrupt is lost between the handler's disable and the re-arming    *)
(* write: an event that was signalled is seen and cleared by the           *)
(* application, unless the driver goes or other programs disable the line  *)
(* (uio_ivshmem.c:52-57, 68-80).                                           *)
SignalledIsServed ==
  latched /\ status ~> ~status \/ "uio" \notin held \/ others

(* Unloading the module ends: uio_unregister_device gets the interrupt and *)
(* the lock from the callbacks (uio_ivshmem.c:166, 212).                   *)
UnloadEnds == module = "leaving" ~> module \in {"ivc", "out"}
=============================================================================
