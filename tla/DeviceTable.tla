---------------------------- MODULE DeviceTable ----------------------------
(***************************************************************************)
(* What the device registry of src/ivc/ivc.c promises to the programs that *)
(* use it: a table of endpoint devices.  A device appears, is listed, can  *)
(* be opened by one program at a time, and is taken out by one remover.    *)
(*                                                                         *)
(*   none -> new -> listed <-> taken -> leaving -> gone                    *)
(*                                                                         *)
(*   new      its device file exists, a removal by channel does not find   *)
(*            it yet                                                       *)
(*   taken    a removal has claimed it and may still give it back          *)
(*   leaving  its channel is given up, the device is being torn down       *)
(***************************************************************************)
EXTENDS Integers

CONSTANTS
  Ids,        \* numbers of devices, never used twice
  Channels,   \* what a device is found by
  NoChannel   \* no channel

VARIABLE dev

Present == {"new", "listed", "taken", "leaving"}

NoDevice == [st |-> "none", ch |-> NoChannel, active |-> FALSE]
GoneDevice == [st |-> "gone", ch |-> NoChannel, active |-> FALSE]

DeviceTableInit == dev = [i \in Ids |-> NoDevice]

DevSet ==
  [st : Present \cup {"none", "gone"}, ch : Channels \cup {NoChannel},
   active : BOOLEAN]

Set(i, st) == dev' = [dev EXCEPT ![i].st = st]

(* A channel has one device, besides the ones that have given it up.       *)
Appear(i, c) ==
  /\ dev[i].st = "none"
  /\ \A j \in Ids : dev[j].ch = c => dev[j].st = "leaving"
  /\ dev' = [dev EXCEPT ![i] = [st |-> "new", ch |-> c, active |-> FALSE]]

List(i) == dev[i].st = "new" /\ Set(i, "listed")

(* A number whose device never came to be.                                 *)
Skip(i) == dev[i].st = "none" /\ dev' = [dev EXCEPT ![i] = GoneDevice]

(* A removal finds the oldest device of its channel, and claims it if it   *)
(* is neither open nor claimed.                                            *)
Removable(i) ==
  /\ dev[i].st = "listed" /\ ~dev[i].active
  /\ \A j \in Ids \ {i} :
       dev[j].ch = dev[i].ch => dev[j].st \notin {"listed", "taken", "leaving"}

Take(i) == Removable(i) /\ Set(i, "taken")

GiveBack(i) == dev[i].st = "taken" /\ Set(i, "listed")

Leave(i) == dev[i].st = "taken" /\ Set(i, "leaving")

Drop(i) == dev[i].st = "leaving" /\ dev' = [dev EXCEPT ![i] = GoneDevice]

(* The end of the module.                                                  *)
Discard(i) ==
  /\ dev[i].st = "listed" /\ ~dev[i].active
  /\ dev' = [dev EXCEPT ![i] = GoneDevice]

Openable(i) == dev[i].st \in {"new", "listed"} /\ ~dev[i].active

OpenDevice(i) == Openable(i) /\ dev' = [dev EXCEPT ![i].active = TRUE]

CloseDevice(i) == dev[i].active /\ dev' = [dev EXCEPT ![i].active = FALSE]

DeviceTableNext ==
  \E i \in Ids :
    \/ \E c \in Channels : Appear(i, c)
    \/ List(i) \/ Skip(i)
    \/ Take(i) \/ GiveBack(i) \/ Leave(i) \/ Drop(i) \/ Discard(i)
    \/ OpenDevice(i) \/ CloseDevice(i)

DeviceTableSpec == DeviceTableInit /\ [][DeviceTableNext]_dev
=============================================================================
