------------------------------- MODULE MCDemo -------------------------------
(* Instances of Demo for TLC.                                              *)
EXTENDS Demo

(* The demo's own messages, for the driver's ring and slot sizes.          *)
Requests == <<231, 232, 233, 7424, 7484>>
DataMessages == <<233, 7425, 7484>>

(* The same messages for a ring of 4 slots of 2 bytes: less than a slot, a *)
(* slot, a little more, a full ring, one slot more than the ring.          *)
SmallRequests == <<1, 2, 3, 8, 9>>
SmallDataMessages == <<3, 9, 10>>
=============================================================================
