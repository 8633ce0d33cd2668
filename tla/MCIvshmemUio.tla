---------------------------- MODULE MCIvshmemUio ----------------------------
(* Instance of IvshmemUio for TLC: nothing is bounded, the state is finite. *)
EXTENDS IvshmemUio
=============================================================================
