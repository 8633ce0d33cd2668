------------------------------- MODULE MCRing -------------------------------
(* Instance of Ring for TLC: a ring of three two-word slots whose counters *)
(* wrap after nine pushes.                                                 *)
EXTENDS Ring
=============================================================================
