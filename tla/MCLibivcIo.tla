----------------------------- MODULE MCLibivcIo -----------------------------
(* Instance of LibivcIo for TLC: an int of 0..7 above zero, 6 bytes per    *)
(* system call, buffers of 0 to 22 bytes, 22 being 2^w + MaxRw; 3 sends.   *)
EXTENDS LibivcIo
=============================================================================
