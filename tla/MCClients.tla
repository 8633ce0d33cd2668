----------------------------- MODULE MCClients ------------------------------
(* Instance of Clients for TLC: programs of every kind and a stranger, one *)
(* channel of each sort, three devices.                                    *)
EXTENDS Clients, TLC

ProgramSymmetry == Permutations(Procs) \cup Permutations(Ids)
=============================================================================
