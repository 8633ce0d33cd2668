----------------------------- MODULE MCRegistry -----------------------------
(* Instance of Registry for TLC: three processes that create and remove    *)
(* devices for three channels, with room for two devices.                  *)
EXTENDS Registry, TLC

CallerSymmetry ==
  Permutations(Callers) \cup Permutations(Files) \cup Permutations(Channels)
=============================================================================
