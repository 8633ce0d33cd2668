----------------------------- MODULE MCTransfer -----------------------------
(* Instances of Transfer for TLC.                                          *)
EXTENDS Transfer, TLC

(* Threads of one side are interchangeable.                                *)
ThreadSymmetry == Permutations(Writers) \cup Permutations(Readers)

(* A frame of its own making: message id, announced length, flags, number  *)
(* of payload bytes.                                                       *)
Frame(id, len, flags, n) == Encode(id, len, flags, Payload(0, n))

(* Frames of a peer that breaks the protocol in each way the receiver has  *)
(* to notice, next to sound ones: a wrong version, an unknown flag, a      *)
(* wrong header length, a payload longer than a slot, message id 0, a      *)
(* shape that does not exist, a message that outgrows its length, ends     *)
(* early, or changes its id or length on the way.                          *)
PeerFrames ==
  { [Frame(1, 1, {"FIRST", "LAST"}, 1) EXCEPT !.version = 2],
    [Frame(1, 3, {"FIRST"}, 2) EXCEPT !.flags = {"FIRST", "UNKNOWN"}],
    [Frame(1, 3, {}, 1) EXCEPT !.header_len = HeaderLen + 1],
    [Frame(1, 3, {"FIRST"}, 2) EXCEPT !.fragment_len = FragmentCapacity + 1],
    Frame(0, 1, {"FIRST", "LAST"}, 1),
    Frame(1, 3, {"FIRST"}, 0),
    Frame(1, 3, {"ABORT", "LAST"}, 0),
    Frame(1, 0, {"FIRST", "LAST"}, 0),
    Frame(1, 3, {"FIRST"}, 2),
    Frame(1, 3, {"FIRST"}, 1),
    Frame(1, 3, {}, 1),
    Frame(1, 3, {}, 2),
    Frame(1, 3, {"LAST"}, 1),
    Frame(1, 3, {"LAST"}, 2),
    Frame(2, 3, {"LAST"}, 1),
    Frame(1, 4, {"LAST"}, 2),
    Frame(1, 3, {"ABORT"}, 0) }
=============================================================================
