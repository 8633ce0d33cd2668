------------------------------ MODULE MCCodec ------------------------------
(* Instance of Codec for TLC: bytes of 12 values, slots of 26 bytes.  The  *)
(* header length 24 takes both bytes of its field; the identifiers and     *)
(* lengths use one, both and all bytes of both halves.                     *)
EXTENDS Codec

MCMessageIds == {0, 1, 12^4, 12^8 - 1}
MCMessageLens == {0, 1, 12^4 + 12, 12^8 - 1}
MCFragments == {<<>>, <<3>>, <<3, 7>>, <<3, 7, 5>>}
=============================================================================
