------------------------------- MODULE Codec -------------------------------
(***************************************************************************)
(* The bytes of a frame (src/ivc/message.c, includes/message.h): encode,   *)
(* damage to one header byte on the way, decode.  MessageV1 describes      *)
(* frames as records; this module shows that the bytes carry those         *)
(* records.  A byte is a number below Radix (256 in the code), so that the *)
(* little-endian fields keep their number of bytes and the numbers stay    *)
(* small.                                                                  *)
(***************************************************************************)
EXTENDS MessageV1

CONSTANTS
  Radix,       \* the values of a byte; at least one unknown flag bit
  OldByte,     \* what the buffer for the slot held before
  MessageIds, MessageLens, Fragments   \* the arguments tried

(* The values of a u16, a u32 and a u64.                                   *)
Radix16 == Radix * Radix
Radix32 == Radix16 * Radix16
Radix64 == Radix32 * Radix32

Byte == 0 .. (Radix - 1)

ASSUME CodecAssumption ==
  /\ Radix \in Nat /\ Radix >= 9 /\ Radix16 > HeaderLen
  /\ FragmentCapacity < Radix32
  /\ MaxMessageId = Radix64 - 1
  /\ OldByte \in Byte
  /\ MessageIds \subseteq 0 .. MaxMessageId
  /\ MessageLens \subseteq 0 .. (Radix64 - 1)
  /\ Fragments \subseteq Seq(Byte)

VARIABLES
  step,    \* "encode", "decode", "done"
  args,    \* of axivc_encode_frame
  slot,    \* the slot's bytes, slot[1] at offset 0
  result   \* of axivc_decode_frame

vars == <<step, args, slot, result>>

-----------------------------------------------------------------------------
(* Fields: offset and width (message.h).                                   *)
VERSION_OFFSET == 0
FLAGS_OFFSET == 1
HEADER_LEN_OFFSET == 2
FRAGMENT_LEN_OFFSET == 4
MESSAGE_ID_OFFSET == 8
MESSAGE_LEN_OFFSET == 16

axivc_write_le16(value) == <<value % Radix, (value \div Radix) % Radix>>
axivc_write_le32(value) ==
  axivc_write_le16(value) \o axivc_write_le16(value \div Radix16)

\* Mutant: the halves are swapped.
WriteSwapped(value) ==
  axivc_write_le32(value \div Radix32) \o axivc_write_le32(value % Radix32)

axivc_write_le64(value) ==
  axivc_write_le32(value % Radix32) \o axivc_write_le32(value \div Radix32)

axivc_read_le16(s, offset) == s[offset + 1] + Radix * s[offset + 2]
axivc_read_le32(s, offset) ==
  axivc_read_le16(s, offset) + Radix16 * axivc_read_le16(s, offset + 2)
axivc_read_le64(s, offset) ==
  axivc_read_le32(s, offset) + Radix32 * axivc_read_le32(s, offset + 4)

(* The flag bits; KNOWN_FLAGS is 7.                                        *)
Bit(flag) == [FIRST |-> 1, LAST |-> 2, ABORT |-> 4][flag]
FlagByte(flags) ==
  LET bit(f) == IF f \in flags THEN Bit(f) ELSE 0
  IN  bit("FIRST") + bit("LAST") + bit("ABORT")
Flags(byte) == {f \in KnownFlags : (byte \div Bit(f)) % 2 = 1}

Slot == [1 .. SlotSize -> Byte]

Arguments ==
  [id : MessageIds, len : MessageLens, flags : SUBSET KnownFlags,
   fragment : Fragments]

(* struct axivc_decoded_frame, filled in only on success.                  *)
DecodedFrame ==
  [error : {OK}, message_id : 1 .. MaxMessageId, message_len : Nat,
   flags : SUBSET KnownFlags, fragment_len : 0 .. FragmentCapacity]

TypeOK ==
  /\ step \in {"encode", "decode", "done"}
  /\ args \in Arguments
  /\ slot \in Slot
  /\ result \in DecodedFrame
                \cup [error : {"none", "EPROTO", "EPROTONOSUPPORT"}]

-----------------------------------------------------------------------------
(* axivc_encode_frame: memset, header, payload.                            *)

Zeros(n) == [i \in 1 .. n |-> 0]

Header(a) ==
  <<Version, FlagByte(a.flags)>> \o axivc_write_le16(HeaderLen)
    \o axivc_write_le32(Len(a.fragment))
    \o axivc_write_le64(a.id) \o axivc_write_le64(a.len)

Filled(a) ==
  LET bytes == Header(a) \o a.fragment
  IN  bytes \o Zeros(SlotSize - Len(bytes))

axivc_encode_frame ==
  /\ step = "encode"
  /\ IF EncodeOK(args.id, args.len, args.flags, args.fragment)
     THEN slot' = Filled(args) /\ step' = "decode"
     ELSE slot' = slot /\ step' = "done"
  /\ UNCHANGED <<args, result>>

-----------------------------------------------------------------------------
(* axivc_decode_frame                                                      *)

\* Mutant: the header is forgotten.
FragmentRoomLoose(header_len) == SlotSize

FragmentRoom(header_len) == SlotSize - header_len

Decoded(s) ==
  LET flags == Flags(s[FLAGS_OFFSET + 1])
      header_len == axivc_read_le16(s, HEADER_LEN_OFFSET)
      fragment_len == axivc_read_le32(s, FRAGMENT_LEN_OFFSET)
      message_id == axivc_read_le64(s, MESSAGE_ID_OFFSET)
      message_len == axivc_read_le64(s, MESSAGE_LEN_OFFSET)
  IN  IF s[VERSION_OFFSET + 1] # Version
      THEN [error |-> "EPROTONOSUPPORT"]
      ELSE IF \/ s[FLAGS_OFFSET + 1] \div 8 # 0
              \/ header_len # HeaderLen
              \/ fragment_len > FragmentRoom(header_len)
              \/ message_id = 0
              \/ ~ShapeOK(message_len, fragment_len, flags)
           THEN [error |-> "EPROTO"]
           ELSE [error |-> OK, message_id |-> message_id,
                 message_len |-> message_len, flags |-> flags,
                 fragment_len |-> fragment_len]

axivc_decode_frame ==
  /\ step = "decode"
  /\ result' = Decoded(slot)
  /\ step' = "done"
  /\ UNCHANGED <<args, slot>>

-----------------------------------------------------------------------------
Init ==
  /\ step = "encode"
  /\ args \in Arguments
  /\ slot = [i \in 1 .. SlotSize |-> OldByte]
  /\ result = [error |-> "none"]

\* A byte of the header is not what this code writes: the peer is another
\* version of the protocol, or the slot is a vector of a conformance test.
Damage ==
  /\ step = "decode"
  /\ slot = Filled(args)
  /\ \E i \in 1 .. HeaderLen, b \in Byte : slot' = [slot EXCEPT ![i] = b]
  /\ UNCHANGED <<step, args, result>>

Next == axivc_encode_frame \/ Damage \/ axivc_decode_frame

Spec == Init /\ [][Next]_vars

-----------------------------------------------------------------------------
(* The record that MessageV1 uses for a slot.                              *)
Record(s) ==
  [version |-> s[VERSION_OFFSET + 1],
   flags |-> Flags(s[FLAGS_OFFSET + 1])
               \cup (IF s[FLAGS_OFFSET + 1] > 7 THEN {"unknown"} ELSE {}),
   header_len |-> axivc_read_le16(s, HEADER_LEN_OFFSET),
   fragment_len |-> axivc_read_le32(s, FRAGMENT_LEN_OFFSET),
   message_id |-> axivc_read_le64(s, MESSAGE_ID_OFFSET),
   message_len |-> axivc_read_le64(s, MESSAGE_LEN_OFFSET)]

FragmentOf(s, n) == SubSeq(s, HeaderLen + 1, HeaderLen + n)

Undamaged ==
  /\ step # "encode" /\ EncodeOK(args.id, args.len, args.flags, args.fragment)
  /\ slot = Filled(args)

(* The bytes axivc_encode_frame writes are those of the record MessageV1   *)
(* sends, at the limits of every field, and decoding them gives the        *)
(* arguments back (message.c:397-427, 455-533).                            *)
BytesCarryFrame ==
  LET sent == Encode(args.id, args.len, args.flags, args.fragment)
  IN  Undamaged =>
        /\ Record(slot) = [f \in DOMAIN sent \ {"fragment"} |-> sent[f]]
        /\ FragmentOf(slot, Len(args.fragment)) = args.fragment
        /\ step = "done" =>
             result = [error |-> OK, message_id |-> args.id,
                       message_len |-> args.len, flags |-> args.flags,
                       fragment_len |-> Len(args.fragment)]

(* Whichever byte of an encoded header is damaged, and however,            *)
(* axivc_decode_frame refuses the frames MessageV1 refuses, with the same  *)
(* error, and the fragment it points to lies within the slot               *)
(* (message.c:488-533).                                                    *)
DecodeAgrees ==
  /\ TypeOK
  /\ result.error # "none" =>
       /\ result.error = DecodeError(Record(slot))
       /\ result.error = OK => result.fragment_len <= FragmentCapacity
=============================================================================
