---------------------------- MODULE CodecProofs ----------------------------
(***************************************************************************)
(* Proofs about module Codec, for every byte size, slot size, argument and *)
(* damaged header byte: what the write helpers store the read helpers      *)
(* give back, the fields lie side by side in the header, and the decoder   *)
(* takes exactly the frames MessageV1 takes.                               *)
(***************************************************************************)
EXTENDS Codec, TLAPS

-----------------------------------------------------------------------------
(* Quotients, remainders and bytes.                                        *)

(* Quotient and remainder.                                                 *)
LEMMA DivMod ==
  ASSUME NEW v \in Nat, NEW a \in Nat, a > 0
  PROVE  /\ v \div a \in Nat
         /\ v % a \in 0 .. (a - 1)
         /\ v = a * (v \div a) + (v % a)
  <1>1. v % a \in 0 .. (a - 1)
    OBVIOUS
  <1>2. v = a * (v \div a) + (v % a)
    OBVIOUS
  <1>3. v \div a \in Int
    OBVIOUS
  <1>4. v \div a >= 0
    OBVIOUS
  <1> QED
    BY <1>1, <1>2, <1>3, <1>4

(* A product grows with its factor.                                        *)
LEMMA MulMono ==
  ASSUME NEW a \in Nat, NEW x \in Int, NEW y \in Int, x <= y
  PROVE  a * x <= a * y
  OBVIOUS

(* There is one way to write a number as quotient and remainder.           *)
LEMMA ModUnique ==
  ASSUME NEW n \in Nat, n > 0, NEW q \in Nat, NEW r \in 0 .. (n - 1)
  PROVE  (n * q + r) \div n = q /\ (n * q + r) % n = r
  OBVIOUS

(* The remainder by a product has two digits.                              *)
LEMMA ModProduct ==
  ASSUME NEW v \in Nat, NEW a \in Nat, NEW b \in Nat, a > 0, b > 0
  PROVE  v % (a * b) = (v % a) + a * ((v \div a) % b)
  <1> DEFINE q == v \div a
             r == v % a
             s == q \div b
             t == q % b
  <1>1. q \in Nat /\ r \in 0 .. (a - 1) /\ v = a * q + r
    BY DivMod
  <1>2. s \in Nat /\ t \in 0 .. (b - 1) /\ q = b * s + t
    BY <1>1, DivMod
  <1> HIDE DEF q, r, s, t
  <1>3. a * q = (a * b) * s + a * t
    BY <1>1, <1>2
  <1>4. a * t <= a * (b - 1)
    BY <1>2, MulMono
  <1>5. a * (b - 1) = a * b - a
    OBVIOUS
  <1>6. a * t \in Nat /\ a * b \in Nat /\ a * b > 0
    BY <1>2
  <1>7. r + a * t \in 0 .. (a * b - 1)
    BY <1>1, <1>4, <1>5, <1>6
  <1>8. v = (a * b) * s + (r + a * t)
    BY <1>1, <1>2, <1>3
  <1>9. v % (a * b) = r + a * t
    BY <1>2, <1>6, <1>7, <1>8, ModUnique
  <1> QED
    BY <1>9 DEF q, r, s, t

(* The numbers of values of a byte, a u16, a u32 and a u64.                *)
LEMMA RadixTypes ==
  /\ Radix \in Nat \ {0} /\ Radix >= 9
  /\ Radix16 \in Nat \ {0} /\ Radix16 >= 25
  /\ Radix32 \in Nat \ {0} /\ Radix64 \in Nat \ {0}
  /\ Radix16 = Radix * Radix
  /\ Radix32 = Radix16 * Radix16
  /\ Radix64 = Radix32 * Radix32
  <1>1. Radix \in Nat \ {0} /\ Radix >= 9
    BY CodecAssumption
  <1>2. Radix16 \in Nat \ {0} /\ Radix16 >= 25
    BY <1>1, CodecAssumption DEF Radix16, HeaderLen
  <1>3. Radix32 \in Nat \ {0}
    BY <1>2 DEF Radix32
  <1>4. Radix64 \in Nat \ {0}
    BY <1>3 DEF Radix64
  <1> QED
    BY <1>1, <1>2, <1>3, <1>4 DEF Radix16, Radix32, Radix64

(* A number below n is its own remainder.                                  *)
LEMMA SmallMod ==
  ASSUME NEW n \in Nat, n > 0, NEW v \in 0 .. (n - 1)
  PROVE  v % n = v
  BY ModUnique, n * 0 + v = v

(* Where the bytes of a concatenation are.                                 *)
LEMMA ConcatAt ==
  ASSUME NEW s \in Seq(Byte), NEW t \in Seq(Byte)
  PROVE  /\ s \o t \in Seq(Byte)
         /\ Len(s \o t) = Len(s) + Len(t)
         /\ \A i \in 1 .. Len(s) : (s \o t)[i] = s[i]
         /\ \A i \in 1 .. Len(t) : (s \o t)[Len(s) + i] = t[i]
  <1>1. s \o t \in Seq(Byte)
    OBVIOUS
  <1>2. Len(s \o t) = Len(s) + Len(t)
    OBVIOUS
  <1>3. \A i \in 1 .. Len(s) : (s \o t)[i] = s[i]
    OBVIOUS
  <1>4. \A i \in 1 .. Len(t) : (s \o t)[Len(s) + i] = t[i]
    OBVIOUS
  <1> QED
    BY <1>1, <1>2, <1>3, <1>4

(* axivc_write_le16 stores two bytes that axivc_read_le16 reads back       *)
(* (message.c:397, 409-413).                                               *)
LEMMA Write16 ==
  ASSUME NEW v \in Nat
  PROVE  /\ axivc_write_le16(v) \in Seq(Byte)
         /\ Len(axivc_write_le16(v)) = 2
         /\ axivc_read_le16(axivc_write_le16(v), 0) = v % Radix16
  <1> DEFINE w == axivc_write_le16(v)
  <1>1. v % Radix \in Byte /\ v \div Radix \in Nat
    BY DivMod, RadixTypes DEF Byte
  <1>2. (v \div Radix) % Radix \in Byte
    BY <1>1, DivMod, RadixTypes DEF Byte
  <1>3. w \in Seq(Byte) /\ Len(w) = 2
    BY <1>1, <1>2 DEF axivc_write_le16
  <1>4. w[1] = v % Radix /\ w[2] = (v \div Radix) % Radix
    BY DEF axivc_write_le16
  <1>5. v % Radix16 = (v % Radix) + Radix * ((v \div Radix) % Radix)
    <2>1. Radix \in Nat /\ Radix > 0
      BY RadixTypes
    <2>2. v % (Radix * Radix) = (v % Radix) + Radix * ((v \div Radix) % Radix)
      BY <2>1, ModProduct
    <2> QED
      BY <2>2 DEF Radix16
  <1> HIDE DEF w
  <1>6. axivc_read_le16(w, 0) = w[1] + Radix * w[2]
    BY DEF axivc_read_le16
  <1> QED
    BY <1>3, <1>4, <1>5, <1>6 DEF w

(* A read depends on nothing but its bytes.                                *)
LEMMA Read16At ==
  ASSUME NEW s, NEW w, NEW off \in Nat, NEW from \in Nat,
         \A i \in 1 .. 2 : s[off + i] = w[from + i]
  PROVE  axivc_read_le16(s, off) = axivc_read_le16(w, from)
  BY DEF axivc_read_le16

(* The same for four bytes.                                                *)
LEMMA Read32At ==
  ASSUME NEW s, NEW w, NEW off \in Nat, NEW from \in Nat,
         \A i \in 1 .. 4 : s[off + i] = w[from + i]
  PROVE  axivc_read_le32(s, off) = axivc_read_le32(w, from)
  <1>1. axivc_read_le16(s, off) = axivc_read_le16(w, from)
    BY Read16At
  <1>2. \A i \in 1 .. 2 : s[(off + 2) + i] = w[(from + 2) + i]
    <2> TAKE i \in 1 .. 2
    <2>1. s[off + (i + 2)] = w[from + (i + 2)]
      OBVIOUS
    <2>2. off + (i + 2) = (off + 2) + i /\ from + (i + 2) = (from + 2) + i
      OBVIOUS
    <2> QED
      BY <2>1, <2>2
  <1>3. axivc_read_le16(s, off + 2) = axivc_read_le16(w, from + 2)
    BY <1>2, Read16At
  <1> QED
    BY <1>1, <1>3 DEF axivc_read_le32

(* The same for eight bytes.                                               *)
LEMMA Read64At ==
  ASSUME NEW s, NEW w, NEW off \in Nat, NEW from \in Nat,
         \A i \in 1 .. 8 : s[off + i] = w[from + i]
  PROVE  axivc_read_le64(s, off) = axivc_read_le64(w, from)
  <1>1. axivc_read_le32(s, off) = axivc_read_le32(w, from)
    BY Read32At
  <1>2. \A i \in 1 .. 4 : s[(off + 4) + i] = w[(from + 4) + i]
    <2> TAKE i \in 1 .. 4
    <2>1. s[off + (i + 4)] = w[from + (i + 4)]
      OBVIOUS
    <2>2. off + (i + 4) = (off + 4) + i /\ from + (i + 4) = (from + 4) + i
      OBVIOUS
    <2> QED
      BY <2>1, <2>2
  <1>3. axivc_read_le32(s, off + 4) = axivc_read_le32(w, from + 4)
    BY <1>2, Read32At
  <1> QED
    BY <1>1, <1>3 DEF axivc_read_le64

(* axivc_write_le32 stores four bytes that axivc_read_le32 reads back      *)
(* (message.c:399-402, 415-421).                                           *)
LEMMA Write32 ==
  ASSUME NEW v \in Nat
  PROVE  /\ axivc_write_le32(v) \in Seq(Byte)
         /\ Len(axivc_write_le32(v)) = 4
         /\ axivc_read_le32(axivc_write_le32(v), 0) = v % Radix32
  <1> DEFINE lo == axivc_write_le16(v)
             hi == axivc_write_le16(v \div Radix16)
             w == lo \o hi
  <1>1. v \div Radix16 \in Nat
    BY DivMod, RadixTypes
  <1>2. /\ lo \in Seq(Byte) /\ Len(lo) = 2
        /\ axivc_read_le16(lo, 0) = v % Radix16
    BY Write16
  <1>3. /\ hi \in Seq(Byte) /\ Len(hi) = 2
        /\ axivc_read_le16(hi, 0) = (v \div Radix16) % Radix16
    BY <1>1, Write16
  <1> HIDE DEF lo, hi
  <1>4. /\ w \in Seq(Byte) /\ Len(w) = 4
        /\ \A i \in 1 .. 2 : w[i] = lo[i]
        /\ \A i \in 1 .. 2 : w[2 + i] = hi[i]
    <2>1. /\ w \in Seq(Byte) /\ Len(w) = Len(lo) + Len(hi)
          /\ \A i \in 1 .. Len(lo) : w[i] = lo[i]
          /\ \A i \in 1 .. Len(hi) : w[Len(lo) + i] = hi[i]
      BY <1>2, <1>3, ConcatAt, Zenon
    <2> QED
      BY <1>2, <1>3, <2>1
  <1> HIDE DEF w
  <1>5. axivc_read_le16(w, 0) = axivc_read_le16(lo, 0)
    BY <1>4, Read16At
  <1>6. axivc_read_le16(w, 2) = axivc_read_le16(hi, 0)
    BY <1>4, Read16At
  <1>7. axivc_read_le32(w, 0) =
          (v % Radix16) + Radix16 * ((v \div Radix16) % Radix16)
    BY <1>2, <1>3, <1>5, <1>6 DEF axivc_read_le32
  <1>8. axivc_read_le32(w, 0) = v % Radix32
    <2>1. Radix16 \in Nat /\ Radix16 > 0
      BY RadixTypes
    <2>2. v % (Radix16 * Radix16) = axivc_read_le32(w, 0)
      BY <1>7, <2>1, ModProduct
    <2> QED
      BY <2>2 DEF Radix32
  <1> QED
    BY <1>4, <1>8 DEF w, lo, hi, axivc_write_le32

(* axivc_write_le64 stores eight bytes that axivc_read_le64 reads back,    *)
(* for every u64 (message.c:404-407, 423-427).                             *)
LEMMA Write64 ==
  ASSUME NEW v \in 0 .. (Radix64 - 1)
  PROVE  /\ axivc_write_le64(v) \in Seq(Byte)
         /\ Len(axivc_write_le64(v)) = 8
         /\ axivc_read_le64(axivc_write_le64(v), 0) = v
  <1> DEFINE lo == axivc_write_le32(v % Radix32)
             hi == axivc_write_le32(v \div Radix32)
             w == lo \o hi
  <1>1. /\ v \in Nat /\ v \div Radix32 \in Nat
        /\ v % Radix32 \in 0 .. (Radix32 - 1)
    BY DivMod, RadixTypes
  <1>2. /\ lo \in Seq(Byte) /\ Len(lo) = 4
        /\ axivc_read_le32(lo, 0) = (v % Radix32) % Radix32
    BY <1>1, Write32, RadixTypes
  <1>3. /\ hi \in Seq(Byte) /\ Len(hi) = 4
        /\ axivc_read_le32(hi, 0) = (v \div Radix32) % Radix32
    BY <1>1, Write32
  <1> HIDE DEF lo, hi
  <1>4. /\ w \in Seq(Byte) /\ Len(w) = 8
        /\ \A i \in 1 .. 4 : w[i] = lo[i]
        /\ \A i \in 1 .. 4 : w[4 + i] = hi[i]
    <2>1. /\ w \in Seq(Byte) /\ Len(w) = Len(lo) + Len(hi)
          /\ \A i \in 1 .. Len(lo) : w[i] = lo[i]
          /\ \A i \in 1 .. Len(hi) : w[Len(lo) + i] = hi[i]
      BY <1>2, <1>3, ConcatAt, Zenon
    <2> QED
      BY <1>2, <1>3, <2>1
  <1> HIDE DEF w
  <1>5. axivc_read_le32(w, 0) = axivc_read_le32(lo, 0)
    BY <1>4, Read32At
  <1>6. axivc_read_le32(w, 4) = axivc_read_le32(hi, 0)
    BY <1>4, Read32At
  <1>7. (v % Radix32) % Radix32 = v % Radix32
    BY <1>1, SmallMod, RadixTypes
  <1>8. axivc_read_le64(w, 0) =
          (v % Radix32) + Radix32 * ((v \div Radix32) % Radix32)
    BY <1>2, <1>3, <1>5, <1>6, <1>7 DEF axivc_read_le64
  <1>9. v % Radix64 = v
    BY SmallMod, RadixTypes
  <1>10. axivc_read_le64(w, 0) = v
    <2>1. Radix32 \in Nat /\ Radix32 > 0
      BY RadixTypes
    <2>2. v % (Radix32 * Radix32) = axivc_read_le64(w, 0)
      BY <1>1, <1>8, <2>1, ModProduct
    <2> QED
      BY <1>9, <2>2 DEF Radix64
  <1> QED
    BY <1>4, <1>10 DEF w, lo, hi, axivc_write_le64

-----------------------------------------------------------------------------
(* The header and the slot.                                                *)

(* The flag byte has known bits only, and they give the flags back.        *)
LEMMA FlagByteTypes ==
  ASSUME NEW flags \in SUBSET KnownFlags
  PROVE  /\ FlagByte(flags) \in 0 .. 7
         /\ Flags(FlagByte(flags)) = flags
  <1> DEFINE first == IF "FIRST" \in flags THEN 1 ELSE 0
             last == IF "LAST" \in flags THEN 2 ELSE 0
             abort == IF "ABORT" \in flags THEN 4 ELSE 0
             b == first + last + abort
  <1>1. FlagByte(flags) = b
    BY DEF FlagByte, Bit
  <1>2. b \in 0 .. 7
    OBVIOUS
  <1>3. ((b \div 1) % 2 = 1) <=> "FIRST" \in flags
    OBVIOUS
  <1>4. ((b \div 2) % 2 = 1) <=> "LAST" \in flags
    OBVIOUS
  <1>5. ((b \div 4) % 2 = 1) <=> "ABORT" \in flags
    OBVIOUS
  <1> HIDE DEF b
  <1>6. Flags(b) = flags
    <2>1. Bit("FIRST") = 1 /\ Bit("LAST") = 2 /\ Bit("ABORT") = 4
      BY DEF Bit
    <2> QED
      BY <1>3, <1>4, <1>5, <2>1 DEF Flags, KnownFlags
  <1> QED
    BY <1>1, <1>2, <1>6

(* The arguments that axivc_encode_frame takes fit their fields.           *)
LEMMA ArgumentTypes ==
  ASSUME NEW a \in Arguments, EncodeOK(a.id, a.len, a.flags, a.fragment)
  PROVE  /\ a.id \in 1 .. MaxMessageId
         /\ a.id \in 0 .. (Radix64 - 1)
         /\ a.len \in 0 .. (Radix64 - 1)
         /\ a.flags \in SUBSET KnownFlags
         /\ a.fragment \in Seq(Byte)
         /\ Len(a.fragment) \in 0 .. FragmentCapacity
         /\ Len(a.fragment) \in 0 .. (Radix32 - 1)
  <1>1. a.id \in 0 .. MaxMessageId /\ a.len \in 0 .. (Radix64 - 1)
    BY CodecAssumption DEF Arguments
  <1>2. a.fragment \in Seq(Byte) /\ a.flags \in SUBSET KnownFlags
    BY CodecAssumption DEF Arguments
  <1>3. Len(a.fragment) \in Nat
    BY <1>2
  <1>4. a.id # 0 /\ Len(a.fragment) <= FragmentCapacity
    BY DEF EncodeOK
  <1> QED
    BY <1>1, <1>2, <1>3, <1>4, CodecAssumption, MessageAssumption, RadixTypes

(* The header has 24 bytes, and each field is at its offset                *)
(* (message.c:8-13, 477-482).                                              *)
LEMMA HeaderLayout ==
  ASSUME NEW a \in Arguments, EncodeOK(a.id, a.len, a.flags, a.fragment)
  PROVE  /\ Header(a) \in Seq(Byte)
         /\ Len(Header(a)) = 24
         /\ Header(a)[1] = 1 /\ Header(a)[2] = FlagByte(a.flags)
         /\ \A i \in 1 .. 2 : Header(a)[2 + i] = axivc_write_le16(24)[i]
         /\ \A i \in 1 .. 4 :
              Header(a)[4 + i] = axivc_write_le32(Len(a.fragment))[i]
         /\ \A i \in 1 .. 8 : Header(a)[8 + i] = axivc_write_le64(a.id)[i]
         /\ \A i \in 1 .. 8 : Header(a)[16 + i] = axivc_write_le64(a.len)[i]
  <1> DEFINE v == <<1, FlagByte(a.flags)>>
             h == axivc_write_le16(24)
             f == axivc_write_le32(Len(a.fragment))
             d == axivc_write_le64(a.id)
             l == axivc_write_le64(a.len)
  <1>1. v \in Seq(Byte) /\ Len(v) = 2 /\ v[1] = 1 /\ v[2] = FlagByte(a.flags)
    <2>1. FlagByte(a.flags) \in Byte /\ 1 \in Byte
      <3>1. FlagByte(a.flags) \in 0 .. 7
        BY ArgumentTypes, FlagByteTypes
      <3> QED
        BY <3>1, CodecAssumption DEF Byte
    <2> QED
      BY <2>1
  <1>2. h \in Seq(Byte) /\ Len(h) = 2
    BY Write16
  <1>3. f \in Seq(Byte) /\ Len(f) = 4
    BY ArgumentTypes, Write32
  <1>4. d \in Seq(Byte) /\ Len(d) = 8
    BY ArgumentTypes, Write64
  <1>5. l \in Seq(Byte) /\ Len(l) = 8
    BY ArgumentTypes, Write64
  <1>6. Header(a) = (((v \o h) \o f) \o d) \o l
    BY DEF Header, Version, HeaderLen
  <1> HIDE DEF v, h, f, d, l
  <1> DEFINE vh == v \o h
             vhf == vh \o f
             vhfd == vhf \o d
             all == vhfd \o l
  <1>7. /\ vh \in Seq(Byte) /\ Len(vh) = Len(v) + Len(h)
        /\ \A i \in 1 .. Len(v) : vh[i] = v[i]
        /\ \A i \in 1 .. Len(h) : vh[Len(v) + i] = h[i]
    BY <1>1, <1>2, ConcatAt, Zenon
  <1> HIDE DEF vh
  <1>8. /\ vhf \in Seq(Byte) /\ Len(vhf) = Len(vh) + Len(f)
        /\ \A i \in 1 .. Len(vh) : vhf[i] = vh[i]
        /\ \A i \in 1 .. Len(f) : vhf[Len(vh) + i] = f[i]
    BY <1>3, <1>7, ConcatAt, Zenon
  <1> HIDE DEF vhf
  <1>9. /\ vhfd \in Seq(Byte) /\ Len(vhfd) = Len(vhf) + Len(d)
        /\ \A i \in 1 .. Len(vhf) : vhfd[i] = vhf[i]
        /\ \A i \in 1 .. Len(d) : vhfd[Len(vhf) + i] = d[i]
    BY <1>4, <1>8, ConcatAt, Zenon
  <1> HIDE DEF vhfd
  <1>10. /\ all \in Seq(Byte) /\ Len(all) = Len(vhfd) + Len(l)
         /\ \A i \in 1 .. Len(vhfd) : all[i] = vhfd[i]
         /\ \A i \in 1 .. Len(l) : all[Len(vhfd) + i] = l[i]
    BY <1>5, <1>9, ConcatAt, Zenon
  <1> HIDE DEF all
  <1>11. Len(vh) = 4 /\ Len(vhf) = 8 /\ Len(vhfd) = 16 /\ Len(all) = 24
    BY <1>1, <1>2, <1>3, <1>4, <1>5, <1>7, <1>8, <1>9, <1>10
  <1>12. \A i \in 1 .. 16 : all[i] = vhfd[i]
    BY <1>10, <1>11
  <1>13. \A i \in 1 .. 8 : vhfd[i] = vhf[i]
    BY <1>9, <1>11
  <1>14. \A i \in 1 .. 4 : vhf[i] = vh[i]
    BY <1>8, <1>11
  <1>15. \A i \in 1 .. 4 : all[i] = vh[i]
    BY <1>12, <1>13, <1>14
  <1>16. all[1] = 1 /\ all[2] = FlagByte(a.flags)
    BY <1>1, <1>7, <1>15
  <1>17. \A i \in 1 .. 2 : all[2 + i] = h[i]
    BY <1>1, <1>2, <1>7, <1>15
  <1>18. \A i \in 1 .. 4 : all[4 + i] = f[i]
    BY <1>3, <1>8, <1>11, <1>12, <1>13
  <1>19. \A i \in 1 .. 8 : all[8 + i] = d[i]
    BY <1>4, <1>9, <1>11, <1>12
  <1>20. \A i \in 1 .. 8 : all[16 + i] = l[i]
    BY <1>5, <1>10, <1>11
  <1>21. Header(a) = all
    BY <1>6 DEF all, vhfd, vhf, vh
  <1> QED
    BY <1>10, <1>11, <1>16, <1>17, <1>18, <1>19, <1>20, <1>21 DEF h, f, d, l

(* An encoded slot: the header, the fragment, zeros (message.c:476-484).   *)
LEMMA FilledLayout ==
  ASSUME NEW a \in Arguments, EncodeOK(a.id, a.len, a.flags, a.fragment)
  PROVE  /\ Filled(a) \in Seq(Byte) /\ Len(Filled(a)) = SlotSize
         /\ Filled(a) \in Slot
         /\ \A i \in 1 .. 24 : Filled(a)[i] = Header(a)[i]
         /\ \A i \in 1 .. Len(a.fragment) :
              Filled(a)[24 + i] = a.fragment[i]
         /\ \A i \in (24 + Len(a.fragment) + 1) .. SlotSize :
              Filled(a)[i] = 0
  <1> DEFINE n == Len(a.fragment)
             bytes == Header(a) \o a.fragment
             z == Zeros(SlotSize - Len(bytes))
             all == bytes \o z
  <1>1. Header(a) \in Seq(Byte) /\ Len(Header(a)) = 24
    BY HeaderLayout
  <1>2. a.fragment \in Seq(Byte) /\ n \in 0 .. FragmentCapacity
    BY ArgumentTypes
  <1>3. /\ bytes \in Seq(Byte) /\ Len(bytes) = Len(Header(a)) + n
        /\ \A i \in 1 .. Len(Header(a)) : bytes[i] = Header(a)[i]
        /\ \A i \in 1 .. n : bytes[Len(Header(a)) + i] = a.fragment[i]
    BY <1>1, <1>2, ConcatAt, Zenon
  <1>4. Filled(a) = all
    BY DEF Filled
  <1> HIDE DEF bytes
  <1>5. Len(bytes) = 24 + n /\ SlotSize = 24 + FragmentCapacity
    BY <1>1, <1>3 DEF SlotSize, HeaderLen
  <1>6. SlotSize - Len(bytes) \in Nat
    BY <1>2, <1>5, MessageAssumption
  <1>7. /\ z \in Seq(Byte) /\ Len(z) = SlotSize - Len(bytes)
        /\ \A i \in 1 .. Len(z) : z[i] = 0
    <2> DEFINE m == SlotSize - Len(bytes)
    <2> HIDE DEF m
    <2>1. m \in Nat /\ 0 \in Byte
      BY <1>6, RadixTypes DEF m, Byte
    <2>2. /\ Zeros(m) \in Seq(Byte) /\ Len(Zeros(m)) = m
          /\ \A i \in 1 .. m : Zeros(m)[i] = 0
      BY <2>1 DEF Zeros
    <2> QED
      BY <2>2 DEF m
  <1> HIDE DEF z
  <1>8. /\ all \in Seq(Byte) /\ Len(all) = Len(bytes) + Len(z)
        /\ \A i \in 1 .. Len(bytes) : all[i] = bytes[i]
        /\ \A i \in 1 .. Len(z) : all[Len(bytes) + i] = z[i]
    BY <1>3, <1>7, ConcatAt, Zenon
  <1> HIDE DEF all, n
  <1>9. Len(all) = SlotSize /\ SlotSize \in Nat
    BY <1>2, <1>5, <1>7, <1>8, MessageAssumption
  <1>10. all \in Slot
    BY <1>8, <1>9 DEF Slot
  <1>11. \A i \in 1 .. 24 : all[i] = Header(a)[i]
    <2> TAKE i \in 1 .. 24
    <2>1. bytes[i] = Header(a)[i]
      BY <1>1, <1>3
    <2>2. i \in 1 .. Len(bytes)
      BY <1>2, <1>5
    <2> QED
      BY <1>8, <2>1, <2>2
  <1>12. \A i \in 1 .. n : all[24 + i] = a.fragment[i]
    <2> TAKE i \in 1 .. n
    <2>1. bytes[24 + i] = a.fragment[i]
      BY <1>1, <1>3
    <2>2. 24 + i \in 1 .. Len(bytes)
      BY <1>2, <1>5
    <2> QED
      BY <1>8, <2>1, <2>2
  <1>13. \A i \in (24 + n + 1) .. SlotSize : all[i] = 0
    <2> TAKE i \in (24 + n + 1) .. SlotSize
    <2> DEFINE j == i - Len(bytes)
    <2>1. j \in 1 .. Len(z) /\ i = Len(bytes) + j
      BY <1>2, <1>5, <1>6, <1>7, <1>9
    <2> QED
      BY <1>7, <1>8, <2>1
  <1> QED
    BY <1>4, <1>8, <1>9, <1>10, <1>11, <1>12, <1>13 DEF n

-----------------------------------------------------------------------------
(* Reading a slot.                                                         *)

(* Two digits below n make a number below n squared.                       *)
LEMMA TwoDigits ==
  ASSUME NEW n \in Nat, n > 0, NEW x \in 0 .. (n - 1), NEW y \in 0 .. (n - 1)
  PROVE  x + n * y \in 0 .. (n * n - 1)
  <1>1. n * y <= n * (n - 1)
    BY MulMono
  <1>2. n * (n - 1) = n * n - n
    OBVIOUS
  <1>3. n * y \in Nat /\ n * n \in Nat
    OBVIOUS
  <1> QED
    BY <1>1, <1>2, <1>3

(* Any two bytes of the header are a u16.                                  *)
LEMMA Read16Type ==
  ASSUME NEW s \in Slot, NEW off \in 0 .. 22
  PROVE  axivc_read_le16(s, off) \in 0 .. (Radix16 - 1)
  <1>1. off + 1 \in 1 .. SlotSize /\ off + 2 \in 1 .. SlotSize
    BY MessageAssumption DEF SlotSize, HeaderLen
  <1>2. s[off + 1] \in 0 .. (Radix - 1) /\ s[off + 2] \in 0 .. (Radix - 1)
    BY <1>1 DEF Slot, Byte
  <1>3. Radix \in Nat /\ Radix > 0
    BY RadixTypes
  <1>4. s[off + 1] + Radix * s[off + 2] \in 0 .. (Radix * Radix - 1)
    BY <1>2, <1>3, TwoDigits
  <1> QED
    BY <1>4 DEF axivc_read_le16, Radix16

(* Any four bytes of the header are a u32.                                 *)
LEMMA Read32Type ==
  ASSUME NEW s \in Slot, NEW off \in 0 .. 20
  PROVE  axivc_read_le32(s, off) \in 0 .. (Radix32 - 1)
  <1>1. /\ axivc_read_le16(s, off) \in 0 .. (Radix16 - 1)
        /\ axivc_read_le16(s, off + 2) \in 0 .. (Radix16 - 1)
    BY Read16Type
  <1>2. Radix16 \in Nat /\ Radix16 > 0
    BY RadixTypes
  <1>3. axivc_read_le16(s, off) + Radix16 * axivc_read_le16(s, off + 2)
          \in 0 .. (Radix16 * Radix16 - 1)
    BY <1>1, <1>2, TwoDigits
  <1> QED
    BY <1>3 DEF axivc_read_le32, Radix32

(* Any eight bytes of the header are a u64.                                *)
LEMMA Read64Type ==
  ASSUME NEW s \in Slot, NEW off \in 0 .. 16
  PROVE  axivc_read_le64(s, off) \in 0 .. (Radix64 - 1)
  <1>1. /\ axivc_read_le32(s, off) \in 0 .. (Radix32 - 1)
        /\ axivc_read_le32(s, off + 4) \in 0 .. (Radix32 - 1)
    BY Read32Type
  <1>2. Radix32 \in Nat /\ Radix32 > 0
    BY RadixTypes
  <1>3. axivc_read_le32(s, off) + Radix32 * axivc_read_le32(s, off + 4)
          \in 0 .. (Radix32 * Radix32 - 1)
    BY <1>1, <1>2, TwoDigits
  <1> QED
    BY <1>3 DEF axivc_read_le64, Radix64

(* What the decoder reads from an encoded slot.                            *)
LEMMA FilledReads ==
  ASSUME NEW a \in Arguments, EncodeOK(a.id, a.len, a.flags, a.fragment)
  PROVE  /\ Filled(a)[1] = 1
         /\ Filled(a)[2] = FlagByte(a.flags)
         /\ axivc_read_le16(Filled(a), 2) = 24
         /\ axivc_read_le32(Filled(a), 4) = Len(a.fragment)
         /\ axivc_read_le64(Filled(a), 8) = a.id
         /\ axivc_read_le64(Filled(a), 16) = a.len
  <1> DEFINE s == Filled(a)
             h == Header(a)
             w16 == axivc_write_le16(24)
             w32 == axivc_write_le32(Len(a.fragment))
             wid == axivc_write_le64(a.id)
             wlen == axivc_write_le64(a.len)
  <1>1. \A i \in 1 .. 24 : s[i] = h[i]
    BY FilledLayout
  <1>2. /\ h[1] = 1 /\ h[2] = FlagByte(a.flags)
        /\ \A i \in 1 .. 2 : h[2 + i] = w16[i]
        /\ \A i \in 1 .. 4 : h[4 + i] = w32[i]
        /\ \A i \in 1 .. 8 : h[8 + i] = wid[i]
        /\ \A i \in 1 .. 8 : h[16 + i] = wlen[i]
    BY HeaderLayout
  <1>3. axivc_read_le16(w16, 0) = 24
    <2>1. axivc_read_le16(w16, 0) = 24 % Radix16
      BY Write16
    <2>2. 24 % Radix16 = 24
      BY RadixTypes, SmallMod
    <2> QED
      BY <2>1, <2>2
  <1>4. axivc_read_le32(w32, 0) = Len(a.fragment)
    <2>1. Len(a.fragment) \in 0 .. (Radix32 - 1) /\ Len(a.fragment) \in Nat
      BY ArgumentTypes
    <2>2. axivc_read_le32(w32, 0) = Len(a.fragment) % Radix32
      BY <2>1, Write32
    <2>3. Len(a.fragment) % Radix32 = Len(a.fragment)
      <3>1. Radix32 \in Nat /\ Radix32 > 0
        BY RadixTypes
      <3> QED
        BY <2>1, <3>1, SmallMod
    <2> QED
      BY <2>2, <2>3
  <1>5. axivc_read_le64(wid, 0) = a.id /\ axivc_read_le64(wlen, 0) = a.len
    BY ArgumentTypes, Write64
  <1> HIDE DEF s, h, w16, w32, wid, wlen
  <1>6. s[1] = 1 /\ s[2] = FlagByte(a.flags)
    BY <1>1, <1>2
  <1>7. axivc_read_le16(s, 2) = axivc_read_le16(w16, 0)
    <2>1. \A i \in 1 .. 2 : s[2 + i] = w16[0 + i]
      BY <1>1, <1>2
    <2> QED
      BY <2>1, Read16At
  <1>8. axivc_read_le32(s, 4) = axivc_read_le32(w32, 0)
    <2>1. \A i \in 1 .. 4 : s[4 + i] = w32[0 + i]
      BY <1>1, <1>2
    <2> QED
      BY <2>1, Read32At
  <1>9. axivc_read_le64(s, 8) = axivc_read_le64(wid, 0)
    <2>1. \A i \in 1 .. 8 : s[8 + i] = wid[0 + i]
      BY <1>1, <1>2
    <2> QED
      BY <2>1, Read64At
  <1>10. axivc_read_le64(s, 16) = axivc_read_le64(wlen, 0)
    <2>1. \A i \in 1 .. 8 : s[16 + i] = wlen[0 + i]
      BY <1>1, <1>2
    <2> QED
      BY <2>1, Read64At
  <1> QED
    BY <1>3, <1>4, <1>5, <1>6, <1>7, <1>8, <1>9, <1>10 DEF s

(* Whatever the slot holds, the decoder's verdict is that of MessageV1 on  *)
(* the record of the slot (message.c:488-533).                             *)
LEMMA DecodedAgrees ==
  ASSUME NEW s \in Slot
  PROVE  /\ Decoded(s) \in DecodedFrame
                             \cup [error : {"EPROTO", "EPROTONOSUPPORT"}]
         /\ Decoded(s).error = DecodeError(Record(s))
  <1> DEFINE b == s[2]
             hl == axivc_read_le16(s, 2)
             fl == axivc_read_le32(s, 4)
             id == axivc_read_le64(s, 8)
             ml == axivc_read_le64(s, 16)
             bad == \/ b \div 8 # 0
                    \/ hl # 24
                    \/ fl > SlotSize - hl
                    \/ id = 0
                    \/ ~ShapeOK(ml, fl, Flags(b))
             good == [error |-> OK, message_id |-> id, message_len |-> ml,
                      flags |-> Flags(b), fragment_len |-> fl]
             r == Record(s)
  <1>1. Decoded(s) = IF s[1] # 1 THEN [error |-> "EPROTONOSUPPORT"]
                     ELSE IF bad THEN [error |-> "EPROTO"] ELSE good
    BY DEF Decoded, FLAGS_OFFSET, HEADER_LEN_OFFSET, FRAGMENT_LEN_OFFSET,
           MESSAGE_ID_OFFSET, MESSAGE_LEN_OFFSET, VERSION_OFFSET, Version,
           HeaderLen, FragmentRoom
  <1>2. /\ r.version = s[1] /\ r.header_len = hl /\ r.fragment_len = fl
        /\ r.message_id = id /\ r.message_len = ml
        /\ r.flags = Flags(b) \cup (IF b > 7 THEN {"unknown"} ELSE {})
    BY DEF Record, FLAGS_OFFSET, HEADER_LEN_OFFSET, FRAGMENT_LEN_OFFSET,
           MESSAGE_ID_OFFSET, MESSAGE_LEN_OFFSET, VERSION_OFFSET
  <1>3. b \in Nat
    <2>1. 2 \in 1 .. SlotSize
      BY MessageAssumption DEF SlotSize, HeaderLen
    <2> QED
      BY <2>1, CodecAssumption DEF Slot, Byte
  <1>4. hl \in Nat
    BY Read16Type, RadixTypes
  <1>5. fl \in Nat
    BY Read32Type, RadixTypes
  <1>6. id \in 0 .. MaxMessageId /\ ml \in Nat
    BY Read64Type, CodecAssumption, RadixTypes
  <1> HIDE DEF b, hl, fl, id, ml, r
  <1>7. (b \div 8 # 0) <=> (b > 7)
    BY <1>3
  <1>8. Flags(b) \subseteq KnownFlags
    BY DEF Flags
  <1>9. CASE s[1] # 1
    BY <1>1, <1>2, <1>9 DEF DecodeError, Version, r
  <1>10. CASE s[1] = 1 /\ bad
    <2>1. Decoded(s) = [error |-> "EPROTO"]
      BY <1>1, <1>10
    <2>2. \/ ~(r.flags \subseteq KnownFlags)
          \/ r.header_len # HeaderLen
          \/ r.fragment_len > SlotSize - r.header_len
          \/ r.message_id = 0
          \/ ~ShapeOK(r.message_len, r.fragment_len, r.flags)
      <3>1. CASE b > 7
        BY <1>2, <3>1 DEF KnownFlags
      <3>2. CASE ~(b > 7)
        BY <1>2, <1>7, <1>10, <3>2 DEF HeaderLen
      <3> QED
        BY <3>1, <3>2
    <2>3. DecodeError(r) = "EPROTO"
      BY <1>2, <1>10, <2>2 DEF DecodeError, Version
    <2> QED
      BY <2>1, <2>3 DEF r
  <1>11. CASE s[1] = 1 /\ ~bad
    <2>1. Decoded(s) = good
      BY <1>1, <1>11
    <2>2. r.flags = Flags(b)
      BY <1>2, <1>7, <1>11
    <2>3. DecodeError(r) = OK
      BY <1>2, <1>8, <1>11, <2>2 DEF DecodeError, Version, HeaderLen
    <2>4. fl \in 0 .. FragmentCapacity
      BY <1>4, <1>5, <1>11, MessageAssumption DEF SlotSize, HeaderLen
    <2>5. id \in 1 .. MaxMessageId
      BY <1>6, <1>11
    <2>6. good \in DecodedFrame
      BY <1>6, <1>8, <2>4, <2>5 DEF DecodedFrame
    <2> QED
      BY <2>1, <2>3, <2>6 DEF r
  <1> QED
    BY <1>9, <1>10, <1>11

-----------------------------------------------------------------------------
(* The inductive invariant.                                                *)

(* axivc_encode_frame takes the arguments.                                 *)
Encodable == EncodeOK(args.id, args.len, args.flags, args.fragment)

(* The result is the decoder's, of the slot as it is.                      *)
CodecInv ==
  /\ TypeOK
  /\ step = "decode" => Encodable
  /\ result = IF step = "done" /\ Encodable THEN Decoded(slot)
              ELSE [error |-> "none"]

(* A slot of old bytes.                                                    *)
LEMMA CodecInit == Init => CodecInv
  <1> SUFFICES ASSUME Init PROVE CodecInv
    OBVIOUS
  <1>1. slot \in Slot
    BY CodecAssumption DEF Init, Slot
  <1> QED
    BY <1>1 DEF Init, CodecInv, TypeOK

(* Encoding, damage and decoding keep the invariant.                       *)
LEMMA CodecStep == CodecInv /\ [Next]_vars => CodecInv'
  <1> SUFFICES ASSUME CodecInv, [Next]_vars PROVE CodecInv'
    OBVIOUS
  <1>1. CASE axivc_encode_frame
    <2>1. CASE Encodable
      <3>1. /\ slot' = Filled(args) /\ step' = "decode"
            /\ args' = args /\ result' = result
        BY <1>1, <2>1 DEF axivc_encode_frame, Encodable
      <3>2. slot' \in Slot
        BY <2>1, <3>1, FilledLayout DEF CodecInv, TypeOK, Encodable
      <3>3. result = [error |-> "none"]
        BY <1>1 DEF axivc_encode_frame, CodecInv
      <3> QED
        BY <2>1, <3>1, <3>2, <3>3 DEF CodecInv, TypeOK, Encodable
    <2>2. CASE ~Encodable
      BY <1>1, <2>2 DEF axivc_encode_frame, Encodable, CodecInv, TypeOK
    <2> QED
      BY <2>1, <2>2
  <1>2. CASE Damage
    <2>1. PICK i \in 1 .. HeaderLen, b \in Byte :
            slot' = [slot EXCEPT ![i] = b]
      BY <1>2 DEF Damage
    <2>2. slot' \in Slot
      BY <2>1 DEF CodecInv, TypeOK, Slot
    <2> QED
      BY <1>2, <2>2 DEF Damage, CodecInv, TypeOK, Encodable
  <1>3. CASE axivc_decode_frame
    <2>1. result' \in DecodedFrame \cup [error : {"EPROTO", "EPROTONOSUPPORT"}]
      BY <1>3, DecodedAgrees DEF axivc_decode_frame, CodecInv, TypeOK
    <2> QED
      BY <1>3, <2>1 DEF axivc_decode_frame, CodecInv, TypeOK, Encodable
  <1>4. CASE UNCHANGED vars
    BY <1>4 DEF vars, CodecInv, TypeOK, Encodable
  <1> QED
    BY <1>1, <1>2, <1>3, <1>4 DEF Next

-----------------------------------------------------------------------------
(* The invariant holds in every state.                                     *)
THEOREM CodecInvariant == Spec => []CodecInv
  BY CodecInit, CodecStep, PTL DEF Spec

(* Whatever byte of the header is damaged, and however, axivc_decode_frame *)
(* refuses what MessageV1 refuses, with the same error, and points to no   *)
(* fragment beyond the slot (message.c:488-533).                           *)
THEOREM DecodersAgree == Spec => []DecodeAgrees
  <1>1. CodecInv => DecodeAgrees
    <2> SUFFICES ASSUME CodecInv PROVE DecodeAgrees
      OBVIOUS
    <2>1. TypeOK
      BY DEF CodecInv
    <2>2. ASSUME result.error # "none"
          PROVE  /\ result.error = DecodeError(Record(slot))
                 /\ result.error = OK =>
                      result.fragment_len <= FragmentCapacity
      <3>1. result = Decoded(slot)
        BY <2>2 DEF CodecInv
      <3>2. /\ result \in DecodedFrame
                           \cup [error : {"EPROTO", "EPROTONOSUPPORT"}]
            /\ result.error = DecodeError(Record(slot))
        BY <2>1, <3>1, DecodedAgrees DEF TypeOK
      <3>3. ASSUME result.error = OK
            PROVE  result.fragment_len <= FragmentCapacity
        BY <3>2, <3>3, MessageAssumption DEF DecodedFrame, OK
      <3> QED
        BY <3>2, <3>3
    <2> QED
      BY <2>1, <2>2 DEF DecodeAgrees
  <1> QED
    BY <1>1, CodecInvariant, PTL

(* An encoded slot is the record MessageV1 sends.                          *)
LEMMA FilledRecord ==
  ASSUME NEW a \in Arguments, EncodeOK(a.id, a.len, a.flags, a.fragment)
  PROVE  Record(Filled(a)) =
           [version |-> Version, flags |-> a.flags, header_len |-> HeaderLen,
            fragment_len |-> Len(a.fragment), message_id |-> a.id,
            message_len |-> a.len]
  <1> DEFINE s == Filled(a)
  <1>1. /\ s[1] = 1 /\ s[2] = FlagByte(a.flags)
        /\ axivc_read_le16(s, 2) = 24
        /\ axivc_read_le32(s, 4) = Len(a.fragment)
        /\ axivc_read_le64(s, 8) = a.id
        /\ axivc_read_le64(s, 16) = a.len
    BY FilledReads
  <1>2. ~(s[2] > 7) /\ Flags(s[2]) = a.flags
    BY <1>1, ArgumentTypes, FlagByteTypes
  <1> HIDE DEF s
  <1>3. Flags(s[2]) \cup (IF s[2] > 7 THEN {"unknown"} ELSE {}) = a.flags
    BY <1>2
  <1>4. Record(s) =
           [version |-> s[1],
            flags |-> Flags(s[2])
                        \cup (IF s[2] > 7 THEN {"unknown"} ELSE {}),
            header_len |-> axivc_read_le16(s, 2),
            fragment_len |-> axivc_read_le32(s, 4),
            message_id |-> axivc_read_le64(s, 8),
            message_len |-> axivc_read_le64(s, 16)]
    BY DEF Record, VERSION_OFFSET, FLAGS_OFFSET, HEADER_LEN_OFFSET,
           FRAGMENT_LEN_OFFSET, MESSAGE_ID_OFFSET, MESSAGE_LEN_OFFSET
  <1>5. Record(s) =
           [version |-> Version, flags |-> a.flags, header_len |-> HeaderLen,
            fragment_len |-> Len(a.fragment), message_id |-> a.id,
            message_len |-> a.len]
    BY <1>1, <1>3, <1>4, Zenon DEF Version, HeaderLen
  <1> QED
    BY <1>5 DEF s

(* The fragment lies behind the header.                                    *)
LEMMA FilledFragment ==
  ASSUME NEW a \in Arguments, EncodeOK(a.id, a.len, a.flags, a.fragment)
  PROVE  FragmentOf(Filled(a), Len(a.fragment)) = a.fragment
  <1> DEFINE s == Filled(a)
             n == Len(a.fragment)
             t == SubSeq(s, 25, 24 + n)
  <1>1. /\ s \in Seq(Byte) /\ Len(s) = SlotSize
        /\ \A i \in 1 .. n : s[24 + i] = a.fragment[i]
    BY FilledLayout
  <1>2. /\ a.fragment \in Seq(Byte) /\ n \in 0 .. FragmentCapacity
        /\ SlotSize = 24 + FragmentCapacity
    BY ArgumentTypes DEF SlotSize, HeaderLen
  <1> HIDE DEF s
  <1>3. t \in Seq(Byte) /\ Len(t) = n /\ \A i \in 1 .. n : t[i] = s[24 + i]
    BY <1>1, <1>2, MessageAssumption
  <1> HIDE DEF t
  <1>4. t = a.fragment
    BY <1>1, <1>2, <1>3
  <1> QED
    BY <1>4 DEF t, s, FragmentOf, HeaderLen

(* Decoding an encoded slot gives the arguments back.                      *)
LEMMA FilledDecoded ==
  ASSUME NEW a \in Arguments, EncodeOK(a.id, a.len, a.flags, a.fragment)
  PROVE  Decoded(Filled(a)) =
           [error |-> OK, message_id |-> a.id, message_len |-> a.len,
            flags |-> a.flags, fragment_len |-> Len(a.fragment)]
  <1> DEFINE s == Filled(a)
  <1>1. /\ s[1] = 1 /\ s[2] = FlagByte(a.flags)
        /\ axivc_read_le16(s, 2) = 24
        /\ axivc_read_le32(s, 4) = Len(a.fragment)
        /\ axivc_read_le64(s, 8) = a.id
        /\ axivc_read_le64(s, 16) = a.len
    BY FilledReads
  <1>2. s[2] \in 0 .. 7 /\ Flags(s[2]) = a.flags
    BY <1>1, ArgumentTypes, FlagByteTypes
  <1> HIDE DEF s
  <1>3. s[2] \div 8 = 0
    BY <1>2
  <1>4. ~(Len(a.fragment) > SlotSize - 24) /\ a.id # 0
    BY ArgumentTypes, MessageAssumption DEF SlotSize, HeaderLen
  <1>5. ShapeOK(a.len, Len(a.fragment), a.flags)
    BY DEF EncodeOK
  <1>6. Decoded(s) =
           [error |-> OK, message_id |-> a.id, message_len |-> a.len,
            flags |-> a.flags, fragment_len |-> Len(a.fragment)]
    BY <1>1, <1>2, <1>3, <1>4, <1>5
    DEF Decoded, VERSION_OFFSET, FLAGS_OFFSET, HEADER_LEN_OFFSET,
        FRAGMENT_LEN_OFFSET, MESSAGE_ID_OFFSET, MESSAGE_LEN_OFFSET, Version,
        HeaderLen, FragmentRoom
  <1> QED
    BY <1>6 DEF s

(* The bytes carry the frame: for every identifier and length of 64 bits,  *)
(* all flags and every fragment, what axivc_encode_frame writes is the     *)
(* record of MessageV1 and decodes to the arguments (message.c:397-427,    *)
(* 455-533).                                                               *)
THEOREM FramesCarried == Spec => []BytesCarryFrame
  <1>1. CodecInv => BytesCarryFrame
    <2> DEFINE sent == Encode(args.id, args.len, args.flags, args.fragment)
    <2> SUFFICES ASSUME CodecInv, Undamaged
                 PROVE  /\ Record(slot) =
                             [f \in DOMAIN sent \ {"fragment"} |-> sent[f]]
                        /\ FragmentOf(slot, Len(args.fragment)) = args.fragment
                        /\ step = "done" =>
                             result = [error |-> OK, message_id |-> args.id,
                                       message_len |-> args.len,
                                       flags |-> args.flags,
                                       fragment_len |-> Len(args.fragment)]
      BY DEF BytesCarryFrame
    <2>1. /\ args \in Arguments /\ slot = Filled(args)
          /\ EncodeOK(args.id, args.len, args.flags, args.fragment)
      BY DEF CodecInv, TypeOK, Undamaged
    <2>2. Record(slot) =
            [version |-> Version, flags |-> args.flags,
             header_len |-> HeaderLen, fragment_len |-> Len(args.fragment),
             message_id |-> args.id, message_len |-> args.len]
      BY <2>1, FilledRecord
    <2>3. [f \in DOMAIN sent \ {"fragment"} |-> sent[f]] =
            [version |-> Version, flags |-> args.flags,
             header_len |-> HeaderLen, fragment_len |-> Len(args.fragment),
             message_id |-> args.id, message_len |-> args.len]
      BY DEF Encode
    <2>4. FragmentOf(slot, Len(args.fragment)) = args.fragment
      BY <2>1, FilledFragment
    <2>5. ASSUME step = "done"
          PROVE  result = [error |-> OK, message_id |-> args.id,
                           message_len |-> args.len, flags |-> args.flags,
                           fragment_len |-> Len(args.fragment)]
      <3>1. result = Decoded(slot)
        BY <2>1, <2>5 DEF CodecInv, Encodable
      <3>2. Decoded(slot) =
              [error |-> OK, message_id |-> args.id,
               message_len |-> args.len, flags |-> args.flags,
               fragment_len |-> Len(args.fragment)]
        BY <2>1, FilledDecoded
      <3> QED
        BY <3>1, <3>2
    <2> QED
      BY <2>2, <2>3, <2>4, <2>5
  <1> QED
    BY <1>1, CodecInvariant, PTL
=============================================================================
