------------------------------- MODULE Crc32 --------------------------------
(***************************************************************************)
(* eyeq_crc32 of src/src/server/crc32.c, the nibble-table IEEE CRC-32,    *)
(* and the checksum store_write_block stamps into a block header          *)
(* (store.c:137-138).                                                     *)
(*                                                                         *)
(* A uint32_t is the pair <<high 16 bits, low 16 bits>>, since TLC's      *)
(* integers stop at 2^31 - 1; the operators below are the C operators on *)
(* such pairs.                                                            *)
(***************************************************************************)
EXTENDS Integers, Sequences, Bitwise

\* x ^ y on nibbles, tabulated once; on 16-bit halves nibble by nibble.
XorNibble == [p \in (0 .. 15) \X (0 .. 15) |-> p[1] ^^ p[2]]
Xor16(x, y) ==
    LET n(v, k) == (v \div 16^k) % 16
    IN  XorNibble[<<n(x, 0), n(y, 0)>>]          + XorNibble[<<n(x, 1), n(y, 1)>>] * 16 +
        XorNibble[<<n(x, 2), n(y, 2)>>] * 256    + XorNibble[<<n(x, 3), n(y, 3)>>] * 4096

\* a ^ b
Xor32(a, b) == <<Xor16(a[1], b[1]), Xor16(a[2], b[2])>>

\* a >> k, for k \in 1 .. 16
Shr32(a, k) == <<a[1] \div 2^k, a[2] \div 2^k + (a[1] % 2^k) * 2^(16 - k)>>

\* a ^= byte
XorByte(a, byte) == <<a[1], Xor16(a[2], byte)>>

\* EYEQ_CRC_INITIAL: "Initial crc value should be 0xffffffff" (crc32.c:11).
CrcInitial == <<65535, 65535>>

\* eyeq_crc32tab: the CRC of each nibble value 0 .. 15, as 16-bit halves
\* (0x00000000, 0x1db71064, ..., 0xbdbdf21c).
Crc32Tab ==
    <<<<0, 0>>, <<7607, 4196>>, <<15214, 8392>>, <<9945, 12460>>,
      <<30428, 16784>>, <<27499, 20980>>, <<19890, 24920>>, <<20485, 28988>>,
      <<60856, 33568>>, <<61455, 37700>>, <<54998, 41960>>, <<52065, 45964>>,
      <<39780, 49840>>, <<34515, 53972>>, <<40970, 57976>>, <<48573, 61980>>>>

\* crc = eyeq_crc32tab[crc & 0x0f] ^ (crc >> 4)
NibbleStep(crc) == Xor32(Crc32Tab[(crc[2] % 16) + 1], Shr32(crc, 4))

\* Variant of EyeqCrc32 that folds in one nibble of each byte only.
EyeqCrc32OneStep(crc, bytes) ==
    LET c[i \in 0 .. Len(bytes)] ==
            IF i = 0 THEN crc ELSE NibbleStep(XorByte(c[i - 1], bytes[i]))
    IN  c[Len(bytes)]

(***************************************************************************)
(* eyeq_crc32(crc, data, len): for each byte, crc ^= byte, then two       *)
(* nibble steps; the result is returned without the final inversion, so  *)
(* that it can be passed in again for the next piece.  c[i] is crc after  *)
(* the loop's i-th iteration.                                             *)
(***************************************************************************)
EyeqCrc32(crc, bytes) ==
    LET c[i \in 0 .. Len(bytes)] ==
            IF i = 0 THEN crc ELSE NibbleStep(NibbleStep(XorByte(c[i - 1], bytes[i])))
    IN  c[Len(bytes)]

(***************************************************************************)
(* store_write_block: with the crc32 field zeroed, the checksum of the    *)
(* block's first block_length bytes, from EYEQ_CRC_INITIAL, inverted.     *)
(***************************************************************************)
Stamp(bytes, length) ==
    Xor32(EyeqCrc32(CrcInitial, SubSeq(bytes, 1, length)), CrcInitial)

-----------------------------------------------------------------------------
(***************************************************************************)
(* The reference: zlib's byte-wise CRC-32, whose 256-entry table is       *)
(* derived bit by bit from the reflected IEEE 802.3 polynomial            *)
(* 0xEDB88320: one shift per bit, xoring the polynomial in when the bit   *)
(* shifted out is 1.                                                      *)
(***************************************************************************)
IeeePoly == <<60856, 33568>>

BitStep(crc) ==
    IF crc[2] % 2 = 1 THEN Xor32(Shr32(crc, 1), IeeePoly) ELSE Shr32(crc, 1)

\* The CRC register after the eight bits of byte v.
ByteEntry(v) ==
    LET b1 == BitStep(<<0, v>>)
        b2 == BitStep(b1)  b3 == BitStep(b2)  b4 == BitStep(b3)  b5 == BitStep(b4)
        b6 == BitStep(b5)  b7 == BitStep(b6)  b8 == BitStep(b7)
    IN  b8

ByteTable == [v \in 0 .. 255 |-> ByteEntry(v)]

\* crc = table[(crc ^ byte) & 0xff] ^ (crc >> 8)
IeeeCrc(crc, bytes) ==
    LET c[i \in 0 .. Len(bytes)] ==
            IF i = 0 THEN crc
            ELSE Xor32(ByteTable[Xor16(c[i - 1][2], bytes[i]) % 256], Shr32(c[i - 1], 8))
    IN  c[Len(bytes)]

Crc32Ieee(bytes) == Xor32(IeeeCrc(CrcInitial, bytes), CrcInitial)

\* The reference gives zlib.crc32(b"abc") = 0x352441c2.
ASSUME Crc32Ieee(<<97, 98, 99>>) = <<13604, 16834>>
=============================================================================
