------------------------------ MODULE MCCrc32 -------------------------------
(***************************************************************************)
(* Checks eyeq_crc32, as store_write_block uses it, against the bitwise   *)
(* IEEE CRC-32 on every byte string of up to MaxLen bytes over Bytes: the *)
(* state is the string, and each step appends one byte (dropping the      *)
(* oldest once MaxLen are held).                                           *)
(***************************************************************************)
EXTENDS Crc32

CONSTANTS Bytes, MaxLen

VARIABLE block

Init == block = <<>>

Feed(b) ==
    block' = IF Len(block) < MaxLen THEN Append(block, b) ELSE Append(Tail(block), b)

Next == \E b \in Bytes : Feed(b)

Spec == Init /\ [][Next]_block

(***************************************************************************)
(* The checksum store_write_block stamps over a block's bytes is the IEEE *)
(* CRC-32 of those bytes (spec.md 3: nibble table, IEEE polynomial,       *)
(* initial value and final inversion), the value zlib.crc32 gives a      *)
(* reader that checks it.  It fails on a wrong table entry, a table      *)
(* indexed by the high nibble, a single nibble step per byte, or a        *)
(* missing inversion.                                                     *)
(***************************************************************************)
CrcIsIeee == Stamp(block, Len(block)) = Crc32Ieee(block)
=============================================================================
