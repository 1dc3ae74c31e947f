----------------------------- MODULE RingStore -----------------------------
(***************************************************************************)
(* What a store promises (spec.md, 4.2 "Wraparound policy"): a ring of    *)
(* BlockCount slots; the k-th successful append lands in slot k mod       *)
(* BlockCount, overwriting the oldest data there, and is stamped with its *)
(* position; a write at an explicit offset lands in slot offset mod       *)
(* BlockCount without moving the append cursor.  Block ids are 32-bit     *)
(* header fields, so a stamped id is a position modulo IdSpace.           *)
(***************************************************************************)
EXTENDS Naturals

CONSTANTS BlockCount, IdSpace, Bodies, Empty, Offsets

VARIABLES ring, cursor

avars == <<ring, cursor>>

EmptyBlock == [id |-> 0, body |-> Empty]

AInit ==
    /\ ring = [k \in 0 .. BlockCount - 1 |-> EmptyBlock]
    /\ cursor = 0

\* The cursor-th append goes to the slot cursor mod BlockCount.
AAppend(b) ==
    /\ ring' = [ring EXCEPT ![cursor % BlockCount] =
                    [id |-> cursor % IdSpace, body |-> b]]
    /\ cursor' = cursor + 1

AWriteAt(o, b) ==
    /\ ring' = [ring EXCEPT ![o % BlockCount] = [id |-> o, body |-> b]]
    /\ UNCHANGED cursor

ANext ==
    \E b \in Bodies :
        \/ AAppend(b)
        \/ \E o \in Offsets : AWriteAt(o, b)

ASpec == AInit /\ [][ANext]_avars
=============================================================================
