----------------------------- MODULE Multiplier -----------------------------
(***************************************************************************)
(* The frequency-translate layer of src/src/server/stream/stream.c as     *)
(* handle_create_stream builds it (server.c:211-212): a complex multiply  *)
(* stream (cc_mul, complex_multiply_stream_seek) of a store reader        *)
(* (parent1) and a complex sine oscillator (parent2, generate_complex_sine *)
(* and seek_complex_sine), both pulled through read_samples_from_stream.  *)
(*                                                                         *)
(* Samples are abstracted to where they come from: float k of the reader  *)
(* is the number k, float i of the oscillator's pair n is <<n, i>>, and a *)
(* product float is [x |-> the two reader floats, o |-> the two           *)
(* oscillator floats, part |-> 0 (real) or 1 (imaginary)].  Zero is a     *)
(* float zeroed by bzero; Undef one never written in this call (a stack  *)
(* array of cc_mul).  Float rounding and trigonometry are data.           *)
(***************************************************************************)
EXTENDS Integers, Sequences

CONSTANTS
    InputLen,      \* floats in the reader's range [start_block, end_block)
    BlockSamples,  \* floats per block (the reader seeks in blocks)
    BufferSize,    \* BUFFER_SIZE: floats per pass of the cc_mul loop
    ReadCounts,    \* counts a read_stream request passes to stream->read
    SeekOffsets,   \* block offsets a seek_stream request carries
    MaxOutputs,    \* bound on the floats returned since the last seek
    MaxOscOffset,  \* bound on the oscillator's sample counter
    Zero, Undef    \* model values

ASSUME /\ InputLen % 2 = 0 /\ BlockSamples % 2 = 0 /\ BufferSize % 2 = 0

VARIABLES
    mul,     \* the combiner: eos
    reader,  \* parent1: pos (next float of the range), eos
    osc,     \* parent2: base.offset, the number of the next complex sample
    out,     \* history: floats returned since the last seek
    origin   \* history: the complex sample the last seek went to

vars == <<mul, reader, osc, out, origin>>

MinOf(a, b) == IF a < b THEN a ELSE b

\* Write the floats vals[0 .. n-1] over buf[0 ..], keeping the rest.
Over(buf, vals, n) == [i \in DOMAIN buf |-> IF i < n THEN vals[i] ELSE buf[i]]

(***************************************************************************)
(* read_samples_from_stream(parent1, v1, count): zeros if the reader is   *)
(* at eos; otherwise reader->read(output, count) returns what its range   *)
(* still holds and sets eos once the range is used up, so the loop's next *)
(* call returns 0 and ends it.  The output pointer is never advanced and  *)
(* nothing is zeroed: the floats after a short read keep what v1 held.    *)
(***************************************************************************)
ReadReader(p, buf, count) ==
    IF p.eos
      THEN [p |-> p, buf |-> Over(buf, [i \in DOMAIN buf |-> Zero], count)]
      ELSE LET r == MinOf(count, InputLen - p.pos)
           IN  [p   |-> [pos |-> p.pos + r, eos |-> p.pos + r >= InputLen],
                buf |-> Over(buf, [i \in DOMAIN buf |-> p.pos + i], r)]

\* generate_complex_sine(count): one I/Q pair per i += 2, so an odd count
\* writes (count + 1) / 2 pairs, the last float past count, and returns
\* count; it is never at eos.
ReadSine(n, buf, count) ==
    LET pairs == (count + 1) \div 2
    IN  [n   |-> n + pairs,
         buf |-> Over(buf, [i \in DOMAIN buf |-> <<n + i \div 2, i % 2>>], 2 * pairs)]

\* v1[i] * v2[i] as complex numbers, i.e. floats 2i and 2i + 1.
Product(v1, v2, i, part) ==
    [x |-> <<v1[2 * i], v1[2 * i + 1]>>, o |-> <<v2[2 * i], v2[2 * i + 1]>>,
     part |-> part]

(***************************************************************************)
(* One pass of the loop of cc_mul.  s is [p, n, v1, v2, o, read, count,   *)
(* eos]: the reader, the oscillator's counter, the two stack arrays, the  *)
(* output floats, and the loop's read, count and s->base.eos.             *)
(***************************************************************************)
MulPass(s) ==
    LET toRead == MinOf(BufferSize, s.count)
        a == ReadReader(s.p, s.v1, toRead)
        b == ReadSine(s.n, s.v2, toRead)
        half == s.read \div 2
    IN  [s EXCEPT
           !.p = a.p, !.n = b.n, !.v1 = a.buf, !.v2 = b.buf,
           !.o = [k \in DOMAIN @ |->
                    IF k \div 2 - half \in 0 .. toRead \div 2 - 1
                      THEN Product(a.buf, b.buf, k \div 2 - half, k % 2)
                      ELSE @[k]],
           !.read = @ + toRead, !.count = @ - toRead,
           \* s->base.eos = (s->parent1->eos || s->parent1->eos)
           !.eos = a.p.eos]

\* while (!s->base.eos && count > 0)
RECURSIVE MulLoop(_)
MulLoop(s) == IF s.eos \/ s.count <= 0 THEN s ELSE MulLoop(MulPass(s))

Init ==
    \* new_store_reader_stream seeks its reader to block 0;
    \* handle_create_stream then seeks the multiplier to 0.
    /\ reader = [pos |-> 0, eos |-> InputLen = 0]
    /\ osc = 0
    /\ mul = [eos |-> InputLen = 0]
    /\ out = <<>>
    /\ origin = 0

(***************************************************************************)
(* handle_read_stream's stream->read(stream, samples, count), i.e. cc_mul, *)
(* into the response buffer that the request loop zeroed, keeping the     *)
(* count floats it reports.  At eos cc_mul reads nothing and returns 0.   *)
(***************************************************************************)
MulRead(count) ==
    LET s == MulLoop([p |-> reader, n |-> osc,
                      v1 |-> [i \in 0 .. BufferSize - 1 |-> Undef],
                      v2 |-> [i \in 0 .. BufferSize - 1 |-> Undef],
                      o |-> [k \in 0 .. count - 1 |-> Zero],
                      read |-> 0, count |-> count, eos |-> mul.eos])
    IN  /\ ~mul.eos
        /\ Len(out) + count <= MaxOutputs
        /\ s.n <= MaxOscOffset
        /\ reader' = s.p
        /\ osc' = s.n
        /\ mul' = [eos |-> s.p.eos]
        /\ out' = out \o [j \in 1 .. s.read |-> s.o[j - 1]]
        /\ UNCHANGED origin

(***************************************************************************)
(* complex_multiply_stream_seek(offset): store_reader_seek(parent1,       *)
(* offset) moves the reader to block offset and refills; the oscillator  *)
(* is seeked to its own base.offset, which leaves it where it is; eos is  *)
(* parent1's.                                                             *)
(***************************************************************************)
MulSeek(offset) ==
    LET pos == offset * BlockSamples
    IN  /\ reader' = [pos |-> MinOf(pos, InputLen), eos |-> pos >= InputLen]
        /\ UNCHANGED osc
        /\ mul' = [eos |-> pos >= InputLen]
        /\ out' = <<>>
        /\ origin' = pos \div 2

Next ==
    \/ \E c \in ReadCounts : MulRead(c)
    \/ \E o \in SeekOffsets : MulSeek(o)

Spec == Init /\ [][Next]_vars

-----------------------------------------------------------------------------
TypeOK ==
    /\ reader \in [pos : 0 .. InputLen, eos : BOOLEAN]
    /\ osc \in 0 .. MaxOscOffset
    /\ mul \in [eos : BOOLEAN]
    /\ Len(out) <= MaxOutputs
    /\ origin \in Nat

\* Float j (from 0) of the frequency-translated stream from complex sample
\* origin on: y[m] = x[m] * e^(2 pi i f m) with m = origin + j / 2, the
\* oscillator at the same sample number as the signal (spec.md 4.3: the
\* oscillator's phase is a function of its sample counter, and seek is a
\* pure offset reset).
Expected(j) ==
    LET m == origin + j \div 2
    IN  [x |-> <<2 * m, 2 * m + 1>>, o |-> <<<<m, 0>>, <<m, 1>>>>, part |-> j % 2]

(***************************************************************************)
(* Every float the multiplier returns since the last seek is the product  *)
(* of the reader's sample and the oscillator's sample of the same number, *)
(* and none lies past the end of the reader's range (spec.md 4.3: a short *)
(* count signals partial availability).  It breaks if the seek does not  *)
(* reset the oscillator, if an odd count lets the oscillator run ahead of *)
(* the reader, or if a short parent read leaves stale or unwritten floats *)
(* in what cc_mul returns.                                                *)
(***************************************************************************)
MulIsProduct ==
    \A j \in 1 .. Len(out) :
        /\ 2 * origin + (j - 1) < InputLen
        /\ out[j] = Expected(j - 1)
=============================================================================
