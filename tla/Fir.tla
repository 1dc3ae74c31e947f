-------------------------------- MODULE Fir --------------------------------
(***************************************************************************)
(* The FIR filter stream of src/src/server/stream/stream.c (fir_stream_...)  *)
(* over one parent stream, with overlap-save buffering, and its reference *)
(* definition: the convolution of the parent's samples with the taps.     *)
(*                                                                         *)
(* The parent is a leaf of the stream engine reduced to what the filter   *)
(* sees of it, a sequence Input of floats read front to back:             *)
(*  - "array": array_stream_read, zero-padded past the end, never eos;    *)
(*  - "reader": a store reader over blocks of BlockSamples floats, which  *)
(*    returns what is left and sets eos as soon as its range is used up,  *)
(*    then returns 0 (StoreReader.tla checks that it delivers exactly the *)
(*    concatenated blocks).                                               *)
(* Samples are integers, so the sums are exact.                          *)
(***************************************************************************)
EXTENDS Integers, Sequences

CONSTANTS
    Taps,          \* fs->taps, tap_count floats (interleaved I/Q if complex)
    IsComplex,     \* fs->is_complex
    BufferSize,    \* BUFFER_SIZE
    Input,         \* the parent's samples
    ParentKind,    \* "array" or "reader"
    BlockSamples,  \* floats per block of a reader parent
    ReadCounts,    \* counts a read request asks for
    SeekOffsets,   \* offsets a seek request carries
    MaxOutputs     \* bound on the floats produced since the last seek

NTaps == Len(Taps)

\* Variant of Overlap: one float too few carried over.
OverlapShort == IF IsComplex THEN NTaps - 3 ELSE NTaps - 2

\* new_fir_stream: the floats carried over by a shift.
Overlap == IF IsComplex THEN NTaps - 2 ELSE NTaps - 1

ASSUME /\ ParentKind \in {"array", "reader"}
       /\ NTaps \in 1 .. BufferSize
       /\ Overlap >= 0

\* array_stream_seek stores any offset, but past the array's end the next
\* array_stream_read computes a negative within_stream and hands memcpy a
\* huge length: the process dies.  The seeks modelled stay within the array.
ASSUME ParentKind = "array" => \A o \in SeekOffsets : o <= Len(Input)

VARIABLES
    fs,      \* struct fir_stream: offset, data_offset, buffer, eos
    parent,  \* the parent stream: pos (next float), eos
    out,     \* history: floats returned since the last seek
    origin   \* history: the parent position the last seek went to

vars == <<fs, parent, out, origin>>

MinOf(a, b) == IF a < b THEN a ELSE b

\* Float k of the parent's sequence, zero past its end.
X(k) == IF k >= 0 /\ k < Len(Input) THEN Input[k + 1] ELSE 0

(***************************************************************************)
(* parent->read(parent, buf, count): [n, p, data] with n the value it     *)
(* returns and data the floats it wrote.  array_stream_read copies what   *)
(* is left of the array, zero-fills the rest and always returns count.   *)
(***************************************************************************)
ParentRead(p, count) ==
    IF ParentKind = "array"
      THEN [n |-> count, p |-> [p EXCEPT !.pos = MinOf(p.pos + count, Len(Input))],
            data |-> [i \in 1 .. count |-> X(p.pos + i - 1)]]
    ELSE IF p.eos
      THEN [n |-> 0, p |-> p, data |-> <<>>]
    ELSE LET r == MinOf(count, Len(Input) - p.pos)
         IN  [n |-> r, p |-> [pos |-> p.pos + r, eos |-> p.pos + r >= Len(Input)],
              data |-> [i \in 1 .. r |-> X(p.pos + i - 1)]]

\* parent->seek(parent, offset): array_stream_seek / store_reader_seek.
ParentSeek(p, offset) ==
    IF ParentKind = "array"
      THEN [pos |-> offset, eos |-> FALSE]
      ELSE [pos |-> MinOf(offset * BlockSamples, Len(Input)),
            eos |-> offset * BlockSamples >= Len(Input)]

\* Variant of FillRoom: asks the parent for a whole buffer.
FillRoomWhole(f) == BufferSize

\* to_read of fir_stream_fill: the free tail of the buffer.
FillRoom(f) == BufferSize - f.data_offset

(***************************************************************************)
(* fir_stream_fill: read from the parent until the buffer is full or the  *)
(* parent returns nothing, which sets eos.  s is [f, p].                  *)
(***************************************************************************)
RECURSIVE Fill(_)
Fill(s) ==
    IF s.f.eos \/ s.f.data_offset >= BufferSize THEN s
    ELSE LET rd == ParentRead(s.p, FillRoom(s.f))
             d0 == s.f.data_offset
         IN IF rd.n <= 0
              THEN [s EXCEPT !.f.eos = TRUE, !.p = rd.p]
              ELSE Fill([f |-> [s.f EXCEPT
                                  !.buffer = [i \in 0 .. BufferSize - 1 |->
                                     IF i >= d0 /\ i < d0 + rd.n THEN rd.data[i - d0 + 1]
                                     ELSE @[i]],
                                  !.data_offset = d0 + rd.n],
                         p |-> rd.p])

\* fir_stream_shift_and_read: move the last overlap floats to the front,
\* refill the rest, restart the window.
ShiftAndRead(s) ==
    LET moved == [s EXCEPT
                    !.f.buffer = [i \in 0 .. BufferSize - 1 |->
                                    IF i < Overlap THEN @[BufferSize - Overlap + i] ELSE @[i]],
                    !.f.data_offset = Overlap]
        t == Fill(moved)
    IN  [t EXCEPT !.f.offset = 0]

\* Complex product of (a, b) and (c, d).
CMul(a, b, c, d) == <<a * c - b * d, a * d + b * c>>

RECURSIVE SumPairs(_)
SumPairs(S) ==
    IF S = <<>> THEN <<0, 0>>
    ELSE LET r == SumPairs(Tail(S)) IN <<Head(S)[1] + r[1], Head(S)[2] + r[2]>>

RECURSIVE SumInts(_)
SumInts(S) == IF S = <<>> THEN 0 ELSE Head(S) + SumInts(Tail(S))

\* Variant of NeedsShift: shifts when the window just fits.
NeedsShiftEarly(offset) == offset + NTaps >= BufferSize

\* The window of ntaps floats at offset would run past BUFFER_SIZE.
NeedsShift(offset) == offset + NTaps > BufferSize

\* fir_stream_fir_filter / fir_stream_fir_filter_complex: one output
\* sample (one float, or an I/Q pair) from the current window, taps reversed.
FilterOne(s) ==
    LET t   == IF NeedsShift(s.f.offset) THEN ShiftAndRead(s) ELSE s
        buf == t.f.buffer
        o   == t.f.offset
    IN  IF IsComplex
          THEN LET last == NTaps \div 2 - 1
                   v == SumPairs([i \in 1 .. NTaps \div 2 |->
                          CMul(buf[o + 2 * (i - 1)], buf[o + 2 * (i - 1) + 1],
                               Taps[2 * (last - (i - 1)) + 1], Taps[2 * (last - (i - 1)) + 2])])
               IN [s |-> [t EXCEPT !.f.offset = o + 2], v |-> v]
          ELSE [s |-> [t EXCEPT !.f.offset = o + 1],
                v |-> <<SumInts([i \in 1 .. NTaps |-> buf[o + i - 1] * Taps[NTaps - i + 1]])>>]

\* The loop of fir_stream_read: one output per float (real), or per pair
\* of floats (complex, i += 2), each written at output[i].
RECURSIVE FilterLoop(_, _, _, _)
FilterLoop(s, acc, i, count) ==
    IF i >= count THEN [f |-> s.f, p |-> s.p, o |-> acc]
    ELSE LET r == FilterOne(s)
         IN FilterLoop(r.s, acc \o r.v, i + Len(r.v), count)

(***************************************************************************)
(* new_fir_stream: offset = BUFFER_SIZE so that the first output shifts   *)
(* (zeros) and fills; the parent is fresh.                                *)
(***************************************************************************)
Init ==
    /\ fs = [offset |-> BufferSize, data_offset |-> 0, eos |-> FALSE,
             buffer |-> [i \in 0 .. BufferSize - 1 |-> 0]]
    /\ parent = [pos |-> 0, eos |-> Len(Input) = 0 /\ ParentKind = "reader"]
    /\ out = <<>>
    /\ origin = 0

\* fir_stream_read(stream, output, count).  With is_complex and an odd
\* count the loop writes one float past output[count - 1]; the caller keeps
\* count floats.
FirRead(count) ==
    LET r == FilterLoop([f |-> fs, p |-> parent], <<>>, 0, count)
    IN  /\ ~fs.eos
        /\ Len(out) + count <= MaxOutputs
        /\ fs' = r.f
        /\ parent' = r.p
        /\ out' = out \o SubSeq(r.o, 1, count)
        /\ UNCHANGED origin

\* fir_stream_seek(stream, offset): seek the parent, clear the buffer,
\* shift and refill, and take eos from the parent.
FirSeek(offset) ==
    LET cleared == [f |-> [fs EXCEPT !.offset = 0, !.data_offset = Overlap,
                                     !.buffer = [i \in 0 .. BufferSize - 1 |-> 0]],
                    p |-> ParentSeek(parent, offset)]
        r == ShiftAndRead(cleared)
    IN  /\ fs' = [r.f EXCEPT !.eos = r.p.eos]
        /\ parent' = r.p
        /\ out' = <<>>
        /\ origin' = IF ParentKind = "array" THEN offset ELSE offset * BlockSamples

Next ==
    \/ \E c \in ReadCounts : FirRead(c)
    \/ \E o \in SeekOffsets : FirSeek(o)

Spec == Init /\ [][Next]_vars

-----------------------------------------------------------------------------
TypeOK ==
    /\ fs.offset \in 0 .. BufferSize
    /\ fs.data_offset \in 0 .. BufferSize
    /\ fs.buffer \in [0 .. BufferSize - 1 -> Int]
    /\ fs.eos \in BOOLEAN
    /\ parent \in [pos : 0 .. Len(Input) + MaxOutputs, eos : BOOLEAN]
    /\ out \in Seq(Int)
    /\ Len(out) <= MaxOutputs + 1

(***************************************************************************)
(* Reference: float j of the convolution of the parent's samples from     *)
(* position origin on (nothing before it) with the taps, y[n] = sum over *)
(* i of x[n - (T-1) + i] * taps[T-1-i] (spec.md 4.3: a true convolution,  *)
(* taps in reverse order), for real samples or for I/Q pairs.             *)
(***************************************************************************)
XFrom(o, k) == IF k < o THEN 0 ELSE X(k)

Convolution(o, j) ==
    IF IsComplex
      THEN LET T == NTaps \div 2
               c == j \div 2
               v == SumPairs([i \in 1 .. T |->
                      LET m == c - (T - 1) + (i - 1)
                      IN  CMul(XFrom(o, o + 2 * m), XFrom(o, o + 2 * m + 1),
                               Taps[2 * (T - i) + 1], Taps[2 * (T - i) + 2])])
           IN v[(j % 2) + 1]
      ELSE SumInts([i \in 1 .. NTaps |->
                      XFrom(o, o + j - (NTaps - 1) + (i - 1)) * Taps[NTaps - i + 1]])

(***************************************************************************)
(* The filter's output since the last seek is the convolution: every      *)
(* float it returns is the reference convolution at that index (the       *)
(* overlap-save window carried over by fir_stream_shift_and_read, the     *)
(* shift when the window would run past BUFFER_SIZE and the reset of     *)
(* fir_stream_seek never drop, repeat or mix in a stale sample), and the  *)
(* stream ends (eos) only after one output for every parent sample from   *)
(* origin on has been returned: the eos that fir_stream_fill and          *)
(* fir_stream_seek take from the parent must not cut off samples still in *)
(* the buffer.                                                            *)
(***************************************************************************)
FirIsConvolution ==
    /\ \A j \in 1 .. Len(out) : out[j] = Convolution(origin, j - 1)
    /\ fs.eos => Len(out) >= Len(Input) - origin
=============================================================================
