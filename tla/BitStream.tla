----------------------------- MODULE BitStream ------------------------------
(***************************************************************************)
(* A chunk's bit stream in use: fields of every kind are written one after *)
(* the other, and a reader then takes them back in the same order.         *)
(*                                                                         *)
(* The bit stream the compressed chunks are written to, and the reader     *)
(* that takes the bits back out through a window of one word.              *)
(*                                                                         *)
(* A byte has ByteBits bits and a word WordBits (8 and 64 in the code); a  *)
(* word is a number below 2^WordBits and a stream a sequence of bytes.  A  *)
(* failed read leaves the reader with err set and later reads fail too:    *)
(* this is the `?` after each read.                                        *)
(***************************************************************************)
EXTENDS Integers, Sequences, SequencesExt, FiniteSetsExt

CONSTANTS
    ByteBits,       \* bits of a byte
    WordBits,       \* bits of a machine word, a multiple of ByteBits
    SoftCapSlack    \* SOFT_CAP_SLACK, in bytes

ASSUME WidthAssumption ==
    /\ ByteBits \in Nat \ {0, 1}
    /\ WordBits \in Nat \ {0}
    /\ WordBits % ByteBits = 0
    /\ SoftCapSlack \in Nat

Words == 0 .. 2 ^ WordBits - 1
Bytes == 0 .. 2 ^ ByteBits - 1
WordBytes == WordBits \div ByteBits

CeilDiv(x, y) == (x + y - 1) \div y
Low(x, n) == x % 2 ^ n
Shl(x, n) == Low(x * 2 ^ n, WordBits)
Shr(x, n) == x \div 2 ^ n
BitAt(x, i) == Shr(x, i) % 2
ToSigned(u) == IF u >= 2 ^ (WordBits - 1) THEN u - 2 ^ WordBits ELSE u
ToUnsigned(i) == i % 2 ^ WordBits
RECURSIVE BitLength(_), TrailingZeros(_), XorWord(_, _)
BitLength(x) == IF x = 0 THEN 0 ELSE 1 + BitLength(x \div 2)
LeadingZeros(x) == WordBits - BitLength(x)
TrailingZeros(x) == IF x = 0 THEN WordBits ELSE IF x % 2 = 1 THEN 0 ELSE 1 + TrailingZeros(x \div 2)
XorWord(x, y) == IF x = y THEN 0 ELSE 2 * XorWord(x \div 2, y \div 2) + ((x + y) % 2)

zigzag_encode(i) == IF i >= 0 THEN ToUnsigned(2 * i) ELSE ToUnsigned(-2 * i - 1)
zigzag_decode(u) == IF u % 2 = 0 THEN Shr(u, 1) ELSE -Shr(u, 1) - 1
sign_extend(u, n) == IF BitAt(u, n - 1) = 1 THEN u - 2 ^ n ELSE u

\* The bytes of a word, most significant first, and back.
ToBeBytes(u) == [i \in 1 .. WordBytes |-> Low(Shr(u, WordBits - i * ByteBits), ByteBits)]
RECURSIVE FromBeBytes(_)
FromBeBytes(bs) ==
    IF bs = <<>> THEN 0 ELSE FromBeBytes(SubSeq(bs, 1, Len(bs) - 1)) * 2 ^ ByteBits + bs[Len(bs)]

-----------------------------------------------------------------------------
(* Writing: count is the number of bits still free in the last byte. *)

NewStream(cap) == [stream |-> <<>>, count |-> 0, soft_cap |-> cap, alloc |-> 0]

\* grow: the allocation stops at the cap while the data fits within it.
grow(w, need) ==
    LET floor   == Len(w.stream) + need
        doubled == Max({2 * w.alloc, WordBytes})
        capped  == w.soft_cap + SoftCapSlack
    IN  [w EXCEPT !.alloc = IF floor <= capped THEN Max({Min({doubled, capped}), floor})
                                               ELSE Max({doubled, floor})]

ensure_spare(w, need) ==
    IF w.alloc - Len(w.stream) < need THEN grow(w, need) ELSE w

\* The bits below the ones added are zero, so the code's OR is an addition.
OrLast(w, bits) == [w EXCEPT !.stream = [@ EXCEPT ![Len(w.stream)] = @ + bits]]

write_bit(w, bit) ==
    LET w1 == IF w.count = 0
                THEN [ensure_spare(w, 1) EXCEPT !.stream = Append(@, 0), !.count = ByteBits]
                ELSE w
    IN  [OrLast(w1, bit * 2 ^ (w1.count - 1)) EXCEPT !.count = @ - 1]

\* The free bits of the last byte are forgotten once a byte has been completed.
write_byte_realigned(w, byte) ==
    LET w1 == ensure_spare(w, 1)
    IN  IF w.count = 0
          THEN [w1 EXCEPT !.stream = Append(@, byte)]
          ELSE LET w2 == OrLast(w1, Shr(byte, ByteBits - w.count))
               IN  [w2 EXCEPT !.stream = Append(@, Low(byte * 2 ^ w.count, ByteBits)), !.count = 0]

write_byte(w, byte) ==
    LET w1 == ensure_spare(w, 1)
    IN  IF w.count = 0
          THEN [w1 EXCEPT !.stream = Append(@, byte)]
          ELSE LET w2 == OrLast(w1, Shr(byte, ByteBits - w.count))
               IN  [w2 EXCEPT !.stream = Append(@, Low(byte * 2 ^ w.count, ByteBits))]

\* The whole bytes of the left-aligned payload, and the free bits of the last one.
WriteTail(w, u, n) ==
    LET nbytes == CeilDiv(n, ByteBits)
        need   == IF nbytes < WordBytes /\ Len(w.stream) + WordBytes > w.soft_cap + SoftCapSlack
                    THEN nbytes ELSE WordBytes
    IN  [ensure_spare(w, need) EXCEPT
            !.stream = @ \o SubSeq(ToBeBytes(u), 1, nbytes),
            !.count  = IF n % ByteBits = 0 THEN 0 ELSE ByteBits - (n % ByteBits)]

\* The free bits of the last byte take the first of the left-aligned payload.
FillPartial(w, u, n) ==
    IF w.count = 0 THEN w
    ELSE OrLast([w EXCEPT !.count = IF n < @ THEN @ - n ELSE 0], Shr(u, WordBits - w.count))

WriteAligned(w, u, n) ==
    IF n = 0 THEN w
    ELSE IF n <= w.count THEN FillPartial(w, u, n)
    ELSE WriteTail(FillPartial(w, u, n), Shl(u, w.count), n - w.count)

\* write_bits: fill the partial byte, then append the rest byte by byte.
write_bits(w, bits, value) ==
    LET n == Min({bits, WordBits}) IN WriteAligned(w, Shl(value, WordBits - n), n)

VarintLen(v) == Max({1, CeilDiv(WordBits - LeadingZeros(v), ByteBits - 1)})
VarintByte(v, i) ==
    LET low == Low(Shr(v, (i - 1) * (ByteBits - 1)), ByteBits - 1)
    IN  IF i < VarintLen(v) THEN low + 2 ^ (ByteBits - 1) ELSE low
VarintBytes(v) == [i \in 1 .. VarintLen(v) |-> VarintByte(v, i)]

RECURSIVE WriteBytes(_, _)
WriteBytes(w, bs) == IF bs = <<>> THEN w ELSE WriteBytes(write_byte(w, Head(bs)), Tail(bs))
write_uvarint(w, v) == WriteBytes(w, VarintBytes(v))
write_varint(w, i) == write_uvarint(w, zigzag_encode(i))
write_u64(w, v) == WriteBytes(w, ToBeBytes(v))

clear_stream(w) == [w EXCEPT !.stream = <<>>, !.count = 0]
shrink_to_fit(w) == [w EXCEPT !.alloc = Len(w.stream)]

\* What has been written, bit by bit.
BitLen(w) == Len(w.stream) * ByteBits - w.count
BitOf(stream, k) ==
    BitAt(stream[1 + (k - 1) \div ByteBits], ByteBits - 1 - ((k - 1) % ByteBits))
StreamBits(w) == [k \in 1 .. BitLen(w) |-> BitOf(w.stream, k)]

-----------------------------------------------------------------------------
(* Reading: the bits not yet taken are the low `valid` bits of the window. *)

NewReader(stream) ==
    [stream |-> stream, offset |-> 0, buffer |-> 0, valid |-> 0, err |-> FALSE]

\* refill and refill_tail: as many whole bytes as fit into the window.
RefillBy(r, n) ==
    [r EXCEPT !.buffer = Low(Shl(@, n * ByteBits)
                             + FromBeBytes(SubSeq(r.stream, r.offset + 1, r.offset + n)), WordBits),
              !.valid  = @ + n * ByteBits,
              !.offset = @ + n]
refill(r) == RefillBy(r, Min({(WordBits - r.valid) \div ByteBits, Len(r.stream) - r.offset}))

Got(r, v) == [r |-> r, v |-> v]
Failed(r) == Got([r EXCEPT !.err = TRUE], 0)

Take(r, n) == Got([r EXCEPT !.valid = @ - n], Low(Shr(r.buffer, r.valid - n), n))

\* read_bits_straddling: the window is emptied and refilled in the middle of the read.
TakeLow(r, hi, r2, rest) ==
    IF rest > r2.valid THEN Failed(r) ELSE [Take(r2, rest) EXCEPT !.v = Shl(hi, rest) + @]
read_bits_straddling(r, n) ==
    IF r.valid = 0 \/ r.offset >= Len(r.stream) THEN Failed(r)
    ELSE TakeLow(r, Low(r.buffer, r.valid), refill([r EXCEPT !.valid = 0]), n - r.valid)

ReadWindow(r, n) == IF n > r.valid THEN read_bits_straddling(r, n) ELSE Take(r, n)
read_bits(r, n) ==
    IF r.err \/ n > WordBits THEN Failed(r)
    ELSE ReadWindow(IF n > r.valid THEN refill(r) ELSE r, n)

read_bit(r) == read_bits(r, 1)

\* peek_upto: zero-padded past the end; skip consumes what was peeked.
PeekWindow(r, n) ==
    Got(r, IF n > r.valid THEN Shl(Low(r.buffer, r.valid), n - r.valid) ELSE Take(r, n).v)
peek_upto(r, n) == PeekWindow(IF n > r.valid THEN refill(r) ELSE r, n)
skip(r, n) == IF r.err \/ n > r.valid THEN [r EXCEPT !.err = TRUE] ELSE [r EXCEPT !.valid = @ - n]

VarintAdd(acc, i, b) ==
    [r    |-> b.r, done |-> b.v < 2 ^ (ByteBits - 1),
     v    |-> acc.v + Shl(Low(b.v, ByteBits - 1), (i - 1) * (ByteBits - 1))]
VarintStep(acc, i) ==
    IF acc.done \/ acc.r.err THEN acc ELSE VarintAdd(acc, i, read_bits(acc.r, ByteBits))
VarintEnd(acc) ==
    IF acc.done /\ ~acc.r.err THEN Got(acc.r, Low(acc.v, WordBits)) ELSE Failed(acc.r)
read_uvarint(r) ==
    VarintEnd(FoldLeft(VarintStep, [r |-> r, v |-> 0, done |-> FALSE],
                       [i \in 1 .. CeilDiv(WordBits, ByteBits - 1) |-> i]))

Signed(u) == Got(u.r, zigzag_decode(u.v))
read_varint(r) == Signed(read_uvarint(r))

-----------------------------------------------------------------------------

CONSTANTS
    Fields,     \* the fields that may be written: [kind, n, v]
    SoftCaps,   \* the allocation budgets of the streams
    MaxFields,  \* bound: the fields of a stream
    ClearAt     \* bound: the number of fields at which a stream is cleared or shrunk

VARIABLES
    out,        \* the BitStream written to
    fields,     \* ghost: what was written
    peak,       \* ghost: the longest the stream has been in its present allocation
    inp,        \* the BitStreamReader, or NoReader while the stream is written
    values      \* what was read back

bitVars == <<out, fields, peak, inp, values>>
NoReader == [stream |-> <<>>, offset |-> 0, buffer |-> 0, valid |-> 0, err |-> TRUE]

WriteField(w, f) ==
    CASE f.kind = "bits"    -> write_bits(w, f.n, f.v)
      [] f.kind = "peeked"  -> write_bits(w, f.n, f.v)
      [] f.kind = "bit"     -> write_bit(w, f.v)
      [] f.kind = "byte"    -> write_byte(w, f.v)
      [] f.kind = "word"    -> write_u64(w, f.v)
      [] f.kind = "uvarint" -> write_uvarint(w, f.v)
      [] f.kind = "varint"  -> write_varint(w, f.v)

ReadField(r, f) ==
    CASE f.kind = "bits"    -> read_bits(r, f.n)
      [] f.kind = "peeked"  -> LET p == peek_upto(r, f.n) IN Got(skip(p.r, f.n), p.v)
      [] f.kind = "bit"     -> read_bit(r)
      [] f.kind = "byte"    -> read_bits(r, ByteBits)
      [] f.kind = "word"    -> read_bits(r, WordBits)
      [] f.kind = "uvarint" -> read_uvarint(r)
      [] f.kind = "varint"  -> read_varint(r)

BitInit ==
    /\ out \in {NewStream(cap) : cap \in SoftCaps}
    /\ fields = <<>>
    /\ peak = 0
    /\ inp = NoReader
    /\ values = <<>>

Write ==
    /\ inp = NoReader /\ Len(fields) < MaxFields
    /\ \E f \in Fields : out' = WriteField(out, f) /\ fields' = Append(fields, f)
    /\ peak' = Max({peak, Len(out'.stream)})
    /\ UNCHANGED <<inp, values>>

\* A re-encoding that starts over in the same allocation.
Clear ==
    /\ inp = NoReader /\ Len(fields) = ClearAt
    /\ out' = clear_stream(out)
    /\ fields' = <<>>
    /\ UNCHANGED <<peak, inp, values>>

ShrinkToFit ==
    /\ inp = NoReader /\ Len(fields) = ClearAt
    /\ out' = shrink_to_fit(out)
    /\ peak' = Len(out.stream)
    /\ UNCHANGED <<fields, inp, values>>

OpenReader ==
    /\ inp = NoReader /\ fields # <<>>
    /\ inp' = NewReader(out.stream)
    /\ UNCHANGED <<out, fields, peak, values>>

Read ==
    /\ inp # NoReader /\ Len(values) < Len(fields)
    /\ LET got == ReadField(inp, fields[Len(values) + 1])
       IN  inp' = got.r /\ values' = Append(values, got.v)
    /\ UNCHANGED <<out, fields, peak>>

BitNext == Write \/ Clear \/ ShrinkToFit \/ OpenReader \/ Read

-----------------------------------------------------------------------------
(* Properties *)

\* The bits of a number, most significant first.
BitsOf(v, n) == [k \in 1 .. n |-> BitAt(v, n - k)]
FieldBits(f) ==
    CASE f.kind \in {"bits", "peeked"} -> BitsOf(f.v, f.n)
      [] f.kind = "bit"     -> <<f.v>>
      [] f.kind = "byte"    -> BitsOf(f.v, ByteBits)
      [] f.kind = "word"    -> BitsOf(f.v, WordBits)
      [] f.kind = "uvarint" -> FlattenSeq([i \in 1 .. VarintLen(f.v) |-> BitsOf(VarintByte(f.v, i), ByteBits)])
      [] f.kind = "varint"  -> LET u == zigzag_encode(f.v)
                               IN  FlattenSeq([i \in 1 .. VarintLen(u) |-> BitsOf(VarintByte(u, i), ByteBits)])

\* The stream is the concatenation of the fields written, whatever the boundaries they
\* straddle, and the bits of the last byte that are still free are zero (the next write ORs
\* into them).
StreamExact ==
    /\ StreamBits(out) = FlattenSeq([i \in DOMAIN fields |-> FieldBits(fields[i])])
    /\ out.stream # <<>> => Low(out.stream[Len(out.stream)], out.count) = 0

\* Every field is read back as it was written, across any number of window refills.
ReadsBackExact ==
    inp # NoReader =>
        ~inp.err /\ \A i \in DOMAIN values : values[i] = fields[i].v

\* While the data is within the budget the allocation never exceeds it by more than the slack,
\* and beyond the budget it is at most twice what the stream has needed.
AllocationCapped ==
    /\ out.alloc >= Len(out.stream)
    /\ out.alloc <= Max({out.soft_cap + SoftCapSlack, 2 * peak})

\* The stream keeps every field in its place, gives it back, and stays within its budget.
StreamSound == StreamExact /\ ReadsBackExact /\ AllocationCapped
=============================================================================
