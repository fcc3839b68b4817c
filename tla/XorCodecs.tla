------------------------------ MODULE XorCodecs ------------------------------
(***************************************************************************)
(* The Gorilla and the Chimp encoder of a chunk: samples go into one bit   *)
(* stream, timestamps as deltas of deltas, values XORed with their         *)
(* predecessor, and the rolling state of the encoder says how the next     *)
(* sample is written.                                                      *)
(*                                                                         *)
(* A value is its bit pattern, a word.  The widths of the code's fields    *)
(* are constants, so that an instance may use short words.  The decimal    *)
(* arithmetic with which ELF finds the bits it may erase is a parameter:   *)
(* the encoder is right whatever it answers, because it erases only what   *)
(* `recover` gives back.                                                   *)
(***************************************************************************)
EXTENDS BitStream

CONSTANTS
    VarbitBuckets,  \* write_varbit: <<largest magnitude, payload bits>> per bucket
    LeadBits,       \* Gorilla: bits of the leading-zeros field (5)
    SigBits,        \* bits of the significant-bits field (6)
    ChimpLeads,     \* LEADING_REPR_DEC: the rounded leading zeros of each code
    CodeBits,       \* bits of a code (3)
    Threshold,      \* THRESHOLD (6)
    TsLengths,      \* Chimp: payload bits of the short timestamp cases (7, 9, 12)
    TsEscape,       \* payload bits of the first escape case (32)
    BetaBits,       \* bits of beta_star in an ELF marker (4)
    Erasure(_, _),  \* get_alpha_and_beta_star and the mask it gives: [ok, beta, prime]
    Recover(_, _),  \* recover: the value of an erased word under a beta_star, or NoValue
    Verbatim        \* the zeros, infinities and NaNs, which are never erased

NoWindow == WordBits + 1                    \* 0xff: no previous window
Unset == 2 * WordBits                       \* i32::MAX: no leading zeros, no beta_star yet
NoValue == -1

Sample(ts, v) == [timestamp |-> ts, value |-> v]

-----------------------------------------------------------------------------
(* The pieces both share *)

Magnitude(i) == IF i < 0 THEN -i ELSE i
BucketOf(i) ==
    LET fits == {k \in DOMAIN VarbitBuckets : Magnitude(i) <= VarbitBuckets[k][1]}
    IN  IF fits = {} THEN 0 ELSE Min(fits)

write_varbit(w, i) ==
    LET k == BucketOf(i)
        n == VarbitBuckets[k][2]
        ones == Len(VarbitBuckets) + 1
    IN  IF i = 0 THEN write_bit(w, 0)
        ELSE IF k = 0 THEN write_bits(write_bits(w, ones, 2 ^ ones - 1), WordBits, ToUnsigned(i))
        ELSE write_bits(w, k + 1 + n, (2 ^ (k + 1) - 2) * 2 ^ n + Low(i, n))

\* read_varbit_int_bucket: the ones before the first zero, at most one per bucket and the last.
RECURSIVE OnesFrom(_, _, _), OnesAfter(_, _, _)
OnesFrom(r, n, most) ==
    IF n = most THEN [r |-> r, n |-> n] ELSE OnesAfter(read_bit(r), n, most)
OnesAfter(b, n, most) ==
    IF b.r.err \/ b.v = 0 THEN [r |-> b.r, n |-> n] ELSE OnesFrom(b.r, n + 1, most)
ReadOnes(r, most) == OnesFrom(r, 0, most)

Extended(u, bits) ==
    Got(u.r, IF bits = WordBits THEN ToSigned(u.v)
             ELSE IF u.v > 2 ^ (bits - 1) THEN sign_extend(u.v, bits) ELSE u.v)
VarbitPayload(r, bits) == Extended(read_bits(r, bits), bits)
VarbitAfter(p) ==
    IF p.r.err \/ p.n = 0 THEN Got(p.r, 0)
    ELSE VarbitPayload(p.r, IF p.n > Len(VarbitBuckets) THEN WordBits ELSE VarbitBuckets[p.n][2])
read_varbit_int(r) == VarbitAfter(ReadOnes(r, Len(VarbitBuckets) + 1))

-----------------------------------------------------------------------------
(* Gorilla *)

NewGorilla(cap) ==
    [writer |-> NewStream(cap), leading |-> 0, trailing |-> 0, delta |-> 0,
     num |-> 0, first_ts |-> 0, last_ts |-> 0, last_value |-> 0]

\* The window is taken over when the new value has as many leading zeros only.
ReusesByLeading(lead, trail, prevLead, prevTrail) ==
    prevLead # NoWindow /\ lead >= prevLead

\* The previous window holds every bit that changed.
ReusesWindow(lead, trail, prevLead, prevTrail) ==
    prevLead # NoWindow /\ lead >= prevLead /\ trail >= prevTrail

\* The new window is announced with the leading zeros cut to their field.
write_varbit_xor(value, previous, prevLead, prevTrail, w) ==
    LET xor   == XorWord(value, previous)
        lead  == Min({LeadingZeros(xor), 2 ^ LeadBits - 1})
        trail == TrailingZeros(xor)
        kept  == WordBits - prevLead - prevTrail
        sig   == WordBits - lead - trail
        head  == (3 * 2 ^ LeadBits + lead) * 2 ^ SigBits + (sig % 2 ^ SigBits)
    IN  IF xor = 0
          THEN [w |-> write_bit(w, 0), leading |-> prevLead, trailing |-> prevTrail]
        ELSE IF ReusesWindow(lead, trail, prevLead, prevTrail)
          THEN [w        |-> write_bits(write_bits(w, 2, 2), kept, Shr(xor, prevTrail)),
                leading  |-> prevLead, trailing |-> prevTrail]
        ELSE [w        |-> write_bits(write_bits(w, 2 + LeadBits + SigBits, head), sig, Shr(xor, trail)),
              leading  |-> lead, trailing |-> trail]

\* Reading a window: its leading and trailing zeros, where the payload starts.
WindowAt(r, l, t) == [r |-> r, l |-> l, t |-> t]
SigRead(lead, sig) ==
    WindowAt(sig.r, lead.v, WordBits - lead.v - (IF sig.v = 0 THEN 2 ^ SigBits ELSE sig.v))
LeadRead(lead) == SigRead(lead, read_bits(lead.r, SigBits))
WindowRead(fresh, prevLead, prevTrail) ==
    IF fresh.v = 1 THEN LeadRead(read_bits(fresh.r, LeadBits))
    ELSE WindowAt(fresh.r, prevLead, prevTrail)
XorRead(got, previous, l, t) ==
    [r |-> got.r, v |-> XorWord(previous, Shl(got.v, t)), leading |-> l, trailing |-> t]
PayloadRead(w, previous) ==
    IF w.t < 0 THEN [r |-> [w.r EXCEPT !.err = TRUE], v |-> 0, leading |-> 0, trailing |-> 0]
    ELSE XorRead(read_bits(w.r, WordBits - w.l - w.t), previous, w.l, w.t)
ChangeRead(same, previous, prevLead, prevTrail) ==
    IF same.r.err \/ same.v = 0
      THEN [r |-> same.r, v |-> previous, leading |-> prevLead, trailing |-> prevTrail]
      ELSE PayloadRead(WindowRead(read_bit(same.r), prevLead, prevTrail), previous)
read_varbit_xor(r, previous, prevLead, prevTrail) ==
    ChangeRead(read_bit(r), previous, prevLead, prevTrail)

GorillaFirst(e, s) ==
    [e EXCEPT !.writer = write_u64(write_varint(@, s.timestamp), s.value),
              !.first_ts = s.timestamp, !.last_ts = s.timestamp, !.last_value = s.value, !.num = 1]

\* write_second_sample and write_nth_sample
GorillaNext(e, s) ==
    LET delta == s.timestamp - e.last_ts
        Written(x) ==
            [e EXCEPT !.writer = x.w, !.leading = x.leading, !.trailing = x.trailing, !.delta = delta,
                      !.last_ts = s.timestamp, !.last_value = s.value, !.num = @ + 1]
    IN  Written(write_varbit_xor(s.value, e.last_value, IF e.num = 1 THEN NoWindow ELSE e.leading,
                                 IF e.num = 1 THEN 0 ELSE e.trailing,
                                 IF e.num = 1 THEN write_uvarint(e.writer, delta)
                                              ELSE write_varbit(e.writer, delta - e.delta)))

GorillaRefuses(e, s) == e.num > 0 /\ s.timestamp < e.last_ts
GorillaAdd(e, s) == IF e.num = 0 THEN GorillaFirst(e, s) ELSE GorillaNext(e, s)

\* GorillaIterator: the last sample comes from the encoder's own fields.
FirstRead(st, t, v) ==
    [st EXCEPT !.r = v.r, !.ts = t.v, !.value = v.v, !.out = Append(@, Sample(t.v, v.v))]
FirstValueRead(st, t) == FirstRead(st, t, read_bits(t.r, WordBits))
NextRead(st, delta, x) ==
    [r |-> x.r, delta |-> delta, ts |-> st.ts + delta, value |-> x.v, leading |-> x.leading,
     trailing |-> x.trailing, out |-> Append(st.out, Sample(st.ts + delta, x.v))]
NextValueRead(st, i, d) ==
    NextRead(st, IF i = 1 THEN d.v ELSE st.delta + d.v,
             read_varbit_xor(d.r, st.value, st.leading, st.trailing))
GorillaStep(e, st, i) ==
    IF i = 0 THEN FirstValueRead(st, read_varint(st.r))
    ELSE IF i # 1 /\ i = e.num - 1
      THEN [st EXCEPT !.out = Append(@, Sample(e.last_ts, e.last_value))]
    ELSE NextValueRead(st, i, IF i = 1 THEN read_uvarint(st.r) ELSE read_varbit_int(st.r))

RECURSIVE GorillaFrom(_, _, _)
GorillaFrom(e, st, i) == IF i = e.num THEN st ELSE GorillaFrom(e, GorillaStep(e, st, i), i + 1)
GorillaSamples(e) ==
    GorillaFrom(e, [r |-> NewReader(e.writer.stream), delta |-> 0, ts |-> 0, value |-> 0,
                    leading |-> 0, trailing |-> 0, out |-> <<>>], 0)

-----------------------------------------------------------------------------
(* Chimp, under ELF *)

NewChimp(cap) ==
    [writer |-> NewStream(cap), stored_lz |-> Unset, stored_val |-> 0, first |-> TRUE,
     beta |-> Unset, num |-> 0, first_ts |-> 0, last_ts |-> 0, delta |-> 0, last_value |-> 0]

\* LEADING_ROUND_ENC and LEADING_REPR_ENC
LeadingCode(nlz) == Max({k \in DOMAIN ChimpLeads : ChimpLeads[k] <= nlz})

\* add_value_prefixed: the ELF marker, then Chimp's flag, header and payload.
WriteAll(w, groups) == FoldLeft(LAMBDA x, g : write_bits(x, g[1], g[2]), w, groups)

\* A changed value after the first: the flag with its header, and the payload.
ChimpGroups(e, xor, code, lz, tz) ==
    IF tz > Threshold
      THEN <<<<2 + CodeBits + SigBits, (2 ^ CodeBits + code - 1) * 2 ^ SigBits + WordBits - lz - tz>>,
             <<WordBits - lz - tz, Shr(xor, tz)>>>>
    ELSE IF lz = e.stored_lz THEN <<<<2, 2>>, <<WordBits - lz, xor>>>>
    ELSE <<<<2 + CodeBits, 3 * 2 ^ CodeBits + code - 1>>, <<WordBits - lz, xor>>>>
ChimpChange(e, xor, code, tz) ==
    [lz   |-> IF tz > Threshold THEN WordBits + 1 ELSE ChimpLeads[code],
     bits |-> ChimpGroups(e, xor, code, ChimpLeads[code], tz)]
ChimpForm(e, xor, value) ==
    IF e.first THEN [lz |-> e.stored_lz, bits |-> <<<<WordBits, value>>>>]
    ELSE IF xor = 0 THEN [lz |-> WordBits + 1, bits |-> <<<<2, 0>>>>]
    ELSE ChimpChange(e, xor, LeadingCode(LeadingZeros(xor)), TrailingZeros(xor))
ChimpWrite(e, marker, mlen, value, form) ==
    [e EXCEPT !.stored_val = value, !.first = FALSE, !.stored_lz = form.lz,
              !.writer = WriteAll(@, <<<<mlen, marker>>>> \o form.bits)]
ChimpValue(e, marker, mlen, value) ==
    ChimpWrite(e, marker, mlen, value, ChimpForm(e, XorWord(e.stored_val, value), value))

\* write_repeat: the case of a shared beta_star over Chimp's "unchanged".
ChimpRepeat(e) ==
    [e EXCEPT !.writer = write_bits(@, 3, 0), !.stored_lz = WordBits + 1]

\* Under the same beta_star, an erased word equal to the stored one would read as a repeat.
SpelledAsRepeat(e, x) == x.beta = e.beta /\ x.prime = e.stored_val

\* write_value
ChimpWriteValue(e, v) ==
    LET x      == Erasure(v, e.beta)
        erases == v \notin Verbatim /\ x.ok /\ x.prime # v /\ Recover(x.prime, x.beta) = v
    IN  IF e.num > 0 /\ v = e.last_value THEN ChimpRepeat(e)
        ELSE IF ~erases \/ SpelledAsRepeat(e, x) THEN ChimpValue(e, 2, 2, v)
        ELSE IF x.beta = e.beta THEN ChimpValue(e, 0, 1, x.prime)
        ELSE ChimpValue([e EXCEPT !.beta = x.beta], 3 * 2 ^ BetaBits + x.beta, 2 + BetaBits, x.prime)

\* The zig-zagged delta of deltas: a zero, one of the short cases, or one of the two escapes.
ChimpEscape(w, flag, n, u) ==
    LET ones == Len(TsLengths) + 1
    IN  write_bits(write_bit(write_bits(w, ones, 2 ^ ones - 1), flag), n, u)
ChimpDod(w, u, len, short) ==
    IF u = 0 THEN write_bit(w, 0)
    ELSE IF short # {}
      THEN LET k == Min(short)
           IN  write_bits(w, k + 1 + TsLengths[k], (2 ^ (k + 1) - 2) * 2 ^ TsLengths[k] + u)
    ELSE IF len <= TsEscape THEN ChimpEscape(w, 0, TsEscape, u)
    ELSE ChimpEscape(w, 1, WordBits, u)
ChimpWriteDod(w, u) ==
    LET len == WordBits - LeadingZeros(u)
    IN  ChimpDod(w, u, len, {k \in DOMAIN TsLengths : len <= TsLengths[k]})

\* write_timestamp: the deltas wrap, so any order of timestamps is written.
ChimpWriteTimestamp(e, ts) ==
    LET delta == ToSigned(ToUnsigned(ts - e.last_ts))
    IN  IF e.num = 0
          THEN [e EXCEPT !.writer = write_varint(@, ts), !.first_ts = ts, !.last_ts = ts, !.delta = 0]
          ELSE [e EXCEPT !.writer = ChimpWriteDod(@, zigzag_encode(ToSigned(ToUnsigned(delta - e.delta)))),
                         !.last_ts = ts, !.delta = delta]

ChimpAdd(e, s) ==
    [ChimpWriteValue(ChimpWriteTimestamp(e, s.timestamp), s.value) EXCEPT
        !.last_value = s.value, !.num = @ + 1]

\* ChimpDec::next: [r, lz, val, repeat].  The flag and the header tell how many bits follow.
WordRead(base, lz, shift, got) ==
    [r |-> got.r, lz |-> lz, val |-> XorWord(base, Shl(got.v, shift)), repeat |-> FALSE]
FlagRead(st, r, flag, lz, sig) ==
    CASE flag = 3 -> WordRead(st.val, lz, 0, read_bits(skip(r, 2 + CodeBits), WordBits - lz))
      [] flag = 2 -> WordRead(st.val, st.lz, 0, read_bits(skip(r, 2), WordBits - st.lz))
      [] flag = 1 -> WordRead(st.val, lz, WordBits - sig - lz,
                              read_bits(skip(r, 2 + CodeBits + SigBits), sig))
      [] flag = 0 -> [r |-> skip(r, 2), lz |-> st.lz, val |-> st.val, repeat |-> TRUE]
SigOf(n) == IF n = 0 THEN 2 ^ SigBits ELSE n
HeadRead(st, head) ==
    FlagRead(st, head.r, Shr(head.v, CodeBits + SigBits),
             ChimpLeads[1 + Low(Shr(head.v, SigBits), CodeBits)], SigOf(Low(head.v, SigBits)))
ChimpNextValue(r, st) ==
    IF st.first THEN WordRead(0, st.lz, 0, read_bits(r, WordBits))
    ELSE HeadRead(st, peek_upto(r, 2 + CodeBits + SigBits))

\* The delta of deltas after the ones of its case, as [r, v].
FarRead(far) == Signed(read_bits(far.r, IF far.v = 1 THEN WordBits ELSE TsEscape))
DodRead(p) ==
    IF p.n = 0 THEN Got(p.r, 0)
    ELSE IF p.n <= Len(TsLengths) THEN Signed(read_bits(p.r, TsLengths[p.n]))
    ELSE FarRead(read_bit(p.r))
StampRead(st, r, delta) == [r |-> r, delta |-> delta, ts |-> ToSigned(ToUnsigned(st.ts + delta))]
NextStamp(st, d) == StampRead(st, d.r, ToSigned(ToUnsigned(st.delta + d.v)))
FirstStamp(t) == [r |-> t.r, ts |-> t.v, delta |-> 0]
ChimpReadTimestamp(r, st) ==
    IF st.n = 0 THEN FirstStamp(read_varint(r))
    ELSE NextStamp(st, DodRead(ReadOnes(r, Len(TsLengths) + 1)))

\* The ELF marker: the beta_star of the value before, none, or one of its own.
Marker(r, kind, beta) == [r |-> r, kind |-> kind, beta |-> beta]
BetaRead(b) == Marker(b.r, "own", b.v)
SecondRead(bit, beta) ==
    IF bit.v = 0 THEN Marker(bit.r, "verbatim", beta) ELSE BetaRead(read_bits(bit.r, BetaBits))
MarkerRead(bit, beta) ==
    IF bit.v = 0 THEN Marker(bit.r, "shared", beta) ELSE SecondRead(read_bit(bit.r), beta)

\* ChimpDecompressor: next_sample
ChimpNext(st, t, beta, word, v) ==
    [r |-> [word.r EXCEPT !.err = @ \/ v = NoValue], ts |-> t.ts, delta |-> t.delta,
     n |-> st.n + 1, beta |-> beta, last |-> v, lz |-> word.lz, val |-> word.val,
     first |-> FALSE, out |-> Append(st.out, Sample(t.ts, v))]
ChimpRecovered(st, t, m, word) ==
    ChimpNext(st, t, m.beta, word, IF m.kind = "shared" /\ word.repeat THEN st.last
                                   ELSE IF m.kind = "verbatim" THEN word.val
                                   ELSE Recover(word.val, m.beta))
ChimpMarked(st, t, m) == ChimpRecovered(st, t, m, ChimpNextValue(m.r, st))
ChimpStamped(st, t) ==
    IF t.r.err THEN [st EXCEPT !.r = t.r]
    ELSE ChimpMarked(st, t, MarkerRead(read_bit(t.r), st.beta))
ChimpStep(st) == ChimpStamped(st, ChimpReadTimestamp(st.r, st))

RECURSIVE ChimpFrom(_, _, _)
ChimpFrom(st, i, n) == IF i = n \/ st.r.err THEN st ELSE ChimpFrom(ChimpStep(st), i + 1, n)
ChimpSamples(e) ==
    ChimpFrom([r |-> NewReader(e.writer.stream), ts |-> 0, delta |-> 0, n |-> 0, beta |-> Unset,
               last |-> 0, lz |-> Unset, val |-> 0, first |-> TRUE, out |-> <<>>], 0, e.num)
=============================================================================
