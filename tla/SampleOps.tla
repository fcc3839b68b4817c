------------------------------ MODULE SampleOps ------------------------------
(***************************************************************************)
(* Samples, and what a write does to one set of them: the duplicate        *)
(* policies, the upsert of a sample and the IGNORE filter.  Shared by the  *)
(* chunked series and by the plain map it implements.                      *)
(***************************************************************************)
EXTENDS Integers

CONSTANTS
    MaxTimestamp,   \* timestamps are 0 .. MaxTimestamp (bound)
    MaxValue,       \* non-NaN values are 0 .. MaxValue (bound)
    NaN,            \* the not-a-number value
    None,           \* Option::None, and the Err of duplicate_value
    MaxTimeDelta,   \* IGNORE ignoreMaxTimediff
    MaxValueDelta   \* IGNORE ignoreMaxValDiff

MinOf(S) == CHOOSE x \in S : \A y \in S : x <= y
MaxOf(S) == CHOOSE x \in S : \A y \in S : x >= y

Timestamps == 0 .. MaxTimestamp
Values     == (0 .. MaxValue) \cup {NaN}
Samples    == [timestamp : Timestamps, value : Values]
Policies   == {"block", "first", "last", "min", "max", "sum"}

\* duplicate_value: the stored value after a write to an existing timestamp, None when refused.
DuplicateValue(policy, old, new) ==
    IF \/ policy = "block"
       \/ policy \in {"min", "max", "sum"} /\ (old = NaN) # (new = NaN)
      THEN None
    ELSE IF new = NaN THEN old
    ELSE IF old = NaN THEN new
    ELSE CASE policy = "first" -> old
           [] policy = "last"  -> new
           [] policy = "min"   -> MinOf({old, new})
           [] policy = "max"   -> MaxOf({old, new})
           [] policy = "sum"   -> old + new

\* The chunk's upsert_sample is refused exactly when the fold is.
UpsertRefused(c, sample, policy) ==
    /\ sample.timestamp \in DOMAIN c
    /\ DuplicateValue(policy, c[sample.timestamp], sample.value) = None

\* The chunk's upsert_sample, when it is not refused.
ChunkUpsert(c, sample, policy) ==
    [t \in DOMAIN c \cup {sample.timestamp} |->
        IF t # sample.timestamp THEN c[t]
        ELSE IF t \in DOMAIN c THEN DuplicateValue(policy, c[t], sample.value)
        ELSE sample.value]

\* is_duplicate: the IGNORE filter, for a sample at or after the last one.
IsDuplicate(sample, last, policy) ==
    /\ sample.timestamp >= last.timestamp
    /\ sample.timestamp - last.timestamp <= MaxTimeDelta
    /\ policy = "last"
    /\ sample.value # NaN /\ last.value # NaN
    /\ sample.value - last.value <= MaxValueDelta
    /\ last.value - sample.value <= MaxValueDelta
==============================================================================
