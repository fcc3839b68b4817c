------------------------------- MODULE Series -------------------------------
(***************************************************************************)
(* One time series under the commands and tasks that change it: TS.ADD,    *)
(* TS.INCRBY/TS.DECRBY, TS.DEL, TS.ALTER RETENTION and the trim cron.      *)
(* The module holds one lock per key, so each of them is one step.         *)
(***************************************************************************)
EXTENDS SeriesOps

CONSTANTS
    Retentions,     \* the retention periods TS.CREATE and TS.ALTER may set
    InputPolicies,  \* the resolved duplicate policies writes are made with
    InputValues,    \* the values TS.ADD is given
    InputTimes      \* the timestamps commands name

ASSUME InputsAssumption ==
    /\ Retentions \subseteq Nat
    /\ InputPolicies \subseteq Policies
    /\ InputValues \subseteq Values
    /\ InputTimes \subseteq Timestamps

VARIABLES
    series,         \* the TimeSeries value
    reply           \* the outcome of the last write

vars == <<series, reply>>

TypeOK == series \in SeriesType /\ reply \in Results

Init == \E r \in Retentions : series = EmptySeries(r) /\ reply = "ok"

\* TS.ADD key ts value, with the resolved duplicate policy.
Add(sample, policy) ==
    /\ FoldIsBounded(series, sample, policy)
    /\ \E full \in FullOutcomes(series),
          split \in SplitOutcomes(series, sample.timestamp) :
          LET r == AddSample(series, sample, policy, full, split)
          IN  series' = r.series /\ reply' = r.result

\* TS.INCRBY and TS.DECRBY: at or after the last sample only, folded with KeepLast.
IncrementSampleValue(ts, delta) ==
    LET last  == series.last_sample
        value == IF last = None THEN delta ELSE last.value + delta
    IN  \/ /\ last # None
           /\ last.value = NaN \/ ts < last.timestamp
           /\ reply' = "error"
           /\ UNCHANGED series
        \/ /\ last # None => last.value # NaN /\ ts >= last.timestamp
           /\ value \in Values
           /\ Add([timestamp |-> ts, value |-> value], "last")

\* TS.DEL key start end.
Delete(start, end) ==
    /\ series' = RemoveRange(series, start, end)
    /\ reply' = "ok"

\* TS.ALTER key RETENTION r.
AlterRetention(r) ==
    /\ r # series.retention
    /\ series' = ApplyRetention([series EXCEPT !.retention = r])
    /\ reply' = "ok"

\* The trim cron reaching this series.
TrimCron ==
    /\ series' = Trim(series)
    /\ UNCHANGED reply

\* The server saves the keyspace and is restarted from that file.  A chunk the loader refuses
\* fails the load and the series is not served.
SaveAndReload ==
    IF \A i \in DOMAIN series.chunks : LoadAccepts(series.chunks[i])
      THEN series' = RdbLoad(series) /\ UNCHANGED reply
      ELSE UNCHANGED series /\ reply' = "error"

Next ==
    \/ \E ts \in InputTimes, v \in InputValues, policy \in InputPolicies :
          Add([timestamp |-> ts, value |-> v], policy)
    \/ \E ts \in InputTimes, delta \in 0 .. MaxValue : IncrementSampleValue(ts, delta)
    \/ \E start, end \in InputTimes : Delete(start, end)
    \/ \E r \in Retentions : AlterRetention(r)
    \/ TrimCron
    \/ SaveAndReload

Spec == Init /\ [][Next]_vars

-----------------------------------------------------------------------------
(* Properties *)

\* Chunks are ordered and disjoint: appends, upserts, splits and trims never leave two chunks
\* whose ranges overlap, which the binary search, the upsert routing and the prefix trim rely on.
ChunksOrdered ==
    \A i, j \in DOMAIN series.chunks :
        i < j => LastTimestamp(series.chunks[i]) < FirstTimestamp(series.chunks[j])

\* total_samples, first_timestamp and last_sample are kept by deltas on every path; they always
\* describe exactly what the chunks hold.
MetadataExact ==
    LET cs == series.chunks
    IN  /\ series.total_samples = Cardinality(Stored(cs))
        /\ series.first_timestamp = IF cs = <<>> THEN 0 ELSE FirstTimestamp(cs[1])
        /\ series.last_sample = IF cs = <<>> THEN None ELSE LastSample(cs[Len(cs)])

\* get_range, has_samples_in_range and FILTER_BY_TS return the live samples of the range and
\* nothing else, whatever the chunk layout and however much of the expired head is untrimmed.
RangesExact ==
    \A start, end \in Timestamps :
        LET want == {x \in LiveSamples(series) : start <= x.timestamp /\ x.timestamp <= end}
        IN  /\ GetRange(series, start, end) = want
            /\ HasSamplesInRange(series, start, end) <=> want # {}
            /\ GetRangeFiltered(series, start, end, Timestamps) = want

\* TS.INFO's first timestamp and sample count describe the live samples only, although expired
\* samples may still be stored.
InfoExact ==
    /\ VisibleTotalSamples(series) = Cardinality(Live(series))
    /\ Live(series) # {} => VisibleFirstTimestamp(series) = MinOf(Live(series))

\* Every read of a series (ranges, FILTER_BY_TS, TS.INFO) describes its live samples, all of them
\* and no others.
ReadsExact == RangesExact /\ InfoExact

\* The uncompressed encoding trims its boundary chunk on every write, so such a series never holds
\* an expired sample between two commands, whatever the mix of writes, deletes and TS.ALTER.
TrimsEagerly == ~Compressed => Stored(series.chunks) = Live(series)

\* A sample below the retention floor is gone for good, as long as the window is not changed: a
\* delete of the newest samples pulls the floor back, yet brings no expired sample into view.
FloorNeverResurrects ==
    [][series'.retention = series.retention =>
          (Stored(series.chunks) \ Live(series)) \cap Live(series') = {}]_vars
=============================================================================
