------------------------------ MODULE SeriesAbs ------------------------------
(***************************************************************************)
(* What a time series promises, without chunks: a map of live samples      *)
(* under a retention window that follows the newest of them.  Samples that *)
(* fall out of the window become ghosts: no read returns them, they go     *)
(* oldest first and at any time, and only a wider window set by TS.ALTER   *)
(* can bring back those that are still there.                              *)
(***************************************************************************)
EXTENDS SampleOps

CONSTANTS Retentions, InputPolicies, InputValues, InputTimes

VARIABLES live, ghosts, retention, reply

vars == <<live, ghosts, retention, reply>>

\* The oldest timestamp the window of a set of samples keeps.
Floor(times, window) ==
    IF window = 0 \/ times = {} \/ MaxOf(times) < window THEN 0 ELSE MaxOf(times) - window

Only(m, S) == [t \in S |-> m[t]]

Both == [t \in DOMAIN live \cup DOMAIN ghosts |->
            IF t \in DOMAIN live THEN live[t] ELSE ghosts[t]]

\* The live samples become those of `all` inside the window; of the others, any number of the
\* oldest are forgotten.
Settle(all, window) ==
    LET floor == Floor(DOMAIN all, window)
    IN  /\ live' = Only(all, {t \in DOMAIN all : t >= floor})
        /\ \E cut \in Timestamps :
              ghosts' = Only(all, {t \in DOMAIN all : cut <= t /\ t < floor})

NewestSample == [timestamp |-> MaxOf(DOMAIN live), value |-> live[MaxOf(DOMAIN live)]]

Outcome(sample, policy) ==
    IF sample.timestamp < Floor(DOMAIN live, retention) THEN "too_old"
    ELSE IF DOMAIN live # {} /\ IsDuplicate(sample, NewestSample, policy) THEN "ignored"
    ELSE IF UpsertRefused(live, sample, policy) THEN "duplicate"
    ELSE "ok"

Add(sample, policy) ==
    /\ reply' = Outcome(sample, policy)
    /\ UNCHANGED retention
    /\ IF reply' = "ok" THEN Settle(ChunkUpsert(Both, sample, policy), retention)
       ELSE UNCHANGED <<live, ghosts>>

IncrementSampleValue(ts, delta) ==
    \/ /\ DOMAIN live # {}
       /\ NewestSample.value = NaN \/ ts < NewestSample.timestamp
       /\ reply' = "error"
       /\ UNCHANGED <<live, ghosts, retention>>
    \/ /\ DOMAIN live # {} => NewestSample.value # NaN /\ ts >= NewestSample.timestamp
       /\ Add([timestamp |-> ts,
               value |-> IF DOMAIN live = {} THEN delta ELSE NewestSample.value + delta],
              "last")

\* A delete takes live samples only, and never brings a ghost back: the ghosts go first.
Delete(start, end) ==
    /\ live' = Only(live, {t \in DOMAIN live : ~(start <= t /\ t <= end)})
    /\ ghosts' = IF start <= end THEN Only(ghosts, {}) ELSE ghosts
    /\ reply' = "ok"
    /\ UNCHANGED retention

AlterRetention(r) ==
    /\ r # retention
    /\ retention' = r
    /\ Settle(Both, r)
    /\ reply' = "ok"

Forget ==
    /\ ghosts' = Only(ghosts, {})
    /\ UNCHANGED <<live, retention, reply>>

\* A restart keeps every sample, or fails as a whole.
Restart ==
    /\ reply' \in {reply, "error"}
    /\ UNCHANGED <<live, ghosts, retention>>

Init ==
    /\ live = Only(<<>>, {}) /\ ghosts = Only(<<>>, {})
    /\ retention \in Retentions
    /\ reply = "ok"

Next ==
    \/ \E t \in InputTimes, v \in InputValues, p \in InputPolicies :
          Add([timestamp |-> t, value |-> v], p)
    \/ \E t \in InputTimes, delta \in 0 .. MaxValue : IncrementSampleValue(t, delta)
    \/ \E start, end \in InputTimes : Delete(start, end)
    \/ \E r \in Retentions : AlterRetention(r)
    \/ Forget
    \/ Restart

Spec == Init /\ [][Next]_vars
=============================================================================
