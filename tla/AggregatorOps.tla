--------------------------- MODULE AggregatorOps ---------------------------
(***************************************************************************)
(* The aggregators of src/aggregators: the 23 running accumulators behind   *)
(* AGGREGATION, REDUCE and compaction rules, what each accepts, reports and *)
(* persists, and the mergeable partial states a shard sends to a            *)
(* coordinator under GROUPBY/REDUCE push-down.                              *)
(*                                                                         *)
(* A sample value is NaN or an exact rational <<n, d, 1>>; a standard       *)
(* deviation is <<n, d, 2>>, the square root of n/d.  f64 rounding is       *)
(* abstracted away: Kahan compensation is identically zero in exact         *)
(* arithmetic, so a KahanSum is its sum.                                    *)
(***************************************************************************)
EXTENDS Integers, Sequences, FiniteSets, SequencesExt

CONSTANTS
    NaN,        \* f64::NAN
    None        \* Option::None

--------------------------------------------------------------------------
(* Exact arithmetic.                                                        *)

RECURSIVE Gcd(_, _)
Gcd(a, b) == IF b = 0 THEN a ELSE Gcd(b, a % b)

Abs(i) == IF i < 0 THEN -i ELSE i

(* n/d in lowest terms, d # 0.                                              *)
Lowered(n, d, g) == <<n \div g, d \div g, 1>>
Ratio(n, d) ==
    IF d < 0 THEN Lowered(-n, -d, Gcd(Abs(n), -d)) ELSE Lowered(n, d, Gcd(Abs(n), d))

Num(n) == <<n, 1, 1>>
Zero == Num(0)
Plus(x, y) == Ratio(x[1] * y[2] + y[1] * x[2], x[2] * y[2])
Minus(x, y) == Ratio(x[1] * y[2] - y[1] * x[2], x[2] * y[2])
Times(x, y) == Ratio(x[1] * y[1], x[2] * y[2])
Over(x, y) == Ratio(x[1] * y[2], x[2] * y[1])
Less(x, y) == x[1] * y[2] < y[1] * x[2]
Smaller(x, y) == IF Less(y, x) THEN y ELSE x
Larger(x, y) == IF Less(x, y) THEN y ELSE x
Sqrt(x) == IF x = Zero THEN Zero ELSE <<x[1], x[2], 2>>

--------------------------------------------------------------------------
(* AggregationType.  The position, from 0, is the persisted discriminant.   *)
AggregationTypes ==
    << "all", "any", "avg", "count", "countall", "countif", "countnan",
       "first", "increase", "irate", "last", "max", "min", "none", "range",
       "rate", "share", "std.p", "std.s", "sum", "sumif", "var.p", "var.s" >>

Kinds == ToSet(AggregationTypes)
KindOfByte(b) == AggregationTypes[b + 1]
ByteOfKind(k) == (CHOOSE i \in DOMAIN AggregationTypes : AggregationTypes[i] = k) - 1

IsFiltered == {"all", "any", "countif", "sumif", "share", "none"}
HasFilteredVariant == {"count", "sum"}
ReducesEmptyToZero == {"count", "countall", "countif", "countnan", "sumif"}
IsDecomposable == Kinds \ {"increase", "irate", "rate", "all", "any", "none", "share"}

(* ComparisonOperator::compare: `==` and `!=` treat NaN as equal to itself, *)
(* the orderings are false on NaN.                                          *)
Compare(filter, v) ==
    CASE filter.op = "==" -> v = filter.value
      [] filter.op = "!=" -> v # filter.value
      [] filter.op = ">"  -> v # NaN /\ Less(filter.value, v)
      [] filter.op = "<=" -> v # NaN /\ ~Less(filter.value, v)
      [] OTHER            -> FALSE

NotNaN == [op |-> "!=", value |-> NaN]      \* ValueComparisonFilter::default

(* AggregatorConfig::new: a condition is required by the filtered types and *)
(* allowed only for those and for count and sum.                            *)
ValidConfig(c) ==
    IF c.filter = None THEN c.kind \notin IsFiltered
                       ELSE c.kind \in IsFiltered \cup HasFilteredVariant

--------------------------------------------------------------------------
(* The accumulators.  Each takes its state and an accepted value.           *)

FirstUpdate(s, v) == IF s = None THEN v ELSE s
LastUpdate(s, v) == v
MinUpdate(s, v) == IF s = None THEN v ELSE Smaller(s, v)
MaxUpdate(s, v) == IF s = None THEN v ELSE Larger(s, v)

RangeUpdate(s, v) ==
    IF ~s.init THEN [min |-> v, max |-> v, init |-> TRUE]
               ELSE [s EXCEPT !.min = Smaller(@, v), !.max = Larger(@, v)]

AvgUpdate(s, v) == [sum |-> Plus(s.sum, v), count |-> s.count + 1]
SumUpdate(s, v) == Plus(s, v)
CountUpdate(s, v) == s + 1

(* AggStd::add, Welford's recurrence.                                       *)
StdNext(s, v, delta, mean) ==
    [count |-> s.count + 1, mean |-> mean, m2 |-> Plus(s.m2, Times(delta, Minus(v, mean)))]
StdWith(s, v, delta) == StdNext(s, v, delta, Plus(s.mean, Over(delta, Num(s.count + 1))))
StdUpdate(s, v) == StdWith(s, v, Minus(v, s.mean))

(* CounterAggregatorState::update: a drop is a counter reset, worth nothing. *)
CounterUpdate(s, v) ==
    [sum  |-> Plus(s.sum, IF s.last = None THEN Zero
                          ELSE Larger(Minus(v, s.last), Zero)),
     last |-> v]

(* IRateAggregatorState::update_irate.  A drop keeps the sample as the new  *)
(* baseline but is reported as not accepted.                                *)
IRateUpdate(s, ts, v) ==
    IF s.last = None
    THEN [s |-> [s EXCEPT !.last = [ts |-> ts, v |-> v]], ok |-> TRUE]
    ELSE IF Less(v, s.last.v)
    THEN [s |-> [dt |-> 0, dv |-> Zero, last |-> [ts |-> ts, v |-> v]], ok |-> FALSE]
    ELSE IF ts > s.last.ts
    THEN [s |-> [dt |-> ts - s.last.ts, dv |-> Minus(v, s.last.v),
                 last |-> [ts |-> ts, v |-> v]], ok |-> TRUE]
    ELSE [s |-> [s EXCEPT !.dt = ts - s.last.ts], ok |-> TRUE]

(* ConditionalCountState: the condition gates what is added, never whether  *)
(* the sample is accepted.                                                  *)
ConditionalUpdate(s, filter, v, inc) ==
    IF Compare(filter, v) THEN [has |-> TRUE, sum |-> Plus(s.sum, inc)] ELSE s

ShareUpdate(s, filter, v) ==
    [count |-> s.count + 1,
     match |-> IF Compare(filter, v) THEN s.match + 1 ELSE s.match]

(* AllNoneAggregatorState: the verdict sticks once it is decided.           *)
AllUpdate(s, filter, v) == IF s = FALSE THEN s ELSE Compare(filter, v)
NoneUpdate(s, filter, v) == IF s = FALSE THEN s ELSE ~Compare(filter, v)
AnyUpdate(s, filter, v) == IF s = TRUE THEN s ELSE Compare(filter, v)

--------------------------------------------------------------------------
(* An aggregator: its kind, condition, window (rate only) and accumulator.  *)

InitialState(kind) ==
    CASE kind \in {"first", "last", "min", "max", "all", "any", "none"} -> None
      [] kind = "range" -> [min |-> Zero, max |-> Zero, init |-> FALSE]
      [] kind = "avg" -> [sum |-> Zero, count |-> 0]
      [] kind = "sum" -> Zero
      [] kind \in {"count", "countall", "countnan"} -> 0
      [] kind \in {"std.p", "std.s", "var.p", "var.s"} ->
            [count |-> 0, mean |-> Zero, m2 |-> Zero]
      [] kind \in {"increase", "rate"} -> [sum |-> Zero, last |-> None]
      [] kind = "irate" -> [dt |-> 0, dv |-> Zero, last |-> None]
      [] kind \in {"countif", "sumif"} -> [has |-> FALSE, sum |-> Zero]
      [] kind = "share" -> [count |-> 0, match |-> 0]

(* AggregatorConfig::create_aggregator: count and sum with a condition run  *)
(* as countif and sumif; without one a filtered type matches all but NaN.   *)
CreateAggregator(config, window) ==
    LET kind == IF config.filter = None THEN config.kind
                ELSE CASE config.kind = "count" -> "countif"
                       [] config.kind = "sum"   -> "sumif"
                       [] OTHER                 -> config.kind
    IN  [kind   |-> kind,
         filter |-> IF config.filter = None THEN NotNaN ELSE config.filter,
         window |-> IF kind = "rate" THEN window ELSE 0,
         st     |-> InitialState(kind)]

(* Which values AggregationHandler::update takes in.                        *)
Takes(kind, v) ==
    CASE kind \in {"countall", "share", "all", "any", "none"} -> TRUE
      [] kind = "countnan" -> v = NaN
      [] OTHER -> v # NaN

NewState(a, v) ==
    CASE a.kind = "first" -> FirstUpdate(a.st, v)
      [] a.kind = "last"  -> LastUpdate(a.st, v)
      [] a.kind = "min"   -> MinUpdate(a.st, v)
      [] a.kind = "max"   -> MaxUpdate(a.st, v)
      [] a.kind = "range" -> RangeUpdate(a.st, v)
      [] a.kind = "avg"   -> AvgUpdate(a.st, v)
      [] a.kind = "sum"   -> SumUpdate(a.st, v)
      [] a.kind \in {"count", "countall", "countnan"} -> CountUpdate(a.st, v)
      [] a.kind \in {"std.p", "std.s", "var.p", "var.s"} -> StdUpdate(a.st, v)
      [] a.kind \in {"increase", "rate"} -> CounterUpdate(a.st, v)
      [] a.kind = "countif" -> ConditionalUpdate(a.st, a.filter, v, Num(1))
      [] a.kind = "sumif" -> ConditionalUpdate(a.st, a.filter, v, v)
      [] a.kind = "share" -> ShareUpdate(a.st, a.filter, v)
      [] a.kind = "all"   -> AllUpdate(a.st, a.filter, v)
      [] a.kind = "none"  -> NoneUpdate(a.st, a.filter, v)
      [] a.kind = "any"   -> AnyUpdate(a.st, a.filter, v)

IRateTaken(a, u) == [agg |-> [a EXCEPT !.st = u.s], ok |-> u.ok]

(* AggregationHandler::update: the aggregator after the sample, and whether *)
(* the sample was accepted.                                                 *)
Update(a, ts, v) ==
    IF ~Takes(a.kind, v) THEN [agg |-> a, ok |-> FALSE]
    ELSE IF a.kind = "irate" THEN IRateTaken(a, IRateUpdate(a.st, ts, v))
    ELSE [agg |-> [a EXCEPT !.st = NewState(a, v)], ok |-> TRUE]

Reset(a) == [a EXCEPT !.st = InitialState(a.kind)]

(* AggStd, divided by n or by n - 1; one sample has no spread.              *)
Variance(s, sample) ==
    IF s.count = 1 THEN Zero ELSE Over(s.m2, Num(IF sample THEN s.count - 1 ELSE s.count))

(* AggregationHandler::current: None when there is nothing to report.       *)
CurrentOf(kind, s, window) ==
    CASE kind \in {"first", "last", "min", "max"} -> s
      [] kind = "range" -> IF s.init THEN Minus(s.max, s.min) ELSE None
      [] kind = "avg" -> IF s.count = 0 THEN None ELSE Over(s.sum, Num(s.count))
      [] kind = "sum" -> IF s = Zero THEN None ELSE s
      [] kind \in {"count", "countall", "countnan"} -> IF s = 0 THEN None ELSE Num(s)
      [] kind \in {"var.p", "var.s"} -> IF s.count = 0 THEN None ELSE Variance(s, kind = "var.s")
      [] kind \in {"std.p", "std.s"} -> IF s.count = 0 THEN None ELSE Sqrt(Variance(s, kind = "std.s"))
      [] kind = "increase" -> IF s.last = None THEN None ELSE s.sum
      [] kind = "rate" -> IF s.last = None \/ window = 0 THEN None
                          ELSE Over(s.sum, Ratio(window, 1000))
      [] kind = "irate" -> IF s.last = None \/ s.dt = 0 THEN None
                           ELSE Over(s.dv, Ratio(s.dt, 1000))
      [] kind \in {"countif", "sumif"} -> IF s.has THEN s.sum ELSE None
      [] kind = "share" -> IF s.count = 0 THEN None ELSE Ratio(s.match, s.count)
      [] kind \in {"all", "any", "none"} ->
            IF s = None THEN None ELSE IF s THEN Num(1) ELSE Zero
Current(a) == CurrentOf(a.kind, a.st, a.window)

(* What an empty bucket holds, and what a group of no accepted value gives. *)
EmptyValue(a) ==
    IF a.kind \in {"sum", "count", "countall", "countnan", "countif", "sumif"}
    THEN Zero ELSE NaN

EmptyGroupValue(a) == IF a.kind \in ReducesEmptyToZero THEN Zero ELSE NaN

(* AggregationHandler::finalize, before the reset.                          *)
OrEmpty(a, v) == IF v = None THEN EmptyValue(a) ELSE v
Finalize(a) == OrEmpty(a, Current(a))

--------------------------------------------------------------------------
(* Persistence of a rule's running aggregator: the fields in the order they *)
(* are written.  An absent f64 is written as the STALE_NAN bit pattern.     *)

StaleNaN == <<0, 0, 0>>
SaveOptional(v) == IF v = None THEN StaleNaN ELSE v
LoadOptional(f) == IF f = StaleNaN THEN None ELSE f
SaveOptionalBool(b) == CASE b = None -> 2 [] b = TRUE -> 1 [] b = FALSE -> 0
LoadOptionalBool(n) == CASE n = 2 -> None [] n = 1 -> TRUE [] n = 0 -> FALSE

RdbSave(a) ==
    LET s == a.st IN
    <<ByteOfKind(a.kind)>> \o
    CASE a.kind \in {"first", "last", "min", "max"} -> <<SaveOptional(s)>>
      [] a.kind = "range" -> IF s.init THEN <<TRUE, s.min, s.max>> ELSE <<FALSE>>
      [] a.kind = "avg" -> <<s.sum, Zero, s.count>>
      [] a.kind = "sum" -> <<s, Zero>>
      [] a.kind \in {"count", "countall", "countnan"} -> <<s>>
      [] a.kind \in {"std.p", "std.s", "var.p", "var.s"} -> <<s.mean, s.m2, s.count>>
      [] a.kind = "increase" -> <<SaveOptional(s.last), s.sum>>
      [] a.kind = "rate" -> <<a.window \div 1000, SaveOptional(s.last), s.sum>>
      [] a.kind = "irate" -> IF s.last = None THEN <<StaleNaN>>
                             ELSE <<s.last.v, s.last.ts, s.dt, s.dv>>
      [] a.kind \in {"countif", "sumif"} -> <<a.filter.op, a.filter.value, s.sum, Zero, s.has>>
      [] a.kind = "share" -> <<a.filter.op, a.filter.value, s.count, s.match>>
      [] a.kind \in {"all", "any", "none"} ->
            <<a.filter.op, a.filter.value, SaveOptionalBool(s)>>

(* The reverse; the rule re-derives rate's window from its bucket duration. *)
RdbLoad(f, bucketDuration) ==
    LET kind == KindOfByte(f[1])
        filter == IF kind \in IsFiltered THEN [op |-> f[2], value |-> f[3]] ELSE NotNaN
        st == CASE kind \in {"first", "last", "min", "max"} -> LoadOptional(f[2])
                [] kind = "range" -> IF f[2] THEN [min |-> f[3], max |-> f[4], init |-> TRUE]
                                             ELSE InitialState(kind)
                [] kind = "avg" -> [sum |-> f[2], count |-> f[4]]
                [] kind = "sum" -> f[2]
                [] kind \in {"count", "countall", "countnan"} -> f[2]
                [] kind \in {"std.p", "std.s", "var.p", "var.s"} ->
                        [mean |-> f[2], m2 |-> f[3], count |-> f[4]]
                [] kind = "increase" -> [last |-> LoadOptional(f[2]), sum |-> f[3]]
                [] kind = "rate" -> [last |-> LoadOptional(f[3]), sum |-> f[4]]
                [] kind = "irate" -> IF LoadOptional(f[2]) = None THEN InitialState(kind)
                        ELSE [dt |-> f[4], dv |-> f[5], last |-> [ts |-> f[3], v |-> f[2]]]
                [] kind \in {"countif", "sumif"} -> [has |-> f[6], sum |-> f[4]]
                [] kind = "share" -> [count |-> f[4], match |-> f[5]]
                [] kind \in {"all", "any", "none"} -> LoadOptionalBool(f[4])
    IN  [kind |-> kind, filter |-> filter, st |-> st,
         window |-> IF kind = "rate" THEN bucketDuration ELSE 0]

--------------------------------------------------------------------------
(* PartialReducer: the decomposable reducers as mergeable states.           *)

PartialKind(config) ==
    CASE config.kind = "sum" /\ config.filter # None -> "sumif"
      [] config.kind = "count" /\ config.filter # None -> "countif"
      [] config.kind \in {"countall", "countnan"} -> "count"
      [] OTHER -> config.kind

(* PartialReducer::for_config                                               *)
ForConfig(config) ==
    IF config.kind \notin IsDecomposable THEN None
    ELSE [kind |-> PartialKind(config), filter |-> config.filter,
          accept |-> CASE config.kind = "countall" -> "all"
                       [] config.kind = "countnan" -> "nan"
                       [] OTHER -> "reject"]

EmptyPartial == [count |-> 0, acc1 |-> Zero, acc2 |-> Zero, ts |-> 0]

PartialAccepts(r, v) ==
    CASE r.accept = "all" -> TRUE
      [] r.accept = "nan" -> v = NaN
      [] OTHER -> v # NaN /\ (r.filter = None \/ Compare(r.filter, v))

PartialUpdate(r, p, ts, v) ==
    LET n     == p.count + 1
        fresh == p.count = 0
        q     == [p EXCEPT !.count = n]
        delta == Minus(v, p.acc1)
        mean  == Plus(p.acc1, Over(delta, Num(n)))
    IN  CASE ~PartialAccepts(r, v) -> p
          [] r.kind \in {"count", "countif"} -> q
          [] r.kind \in {"sum", "sumif", "avg"} -> [q EXCEPT !.acc1 = Plus(@, v)]
          [] r.kind = "min" -> [q EXCEPT !.acc1 = IF fresh THEN v ELSE Smaller(@, v)]
          [] r.kind = "max" -> [q EXCEPT !.acc1 = IF fresh THEN v ELSE Larger(@, v)]
          [] r.kind = "range" -> [q EXCEPT !.acc1 = IF fresh THEN v ELSE Smaller(@, v),
                                           !.acc2 = IF fresh THEN v ELSE Larger(@, v)]
          [] r.kind \in {"std.p", "std.s", "var.p", "var.s"} ->
                [q EXCEPT !.acc1 = mean, !.acc2 = Plus(@, Times(delta, Minus(v, mean)))]
          [] r.kind = "first" -> IF fresh \/ ts < p.ts
                                 THEN [q EXCEPT !.acc1 = v, !.ts = ts] ELSE q
          [] r.kind = "last" -> IF fresh \/ ts >= p.ts
                                THEN [q EXCEPT !.acc1 = v, !.ts = ts] ELSE q

(* Mutant of PartialMerge: squared deviations added without the distance    *)
(* between the two means.                                                   *)
PartialMergeAdds(kind, a, b) ==
    [a EXCEPT !.count = @ + b.count, !.acc1 = Plus(@, b.acc1), !.acc2 = Plus(@, b.acc2)]

(* PartialReducer::merge; the variances by Chan's parallel combination.     *)
PartialMerge(kind, a, b) ==
    LET n     == a.count + b.count
        q     == [a EXCEPT !.count = n]
        delta == Minus(b.acc1, a.acc1)
    IN  CASE b.count = 0 -> a
          [] a.count = 0 -> b
          [] kind \in {"count", "countif"} -> q
          [] kind \in {"sum", "sumif", "avg"} -> [q EXCEPT !.acc1 = Plus(@, b.acc1)]
          [] kind = "min" -> [q EXCEPT !.acc1 = Smaller(@, b.acc1)]
          [] kind = "max" -> [q EXCEPT !.acc1 = Larger(@, b.acc1)]
          [] kind = "range" -> [q EXCEPT !.acc1 = Smaller(@, b.acc1),
                                         !.acc2 = Larger(@, b.acc2)]
          [] kind \in {"std.p", "std.s", "var.p", "var.s"} ->
                [q EXCEPT !.acc1 = Plus(@, Times(delta, Ratio(b.count, n))),
                          !.acc2 = Plus(Plus(@, b.acc2),
                                        Times(Times(delta, delta),
                                              Ratio(a.count * b.count, n)))]
          [] kind = "first" -> IF b.ts < a.ts
                               THEN [q EXCEPT !.acc1 = b.acc1, !.ts = b.ts] ELSE q
          [] kind = "last" -> IF b.ts >= a.ts
                              THEN [q EXCEPT !.acc1 = b.acc1, !.ts = b.ts] ELSE q

PartialFinalize(kind, p) ==
    LET n == Num(p.count)
        spread == [count |-> p.count, m2 |-> p.acc2]
    IN  CASE p.count = 0 -> IF kind \in {"count", "countif", "sumif"} THEN Zero ELSE NaN
          [] kind \in {"sum", "sumif", "min", "max", "first", "last"} -> p.acc1
          [] kind \in {"count", "countif"} -> n
          [] kind = "range" -> Minus(p.acc2, p.acc1)
          [] kind = "avg" -> Over(p.acc1, n)
          [] kind = "var.p" -> Over(p.acc2, n)
          [] kind = "var.s" -> Variance(spread, TRUE)
          [] kind = "std.p" -> Sqrt(Over(p.acc2, n))
          [] kind = "std.s" -> Sqrt(Variance(spread, TRUE))
============================================================================
