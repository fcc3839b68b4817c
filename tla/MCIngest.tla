------------------------------ MODULE MCIngest ------------------------------
EXTENDS Ingest

CONSTANTS k1, k2, c1

I(k, t, v) == [key |-> k, timestamp |-> t, value |-> v]

MCPolicies == {(k1 :> p @@ k2 :> "last") : p \in {"block", "last", "sum"}}

MCSamples == {Sample(1, 1), Sample(3, 0), Sample(5, 1)}

\* In order; newest first, with a floor raised half way; around what is stored; a repeated
\* timestamp; two keys; an argument that does not parse.
MCBatches ==
    {<<I(k1, 1, 0), I(k1, 2, 1), I(k1, 4, 1), I(k1, 5, 0)>>,
     <<I(k1, 5, 1), I(k1, 2, 1), I(k1, 3, 1)>>,
     <<I(k1, 0, 1), I(k1, 4, 1), I(k1, 2, 0)>>,
     <<I(k1, 3, 1), I(k1, 3, 0)>>,
     <<I(k2, 1, 1), I(k1, 4, 0), I(k1, Bad, 0)>>}

MCBulks ==
    {<<Sample(2, 1), Sample(0, 1), Sample(2, 0), Sample(1, 1), Sample(3, 1)>>,
     <<Sample(4, 1), Sample(3, 1), Sample(5, 0)>>}

MCIncrements == {[timestamp |-> None, value |-> 1], [timestamp |-> 4, value |-> 0]}

MCRemovals == {<<3, 5>>}

Req(sort, ts, min, max, finite, cond) ==
    [spec |-> [sort |-> sort, ts |-> ts], block |-> min > 0, min_count |-> Max({1, min}),
     max_count |-> max, finite |-> finite, condition |-> cond]

MCRequests ==
    {Req("literal", 2, 2, 2, FALSE, Values), Req("next", 0, 1, 1, TRUE, Values),
     Req("earliest", 0, 2, 3, TRUE, {1}), Req("latest", 0, 0, 1, TRUE, Values)}
=============================================================================
