---------------------------- MODULE MCCompaction ----------------------------
EXTENDS Compaction

RuleSpec(source, dest, duration, align, kind) ==
    [source |-> source, dest |-> dest, duration |-> duration, align |-> align, kind |-> kind]
AtoB == RuleSpec("a", "b", 2, 0, "sum")
AtoC == RuleSpec("a", "c", 3, 1, "last")
BtoC == RuleSpec("b", "c", 4, 0, "sum")
CtoA == RuleSpec("c", "a", 2, 0, "sum")

MCRuleSpecs  == {AtoB, AtoC, BtoC, CtoA}
\* Two policies whose destination is the same key: they differ in retention only.
MCPolicies   == {[retention |-> r] @@ RuleSpec("d", "e", 2, 0, "sum") : r \in {0, 3}}
MCTopologies == {<<AtoB, AtoC>>, <<AtoB, BtoC>>}

Initial == {"a", "b", "c"}
MCRetentions == {[k \in Initial |-> 0],
                 [k \in Initial |-> IF k = "a" THEN 2 ELSE 0],
                 [k \in Initial |-> IF k = "b" THEN 3 ELSE 0]}

Item(ts, v) == [timestamp |-> ts, value |-> v]
MCBatches == {[i \in DOMAIN p |-> Item(p[i], 1 + (i % 2))] :
                 p \in {<<0, 1, 4>>, <<4, 0, 6>>, <<6, 0, 4>>, <<4, 4, 1>>, <<1, 6, 1>>, <<3, 2, 5, 3>>}}
MCSelections == {<<"a", "d">>, <<"b", "c">>, <<"a", "b">>}

MCRenames == {<<"b", "d">>, <<"a", "d">>}
=============================================================================
