------------------------------ MODULE MCFanout ------------------------------
(* Two shards: a alone, and b with its replica c. The second layout is a     *)
(* failover of the second shard.                                             *)
EXTENDS Fanout

CONSTANTS a, b, c, x, y

Line(id, addr, role, master, ranges, me) ==
    [id |-> id, addr |-> addr, master |-> master, ranges |-> ranges,
     flags |-> {role} \cup (IF id = me THEN {"myself"} ELSE {})]

Before(n) == <<Line(a, 1, "master", NoNode, <<<<0, 1>>>>, n),
               Line(b, 2, "master", NoNode, <<<<2, 3>>>>, n),
               Line(c, 3, "slave", b, <<>>, n)>>
After(n) == <<Line(a, 1, "master", NoNode, <<<<0, 1>>>>, n),
              Line(c, 3, "master", NoNode, <<<<2, 2>>, <<3, 3>>>>, n),
              Line(b, 2, "slave", c, <<>>, n)>>

MCReplies == <<[n \in Nodes |-> Before(n)], [n \in Nodes |-> After(n)]>>
MCNodes == {a, b, c}
MCHome == (x :> c) @@ (y :> a)
MCCommand == (x :> [op |-> "card", modes |-> {"Random"}, slots |-> {}])
          @@ (y :> [op |-> "mdel", modes |-> {"HashTagsPrimary"}, slots |-> {2}])
MCHandlers == [n \in MCNodes |-> {"card", "mdel"}]
MCNewer == {a}
=============================================================================
