----------------------------- MODULE MCDiscovery -----------------------------
(***************************************************************************)
(* An instance of Discovery: ten series over a small alphabet, and the     *)
(* commands that ask for them; and, in behaviours of its own, an instance  *)
(* of AclCache, which says who may read every key.                         *)
(***************************************************************************)
EXTENDS Discovery, TLC

\* '.' sorts before '=' and '?', the letters after them.
MCChars == {1, 4, 5}
MCDot == 1
MCEquals == 2
MCSkip == 3
a == 4
b == 5
MCNameLabel == <<b, b>>
MCNoLabel == <<>>
l == <<b>>
k == <<a>>
kdot == <<a, MCDot>>
MCLabelNames == {l, k, kdot, MCNameLabel}

LValues == <<<<>>, <<a>>, <<b, a>>, <<a, b>>, <<a, MCDot>>>>
KValues == <<<<>>, <<a>>>>
Pick(s, n) == s[1 + (n % Len(s))]

MCOf == [id \in 1..10 |->
            (l :> Pick(LValues, id)) @@ (k :> Pick(KValues, id \div 5)) @@
            (kdot :> (IF id \in {3, 8} THEN <<b>> ELSE <<>>)) @@
            (MCNameLabel :> (IF id \in {2, 4, 7} THEN <<a>> ELSE <<>>))]
MCInRange == {1, 2, 4, 7, 8}
MCShards == {0, 1}
MCShardOf(id) == id % 2
MCSimilarity(t, v) == IF t = v THEN 10 ELSE IF IsPrefix(t, v) THEN 8 ELSE Len(v)

Everyone == [replica |-> FALSE, readable |-> {}, unrestricted |-> TRUE]
Start(all, stale, gone, n) ==
    [all |-> all, stale |-> stale, expired |-> gone, node |-> n]
Ids == DOMAIN MCOf

Full == Start(Ids, {}, {}, Everyone)
Sparse == Start({1, 2, 6}, {7}, {}, Everyone)
Lone == Start({5}, {}, {}, Everyone)

-----------------------------------------------------------------------------
(* Filters and the tokens they are written with *)

Flt(label, op, vs) == [label |-> label, op |-> op, vs |-> vs, re |-> EmptyHir]
Rex(label, op, h) == [label |-> label, op |-> op, vs |-> {}, re |-> h]

LitA == Literal(<<a>>)
LitAB == Literal(<<a, b>>)
Either == Alternate(<<LitA, Literal(<<b, a>>)>>)
Optional == Alternate(<<LitA, EmptyHir>>)
RepeatedOrB == Alternate(<<Repeat(LitA, 1, Unbounded), Repeat(Literal(<<b>>), 1, Unbounded)>>)
Pieces == {LitA, LitAB, DotClass, SomeOf({a, b}), AllBut(a), DotStar, DotPlus,
           Repeat(LitA, 1, Unbounded), Repeat(SomeOf({a, b}), 0, 1), Repeat(LitA, 1, 2),
           Either, Optional, Capture(Either), Capture(DotStar), Capture(RepeatedOrB)}
\* Two literals in a row are one; a bar after a repeated literal, like the shapes
\* README.md lists, decompose_regex does not read as the pattern it is.
Paired(s) == /\ ~(s[1].k = "lit" /\ s[2].k = "lit")
             /\ ~(s[1].k = "rep" /\ s[1].sub.k = "lit" /\ s[2].k = "alt")
Patterns == Pieces \cup {EmptyHir}
            \cup {Concat(s) : s \in {t \in Pieces \X Pieces : Paired(t)}}
            \cup {Concat(<<DotStar, p, DotStar>>) : p \in {LitA, Either, Optional}}
            \cup {Concat(<<LookStart, p, LookEnd>>) : p \in {LitA, Either, DotPlus}}

LTexts == {{<<>>}, {<<a>>}, {<<b, a>>}, {<<a>>, <<b, a>>}, {<<>>, <<a>>}}
ValueFilters ==
            {Flt(l, op, vs) : op \in {"=", "!="}, vs \in LTexts}
            \cup {Flt(l, op, vs) : op \in {"^=", "!^="}, vs \in {{<<a>>}, {<<a, b>>, <<b>>}}}
RegexFilters(hs) == {Rex(l, op, h) : op \in {"=~", "!~"}, h \in hs}
LFilters == ValueFilters \cup RegexFilters(Patterns)
KFilters == {Flt(k, "=", {<<a>>}), Flt(k, "!=", {<<a>>}), Flt(k, "=", {<<>>}),
             Flt(k, "!=", {<<>>}), Rex(k, "!~", Concat(<<LitA, DotStar>>)),
             Flt(MCNameLabel, "=", {<<a>>}), Rex(kdot, "=~", DotPlus)}

OpTok == ("=" :> "Equal") @@ ("!=" :> "OpNotEqual") @@ ("=~" :> "RegexEqual")
         @@ ("!~" :> "RegexNotEqual") @@ ("^=" :> "StartsWith") @@ ("!^=" :> "NotStartsWith")
Comma == Tok("Comma")
Listed(vs) == FoldLeft(LAMBDA ts, v : (IF ts = <<>> THEN ts ELSE Append(ts, Comma)) \o <<Quoted(v)>>,
                       <<>>, SetToSeq(vs))
ValueToks(f) ==
    IF f.op \in {"=~", "!~"} THEN <<Pattern(f.re)>>
    ELSE IF Cardinality(f.vs) = 1 THEN Listed(f.vs)
    ELSE <<Tok("LeftParen")>> \o Listed(f.vs) \o <<Tok("RightParen")>>
FToks(f) == <<Ident(f.label), Tok(OpTok[f.op])>> \o ValueToks(f)
Braced(ts) == <<Tok("LeftBrace")>> \o ts \o <<Tok("RightBrace")>>

\* Ways to write two filters, with what they mean.
Written(f, g, way) ==
    CASE way = "two" -> [args |-> <<FToks(f), FToks(g)>>, ast |-> {{{f}}, {{g}}}]
      [] way = "and" -> [args |-> <<Braced(FToks(f) \o <<Comma>> \o FToks(g))>>, ast |-> {{{f, g}}}]
      [] way = "or" -> [args |-> <<Braced(FToks(f) \o <<Tok("OpOr")>> \o FToks(g))>>,
                        ast |-> {{{f}, {g}}}]
      [] way = "ors" -> [args |-> <<Braced(FToks(g)) \o <<Tok("OpOr")>> \o Braced(FToks(f))>>,
                         ast |-> {{{f}, {g}}}]
      [] way = "named" -> [args |-> <<<<Ident(<<a>>)>> \o Braced(FToks(f))>>,
                           ast |-> {{{f, Flt(MCNameLabel, "=", {<<a>>})}}}]

One(f) == [args |-> <<FToks(f)>>, ast |-> {{{f}}}]
Everything == [args |-> <<>>, ast |-> {}]

\* A filter that the absent label does not satisfy bounds the search.
Bounds(f) == f.op \in {"=", "=~", "^="}
             /\ ~RefFilter([n \in MCLabelNames |-> <<>>], f)
Bounded(w) == \E s \in w.ast : \A group \in s : \E f \in group : Bounds(f)

Request(cmd, w, bus) ==
    [cmd |-> cmd, args |-> w.args, ast |-> w.ast, bus |-> bus, good |-> Bounded(w),
     opts |-> <<>>, what |-> "names", label |-> l, ranged |-> FALSE, exclude |-> FALSE,
     shards |-> {}, sweeps |-> FALSE, again |-> FALSE]

Selecting ==
    {Request("QUERYINDEX", One(f), bus) : f \in LFilters, bus \in BOOLEAN}
    \cup {Request("QUERYINDEX", Written(f, g, way), bus) :
             f \in ValueFilters \cup RegexFilters(Pieces), g \in KFilters, way \in {"two", "and", "or", "ors"}, bus \in {FALSE}}
    \cup {Request("QUERYINDEX", Written(f, f, "named"), TRUE) : f \in LFilters}

Malformed == {[Request("QUERYINDEX", Everything, FALSE) EXCEPT !.args = <<ts>>] :
                 ts \in {<<Tok("LeftBrace")>>, <<Ident(l), Tok("Equal"), Tok("Comma")>>,
                         <<Ident(l), Tok("RegexEqual"), Ident(l)>>, <<>>}}

-----------------------------------------------------------------------------
(* Commands that read series: callers with and without permissions, expired *)
(* keys, on a primary and on a replica.                                    *)

Limited == [replica |-> FALSE, readable |-> {1, 2, 3, 4, 6}, unrestricted |-> FALSE]
Replica == [Everyone EXCEPT !.replica = TRUE]
Aged == {Start(Ids \ {9}, {9}, {2, 8}, n) : n \in {Everyone, Replica, Limited}}

Some == {One(Flt(k, "=", {<<a>>})), One(Flt(l, "=", {<<a>>, <<b, a>>})),
         Written(Flt(l, "^=", {<<a>>}), Flt(k, "=", {<<>>}), "and"),
         One(Flt(MCNameLabel, "=", {<<a>>}))}

Reading ==
    {[Request(cmd, w, FALSE) EXCEPT !.ranged = r[1], !.exclude = r[2], !.again = TRUE,
                                    !.sweeps = TRUE] :
        cmd \in {"MGET", "CARD", "QUERYINDEX"}, w \in Some,
        r \in {<<FALSE, FALSE>>, <<TRUE, FALSE>>, <<TRUE, TRUE>>}}
    \cup {[Request("QUERYLABELS", w, FALSE) EXCEPT !.what = x, !.sweeps = TRUE] :
             w \in Some \cup {Everything}, x \in {"names", "values"}}
    \cup {Request("KEYS", w, FALSE) : w \in Some}
    \cup {[Request("CARD", Everything, FALSE) EXCEPT !.ranged = r] : r \in BOOLEAN}

Counting ==
    {[Request("STATS", w, bus) EXCEPT !.sweeps = TRUE] :
        w \in Some \cup {Everything}, bus \in BOOLEAN}

\* The same commands from a coordinator.
Spread ==
    {[Request(cmd, w, TRUE) EXCEPT !.ranged = r, !.shards = MCShards, !.sweeps = TRUE] :
        cmd \in {"CARD", "QUERYINDEX", "STATS"}, w \in Some \cup {Everything}, r \in BOOLEAN}
    \cup {[Request("QUERYLABELS", w, TRUE) EXCEPT !.what = x, !.shards = MCShards] :
             w \in Some \cup {Everything}, x \in {"names", "values"}}

-----------------------------------------------------------------------------
(* Label searches *)

Opt(t, x) == [t |-> t, x |-> x, by |-> "value", dir |-> "none"]
SortBy(by, dir) == [t |-> "SORTBY", x |-> 0, by |-> by, dir |-> dir]

Orders == {<<>>, <<SortBy("value", "DESC")>>, <<SortBy("score", "none")>>,
           <<SortBy("cardinality", "ASC"), Opt("INCLUDE_METADATA", 0)>>,
           <<SortBy("cardinality", "DESC")>>}
Terms == {<<>>, <<Opt("SEARCH", {<<a>>})>>, <<Opt("SEARCH", {<<b>>, <<a, b>>}),
                                              Opt("FUZZY_THRESHOLD", 8)>>}
Limits == {<<>>} \cup {<<Opt("LIMIT", n)>> : n \in {1, 2, 4}}
BadOptions == {<<SortBy("score", "ASC")>>, <<Opt("LIMIT", 0)>>, <<Opt("LIMIT", 7)>>,
               <<Opt("SEARCH", {})>>, <<Opt("FUZZY_THRESHOLD", 11)>>,
               <<Opt("FILTER_BY_RANGE", 0)>>, <<Opt("FILTER", <<>>)>>}

Search(what, opts, w, shards) ==
    [Request("SEARCH", w, FALSE) EXCEPT !.what = what, !.opts = opts, !.shards = shards,
        !.ranged = \E i \in DOMAIN opts : opts[i].t = "FILTER_BY_RANGE"]
Within(w) == IF w.args = <<>> THEN <<>> ELSE <<Opt("FILTER", w.args)>>

Searching(scopes) ==
    {Search(what, o \o t \o n \o Within(w), w, sh) :
        what \in {"names", "values"}, o \in Orders, t \in Terms, n \in Limits,
        w \in scopes, sh \in {{}, MCShards}}
    \cup {Search("values", <<Opt("FILTER_BY_RANGE", 0)>> \o Within(w), w, {}) :
              w \in scopes \ {Everything}}
    \cup {Search("values", o, Everything, {}) : o \in BadOptions}

-----------------------------------------------------------------------------

MCStarts == {Full, Sparse, Lone} \cup Aged

MCRequests(s) ==
    CASE s \in {Full, Sparse, Lone} ->
            Selecting \cup Malformed \cup (IF s = Full THEN Searching({Everything} \cup Some) ELSE {})
      [] OTHER -> (IF s.node = Everyone THEN Spread ELSE {}) \cup Reading \cup Counting \cup Searching({One(Flt(k, "=", {<<a>>}))})

-----------------------------------------------------------------------------
(* Permissions: two users, four places for their rendered rules, a cache  *)
(* of two.                                                                 *)

VARIABLES rules, rendered, heap, cache, answer, changes

aclVars == <<rules, rendered, heap, cache, answer, changes>>

Token(flags, star) == [flags |-> flags, star |-> star]
ReadAll == {Token({"R"}, TRUE)}
WriteAll == {Token({"W"}, TRUE)}
SomeKeys == {Token({"R", "W"}, FALSE)}
MCRuleSets == {{ReadAll \cup WriteAll}, {ReadAll, WriteAll}, {SomeKeys}}

Acl == INSTANCE AclCache WITH Users <- {"u", "v"}, RuleSets <- MCRuleSets,
                              Addresses <- 1..4, Capacity <- 2, MaxChanges <- 2
IdleAcl ==
    /\ rules = {} /\ rendered = {} /\ heap = {} /\ cache = <<>>
    /\ answer = Acl!NoAnswer /\ changes = 0

\* One of the two: the other stays as it is.
MCInit ==
    \/ Init /\ IdleAcl
    \/ Idle /\ Acl!AclInit
MCNext ==
    \/ phase # "idle" /\ Next /\ UNCHANGED aclVars
    \/ phase = "idle" /\ Acl!AclNext /\ UNCHANGED vars
MCSpec == MCInit /\ [][MCNext]_<<vars, aclVars>>

\* AclCache: all-keys permissions follow the rules.
CacheExact == phase = "idle" => Acl!CacheExact
=============================================================================
