------------------------------ MODULE AclCache ------------------------------
(***************************************************************************)
(* Who may read or write every key: series/acl.rs.  The server renders a   *)
(* user's rules as a counted string; the module caches what the rules      *)
(* grant under the address of that string, and holds a reference to it so  *)
(* that the address names one rule set for as long as the entry lives.     *)
(*                                                                         *)
(* A rule set is a set of selectors, each the set of its key tokens: a     *)
(* token is its flags ("R", "W") and whether its pattern is *.             *)
(***************************************************************************)
EXTENDS Naturals, Sequences, FiniteSets, SequencesExt

CONSTANTS
    Users,
    RuleSets,       \* the rules an administrator may give a user
    Addresses,      \* where the server may put a rendered string
    Capacity,       \* ALL_KEYS_GRANTS_CAPACITY
    MaxChanges      \* bound: rule changes

VARIABLES
    rules,      \* the users that exist, with their rules
    rendered,   \* the address of a user's rendered rules, or NoAddress
    heap,       \* address -> the rules rendered there and who holds them
    cache,      \* ALL_KEYS_GRANTS, oldest first: address and grants
    answer,     \* the last answer: user, permissions, and what was said
    changes

NoAddress == 0
NoAnswer == [user |-> "none", need |-> {}, all |-> FALSE]
Needs == SUBSET {"R", "W"}

AclInit ==
    /\ rules \in [Users -> RuleSets]
    /\ rendered = [u \in Users |-> NoAddress]
    /\ heap = [x \in Addresses |-> [refs |-> 0, text |-> {}]]
    /\ cache = <<>>
    /\ answer = NoAnswer
    /\ changes = 0

-----------------------------------------------------------------------------
(* Grants *)

\* AllKeysGrants::add_selector: the flags of the * tokens of one selector.
add_selector(grants, tokens) ==
    LET g == UNION {t.flags : t \in {s \in tokens : s.star}}
    IN  IF g = {} THEN grants ELSE grants \cup {g}

\* query_all_keys_grants: the selectors of ACL GETUSER, one by one.
query_all_keys_grants(text) ==
    FoldLeft(add_selector, {}, SetToSeq(text))

\* Mutant: the grants of different selectors are added up.
CoverTogether(grants, need) == need \subseteq UNION grants

\* cover: one selector grants all that is needed.
cover(grants, need) == \E g \in grants : need \subseteq g

HasStar(text) == \E selector \in text : \E t \in selector : t.star

-----------------------------------------------------------------------------
(* Reference counts: a string nobody holds is freed. *)

Dropped(h, x) == IF x = NoAddress THEN h ELSE [h EXCEPT ![x].refs = @ - 1]
Taken(h, x) == [h EXCEPT ![x].refs = @ + 1]
FreeAddresses == {x \in Addresses : heap[x].refs = 0}

\* ACL SETUSER (external): the user's reference is dropped.
SetRules(u, new) ==
    /\ changes < MaxChanges /\ new # rules[u]
    /\ changes' = changes + 1
    /\ rules' = [rules EXCEPT ![u] = new]
    /\ heap' = Dropped(heap, rendered[u])
    /\ rendered' = [rendered EXCEPT ![u] = NoAddress]
    /\ answer' = NoAnswer
    /\ UNCHANGED cache

\* A miss: the oldest entry goes when the cache is full, the new one keeps the
\* reference that was taken to ask.
CacheMiss(x) ==
    LET full == Len(cache) >= Capacity
        kept == IF full THEN Tail(cache) ELSE cache
        h    == Taken(heap, x)
    IN  /\ cache' = Append(kept, [at |-> x, grants |-> query_all_keys_grants(heap[x].text)])
        /\ heap' = IF full THEN Dropped(h, cache[1].at) ELSE h

\* RM_GetModuleUserACLString (external): rendered once, anywhere that is free.
Render(u) ==
    /\ rendered[u] = NoAddress
    /\ \E x \in FreeAddresses :
          /\ rendered' = [rendered EXCEPT ![u] = x]
          /\ heap' = [heap EXCEPT ![x] = [refs |-> 1, text |-> rules[u]]]
    /\ UNCHANGED <<rules, cache, answer, changes>>

Hits(x) == {i \in DOMAIN cache : cache[i].at = x}
FirstHit(x) == cache[CHOOSE i \in Hits(x) : \A j \in Hits(x) : i <= j]

\* allows_all_keys
Ask(u, need) ==
    LET x == rendered[u] IN
    /\ x # NoAddress
    /\ IF ~HasStar(heap[x].text)
       THEN answer' = [user |-> u, need |-> need, all |-> FALSE] /\ UNCHANGED <<heap, cache>>
       ELSE IF Hits(x) # {}
       THEN /\ answer' = [user |-> u, need |-> need, all |-> cover(FirstHit(x).grants, need)]
            /\ UNCHANGED <<heap, cache>>
       ELSE /\ answer' = [user |-> u, need |-> need,
                          all |-> cover(query_all_keys_grants(heap[x].text), need)]
            /\ CacheMiss(x)
    /\ UNCHANGED <<rules, rendered, changes>>

AclNext ==
    \/ \E u \in Users, new \in RuleSets : SetRules(u, new)
    \/ \E u \in Users : Render(u)
    \/ \E u \in Users, need \in Needs \ {{}} : Ask(u, need)

-----------------------------------------------------------------------------

\* The permissions held on every key are those of the user's rules as they are now,
\* and one selector must hold them all, whatever was cached for earlier rules and
\* wherever the server put the new ones.
AllKeysExact ==
    answer # NoAnswer =>
        answer.all = \E selector \in rules[answer.user] :
                        \A p \in answer.need : \E t \in selector : t.star /\ p \in t.flags

\* A cached address is that of a string still held, and the grants are those of the
\* rules rendered there.
EntriesLive ==
    \A i \in DOMAIN cache :
        /\ heap[cache[i].at].refs > 0
        /\ cache[i].grants = query_all_keys_grants(heap[cache[i].at].text)

\* What the cache answers is what the user's rules say now, from addresses that are still held.
CacheExact == AllKeysExact /\ EntriesLive
=============================================================================
