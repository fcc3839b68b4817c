---------------------------- MODULE LabelFilters ----------------------------
(***************************************************************************)
(* Label filters and series selectors: labels/filters.rs, with the second  *)
(* half of labels/regex_utils.rs (decompose_regex and what it extracts).   *)
(* A text is a sequence of characters; the absent label reads as <<>>.     *)
(*                                                                         *)
(* How a label-value regular expression becomes an index predicate:        *)
(* labels/regex_utils.rs and the RegexMatcher of labels/filters.rs.        *)
(*                                                                         *)
(* A pattern is the normal form the parser of the regex crate returns (its *)
(* HIR), a text is a sequence of characters.  The module models what       *)
(* decompose_regex extracts from a pattern (literals, a prefix, a needle,  *)
(* a prefix and the rest re-printed as pattern text), and the matcher that *)
(* is built from it, next to the language the pattern denotes (EndsOf).    *)
(* The compiled-size limit and newlines in values are left out.            *)
(***************************************************************************)
EXTENDS Naturals, Sequences, FiniteSets, SequencesExt

CONSTANTS
    Chars,         \* the characters of label values, as positive integers
    DotChar,       \* the one that is a metacharacter when read as a pattern
    MaxOrValues,   \* MAX_OR_VALUES: the longest list of literal alternatives
    MaxPrefix      \* MAX_REPETITION_PREFIX_BYTES

ASSUME CharsAssumption ==
    /\ Chars \subseteq Nat /\ IsFiniteSet(Chars)
    /\ DotChar \in Chars /\ MaxOrValues \in Nat /\ MaxPrefix \in Nat

-----------------------------------------------------------------------------
(* Patterns: the nodes of the HIR.  A class is given by its characters; a  *)
(* class of two ranges covering all but one character is "but".            *)

Unbounded == 99
EmptyHir == [k |-> "empty"]
Literal(s) == [k |-> "lit", s |-> s]
DotClass == [k |-> "class", two |-> TRUE, cs |-> Chars]
SomeOf(cs) == [k |-> "class", two |-> FALSE, cs |-> cs]
AllBut(c) == [k |-> "class", two |-> TRUE, cs |-> Chars \ {c}]
Capture(h) == [k |-> "cap", sub |-> h]
Repeat(h, lo, hi) == [k |-> "rep", sub |-> h, lo |-> lo, hi |-> hi]
Alternate(hs) == [k |-> "alt", subs |-> hs]
LookStart == [k |-> "start"]
LookEnd == [k |-> "end"]
DotStar == Repeat(DotClass, 0, Unbounded)
DotPlus == Repeat(DotClass, 1, Unbounded)

\* Hir::concat of nodes that are already in normal form.
Concat(hs) ==
    CASE Len(hs) = 0 -> EmptyHir
      [] Len(hs) = 1 -> hs[1]
      [] OTHER -> [k |-> "cat", subs |-> hs]

TailHir(hs, i) == Concat(SubSeq(hs, i, Len(hs)))

-----------------------------------------------------------------------------
(* The language of a pattern: where a match of h that starts after the     *)
(* first i characters of s may end.                                        *)

\* t stands in s right after its first i characters.
OccursAt(s, t, i) == i + Len(t) <= Len(s) /\ SubSeq(s, i + 1, i + Len(t)) = t

RECURSIVE EndsOf(_, _, _), EndsRepeat(_, _, _, _, _)
EndsOf(h, s, i) ==
    CASE h.k = "empty" -> {i}
      [] h.k = "lit"   -> IF OccursAt(s, h.s, i) THEN {i + Len(h.s)} ELSE {}
      [] h.k = "class" -> IF i < Len(s) /\ s[i + 1] \in h.cs THEN {i + 1} ELSE {}
      [] h.k = "start" -> IF i = 0 THEN {i} ELSE {}
      [] h.k = "end"   -> IF i = Len(s) THEN {i} ELSE {}
      [] h.k = "cap"   -> EndsOf(h.sub, s, i)
      [] h.k = "alt"   -> UNION {EndsOf(h.subs[n], s, i) : n \in DOMAIN h.subs}
      [] h.k = "cat"   -> FoldLeft(LAMBDA at, sub : UNION {EndsOf(sub, s, j) : j \in at},
                                   {i}, h.subs)
      [] h.k = "rep"   -> EndsRepeat(h, s, {i}, 0, {})
\* n rounds of the repeated node have led to the ends "at".
EndsRepeat(h, s, at, n, found) ==
    LET now == IF n >= h.lo THEN found \cup at ELSE found
    IN  IF at = {} \/ n = h.hi \/ n > h.lo + Len(s)
        THEN now
        ELSE EndsRepeat(h, s, UNION {EndsOf(h.sub, s, j) : j \in at}, n + 1, now)

\* Regex::is_match of a pattern compiled between ^(?: and )$.
FullMatch(h, s) == Len(s) \in EndsOf(h, s, 0)

-----------------------------------------------------------------------------
(* Questions decompose_regex asks of a node.                               *)

NoText == [ok |-> FALSE, s |-> <<>>]
SomeText(s) == [ok |-> TRUE, s |-> s]

RECURSIVE get_literal(_)
get_literal(h) ==
    CASE h.k = "cap" -> get_literal(h.sub)
      [] h.k = "lit" -> SomeText(h.s)
      [] OTHER -> NoText

RECURSIVE Uncaptured(_)
Uncaptured(h) == IF h.k = "cap" THEN Uncaptured(h.sub) ELSE h

\* get_repetition: the repetition under the captures, if there is one.
RepetitionOf(u) == [ok |-> u.k = "rep", rep |-> u]
get_repetition(h) == RepetitionOf(Uncaptured(h))

\* is_empty_class: a class of two ranges that reach both ends is taken for ".".
RepeatsAny(h, lo) ==
    h.k = "rep" /\ h.lo = lo /\ h.hi = Unbounded /\ h.sub.k = "class" /\ h.sub.two

RECURSIVE is_dot_star(_)
is_dot_star(h) ==
    CASE h.k = "cap" -> is_dot_star(h.sub)
      [] h.k = "alt" -> \E n \in DOMAIN h.subs : is_dot_star(h.subs[n])
      [] OTHER -> RepeatsAny(h, 0)

is_dot_plus(h) == RepeatsAny(Uncaptured(h), 1)

\* remove_start_end_anchors(expr) == ".*".
is_match_all_regex_pattern(h) ==
    LET subs == IF h.k = "cat" THEN h.subs ELSE <<h>>
    IN  SelectSeq(subs, LAMBDA sub : sub \notin {LookStart, LookEnd}) = <<DotStar>>

-----------------------------------------------------------------------------
(* get_or_values: the literal alternatives a node stands for, appended to  *)
(* dest, or failure when it has others or too many.                        *)

OrFail == [ok |-> FALSE, vs |-> <<>>]
OrOk(vs) == [ok |-> TRUE, vs |-> vs]

SortedChars(cs) == SetToSortSeq(cs, <)

\* The values a node added: as many as may be, and no more.
FewEnough(dest, r) == IF r.ok /\ Len(r.vs) - Len(dest) <= MaxOrValues THEN r ELSE OrFail

\* Every one of the first n values with every one of the others, after dest.
Product(dest, n, both) ==
    IF \/ ~both.ok
       \/ n * (Len(both.vs) - n) > MaxOrValues
       \/ Len(dest) + n * (Len(both.vs) - n) > MaxOrValues + 1
    THEN OrFail
    ELSE OrOk(FoldLeft(LAMBDA d, i :
                FoldLeft(LAMBDA e, j : Append(e, both.vs[i] \o both.vs[j]),
                         d, [q \in 1..(Len(both.vs) - n) |-> n + q]),
                dest, [q \in 1..n |-> q]))

RECURSIVE get_or_values(_, _), OrValues(_, _, _), OrProduct(_, _, _)
get_or_values(h, dest) ==
    IF Len(dest) > MaxOrValues THEN OrFail ELSE
    CASE h.k = "class" ->
            IF h.two \/ Cardinality(h.cs) > MaxOrValues
            THEN OrFail
            ELSE OrOk(FoldLeft(LAMBDA d, c : Append(d, <<c>>), dest, SortedChars(h.cs)))
      [] h.k = "empty" -> OrOk(Append(dest, <<>>))
      [] h.k = "cap" -> get_or_values(h.sub, dest)
      [] h.k = "lit" -> OrOk(Append(dest, h.s))
      [] h.k = "alt" ->
            FoldLeft(LAMBDA acc, sub :
                       IF ~acc.ok THEN acc
                       ELSE FewEnough(acc.vs, OrValues(get_literal(sub), sub, acc.vs)),
                     OrOk(dest), h.subs)
      [] h.k = "cat" -> OrProduct(get_or_values(h.subs[1], <<>>), h.subs, dest)
      [] OTHER -> OrFail
OrValues(lit, sub, vs) == IF lit.ok THEN OrOk(Append(vs, lit.s)) ELSE get_or_values(sub, vs)
OrProduct(first, subs, dest) ==
    IF ~first.ok THEN OrFail
    ELSE Product(dest, Len(first.vs), get_or_values(TailHir(subs, 2), first.vs))

-----------------------------------------------------------------------------
(* Pattern text.  Only what reading it again can change is kept: its       *)
(* branches (the text between top-level bars), each a sequence of nodes.   *)

TextOf(h) == <<<<h>>>>
JoinText(t, u) == Front(t) \o <<Last(t) \o Head(u)>> \o Tail(u)
EscapedText(s) == TextOf(Literal(s))
ReadText(t) == Alternate([n \in DOMAIN t |-> Concat(t[n])])

\* hir_to_string: literals are printed as they stand, so a metacharacter is
\* read back as one, and the bars of an alternation are not grouped.
RECURSIVE hir_to_string(_)
hir_to_string(h) ==
    CASE h.k = "lit" -> <<[i \in DOMAIN h.s |->
                             IF h.s[i] = DotChar THEN DotClass ELSE Literal(<<h.s[i]>>)]>>
      [] h.k = "cat" -> FoldLeft(LAMBDA t, sub : JoinText(t, hir_to_string(sub)),
                                 <<<<>>>>, h.subs)
      [] h.k = "alt" -> FoldLeft(LAMBDA t, sub : t \o hir_to_string(sub), <<>>, h.subs)
      [] h.k = "rep" -> TextOf(IF is_dot_star(h) THEN DotStar
                               ELSE IF is_dot_plus(h) THEN DotPlus ELSE h)
      [] OTHER -> TextOf(h)


-----------------------------------------------------------------------------

-----------------------------------------------------------------------------
(* PredicateValue *)

PvEmpty == [k |-> "Empty", vs |-> <<>>]
PvString(s) == [k |-> "String", vs |-> <<s>>]
PvList(vs) == [k |-> "List", vs |-> vs]

Texts(pv) == {pv.vs[i] : i \in DOMAIN pv.vs}

pv_matches(pv, s) ==
    CASE pv.k = "Empty" -> s = <<>>
      [] pv.k = "String" -> pv.vs[1] = s
      [] OTHER -> IF s = <<>> THEN pv.vs = <<>> ELSE s \in Texts(pv)

pv_text(pv) == IF pv.k # "Empty" /\ Len(pv.vs) = 1 THEN SomeText(pv.vs[1]) ELSE NoText

pv_is_empty(pv) == Texts(pv) \subseteq {<<>>} /\ (pv.k = "List" => pv.vs = <<>>)

\* validate_contains_value, validate_starts_with_value: every text is there and non-empty.
NonEmptyTexts(pv) == pv.vs # <<>> /\ <<>> \notin Texts(pv)

ContainsText(s, needle) ==
    \E i \in 0..Len(s) : OccursAt(s, needle, i)

matches_contains_any(pv, s) ==
    NonEmptyTexts(pv) /\ \E t \in Texts(pv) : ContainsText(s, t)
matches_not_contains_all(pv, s) ==
    NonEmptyTexts(pv) /\ \A t \in Texts(pv) : ~ContainsText(s, t)
matches_starts_with_any(pv, s) ==
    NonEmptyTexts(pv) /\ \E t \in Texts(pv) : IsPrefix(t, s)
matches_not_starts_with_all(pv, s) ==
    NonEmptyTexts(pv) /\ \A t \in Texts(pv) : ~IsPrefix(t, s)

\* One value stays a single string, several become a list.
PvOf(vs) == IF Len(vs) = 1 THEN PvString(vs[1]) ELSE PvList(vs)

-----------------------------------------------------------------------------
(* decompose_regex *)

Literals(vs) == [k |-> "Literals", vs |-> vs]
PrefixOf(pv) == [k |-> "Prefix", pv |-> pv]
ContainsOf(pv) == [k |-> "Contains", pv |-> pv]
PrefixWithRegex(p, re) == [k |-> "PrefixWithRegex", p |-> p, re |-> re]
RegexOf(re) == [k |-> "Regex", p |-> <<>>, re |-> re]

NoEnd(subs) == IF subs # <<>> /\ Last(subs) = LookEnd THEN Front(subs) ELSE subs
strip_anchors_hir(h) ==
    IF h.k # "cat" THEN h
    ELSE Concat(NoEnd(IF h.subs[1] = LookStart THEN Tail(h.subs) ELSE h.subs))

compile_prefixed_regex(text, prefix) ==
    PrefixWithRegex(prefix, ReadText(JoinText(EscapedText(prefix), text)))

NoPrefix == [ok |-> FALSE, p |-> <<>>, rem |-> <<<<>>>>]

\* repetition_to_prefix_rem: x{n,m} is n copies of x and x{0,m-n}.
CopiesAndRest(rep, lit) ==
    LET more == IF rep.hi = Unbounded THEN Unbounded ELSE rep.hi - rep.lo
    IN  IF ~lit.ok \/ rep.lo = 0 \/ rep.lo * Len(lit.s) > MaxPrefix
        THEN NoPrefix
        ELSE [ok |-> TRUE,
              p |-> FlattenSeq([i \in 1..rep.lo |-> lit.s]),
              rem |-> IF more = 0 THEN <<<<>>>> ELSE TextOf(Repeat(Literal(lit.s), 0, more))]

repetition_to_prefix_rem(rep) == CopiesAndRest(rep, get_literal(rep.sub))

\* The prefix of a node that is a repetition.
RepetitionPrefix(r) == IF r.ok THEN repetition_to_prefix_rem(r.rep) ELSE NoPrefix

finish_prefix_rem(prefix, rem) ==
    IF rem = <<<<>>>> THEN PrefixOf(PvString(prefix)) ELSE compile_prefixed_regex(rem, prefix)

\* How many of the leading nodes are literals.
LeadingLiterals(subs) ==
    CHOOSE n \in 0..Len(subs) :
        /\ \A i \in 1..n : get_literal(subs[i]).ok
        /\ n < Len(subs) => ~get_literal(subs[n + 1]).ok

LiteralRun(subs, n) == FlattenSeq([i \in 1..n |-> get_literal(subs[i]).s])

\* extract_anchored_prefix_or_remainder: "whole" when nothing (or .*) follows.
PrefixAndRest(subs, n) ==
    IF n = 0 THEN [ok |-> FALSE, p |-> <<>>, whole |-> FALSE, rest |-> EmptyHir]
    ELSE [ok |-> TRUE, p |-> LiteralRun(subs, n), rest |-> TailHir(subs, n + 1),
          whole |-> n = Len(subs) \/ is_dot_star(TailHir(subs, n + 1))]
extract_anchored_prefix_or_remainder(h) ==
    PrefixAndRest(IF h.k = "cat" THEN h.subs ELSE <<>>,
                  IF h.k = "cat" THEN LeadingLiterals(h.subs) ELSE 0)

NoValue == [ok |-> FALSE, pv |-> PvEmpty]

\* The texts a node stands for, as a predicate value without empty texts.
ValueOf(pv) == [ok |-> NonEmptyTexts(pv), pv |-> pv]
OrValue(r) == IF ~r.ok \/ r.vs = <<>> THEN NoValue ELSE ValueOf(PvOf(r.vs))
LiteralValue(h) ==
    IF get_literal(h).ok THEN ValueOf(PvString(get_literal(h).s)) ELSE OrValue(get_or_values(h, <<>>))

extract_anchored_prefix_value(h) ==
    IF h.k # "cat" \/ ~is_dot_star(Last(h.subs)) THEN NoValue
    ELSE LiteralValue(Concat(Front(h.subs)))

extract_contains_value(h) ==
    IF \/ h.k # "cat" \/ Len(h.subs) < 3
       \/ ~is_dot_star(h.subs[1]) \/ ~is_dot_star(Last(h.subs))
    THEN NoValue
    ELSE LiteralValue(Concat(Tail(Front(h.subs))))

OrLiterals(h, r) == IF r.ok /\ r.vs # <<>> THEN Literals(r.vs) ELSE RegexOf(h)

NeedleOrLiterals(h, inner, needle) ==
    IF needle.ok THEN ContainsOf(needle.pv) ELSE OrLiterals(h, get_or_values(inner, <<>>))

Alternatives(anch, r) ==
    IF r.ok /\ r.vs # <<>> THEN Literals([i \in DOMAIN r.vs |-> anch.p \o r.vs[i]])
    ELSE compile_prefixed_regex(hir_to_string(anch.rest), anch.p)

FromAnchored(h, inner, anch) ==
    IF ~anch.ok THEN NeedleOrLiterals(h, inner, extract_contains_value(inner))
    ELSE IF anch.whole THEN PrefixOf(PvString(anch.p))
    ELSE Alternatives(anch, get_or_values(anch.rest, <<>>))

\* first: of the leading node of a concatenation; whole: of the whole node.
FromRepetition(h, inner, first, whole) ==
    IF first.ok
    THEN finish_prefix_rem(first.p, JoinText(first.rem, hir_to_string(TailHir(inner.subs, 2))))
    ELSE IF whole.ok THEN finish_prefix_rem(whole.p, whole.rem)
    ELSE FromAnchored(h, inner, extract_anchored_prefix_or_remainder(inner))

FromPrefix(h, inner, prefix) ==
    IF prefix.ok THEN PrefixOf(prefix.pv)
    ELSE FromRepetition(h, inner,
             IF inner.k = "cat" THEN RepetitionPrefix(get_repetition(inner.subs[1])) ELSE NoPrefix,
             RepetitionPrefix(get_repetition(inner)))

FromStripped(h, inner) == FromPrefix(h, inner, extract_anchored_prefix_value(inner))
decompose_regex(h) ==
    IF h = EmptyHir THEN Literals(<<<<>>>>) ELSE FromStripped(h, strip_anchors_hir(h))

-----------------------------------------------------------------------------
(* RegexMatcher: a compiled pattern with the hints that reject a value     *)
(* before the engine runs.  <<>> is the absent prefix or suffix.           *)

\* extract_literal_sequence: literals separated by .* or .+ only.
Piece(acc, sub, lit) ==
    IF lit.ok THEN [acc EXCEPT !.cur = @ \o lit.s]
    ELSE IF is_dot_star(sub) \/ is_dot_plus(sub)
    THEN [acc EXCEPT !.out = IF acc.cur = <<>> THEN @ ELSE Append(@, acc.cur), !.cur = <<>>]
    ELSE [acc EXCEPT !.ok = FALSE]
PiecesRead(end) ==
    IF ~end.ok THEN <<>> ELSE IF end.cur = <<>> THEN end.out ELSE Append(end.out, end.cur)
SubsOf(h) == IF h.k = "cat" THEN h.subs ELSE <<h>>
extract_literal_sequence(h) ==
    PiecesRead(FoldLeft(LAMBDA acc, sub : Piece(acc, sub, get_literal(sub)),
                    [ok |-> TRUE, out |-> <<>>, cur |-> <<>>], SubsOf(h)))

\* extract_trailing_literal_sequence
TrailingRun(subs, n) == LiteralRun(SubSeq(subs, Len(subs) - n + 1, Len(subs)), n)
extract_trailing_literal_sequence(h) == TrailingRun(SubsOf(h), LeadingLiterals(Reverse(SubsOf(h))))

\* The part of the expression the hints are taken from, given the prefix.
RestAfter(prefix, anch) ==
    IF anch.ok /\ anch.p = prefix /\ ~anch.whole THEN anch.rest ELSE EmptyHir
HintPart(inner, prefix) ==
    IF prefix = <<>> THEN inner
    ELSE RestAfter(prefix, extract_anchored_prefix_or_remainder(inner))

WithHints(re, expr, prefix, part) ==
    [re |-> re, value |-> expr, prefix |-> prefix,
     suffix |-> extract_trailing_literal_sequence(part),
     required |-> extract_literal_sequence(part)]
from_parts(re, expr, prefix) ==
    WithHints(re, expr, prefix, HintPart(strip_anchors_hir(expr), prefix))

\* matches_required_literals: the literals occur in s in this order.
matches_required_literals(required, s) ==
    LET occurs(at, lit) ==      \* the end of the first occurrence from "at" on
            LET starts == {i \in at..Len(s) : OccursAt(s, lit, i)}
            IN  IF starts = {} THEN Len(s) + 1
                ELSE Len(lit) + CHOOSE i \in starts : \A j \in starts : i <= j
    IN  FoldLeft(occurs, 0, required) <= Len(s)

re_is_match(m, s) ==
    IF s = <<>> THEN m.prefix = <<>> /\ FullMatch(m.re, s)
    ELSE LET rest == SubSeq(s, Len(m.prefix) + 1, Len(s))
         IN  /\ IsPrefix(m.prefix, s)
             /\ IsSuffix(m.suffix, rest)
             /\ matches_required_literals(m.required, rest)
             /\ FullMatch(m.re, s)

re_cost(m) ==
    LET hints == (IF m.prefix # <<>> THEN 1 ELSE 0) + (IF m.suffix # <<>> THEN 1 ELSE 0)
        lits  == m.required # <<>>
    IN  CASE hints = 2 -> IF lits THEN 12 ELSE 14
          [] hints = 1 -> IF lits THEN 16 ELSE 18
          [] hints = 0 -> IF lits THEN 30 ELSE 50

-----------------------------------------------------------------------------
(* PredicateMatch: an operator with a value (pv) or a regex matcher (re).  *)

NoRegex == [re |-> EmptyHir, value |-> EmptyHir, prefix |-> <<>>, suffix |-> <<>>,
            required |-> <<>>]
ValueMatch(op, pv) == [op |-> op, pv |-> pv, re |-> NoRegex]
RegexMatch(op, re) == [op |-> op, pv |-> PvEmpty, re |-> re]
MatchAll == ValueMatch("MatchAll", PvEmpty)
MatchNone == ValueMatch("MatchNone", PvEmpty)

matches(m, s) ==
    CASE m.op = "Equal" -> pv_matches(m.pv, s)
      [] m.op = "NotEqual" -> ~pv_matches(m.pv, s)
      [] m.op = "MatchAll" -> TRUE
      [] m.op = "MatchNone" -> FALSE
      [] m.op = "RegexEqual" -> re_is_match(m.re, s)
      [] m.op = "RegexNotEqual" -> ~re_is_match(m.re, s)
      [] m.op = "StartsWith" -> matches_starts_with_any(m.pv, s)
      [] m.op = "NotStartsWith" -> matches_not_starts_with_all(m.pv, s)
      [] m.op = "Contains" -> matches_contains_any(m.pv, s)
      [] m.op = "NotContains" -> matches_not_contains_all(m.pv, s)

Negation == [Equal |-> "NotEqual", NotEqual |-> "Equal",
             MatchAll |-> "MatchNone", MatchNone |-> "MatchAll",
             RegexEqual |-> "RegexNotEqual", RegexNotEqual |-> "RegexEqual",
             StartsWith |-> "NotStartsWith", NotStartsWith |-> "StartsWith",
             Contains |-> "NotContains", NotContains |-> "Contains"]

inverse(m) == [m EXCEPT !.op = Negation[@]]

cost(m) ==
    LET n == Len(m.pv.vs)
    IN  CASE m.op \in {"Equal", "NotEqual"} -> n
          [] m.op \in {"MatchAll", "MatchNone"} -> 0
          [] m.op = "RegexEqual" -> re_cost(m.re)
          [] m.op = "RegexNotEqual" -> re_cost(m.re) + 5
          [] m.op \in {"StartsWith", "NotStartsWith"} -> 10 + n
          [] m.op = "Contains" -> 20 + n
          [] m.op = "NotContains" -> 25 + n

\* decomposed_regex_to_predicate_match: the positive operator and its negation.
Signed(isEqual, m) == IF isEqual THEN m ELSE inverse(m)
decomposed_regex_to_predicate_match(expr, d, isEqual) ==
    Signed(isEqual,
           CASE d.k \in {"PrefixWithRegex", "Regex"} ->
                  RegexMatch("RegexEqual", from_parts(d.re, expr, d.p))
             [] d.k = "Prefix" -> ValueMatch("StartsWith", d.pv)
             [] d.k = "Contains" -> ValueMatch("Contains", d.pv)
             [] d.k = "Literals" -> ValueMatch("Equal", PvOf(d.vs)))

parse_regex_matcher(expr, isEqual) ==
    IF is_match_all_regex_pattern(expr)
    THEN IF isEqual THEN MatchAll ELSE MatchNone
    ELSE decomposed_regex_to_predicate_match(expr, decompose_regex(expr), isEqual)

=============================================================================
