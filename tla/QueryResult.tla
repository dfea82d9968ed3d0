----------------------------- MODULE QueryResult -----------------------------
(***************************************************************************)
(* vault_query over the index: which notes match, their order, the groups, *)
(* the totals, and the page of all that fits the characters one result may *)
(* have.  A text is a sequence of character codes; a note has the value of *)
(* one field that is filtered, sorted and grouped by (key), the number of  *)
(* another that is added up (amount), and the characters its row takes.    *)
(***************************************************************************)
EXTENDS Integers, FiniteSets, ResultBudget

CONSTANTS
  MaxChars, MaxRows, MaxGroupPaths,
  MaxNumber,       \* the largest finite number
  LowerCase(_),    \* of one character code
  Spelling(_),     \* of a number
  NullText, NoneKey,
  Frame,           \* characters of a result besides its lists, totals and hints
  SumChars,        \* characters of a total at its widest
  HintChars,       \* of each hint, at its longest
  GroupFrame, PathChars  \* of a group besides its key and paths, and of a path in it

Missing == [kind |-> "missing"]
Null == [kind |-> "null"]
Number(n) == [kind |-> "number", n |-> n]
NoFolder == <<>>
NoLink == [base |-> <<>>, folder |-> NoFolder]
PlainText(s) == [kind |-> "text", s |-> s, link |-> NoLink]
Wikilink(s, folder, base) == [kind |-> "text", s |-> s, link |-> [base |-> base, folder |-> folder]]
Impossible == 0
Date(s, at) == [kind |-> "date", s |-> s, at |-> at]
List(items) == [kind |-> "list", items |-> items]

Lower(s) == [i \in DOMAIN s |-> LowerCase(s[i])]
Before(s, t) ==
  \E k \in 0..Len(s) : /\ k < Len(t) /\ SubSeq(s, 1, k) = SubSeq(t, 1, k)
                       /\ (k < Len(s) => s[k + 1] < t[k + 1])

AsText(v) ==
  CASE v.kind = "number" -> Spelling(v.n)
    [] v.kind \in {"text", "date"} -> v.s
    [] v.kind = "null" -> NullText
    [] OTHER -> FlattenSeq([i \in DOMAIN v.items |-> v.items[i].s])

-----------------------------------------------------------------------------
(* Conditions *)

Sign(n) == IF n = 0 THEN 0 ELSE IF n < 0 THEN -1 ELSE 1

\* Mutant: values of two kinds are never equal.
TypedCompareKinds(a, b) ==
  IF a.kind # b.kind THEN 1
  ELSE IF Lower(AsText(a)) = Lower(AsText(b)) THEN 0 ELSE IF Before(Lower(AsText(a)), Lower(AsText(b))) THEN -1 ELSE 1

\* Numbers as numbers, dates as dates, anything else as text without case.  A
\* date that does not exist is after every date, itself included.
TypedCompare(a, b) ==
  LET s == Lower(AsText(a))  t == Lower(AsText(b))
  IN CASE a.kind = "number" /\ b.kind = "number" -> Sign(a.n - b.n)
       [] a.kind = "date" /\ b.kind = "date" -> IF Impossible \in {a.at, b.at} THEN 1 ELSE Sign(a.at - b.at)
       [] OTHER -> IF s = t THEN 0 ELSE IF Before(s, t) THEN -1 ELSE 1

IsLink(v) == v.kind = "text" /\ v.link # NoLink
HasKey(v) == v.kind \in {"text", "number", "date"}
LinkKey(v) == IF IsLink(v) THEN [base |-> Lower(v.link.base), folder |-> Lower(v.link.folder)]
              ELSE [base |-> Lower(AsText(v)), folder |-> NoFolder]

SameLinkKey(a, b) ==
  /\ HasKey(a) /\ HasKey(b) /\ (IsLink(a) \/ IsLink(b))
  /\ LinkKey(a).base = LinkKey(b).base
  /\ NoFolder \in {LinkKey(a).folder, LinkKey(b).folder} \/ LinkKey(a).folder = LinkKey(b).folder

Elements(v) == IF v.kind = "list" THEN ToSet(v.items) ELSE {v}
ElementMatches(el, wanted) == \E w \in wanted : TypedCompare(el, w) = 0 \/ SameLinkKey(el, w)

MatchesEq(v, w) ==
  /\ v # Missing
  /\ IF v = Null \/ w = Null THEN v = w ELSE \E el \in Elements(v) : ElementMatches(el, {w})

MatchesIn(v, ws) ==
  /\ v # Missing
  /\ IF v = Null THEN Null \in ws ELSE \E el \in Elements(v) : ElementMatches(el, ws)

Within(s, t) == \E i \in 0..Len(t) - Len(s) : SubSeq(t, i + 1, i + Len(s)) = s

MatchesText(v, needles, op) ==
  /\ v \notin {Missing, Null}
  /\ \E n \in needles, el \in Elements(v) :
       LET s == Lower(AsText(n))
           t == Lower(AsText(el))
       IN  IF op = "contains" THEN Within(s, t) ELSE IsPrefix(s, t)

MatchesExists(v, wanted) == wanted <=> v # Missing
MatchesNonEmpty(v) == v \notin {Missing, Null, PlainText(<<>>), List(<<>>)}

\* Mutant: gt also finds the value itself.
MatchesOrderLoosely(v, w, op) ==
  v # Missing /\ IF op \in {"gt", "gte"} THEN TypedCompare(v, w) >= 0 ELSE TypedCompare(v, w) <= 0

MatchesOrder(v, w, op) ==
  /\ v # Missing
  /\ CASE op = "gt" -> TypedCompare(v, w) > 0
       [] op = "gte" -> TypedCompare(v, w) >= 0
       [] op = "lt" -> TypedCompare(v, w) < 0
       [] op = "lte" -> TypedCompare(v, w) <= 0

Holds(c, v) ==
  LET w == CHOOSE w \in c.values : TRUE
  IN CASE c.op = "eq" -> MatchesEq(v, w)
       [] c.op = "neq" -> ~MatchesEq(v, w)
       [] c.op = "in" -> MatchesIn(v, c.values)
       [] c.op \in {"contains", "startsWith"} -> MatchesText(v, c.values, c.op)
       [] c.op = "exists" -> MatchesExists(v, TRUE)
       [] c.op = "missing" -> MatchesExists(v, FALSE)
       [] c.op = "nonEmpty" -> MatchesNonEmpty(v)
       [] OTHER -> MatchesOrder(v, w, c.op)

MatchesPathPrefix(path, prefix) == prefix = <<>> \/ IsStrictPrefix(prefix, path)

TagFilterMatches(tags, filter) == \E t \in tags : IsPrefix(filter, t)
PassesTagFilters(tags, f) ==
  /\ f.any # {} => \E t \in f.any : TagFilterMatches(tags, t)
  /\ \A t \in f.all : TagFilterMatches(tags, t)
  /\ ~\E t \in f.none : TagFilterMatches(tags, t)

\* A note without the field comes first, either way.
CompareBySortKey(a, b, order) ==
  IF a.key = Missing /\ b.key = Missing THEN 0
  ELSE IF a.key = Missing THEN -1
  ELSE IF b.key = Missing THEN 1
  ELSE IF order = "desc" THEN -TypedCompare(a.key, b.key)
  ELSE TypedCompare(a.key, b.key)

\* A stable sort; with values of several kinds the order is whatever comes out.
Sorted(notes, order) ==
  FoldLeft(LAMBDA done, e :
             LET k == Cardinality({i \in DOMAIN done : CompareBySortKey(done[i], e, order) <= 0})
             IN InsertAt(done, k + 1, e),
           <<>>, notes)

MatchEntries(notes, q) ==
  LET matched == SelectSeq(notes, LAMBDA e :
        /\ MatchesPathPrefix(e.path, q.prefix) /\ PassesTagFilters(e.tags, q.tags)
        /\ \A c \in q.where : Holds(c, e.key))
  IN IF q.sort = "none" THEN matched ELSE Sorted(matched, q.sort)

-----------------------------------------------------------------------------
(* Totals and groups, over every match *)

Overflow == MaxNumber + 1
Finite(n) == -MaxNumber <= n /\ n <= MaxNumber

\* Mutant: a total that overflows on the way stays so.
TotalPlain(values) ==
  FoldLeft(LAMBDA t, v : IF t = Overflow \/ ~Finite(t + v) THEN Overflow ELSE t + v, 0, values)

\* Plain addition while it lasts; the scaled total only when that has overflowed.
Total(values) ==
  LET plain == FoldLeft(LAMBDA t, v : IF t = Overflow \/ ~Finite(t + v) THEN Overflow ELSE t + v, 0, values)
      scaled == FoldLeft(LAMBDA t, v : t + v, 0, values)
  IN IF Finite(plain) THEN plain ELSE IF Finite(scaled) THEN scaled ELSE Overflow

Amounts(notes) ==
  LET counted == SelectSeq(notes, LAMBDA e : e.amount.kind = "number") IN [i \in DOMAIN counted |-> counted[i].amount.n]

GroupKey(v) == IF v = Missing THEN NoneKey ELSE AsText(v)
GroupKeys(v) == IF v = List(<<>>) THEN {NoneKey} ELSE {GroupKey(el) : el \in Elements(v)}

\* One group per value, in the order of the keys; a note with a list is in several.
BuildGroups(notes) ==
  LET keys == SetToSortSeq(UNION {GroupKeys(e.key) : e \in ToSet(notes)}, Before)
      Members(k) == SelectSeq(notes, LAMBDA e : k \in GroupKeys(e.key))
  IN [i \in DOMAIN keys |->
        [key |-> keys[i], count |-> Len(Members(keys[i])), sum |-> Total(Amounts(Members(keys[i]))),
         paths |-> IF Len(Members(keys[i])) < MaxGroupPaths THEN Len(Members(keys[i])) ELSE MaxGroupPaths]]

ApplyGroupPrefix(groups, prefix) == SelectSeq(groups, LAMBDA g : IsPrefix(prefix, g.key))

-----------------------------------------------------------------------------
(* The page *)

GroupChars(g) == GroupFrame + Len(g.key) + g.paths * PathChars
RowChars(e) == e.chars
GroupCosts(groups) == [i \in DOMAIN groups |-> GroupChars(groups[i])]
RowCosts(rows) == [i \in DOMAIN rows |-> RowChars(rows[i])]
HintsChars(hints) == FoldLeft(LAMBDA n, h : n + HintChars[h] + 1, 0, SetToSeq(hints))

\* Mutant: the hints are not paid for.
WrapperCharsBare(q) == Frame + (IF q.group THEN 4 ELSE 2) + (IF q.sum THEN SumChars ELSE 0)

\* What a result of this query costs besides its rows and groups, with every hint it could carry.
WrapperChars(q) ==
  Frame + (IF q.group THEN 4 ELSE 2) + (IF q.sum THEN SumChars ELSE 0)
    + HintsChars(DOMAIN HintChars \ (IF q.sum THEN {} ELSE {"overflow"}))

\* Mutant: the groups that are kept are the first ones.
ByKey(groups) == SetToSortSeq(ToSet(groups), LAMBDA a, b : Before(a.key, b.key))

BySize(groups) ==
  SetToSortSeq(ToSet(groups), LAMBDA a, b : a.count > b.count \/ (a.count = b.count /\ Before(a.key, b.key)))

\* The example paths go first; then the smallest groups.
FitGroups(all, budget, countsOnly, total) ==
  LET bare == [i \in DOMAIN all |-> [all[i] EXCEPT !.paths = 0]]
      whole == IF countsOnly THEN bare ELSE all
      heavy == Serialized(GroupCosts(whole)) > budget
      cut == heavy /\ Serialized(GroupCosts(bare)) > budget
      keep == ToSet(FitWithinBudget(BySize(bare), GroupCosts(BySize(bare)), budget).kept)
  IN [groups |-> IF cut THEN SelectSeq(bare, LAMBDA g : g \in keep) ELSE IF heavy THEN bare ELSE whole,
      hints |-> (IF heavy /\ ~countsOnly THEN {"pathsDropped"} ELSE {}) \union (IF cut THEN {"groupsShown"} ELSE {}),
      cut |-> cut,
      overlapping |-> FoldLeft(LAMBDA n, g : n + g.count, 0, all) > total]

NoGroups == [groups |-> <<>>, hints |-> {}, cut |-> FALSE, overlapping |-> FALSE]

AtMost(n, m) == IF n < m THEN n ELSE m
AtLeast(n, m) == IF n > m THEN n ELSE m

EvaluateQuery(notes, q) ==
  LET matched == MatchEntries(notes, q)
      total == Len(matched)
      limit == AtMost(AtLeast(q.limit, 0), MaxRows)
      limited == SubSeq(matched, 1, AtMost(limit, total))
      room == AtLeast(MaxChars - WrapperChars(q), 0)
      all == IF q.group THEN ApplyGroupPrefix(BuildGroups(matched), q.groupPrefix) ELSE <<>>
      fitted == IF q.group THEN FitGroups(all, IF q.countOnly THEN room ELSE room \div 2, q.countOnly, total) ELSE NoGroups
      page == IF q.countOnly THEN [kept |-> <<>>, cut |-> FALSE]
              ELSE FitWithinBudget(limited, RowCosts(limited), room - (IF q.group THEN Serialized(GroupCosts(fitted.groups)) ELSE 0))
      sum == Total(Amounts(matched))
      overflowed == q.sum /\ (sum = Overflow \/ \E i \in DOMAIN all : all[i].sum = Overflow)
  IN [rows |-> page.kept, total |-> total, groups |-> fitted.groups,
      truncated |-> (~q.countOnly /\ total > limit) \/ page.cut \/ fitted.cut,
      sum |-> IF q.sum THEN sum ELSE 0,
      hints |-> (IF page.cut THEN {"budget"} \union (IF q.group THEN {"groupsTook"} ELSE {}) ELSE {})
                  \union fitted.hints \union (IF overflowed THEN {"overflow"} ELSE {})
                  \union (IF fitted.overlapping THEN {"overlapping"} ELSE {})]

\* The characters of the result as it travels.
ResultChars(q, r) ==
  Frame + (IF q.sum THEN SumChars ELSE 0) + HintsChars(r.hints)
    + Serialized(RowCosts(r.rows)) + (IF q.group THEN Serialized(GroupCosts(r.groups)) ELSE 0)

-----------------------------------------------------------------------------
\* A result fits what a client accepts.
Fits(notes, q) ==
  WrapperChars(q) <= MaxChars => ResultChars(q, EvaluateQuery(notes, q)) <= MaxChars

\* What a result leaves out it says: rows it cut, and groups; and the groups it
\* keeps are the largest of those that fit at all.
SaysWhatIsCut(notes, q) ==
  LET r == EvaluateQuery(notes, q)
      all == ApplyGroupPrefix(BuildGroups(MatchEntries(notes, q)), q.groupPrefix)
      shown == {g.key : g \in ToSet(r.groups)}
      budget == AtLeast(MaxChars - WrapperChars(q), 0) \div (IF q.countOnly THEN 1 ELSE 2)
      Hideable(g) == g.key \notin shown /\ GroupFrame + Len(g.key) + 2 <= budget
  IN /\ ~q.countOnly /\ Len(r.rows) < r.total => r.truncated
     /\ ~q.countOnly /\ Len(r.rows) < AtMost(r.total, AtMost(q.limit, MaxRows)) => "budget" \in r.hints
     /\ q.group /\ Len(r.groups) < Len(all) => r.truncated /\ "groupsShown" \in r.hints
     /\ q.group => \A i, j \in DOMAIN all :
          all[i].key \in shown /\ Hideable(all[j]) => all[i].count >= all[j].count

\* The counts and totals are those of every match, whatever was cut; group
\* counts that add up to something else come with the hint that says so.
CountsEveryMatch(notes, q) ==
  LET r == EvaluateQuery(notes, q)
      matched == SelectSeq(notes, LAMBDA e : e \in ToSet(MatchEntries(notes, q)))
      exact == FoldLeft(LAMBDA t, v : t + v, 0, Amounts(matched))
  IN /\ r.total = Len(matched)
     /\ q.sum => IF Finite(exact) THEN r.sum = exact ELSE r.sum = Overflow /\ "overflow" \in r.hints
     /\ q.group /\ q.groupPrefix = <<>> /\ Len(r.groups) = Len(BuildGroups(matched)) =>
          (FoldLeft(LAMBDA n, g : n + g.count, 0, r.groups) # r.total => "overlapping" \in r.hints)

\* A group's key, asked for with eq, lists the notes of the group (those of
\* equal text without case may come along).  Neither a missing field nor null
\* is found by its text, and a date that does not exist is not even by itself.
KeyFindsGroup(notes) ==
  LET values == UNION {Elements(e.key) : e \in ToSet(notes)}
      Sought(v) == IF v.kind = "number" THEN PlainText(AsText(v)) ELSE v
  IN \A v \in values, e \in ToSet(notes) :
       /\ v \notin {Missing, Null}
       /\ v.kind = "date" => v.at # Impossible
       /\ GroupKey(v) \in GroupKeys(e.key) /\ e.key # Null
       => MatchesEq(e.key, Sought(v))

\* in finds what eq finds of each of its values; null alone also finds the text "null".
InIsAnyEq(notes, values) ==
  \A e \in ToSet(notes) :
    \/ MatchesIn(e.key, values) <=> \E w \in values : MatchesEq(e.key, w)
    \/ Null \in values /\ \E el \in Elements(e.key) : Lower(AsText(el)) = NullText

\* The way on that the hint names: sorted, then past the last row returned.  It
\* reaches every other match when the sort key tells the notes apart.
PagesOn(notes, q) ==
  LET matched == MatchEntries(notes, q)
      r == EvaluateQuery(notes, q)
      kinds == {e.key.kind : e \in ToSet(matched)}
      Past == [op |-> IF q.sort = "asc" THEN "gt" ELSE "lt", values |-> {Last(r.rows).key}]
      next == MatchEntries(notes, [q EXCEPT !.where = @ \union {Past}])
  IN q.sort # "none" /\ r.rows # <<>> /\ r.rows = SubSeq(matched, 1, Len(r.rows)) /\
     (kinds \in {{"number"}, {"text"}} \/ (kinds = {"date"} /\ \A e \in ToSet(matched) : e.key.at # Impossible)) /\
     (\A i, j \in DOMAIN matched : i # j => TypedCompare(matched[i].key, matched[j].key) # 0)
     => r.rows \o next = matched
==============================================================================
