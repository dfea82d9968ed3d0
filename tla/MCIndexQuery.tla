---------------------------- MODULE MCIndexQuery ----------------------------
(***************************************************************************)
(* Small instances of the index and of what answers from it, one per part: *)
(* the index under its writers (IndexRefresh), a query over a few notes    *)
(* (QueryResult), a search through a few files (TextSearch) and a read of  *)
(* several notes (BatchRead).                                              *)
(***************************************************************************)
EXTENDS MCIndexRefresh, TLC

VARIABLES part, notes, query, vault, filter, batch, offers

indexVars == <<disk, clock, faults, queue, entries, withdrawals, unreadable, unindexable, reads, sweep, tool, told, touched>>
askVars == <<notes, query, vault, filter, batch, offers>>
mcVars == <<part, indexVars, askVars>>

-----------------------------------------------------------------------------
\* Characters are numbers; 11 to 19 are the upper case of 21 to 29.
LowerCased(c) == IF c \in 11..19 THEN c + 10 ELSE c
Spelled(n) == IF n < 0 THEN <<-1, -n>> ELSE IF n < 10 THEN <<n>> ELSE <<n \div 10, n % 10>>
HintLengths == [budget |-> 3, groupsTook |-> 1, pathsDropped |-> 1, groupsShown |-> 1, overlapping |-> 1, overflow |-> 2]

Q == INSTANCE QueryResult WITH
  MaxChars <- 40, MaxRows <- 3, MaxGroupPaths <- 2, MaxNumber <- 5, LowerCase <- LowerCased, Spelling <- Spelled,
  NullText <- <<30>>, NoneKey <- <<31>>, Frame <- 4, SumChars <- 4, HintChars <- HintLengths, GroupFrame <- 3, PathChars <- 4

T(s) == Q!PlainText(s)
\* Values of every kind: 10 and 2, whose text sorts the other way; texts that
\* differ in case; the text "null"; a link by name and one by path; two dates
\* and one that does not exist; lists.
Keys ==
  <<Q!Missing, Q!Null, Q!Number(10), Q!Number(2), T(<<11>>), T(<<1, 21>>), T(<<30>>),
    Q!Wikilink(<<40, 21>>, <<>>, <<21>>), Q!Wikilink(<<40, 22, 43, 21>>, <<22>>, <<21>>),
    Q!Date(<<2, 1, 50>>, 2), Q!Date(<<2, 1>>, 1), Q!Date(<<9>>, Q!Impossible),
    Q!List(<<>>), Q!List(<<T(<<21>>), T(<<22>>)>>)>>
Amounts == <<Q!Number(4), Q!Number(4), Q!Number(-4)>>
RowChars == <<8, 3, 40>>
NotePaths == <<<<1, 1>>, <<1, 2>>, <<12, 1>>>>
NoteTags == <<{<<1>>}, {<<1, 2>>}, {}>>
Note(i, key) == [path |-> NotePaths[i], tags |-> NoteTags[i], key |-> key, amount |-> Amounts[i], chars |-> RowChars[i]]

Cond(op, values) == [op |-> op, values |-> values]
Conditions ==
  {{}, {Cond("eq", {T(<<21>>)})}, {Cond("neq", {Q!Number(2)})}, {Cond("in", {Q!Null, Q!Number(2)})},
   {Cond("gt", {Q!Number(2)})}, {Cond("contains", {T(<<21>>)})}, {Cond("startsWith", {T(<<1>>), T(<<11>>)})},
   {Cond("exists", {Q!Null})}, {Cond("nonEmpty", {Q!Null})}}
Plain == [where |-> {}, prefix |-> <<>>, tags |-> [any |-> {}, all |-> {}, none |-> {}], sort |-> "none", limit |-> 2,
          group |-> FALSE, groupPrefix |-> <<>>, countOnly |-> FALSE, sum |-> FALSE]
Queries ==
  {[Plain EXCEPT !.sort = s, !.limit = l, !.group = g, !.sum = u] :
     s \in {"none", "asc", "desc"}, l \in {1, 5}, g, u \in BOOLEAN}
  \union {[Plain EXCEPT !.limit = l, !.group = g, !.countOnly = TRUE, !.sum = u] : l \in {1, 5}, g, u \in BOOLEAN}
  \union {[Plain EXCEPT !.where = w, !.group = TRUE] : w \in Conditions}
  \union {[Plain EXCEPT !.prefix = <<1>>, !.tags.any = {<<1>>}],
          [Plain EXCEPT !.tags.none = {<<1, 2>>}, !.groupPrefix = <<2>>, !.group = TRUE]}

\* A note more, its key not before that of the last; or the question.
AddNote ==
  /\ query = Plain /\ Len(notes) < 3
  /\ \E k \in DOMAIN Keys :
       /\ notes # <<>> => \E j \in 1..k : Keys[j] = notes[Len(notes)].key
       /\ notes' = Append(notes, Note(Len(notes) + 1, Keys[k]))
  /\ UNCHANGED query
Ask == query = Plain /\ notes # <<>> /\ query' \in Queries /\ UNCHANGED notes

-----------------------------------------------------------------------------
S == INSTANCE TextSearch WITH
  MaxRows <- 3, MaxPaths <- 2, MaxScan <- 4, MaxFrontmatterHits <- 3, Room <- 20, HitChars <- 3, FileChars <- 1

Files == 1..4
Orders == {<<1, 2, 3, 4>>, <<4, 2, 1, 3>>, <<3, 1, 4, 2>>}
Filters == [asked : BOOLEAN, where : SUBSET Files, glob : {Files, {1, 2}, {3}}]
NoFilter == [asked |-> FALSE, where |-> Files, glob |-> Files]
HitSizes == UNION {[1..n -> {3, 7, 30}] : n \in 0..4}

\* The files a search finds, of which the index may not know all; then the filter.
Fill == vault = <<>> /\ vault' \in [Files -> 0..2] /\ UNCHANGED filter
Choose == vault # <<>> /\ filter = NoFilter /\ filter' \in Filters /\ UNCHANGED vault

-----------------------------------------------------------------------------
R == INSTANCE BatchRead WITH
  ClientSafe <- 60, Shell <- 5, Flag <- 2, Marker <- 3, Hints <- 4, Key <- 2, Reserve <- 4, LeastRoom <- 6

Texts ==
  {<<>>, <<"p">>, <<"c">>, <<"c", "c", "p">>, <<"h", "l", "c">>, <<"p", "h", "l">>,
   <<"p", "p", "p", "p", "h", "l", "c", "p">>, <<"c", "p", "c", "c", "h", "l">>}
Suggested == {<<>>, <<[all |-> 5, first |-> 2]>>, <<[all |-> 7, first |-> 3], [all |-> 4, first |-> 2]>>}

AskFor ==
  /\ Len(batch) < 3
  /\ \E text \in Texts, chars \in {2, 9} : batch' = Append(batch, [text |-> text, frontmatter |-> chars])
  /\ UNCHANGED offers

-----------------------------------------------------------------------------
MCInit ==
  /\ part \in {"index", "query", "search", "batch"}
  /\ Init /\ (part # "index" => disk = [p \in Paths |-> 1])
  /\ notes = <<>> /\ query = Plain /\ vault = <<>> /\ filter = NoFilter /\ batch = <<>>
  /\ offers \in Suggested /\ (part # "batch" => offers = <<>>)

MCNext ==
  \/ part = "index" /\ Next /\ UNCHANGED <<part, askVars>>
  \/ part = "query" /\ (AddNote \/ Ask) /\ UNCHANGED <<part, indexVars, vault, filter, batch, offers>>
  \/ part = "search" /\ (Fill \/ Choose) /\ UNCHANGED <<part, indexVars, notes, query, batch, offers>>
  \/ part = "batch" /\ AskFor /\ UNCHANGED <<part, indexVars, notes, query, vault, filter>>

MCSpec == MCInit /\ [][MCNext]_mcVars

\* What a query answers, says of what it leaves out, and lets be asked next:
\* see QueryResult.
QueryHolds(found, asked) ==
  /\ Q!Fits(found, asked) /\ Q!SaysWhatIsCut(found, asked) /\ Q!CountsEveryMatch(found, asked) /\ Q!PagesOn(found, asked)
  /\ asked = Plain => Q!KeyFindsGroup(found)
  /\ asked = Plain /\ Len(found) = 1 =>
       \A values \in SUBSET {Keys[i] : i \in 2..12} :
         Cardinality(values) \in 1..2 => Q!InIsAnyEq(found, values)

\* A search leaves out nothing it does not say: see TextSearch.
SearchHolds(lines, asked) ==
  \A order \in Orders, indexed \in {<<1, 2, 3, 4>>, <<2, 4, 1>>}, max \in 1..3 :
    S!SearchIsWhole([lines |-> lines, indexed |-> indexed], order, asked, max)

\* What the tools answer from the index and the files, of all the notes asked
\* for, is right or says what it leaves out, for every vault and question that
\* a step leads to: see also BatchRead.
AnswersHold ==
  [][/\ part = "query" => QueryHolds(notes', query')
     /\ part = "search" => SearchHolds(vault', filter')
     /\ part = "search" /\ vault = <<>> => \A hits \in HitSizes : S!FrontmatterIsWhole(hits)
     /\ part = "batch" => \A maxChars \in {2, 100} : R!BatchFits(batch', offers, maxChars)]_mcVars
=============================================================================
