----------------------------- MODULE TextSearch -----------------------------
(***************************************************************************)
(* vault_search: the notes the filter lets through, the backend asked for  *)
(* their lines in lists it accepts, and the hits that fit one result.  A   *)
(* vault is [lines: file -> number of its matching lines, indexed: the     *)
(* files the index knows, in its order]; a backend reads the files in an   *)
(* order of its own, one after another, and stops at its limit.            *)
(***************************************************************************)
EXTENDS Naturals, FiniteSets, ResultBudget

CONSTANTS
  MaxRows, MaxPaths, MaxScan, MaxFrontmatterHits,
  Room,                \* characters the hits of a result may take
  HitChars, FileChars  \* of a hit, and of a file in the list of files

Least(n, m) == IF n < m THEN n ELSE m
Hit(p, line) == [path |-> p, line |-> line]
LinesOf(vault, p) == [line \in 1..vault.lines[p] |-> Hit(p, line)]
InOrder(a, b) == a.path < b.path \/ (a.path = b.path /\ a.line < b.line)

\* The adapter's search: at most limit hits, sorted; the scope of a call is all files or a list.
AdapterSearch(vault, order, limit, scope) ==
  LET read == SelectSeq(order, LAMBDA p : p \in scope)
      raw == FlattenSeq([i \in DOMAIN read |-> LinesOf(vault, read[i])])
      atMost == Least(limit, MaxScan)
  IN SetToSortSeq(ToSet(SubSeq(raw, 1, Least(atMost, Len(raw)))), InOrder)

Accepts(paths) == Len(paths) <= MaxPaths

\* The notes that pass tags, where and pathPrefix, and of the first of them those of the glob.
ComputeCandidates(vault, filter) ==
  LET matched == SelectSeq(vault.indexed, LAMBDA p : p \in filter.where)
      first == SubSeq(matched, 1, Least(MaxRows, Len(matched)))
  IN [paths |-> SelectSeq(first, LAMBDA p : p \in filter.glob), incomplete |-> Len(matched) > MaxRows]

Chunks(paths) ==
  [i \in 1..(Len(paths) + MaxPaths - 1) \div MaxPaths |->
     SubSeq(paths, (i - 1) * MaxPaths + 1, Least(i * MaxPaths, Len(paths)))]

\* Mutant: a list whose hits fill the limit does not count as cut.
SearchInChunksFull(vault, order, paths, max) ==
  LET Ask(acc, chunk) ==
        LET remaining == max - Len(acc.matches)
            found == AdapterSearch(vault, order, remaining, ToSet(chunk))
        IN IF acc.truncated THEN acc
           ELSE [matches |-> acc.matches \o found, truncated |-> Len(found) > remaining]
  IN FoldLeft(Ask, [matches |-> <<>>, truncated |-> FALSE], Chunks(paths))

\* One call after another until the hits asked for are there.
SearchInChunks(vault, order, paths, max) ==
  LET Ask(acc, chunk) ==
        LET remaining == max - Len(acc.matches)
            found == AdapterSearch(vault, order, remaining, ToSet(chunk))
        IN IF acc.truncated THEN acc
           ELSE [matches |-> acc.matches \o found, truncated |-> Len(found) >= remaining]
  IN FoldLeft(Ask, [matches |-> <<>>, truncated |-> FALSE], Chunks(paths))

\* Mutant: only hits that were dropped at the end count as cut.
SearchScanAndFilterQuiet(vault, order, filter, max) ==
  LET scanned == AdapterSearch(vault, order, MaxScan, ToSet(order))
      filtered == SelectSeq(scanned, LAMBDA m :
                    m.path \in ToSet(vault.indexed) /\ m.path \in filter.where \intersect filter.glob)
  IN [matches |-> SubSeq(filtered, 1, Least(max, Len(filtered))), truncated |-> Len(filtered) > max]

\* Too many candidates for lists: everything is scanned, and what does not pass dropped.
SearchScanAndFilter(vault, order, filter, max) ==
  LET scanned == AdapterSearch(vault, order, MaxScan, ToSet(order))
      filtered == SelectSeq(scanned, LAMBDA m :
                    m.path \in ToSet(vault.indexed) /\ m.path \in filter.where \intersect filter.glob)
  IN [matches |-> SubSeq(filtered, 1, Least(max, Len(filtered))),
      truncated |-> Len(scanned) >= MaxScan \/ Len(filtered) > max]

Plainly(vault, order, scope, max) ==
  LET found == AdapterSearch(vault, order, max, scope) IN [matches |-> found, truncated |-> Len(found) >= max]

Found(vault, order, filter, max) ==
  LET candidates == ComputeCandidates(vault, filter)
  IN  IF ~filter.asked THEN Plainly(vault, order, ToSet(order), max)
      ELSE IF candidates.incomplete THEN SearchScanAndFilter(vault, order, filter, max)
      ELSE IF candidates.paths = <<>> THEN [matches |-> <<>>, truncated |-> FALSE]
      ELSE IF Accepts(candidates.paths) THEN Plainly(vault, order, ToSet(candidates.paths), max)
      ELSE SearchInChunks(vault, order, candidates.paths, max)

\* The hits travel twice: as they are, and grouped by file.
FilesOf(matches) == {m.path : m \in ToSet(matches)}
Weight(matches) == Serialized([i \in DOMAIN matches |-> HitChars]) + Len(matches) * HitChars + Cardinality(FilesOf(matches)) * FileChars

RECURSIVE LongestFit(_, _, _)
LongestFit(matches, low, high) ==
  LET mid == (low + high + 1) \div 2
  IN  IF low >= high THEN low
      ELSE IF Weight(SubSeq(matches, 1, mid)) <= Room THEN LongestFit(matches, mid, high)
      ELSE LongestFit(matches, low, mid - 1)

VaultSearch(vault, order, filter, max) ==
  LET found == Found(vault, order, filter, max)
      heavy == Weight(found.matches) > Room
      fit == IF heavy THEN LongestFit(found.matches, 0, Len(found.matches)) ELSE Len(found.matches)
      noCandidates == filter.asked /\ ~ComputeCandidates(vault, filter).incomplete /\ ComputeCandidates(vault, filter).paths = <<>>
  IN [matches |-> SubSeq(found.matches, 1, fit), truncated |-> found.truncated \/ heavy,
      hint |-> IF fit > 0 THEN "none" ELSE IF noCandidates THEN "filter" ELSE IF found.truncated THEN "scanLimit" ELSE "noMatch"]

\* vault_search_frontmatter over the hits of the index under the prefix, each of its own size.
SearchFrontmatter(hits) ==
  LET capped == SubSeq(hits, 1, Least(MaxFrontmatterHits, Len(hits)))
      fitted == FitWithinBudget(capped, capped, Room)
  IN [hits |-> fitted.kept, total |-> Len(hits), truncated |-> fitted.cut \/ Len(hits) > MaxFrontmatterHits]

-----------------------------------------------------------------------------
Passing(vault, order, filter) ==
  IF filter.asked THEN ToSet(vault.indexed) \intersect filter.where \intersect filter.glob ELSE ToSet(order)

\* A search that does not say it was cut has every line of every file that
\* passes the filter, whatever the order the backend reads in, and none of
\* another; one that found nothing names the reason it found nothing.
SearchIsWhole(vault, order, filter, max) ==
  LET r == VaultSearch(vault, order, filter, max)
      all == UNION {ToSet(LinesOf(vault, p)) : p \in Passing(vault, order, filter)}
  IN /\ ToSet(r.matches) \subseteq all
     /\ Len(r.matches) = Cardinality(ToSet(r.matches)) /\ Len(r.matches) <= max
     /\ ~r.truncated => ToSet(r.matches) = all
     /\ Weight(r.matches) <= Room
     /\ r.hint = "filter" => Passing(vault, order, filter) = {}
     /\ r.hint = "noMatch" => all = {}

\* Hits are missing only from a result that says so, and total counts them all.
FrontmatterIsWhole(hits) ==
  LET r == SearchFrontmatter(hits)
  IN /\ r.total = Len(hits)
     /\ ~r.truncated => r.hits = hits
     /\ Serialized(r.hits) <= (IF r.hits = <<>> THEN 2 ELSE Room)
=============================================================================
