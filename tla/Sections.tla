------------------------------ MODULE Sections ------------------------------
(***************************************************************************)
(* A note as its lines, and the sections its headings name: how a heading  *)
(* path is resolved, which paths are offered, where a text is inserted and *)
(* when a unique append finds it already there.                            *)
(*                                                                         *)
(* A content is the sequence of the chunks between its line breaks, so a   *)
(* note that ends with a line break ends with a Blank.  A line is masked   *)
(* text or a heading; names are sequences of the parts between ">", so the *)
(* path of B under A and the text of the heading "# A > B" are both        *)
(* <<A, B>>.  Letter case, line ending style and frontmatter are left out. *)
(***************************************************************************)
EXTENDS Naturals, Sequences, SequencesExt, FiniteSetsExt

Blank == [kind |-> "blank"]
\* A text line and the targets of its links, as canonicalised.
Said(words, links) == [kind |-> "text", words |-> words, links |-> links]
Heading(level, name) == [kind |-> "heading", level |-> level, name |-> name, links |-> <<>>]

None == [kind |-> "none"]

\* The headings in file order, with their lines.
ExtractHeadings(content) ==
  LET lines == SetToSortSeq({i \in DOMAIN content : content[i].kind = "heading"}, <)
  IN [k \in DOMAIN lines |-> [level |-> content[lines[k]].level, text |-> content[lines[k]].name, line |-> lines[k]]]

\* Mutant: a section goes on through headings of its own level.
RangeForHigher(headings, i, total) ==
  LET closers == {j \in (i + 1)..Len(headings) : headings[j].level < headings[i].level}
  IN [kind |-> "range", level |-> headings[i].level, heading |-> headings[i].text, startLine |-> headings[i].line,
      endLine |-> IF closers = {} THEN total ELSE headings[Min(closers)].line - 1]

RangeFor(headings, i, total) ==
  LET closers == {j \in (i + 1)..Len(headings) : headings[j].level <= headings[i].level}
  IN [kind |-> "range", level |-> headings[i].level, heading |-> headings[i].text, startLine |-> headings[i].line,
      endLine |-> IF closers = {} THEN total ELSE headings[Min(closers)].line - 1]

RECURSIVE ResolveSegments(_, _, _, _, _, _)
ResolveSegments(headings, segments, from, to, parentLevel, total) ==
  LET candidates == {i \in DOMAIN headings : headings[i].line \in from..to /\ headings[i].level > parentLevel
                                               /\ headings[i].text = Head(segments)}
      Below(i) ==
        LET range == RangeFor(headings, i, total)
        IN IF Len(segments) = 1 THEN range
           ELSE ResolveSegments(headings, Tail(segments), range.startLine, range.endLine, range.level, total)
      reached == {i \in candidates : Below(i) # None}
  IN  IF reached = {} THEN None ELSE Below(Min(reached))

\* The parts as a path of nested headings; failing that, the whole as one name.
FindSection(content, path) ==
  LET headings == ExtractHeadings(content)
      total == Len(content)
      parts == SelectSeq(path, LAMBDA part : part # "")
      nested == IF parts = <<>> THEN None
                ELSE ResolveSegments(headings, [k \in DOMAIN parts |-> <<parts[k]>>], 1, total, 0, total)
  IN  IF nested # None \/ path = <<>> THEN nested ELSE ResolveSegments(headings, <<path>>, 1, total, 0, total)

SliceSection(content, range) == SubSeq(content, range.startLine, range.endLine)

\* What the message of an unknown heading offers.
ListHeadingPaths(content) ==
  LET Push(acc, heading) ==
        LET above == SelectSeq(acc.stack, LAMBDA h : h.level < heading.level)
            stack == Append(above, heading)
            path == FlattenSeq([k \in DOMAIN stack |-> stack[k].text])
        IN [stack |-> stack, paths |-> IF path \in Range(acc.paths) THEN acc.paths ELSE Append(acc.paths, path)]
  IN FoldLeft(Push, [stack |-> <<>>, paths |-> <<>>], ExtractHeadings(content)).paths

InsertAll(content, at, text) == SubSeq(content, 1, at) \o text \o SubSeq(content, at + 1, Len(content))

InsertAtStart(content, range, text) ==
  LET spaced == range.startLine < range.endLine /\ content[range.startLine + 1] = Blank
  IN InsertAll(content, IF spaced THEN range.startLine + 1 ELSE range.startLine, text)

\* Mutant: the text is put right before the next heading.
InsertAtEndTight(content, range, text) == InsertAll(content, range.endLine, text)

InsertAtEnd(content, range, text) ==
  LET last == Max({i \in range.startLine..range.endLine : content[i] # Blank})
      grown == InsertAll(content, last, text)
  IN  IF range.endLine < Len(content)
       THEN SubSeq(content, 1, last) \o text \o <<Blank>> \o SubSeq(content, range.endLine + 1, Len(content))
     ELSE IF Last(grown) = Blank THEN grown ELSE Append(grown, Blank)

InsertIntoSection(content, range, text, position) ==
  IF position = "start" THEN InsertAtStart(content, range, text) ELSE InsertAtEnd(content, range, text)

AppendToNote(content, text) ==
  (IF Last(content) = Blank THEN Front(content) ELSE content) \o text \o <<Blank>>

HasIdenticalLine(region, text) == Len(text) = 1 /\ text[1] # Blank /\ text[1] \in Range(region)

\* Only the first link of the text counts, against every link of a line.
HasEquivalentLine(region, text) ==
  LET Targets(lines) == FlattenSeq([i \in DOMAIN lines |-> IF lines[i] = Blank THEN <<>> ELSE lines[i].links])
      wanted == Targets(text)
  IN  IF wanted = <<>> THEN HasIdenticalLine(region, text) ELSE wanted[1] \in Range(Targets(region))

IsDuplicate(unique, region, text) ==
  \/ unique = "link" /\ HasEquivalentLine(region, text)
  \/ unique = "line" /\ HasIdenticalLine(region, text)

\* Mutant: the whole note is looked through for a duplicate.
AppendCallAnywhere(content, path, text, position, unique) ==
  LET range == FindSection(content, path)
  IN  IF path # <<>> /\ range = None THEN content
      ELSE IF IsDuplicate(unique, content, text) THEN content
      ELSE IF path = <<>> THEN AppendToNote(content, text)
      ELSE InsertIntoSection(content, range, text, position)

\* A call of vault_append; the path <<>> appends to the note.
AppendCall(content, path, text, position, unique) ==
  LET range == FindSection(content, path)
      region == IF path = <<>> THEN content ELSE SliceSection(content, range)
  IN  IF path # <<>> /\ range = None THEN content
      ELSE IF IsDuplicate(unique, region, text) THEN content
      ELSE IF path = <<>> THEN AppendToNote(content, text)
      ELSE InsertIntoSection(content, range, text, position)

\* Mutant: a section inside another one is returned as well.
PickSectionsTwice(content, paths) ==
  LET found == {FindSection(content, paths[k]) : k \in DOMAIN paths} \ {None}
      ordered == SetToSortSeq(found, LAMBDA s, o : s.startLine < o.startLine)
  IN [ranges |-> ordered, missing |-> <<>>,
      text |-> FlattenSeq([k \in DOMAIN ordered |-> SliceSection(content, ordered[k])])]

\* The sections a read asks for: each once, in document order, none that lies
\* in another, and without the blanks after it.
PickSections(content, paths) ==
  LET found == {FindSection(content, paths[k]) : k \in DOMAIN paths} \ {None}
      Within(s, o) == s # o /\ o.startLine <= s.startLine /\ o.endLine >= s.endLine
      ordered == SetToSortSeq({s \in found : ~\E o \in found : Within(s, o)}, LAMBDA s, o : s.startLine < o.startLine)
      Trimmed(s) == SubSeq(content, s.startLine, Max({i \in s.startLine..s.endLine : content[i] # Blank}))
  IN [ranges |-> ordered, missing |-> SelectSeq(paths, LAMBDA path : FindSection(content, path) = None),
      text |-> FlattenSeq([k \in DOMAIN ordered |-> Trimmed(ordered[k]) \o <<Blank>>])]

-----------------------------------------------------------------------------
\* The nearest heading above of a lower level, and so on: what a heading is in.
Inside(headings, i, j) == j < i /\ \A k \in (j + 1)..i : headings[k].level > headings[j].level

Chains(headings, names) ==
  {chain \in [DOMAIN names -> DOMAIN headings] :
     \A k \in DOMAIN names : headings[chain[k]].text = names[k] /\ (k > 1 => Inside(headings, chain[k], chain[k - 1]))}

Earlier(a, b) == \E k \in DOMAIN a : a[k] < b[k] /\ \A j \in 1..(k - 1) : a[j] = b[j]

\* A path of headings leads to the last of the first chain of nested headings
\* of those names, backtracking or not, and only when there is none to the
\* heading with the whole path as its text; and what it leads to ends where
\* the next heading that is not inside begins (findSection).
PathsLead(content, paths) ==
  LET headings == ExtractHeadings(content)
      Whole(i) == [kind |-> "range", level |-> headings[i].level, heading |-> headings[i].text, startLine |-> headings[i].line,
                   endLine |-> Max({headings[i].line} \union {l \in DOMAIN content : \A k \in DOMAIN headings :
                                     headings[k].line \in (headings[i].line + 1)..l => Inside(headings, k, i)})]
      Nested(path) == LET names == SelectSeq(path, LAMBDA part : part # "")
                      IN Chains(headings, [k \in DOMAIN names |-> <<names[k]>>])
      Literal(path) == {i \in DOMAIN headings : headings[i].text = path}
  IN \A path \in paths :
       FindSection(content, path) =
         IF Nested(path) # {} THEN Whole(Last(CHOOSE c \in Nested(path) : \A d \in Nested(path) : c = d \/ Earlier(c, d)))
         ELSE IF Literal(path) # {} THEN Whole(Min(Literal(path))) ELSE None

\* Every heading whose text has no ">" of its own, nor those above it, is
\* reached by a path that is offered (describeUnknownHeading lists paths that
\* findSection accepts).
OfferedPathsReach(content) ==
  (\A l \in DOMAIN content : content[l].kind = "heading" => Len(content[l].name) = 1)
  => \A path \in Range(ListHeadingPaths(content)) :
       LET range == FindSection(content, path) IN range # None /\ range.heading = <<Last(path)>>

NonBlank(lines) == SelectSeq(lines, LAMBDA line : line # Blank)

\* An append under a heading keeps every line that says something, in order;
\* its text is together, in the section the same path finds, and before the
\* next heading there is one blank line; and a note ends with a line break
\* after an append at the end (insertIntoSection).
InsertKeeps(content, paths, texts) ==
  \A path \in paths, text \in texts, position \in {"start", "end"} :
    LET range == FindSection(content, path)
        after == InsertIntoSection(content, range, text, position)
        found == FindSection(after, path)
    IN range # None =>
         /\ found # None /\ found.startLine = range.startLine
         /\ \E at \in (found.startLine + 1)..found.endLine :
              /\ SubSeq(after, at, at + Len(text) - 1) = text
              /\ at + Len(text) - 1 <= found.endLine
              /\ NonBlank(SubSeq(after, 1, at - 1)) \o NonBlank(SubSeq(after, at + Len(text), Len(after))) = NonBlank(content)
              /\ position = "start" => at <= range.startLine + 2
              /\ position = "end" => \A l \in (at + Len(text))..found.endLine : after[l] = Blank
         /\ position = "end" /\ range.endLine < Len(content)
              => after[found.endLine] = Blank /\ after[found.endLine - 1] # Blank /\ after[found.endLine + 1].kind = "heading"
         /\ position = "end" /\ range.endLine = Len(content) => Last(after) = Blank

\* An append that says `unique` leaves its line, or one with its first link, in
\* the section (or the note) it was meant for, and repeated changes nothing;
\* provided it is one line, or several with a link (vault_append).
UniqueOnce(content, paths, texts) ==
  \A path \in paths \union {<<>>}, text \in texts, position \in {"start", "end"}, unique \in {"line", "link"} :
    LET once == AppendCall(content, path, text, position, unique)
        region == IF path = <<>> THEN once ELSE SliceSection(once, FindSection(once, path))
        LinksOf(line) == IF line = Blank THEN <<>> ELSE line.links
        linked == {k \in DOMAIN text : LinksOf(text[k]) # <<>>}
    IN (Len(text) = 1 \/ (unique = "link" /\ linked # {})) /\ (path = <<>> \/ FindSection(content, path) # None) =>
         /\ \E l \in DOMAIN region : \/ region[l] = text[1]
                                     \/ unique = "link" /\ linked # {} /\ LinksOf(text[Min(linked)])[1] \in Range(LinksOf(region[l]))
         /\ AppendCall(once, path, text, position, unique) = once

\* The sections of a read come in document order and repeat no line, and say
\* everything that the sections asked for say (pickSections).
PicksEachOnce(content, lists) ==
  \A paths \in lists :
    LET picked == PickSections(content, paths)
        Asked(l) == \E k \in DOMAIN paths : LET r == FindSection(content, paths[k])
                                            IN r # None /\ l \in r.startLine..r.endLine
        lines == SetToSortSeq({l \in DOMAIN content : Asked(l)}, <)
    IN NonBlank(picked.text) = NonBlank([k \in DOMAIN lines |-> content[lines[k]]])
=============================================================================
