------------------------------ MODULE SafeRegex ------------------------------
(***************************************************************************)
(* The pattern matcher of vault_query's regex conditions and of the search *)
(* without ripgrep: the parser of the reduced syntax, the automaton, the   *)
(* full match, the leftmost-first search and the literals a text must hold *)
(* to be searched at all.  A pattern is a sequence of tokens: characters,  *)
(* and whole escapes, quantifiers and group openings, which are read at    *)
(* one place of the code each.  A set of characters is the sequence of its *)
(* items, each item the set of the characters it admits.                   *)
(***************************************************************************)
EXTENDS Naturals, Sequences, FiniteSets, SequencesExt

CONSTANTS
  CodePoints,   \* the characters, in the order of their code points
  Lower, Upper, \* their case variants of one character; the character itself when there is none
  Shorthand,    \* \w, \d, \s and their negations, with the characters each admits
  Escaped,      \* the escapes of one character
  Counts,       \* the braces the patterns use, as [min, max]
  MaxRepeat, MaxStates, MaxSubject

Unbounded == 1000

Characters == ToSet(CodePoints)
CodePoint(c) == CHOOSE i \in DOMAIN CodePoints : CodePoints[i] = c

Quantifiers == {"*", "+", "?"} \union DOMAIN Counts
Plain == Characters \ {"*", "+", "?", "^", "$", "(", ")", "[", "]", ".", "|"}

Bounds(q) ==
  CASE q = "*" -> [min |-> 0, max |-> Unbounded]
    [] q = "+" -> [min |-> 1, max |-> Unbounded]
    [] q = "?" -> [min |-> 0, max |-> 1]
    [] OTHER -> Counts[q]

ValidBounds(b) == b.min <= MaxRepeat /\ (b.max = Unbounded \/ (b.max <= MaxRepeat /\ b.min <= b.max))

-----------------------------------------------------------------------------
(* The parser *)

Refused == [ok |-> FALSE]
Parsed(ast, pos) == [ok |-> TRUE, ast |-> ast, pos |-> pos]
Peek(src, pos) == IF pos <= Len(src) THEN src[pos] ELSE "end"

CharSet(negated, items) == [kind |-> "set", negated |-> negated, items |-> items]

\* The characters of one atom inside a class; none for an escape that is not supported.
ClassAtom(t) ==
  CASE t \in DOMAIN Shorthand -> Shorthand[t]
    [] t \in DOMAIN Escaped -> {Escaped[t]}
    [] t \in Characters -> {t}
    [] OTHER -> {}

Single(atom) == Cardinality(atom) = 1
Least(atom) == CodePoint(CHOOSE c \in atom : TRUE)
Between(first, second) == {c \in Characters : Least(first) <= CodePoint(c) /\ CodePoint(c) <= Least(second)}

RECURSIVE ClassItems(_, _, _)
ClassItems(src, pos, items) ==
  LET first == ClassAtom(Peek(src, pos))
      second == ClassAtom(Peek(src, pos + 2))
      range == Peek(src, pos + 1) = "-" /\ Peek(src, pos + 2) \notin {"end", "]"}
  IN  IF Peek(src, pos) = "]" THEN [ok |-> items # <<>>, items |-> items, pos |-> pos + 1]
      ELSE IF Peek(src, pos) = "end" \/ first = {} THEN Refused
      ELSE IF range /\ ~(Single(first) /\ Single(second) /\ Least(first) <= Least(second)) THEN Refused
      ELSE IF range THEN ClassItems(src, pos + 3, Append(items, Between(first, second)))
      ELSE ClassItems(src, pos + 1, Append(items, first))

ParseClass(src, pos) ==
  LET negated == Peek(src, pos + 1) = "^"
      body == pos + (IF negated THEN 2 ELSE 1)
      class == ClassItems(src, body, <<>>)
      posix == Peek(src, body) = "[" /\ Peek(src, body + 1) = ":"
  IN  IF posix \/ ~class.ok THEN Refused
     ELSE Parsed(CharSet(negated, class.items), class.pos)

RECURSIVE Alternation(_, _, _), Concatenation(_, _, _)

ParseGroup(src, pos) ==
  LET inner == Alternation(src, pos + 1, <<>>)
  IN  IF inner.ok /\ Peek(src, inner.pos) = ")" THEN Parsed(inner.ast, inner.pos + 1) ELSE Refused

ParseAtom(src, pos) ==
  LET t == Peek(src, pos)
  IN CASE t \in {"(", "(?:"} -> ParseGroup(src, pos)
       [] t = "[" -> ParseClass(src, pos)
       [] t = "." -> Parsed(CharSet(TRUE, <<>>), pos + 1)
       [] t \in DOMAIN Shorthand \union DOMAIN Escaped \union Plain ->
            Parsed(CharSet(FALSE, <<ClassAtom(t)>>), pos + 1)
       [] OTHER -> Refused

ParseQuantified(src, pos) ==
  LET atom == ParseAtom(src, pos)
      q == Peek(src, atom.pos)
  IN  IF ~atom.ok \/ q \notin Quantifiers THEN atom
     ELSE IF ~ValidBounds(Bounds(q)) \/ Peek(src, atom.pos + 1) \in Quantifiers THEN Refused
     ELSE Parsed([kind |-> "repeat", node |-> atom.ast, min |-> Bounds(q).min, max |-> Bounds(q).max], atom.pos + 1)

Joined(parts) ==
  CASE Len(parts) = 0 -> [kind |-> "empty"]
    [] Len(parts) = 1 -> parts[1]
    [] OTHER -> [kind |-> "concat", parts |-> parts]

\* Mutant: a bar ends nothing.
ConcatenationOfAll(src, pos, parts) ==
  IF Peek(src, pos) \in {"end", ")"} THEN Parsed(Joined(parts), pos)
  ELSE LET next == ParseQuantified(src, pos)
       IN IF next.ok THEN Concatenation(src, next.pos, Append(parts, next.ast)) ELSE Refused

Concatenation(src, pos, parts) ==
  IF Peek(src, pos) \in {"end", "|", ")"} THEN Parsed(Joined(parts), pos)
  ELSE LET next == ParseQuantified(src, pos)
       IN IF next.ok THEN Concatenation(src, next.pos, Append(parts, next.ast)) ELSE Refused

Alternation(src, pos, options) ==
  LET branch == Concatenation(src, pos, <<>>)
      all == Append(options, branch.ast)
  IN  IF ~branch.ok THEN Refused
      ELSE IF Peek(src, branch.pos) = "|" THEN Alternation(src, branch.pos + 1, all)
      ELSE IF Len(all) = 1 THEN branch
      ELSE Parsed([kind |-> "alt", options |-> all], branch.pos)

ParsePattern(src) ==
  LET ast == Alternation(src, 1, <<>>) IN IF ast.ok /\ ast.pos <= Len(src) THEN Refused ELSE ast

-----------------------------------------------------------------------------
(* The automaton: a fragment has its states, where it starts, and the exits still to be pointed somewhere *)

State(kind, set, a, b) == [kind |-> kind, set |-> set, a |-> a, b |-> b]
NoSet == CharSet(FALSE, <<>>)

Fragment(states, start, exits) == [states |-> states, start |-> start, exits |-> exits]

Patch(f, target) ==
  [i \in DOMAIN f.states |->
     [f.states[i] EXCEPT !.a = IF <<i, "a">> \in f.exits THEN target ELSE @,
                         !.b = IF <<i, "b">> \in f.exits THEN target ELSE @]]

Epsilon(states) ==
  LET i == Len(states) + 1
  IN Fragment(Append(states, State("split", NoSet, 0, 0)), i, {<<i, "a">>, <<i, "b">>})

RECURSIVE Compile(_, _), Chain(_, _), Either(_, _)

Chain(nodes, states) ==
  LET first == Compile(Head(nodes), states)
      rest == Chain(Tail(nodes), first.states)
  IN  IF Len(nodes) = 1 THEN first
     ELSE Fragment(Patch([rest EXCEPT !.exits = first.exits], rest.start), first.start, rest.exits)

Star(node, states) ==
  LET i == Len(states) + 1
      inner == Compile(node, Append(states, State("split", NoSet, 0, 0)))
  IN Fragment([Patch(inner, i) EXCEPT ![i].a = inner.start], i, {<<i, "b">>})

\* Mutant: an optional piece is rather left out.
OptionalLazy(node, states) ==
  LET inner == Compile(node, states)
      i == Len(inner.states) + 1
  IN Fragment(Append(inner.states, State("split", NoSet, 0, inner.start)), i, inner.exits \union {<<i, "a">>})

Optional(node, states) ==
  LET inner == Compile(node, states)
      i == Len(inner.states) + 1
  IN Fragment(Append(inner.states, State("split", NoSet, inner.start, 0)), i, inner.exits \union {<<i, "b">>})

\* Right-nested splits; the last option is compiled first.
Either(options, states) ==
  IF Len(options) = 1 THEN Compile(options[1], states)
  ELSE LET right == Either(Tail(options), states)
           left == Compile(Head(options), right.states)
           i == Len(left.states) + 1
       IN Fragment(Append(left.states, State("split", NoSet, left.start, right.start)), i, left.exits \union right.exits)

Copies(n, node) == [i \in 1..n |-> node]

\* Mutant: the required copies are not taken off the optional ones.
PiecesMore(r) ==
  Copies(r.min, r.node)
    \o (IF r.max = Unbounded THEN <<[kind |-> "star", node |-> r.node]>>
        ELSE Copies(r.max, [kind |-> "optional", node |-> r.node]))

Pieces(r) ==
  Copies(r.min, r.node)
    \o (IF r.max = Unbounded THEN <<[kind |-> "star", node |-> r.node]>>
        ELSE Copies(r.max - r.min, [kind |-> "optional", node |-> r.node]))

Compile(node, states) ==
  CASE node.kind = "empty" -> Epsilon(states)
    [] node.kind = "set" ->
         Fragment(Append(states, State("char", node, 0, 0)), Len(states) + 1, {<<Len(states) + 1, "a">>})
    [] node.kind = "concat" -> Chain(node.parts, states)
    [] node.kind = "alt" -> Either(node.options, states)
    [] node.kind = "star" -> Star(node.node, states)
    [] node.kind = "optional" -> Optional(node.node, states)
    [] node.kind = "repeat" -> IF Pieces(node) = <<>> THEN Epsilon(states) ELSE Chain(Pieces(node), states)

BuildNfa(ast) ==
  LET whole == Compile(ast, <<>>)
      match == Len(whole.states) + 1
  IN [states |-> Append(Patch(whole, match), State("match", NoSet, 0, 0)), start |-> whole.start, ok |-> match <= MaxStates]

-----------------------------------------------------------------------------
(* The simulation: the threads alive, the better first, each with the place its match began *)

Variants(c, sensitive) == IF sensitive THEN {c} ELSE {c, Lower[c], Upper[c]}

SetMatches(set, variants) == (\E v \in variants, k \in DOMAIN set.items : v \in set.items[k]) # set.negated

RECURSIVE AddThread(_, _, _, _)
AddThread(states, q, from, acc) ==
  IF q \in acc.marks THEN acc
  ELSE LET marked == [acc EXCEPT !.marks = @ \union {q}]
       IN IF states[q].kind = "split"
          THEN AddThread(states, states[q].b, from, AddThread(states, states[q].a, from, marked))
          ELSE [marked EXCEPT !.threads = Append(@, [state |-> q, from |-> from])]

NoThreads == [marks |-> {}, threads |-> <<>>]
Start(nfa) == AddThread(nfa.states, nfa.start, 1, NoThreads).threads

Step(nfa, threads, variants) ==
  FoldLeft(LAMBDA acc, t :
             IF nfa.states[t.state].kind = "char" /\ SetMatches(nfa.states[t.state].set, variants)
             THEN AddThread(nfa.states, nfa.states[t.state].a, t.from, acc) ELSE acc,
           NoThreads, threads)

Matching(nfa, threads) == {i \in DOMAIN threads : nfa.states[threads[i].state].kind = "match"}

\* compileSafePattern's test: the whole subject, without case.
Test(nfa, subject) ==
  /\ Len(subject) <= MaxSubject
  /\ Matching(nfa, FoldLeft(LAMBDA threads, c : Step(nfa, threads, Variants(c, FALSE)).threads, Start(nfa), subject)) # {}

NoMatch == <<0, 0>>

\* The threads behind a match are dropped; a new one starts at each place until there is a match.
RECURSIVE Scan(_, _, _, _, _, _)
Scan(nfa, line, sensitive, at, threads, matched) ==
  LET hits == Matching(nfa, threads)
      first == CHOOSE i \in hits : \A j \in hits : i <= j
      best == IF hits = {} THEN matched ELSE <<threads[first].from, at>>
      alive == IF hits = {} THEN threads ELSE SubSeq(threads, 1, first - 1)
      stepped == Step(nfa, alive, Variants(line[at], sensitive))
      next == IF best = NoMatch THEN AddThread(nfa.states, nfa.start, at + 1, stepped) ELSE stepped
  IN  IF at > Len(line) \/ (alive = <<>> /\ best # NoMatch) THEN best
     ELSE Scan(nfa, line, sensitive, at + 1, next.threads, best)

-----------------------------------------------------------------------------
(* The literals one of which is in every text that matches *)

\* Mutant: a class of all but one character counts as that character.
DefiniteCharOrNot(node) ==
  node.kind = "set" /\ Len(node.items) = 1 /\ Single(node.items[1])

DefiniteChar(node) ==
  node.kind = "set" /\ ~node.negated /\ Len(node.items) = 1 /\ Single(node.items[1])

Nothing == [literals |-> {}, score |-> 0]
Run(chars) == IF chars = <<>> THEN Nothing ELSE [literals |-> {chars}, score |-> Len(chars)]
Better(best, candidate) == IF candidate.score > best.score THEN candidate ELSE best

RECURSIVE RequirementOf(_)

\* The longest run of literal characters, or what a part requires when that is longer.
OfParts(parts) ==
  LET done == FoldLeft(LAMBDA acc, part :
                IF DefiniteChar(part)
                THEN [acc EXCEPT !.run = Append(@, CHOOSE c \in part.items[1] : TRUE)]
                ELSE [best |-> Better(Better(acc.best, Run(acc.run)), RequirementOf(part)), run |-> <<>>],
              [best |-> Nothing, run |-> <<>>], parts)
  IN Better(done.best, Run(done.run))

RequirementOf(node) ==
  CASE node.kind = "empty" -> Nothing
    [] node.kind = "set" -> IF DefiniteChar(node) THEN Run(<<CHOOSE c \in node.items[1] : TRUE>>) ELSE Nothing
    [] node.kind = "repeat" -> IF node.min = 0 THEN Nothing ELSE RequirementOf(node.node)
    [] node.kind = "alt" ->
         LET needs == {RequirementOf(node.options[i]) : i \in DOMAIN node.options}
         IN IF Nothing \in needs THEN Nothing
            ELSE [literals |-> UNION {n.literals : n \in needs},
                  score |-> CHOOSE s \in {n.score : n \in needs} : \A n \in needs : s <= n.score]
    [] node.kind = "concat" -> OfParts(node.parts)

Folded(text, sensitive) == [i \in DOMAIN text |-> IF sensitive THEN text[i] ELSE Lower[text[i]]]
Includes(text, literal) == \E i \in 0..Len(text) - Len(literal) : SubSeq(text, i + 1, i + Len(literal)) = literal

CannotMatch(required, text, sensitive) ==
  /\ required # Nothing
  /\ \A l \in required.literals : ~Includes(Folded(text, sensitive), Folded(l, sensitive))

\* compileSafeSearch's find.
Find(required, nfa, line, sensitive) ==
  IF CannotMatch(required, line, sensitive) \/ Len(line) > MaxSubject THEN NoMatch
  ELSE Scan(nfa, line, sensitive, 1, Start(nfa), NoMatch)

-----------------------------------------------------------------------------
(* What a pattern means, whatever matches it *)

Distinct(s) == FoldLeft(LAMBDA seen, e : IF Contains(seen, e) THEN seen ELSE Append(seen, e), <<>>, s)
Each(ends, F(_)) == Distinct(FlattenSeq([k \in DOMAIN ends |-> F(ends[k])]))

\* Where a match of the node from place i may end, the preferred end first: an earlier
\* option before a later one, another iteration before stopping; an unbounded repetition
\* does not go round without consuming.
RECURSIVE Ends(_, _, _, _), Times(_, _, _, _, _, _)

Ends(node, text, i, sensitive) ==
  CASE node.kind = "empty" -> <<i>>
    [] node.kind = "set" ->
         IF i <= Len(text) /\ SetMatches(node, Variants(text[i], sensitive)) THEN <<i + 1>> ELSE <<>>
    [] node.kind = "concat" ->
         FoldLeft(LAMBDA ends, part : Each(ends, LAMBDA e : Ends(part, text, e, sensitive)), <<i>>, node.parts)
    [] node.kind = "alt" -> Each(node.options, LAMBDA o : Ends(o, text, i, sensitive))
    [] node.kind = "repeat" -> Times(node.node, node.min, node.max, text, i, sensitive)

Times(node, min, max, text, i, sensitive) ==
  LET once == SelectSeq(Ends(node, text, i, sensitive), LAMBDA e : e > i \/ min > 0 \/ max < Unbounded)
      Fewer(n) == IF n \in {0, Unbounded} THEN n ELSE n - 1
      more == Each(once, LAMBDA e : Times(node, Fewer(min), Fewer(max), text, e, sensitive))
  IN  IF max = 0 THEN <<i>> ELSE IF min > 0 THEN more ELSE Distinct(Append(more, i))

Means(ast, text) == Contains(Ends(ast, text, 1, FALSE), Len(text) + 1)

LeftmostFirst(ast, text, sensitive) ==
  LET ends == [i \in 1..Len(text) + 1 |-> Ends(ast, text, i, sensitive)]
      starts == {i \in DOMAIN ends : ends[i] # <<>>}
      least == CHOOSE i \in starts : \A j \in starts : i <= j
  IN  IF starts = {} THEN NoMatch ELSE <<least, ends[least][1]>>

-----------------------------------------------------------------------------
\* The automaton accepts exactly the subjects the pattern means.
TestIsMeaning(pattern, subjects) ==
  LET parsed == ParsePattern(pattern)
      nfa == BuildNfa(parsed.ast)
  IN parsed.ok /\ nfa.ok => \A s \in subjects : Test(nfa, s) <=> Len(s) <= MaxSubject /\ Means(parsed.ast, s)

\* A search finds the leftmost match and, of those, the one a reader of the
\* pattern prefers.  The literals that spare a text the search never hide a match,
\* unless case is ignored and the text holds a character that has the upper case of
\* another.
FindIsLeftmostFirst(pattern, lines) ==
  LET parsed == ParsePattern(pattern)
      nfa == BuildNfa(parsed.ast)
      required == RequirementOf(parsed.ast)
      OneWay(l) == \E i \in DOMAIN l : Lower[Upper[l[i]]] # Lower[l[i]]
  IN parsed.ok /\ nfa.ok =>
       \A l \in {l \in lines : Len(l) <= MaxSubject}, sensitive \in BOOLEAN :
         \/ Find(required, nfa, l, sensitive) = LeftmostFirst(parsed.ast, l, sensitive)
         \/ ~sensitive /\ OneWay(l) /\ CannotMatch(required, l, sensitive)

\* The parser binds as a reader does: a bar least, then one piece after another.
BindsAsRead(pattern, subjects) ==
  LET whole == ParsePattern(pattern)
      Language(parsed) == {s \in subjects : Means(parsed.ast, s)}
  IN \A k \in 0..Len(pattern) :
       LET bar == k < Len(pattern) /\ pattern[k + 1] = "|"
           left == ParsePattern(SubSeq(pattern, 1, k))
           right == ParsePattern(SubSeq(pattern, k + (IF bar THEN 2 ELSE 1), Len(pattern)))
           pieces == left.ok /\ right.ok /\ "alt" \notin {left.ast.kind, right.ast.kind}
           Joins(s, before, after) ==
             \E j \in 0..Len(s) : SubSeq(s, 1, j) \in before /\ SubSeq(s, j + 1, Len(s)) \in after
       IN /\ bar /\ left.ok /\ right.ok => whole.ok /\ Language(whole) = Language(left) \union Language(right)
          /\ ~bar /\ k \in 1..Len(pattern) - 1 /\ pieces =>
               LET before == Language(left) after == Language(right)
               IN whole.ok /\ Language(whole) = {s \in subjects : Joins(s, before, after)}
==============================================================================
