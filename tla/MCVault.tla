------------------------------ MODULE MCVault -------------------------------
(***************************************************************************)
(* Small instances of what the tools do to a vault, one per part: calls    *)
(* side by side (VaultTools), the lines of one note (Sections), one canvas *)
(* (CanvasBoard) and the patterns a search compiles (SafeRegex).  A note,  *)
(* a canvas and a pattern grow by one piece a step, so that every small    *)
(* one is reached.                                                         *)
(***************************************************************************)
EXTENDS MCVaultTools, TLC

VARIABLES part, content, canvas, alphabet, pattern

toolVars == <<disk, index, status, need, call, meddled, meddling>>
pieceVars == <<content, canvas, alphabet, pattern>>
mcVars == <<part, toolVars, pieceVars>>

Doc == INSTANCE Sections
Board == INSTANCE CanvasBoard

-----------------------------------------------------------------------------
MaxLines == 5
A == <<"A">>
B == <<"B">>
AB == <<"A", "B">>
Pieces == {Doc!Heading(1, A), Doc!Heading(2, A), Doc!Heading(2, B), Doc!Heading(3, B), Doc!Heading(2, AB), Doc!Blank,
           Doc!Said("was", <<"x">>)}
Asked == {A, B, AB, <<"B", "A">>, <<"A", "A">>, <<"A", "A", "B">>, <<"", "A">>}
Lines == {<<Doc!Said("new", <<>>)>>, <<Doc!Said("linked", <<"x">>)>>, <<Doc!Said("one", <<"y">>), Doc!Blank, Doc!Said("two", <<"x">>)>>}
Lists == {<<A, B>>, <<B, A>>, <<AB, A>>, <<B, AB>>, <<A, A>>, <<B, <<"A", "A">>>>}

Write == Len(content) < MaxLines /\ \E piece \in Pieces : content' = Append(content, piece)

BoardIds == {"i", "j"}
Draw ==
  \/ Len(canvas.nodes) < 2 /\ \E i \in BoardIds, type \in {"text", "file"}, colors \in SUBSET {"color"} :
       canvas' = [canvas EXCEPT !.nodes = Append(@, [Board!BoardNode(i, type) EXCEPT !.set = colors])]
  \/ Len(canvas.edges) < 2 /\ \E i, from, to \in BoardIds :
       canvas' = [canvas EXCEPT !.edges = Append(@, Board!BoardEdge(i, from, to))]

-----------------------------------------------------------------------------
\* A letter in both cases; and ls, which has an upper case that it is not the
\* lower case of.
Characters == <<"*", "-", "A", "S", "[", "^", "a", "b", "s", "ls">>
Rx == INSTANCE SafeRegex WITH
  CodePoints <- Characters,
  Lower <- [c \in Range(Characters) |-> CASE c = "A" -> "a" [] c = "S" -> "s" [] OTHER -> c],
  Upper <- [c \in Range(Characters) |-> CASE c = "a" -> "A" [] c \in {"s", "ls"} -> "S" [] OTHER -> c],
  Shorthand <- ("\\w" :> {"A", "S", "a", "b", "s"} @@ "\\W" :> {"-", "ls", "*"}),
  Escaped <- ("\\*" :> "*"),
  Counts <- ("{2}" :> [min |-> 2, max |-> 2] @@ "{0,2}" :> [min |-> 0, max |-> 2]),
  MaxRepeat <- 3, MaxStates <- 14, MaxSubject <- 3

Alphabets ==
  <<[tokens |-> {"a", "b", "|", "*", "(", ")"}, length |-> 6, subjects |-> {"a", "b"}, upTo |-> 2],
    [tokens |-> {"a", ".", "{2}", "{0,2}", "(?:", ")"}, length |-> 5, subjects |-> {"A", "b"}, upTo |-> 3],
    [tokens |-> {"a", "b", "+", "?", "|", "\\W"}, length |-> 5, subjects |-> {"a"}, upTo |-> 3],
    [tokens |-> {"[", "]", "^", "-", "A", "\\w"}, length |-> 5, subjects |-> {"A", "a"}, upTo |-> 3],
    [tokens |-> {"s", "S", "ls", "a", "|", "?"}, length |-> 4, subjects |-> {"s", "S", "ls", "a"}, upTo |-> 3]>>
Subjects == UNION {[1..n -> Alphabets[alphabet].subjects] : n \in 0..Alphabets[alphabet].upTo}

\* A token more on a pattern whose brackets the tokens left can still close.
Times(tokens, some) == Cardinality({i \in DOMAIN tokens : tokens[i] \in some})
Compose ==
  \E token \in Alphabets[alphabet].tokens :
    /\ pattern' = Append(pattern, token)
    /\ Times(pattern', {")"}) <= Times(pattern', {"(", "(?:"})
    /\ Len(pattern') + Times(pattern', {"(", "(?:"}) - Times(pattern', {")"}) <= Alphabets[alphabet].length

-----------------------------------------------------------------------------
MCInit ==
  /\ part \in {"tools", "note", "canvas", "pattern"}
  /\ Init
  /\ content = <<>>
  /\ canvas = [nodes |-> <<>>, edges |-> <<>>]
  /\ alphabet \in DOMAIN Alphabets /\ (part # "pattern" => alphabet = 1)
  /\ pattern = <<>>

MCNext ==
  \/ part = "tools" /\ Next /\ UNCHANGED <<part, pieceVars>>
  \/ part = "note" /\ Write /\ UNCHANGED <<part, toolVars, canvas, alphabet, pattern>>
  \/ part = "canvas" /\ Draw /\ UNCHANGED <<part, toolVars, content, alphabet, pattern>>
  \/ part = "pattern" /\ Compose /\ UNCHANGED <<part, toolVars, content, canvas, alphabet>>

MCSpec == MCInit /\ [][MCNext]_mcVars

CallsAlike == Permutations(Calls)

\* What a tool finds in a note or changes in it, and in a canvas, is what the
\* path, the text and the ids name, whatever was written or drawn last: see
\* Sections and CanvasBoard.
NoteHolds(note) ==
  /\ Doc!PathsLead(note, Asked) /\ Doc!OfferedPathsReach(note)
  /\ Len(note) < MaxLines =>
       /\ Doc!InsertKeeps(note, Asked, Lines)
       /\ Doc!UniqueOnce(note, Asked, Lines)
       /\ Doc!PicksEachOnce(note, Lists)
EditsHold ==
  [][/\ part = "note" => NoteHolds(content')
     /\ part = "canvas" => Board!BoardStaysWhole(canvas', BoardIds)]_mcVars

\* A compiled pattern finds what the pattern means, whatever token came last:
\* see SafeRegex.
PatternHolds(tokens) ==
  /\ Rx!TestIsMeaning(tokens, Subjects)
  /\ Rx!FindIsLeftmostFirst(tokens, Subjects)
  /\ Rx!BindsAsRead(tokens, Subjects)
PatternsHold == [][part = "pattern" => PatternHolds(pattern')]_mcVars
=============================================================================
