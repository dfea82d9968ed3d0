----------------------------- MODULE BatchRead ------------------------------
(***************************************************************************)
(* How the notes of one vault_batch_read share the characters a client     *)
(* accepts: frontmatter at most half of what paths and flags leave, then   *)
(* the bodies, short ones whole first; suggestions for missing paths at    *)
(* most a quarter.                                                         *)
(*                                                                         *)
(* A text is a sequence of UTF-16 units, "c" a character JSON escapes,     *)
(* "h" and "l" the halves of a pair; a half alone is escaped as well.      *)
(* Sizes are of the serialized JSON: Shell is a note's part without its    *)
(* frontmatter and body, Flag the flag of an omitted block, Marker what    *)
(* clampText adds, Hints both hints, Key the name of a list.               *)
(***************************************************************************)
EXTENDS Integers, ResultBudget, FiniteSetsExt

CONSTANTS ClientSafe, Shell, Flag, Marker, Hints, Key, Reserve, LeastRoom

Escaped == 6
UnitChars(text, k) ==
  CASE text[k] = "h" -> IF k < Len(text) /\ text[k + 1] = "l" THEN 1 ELSE Escaped
    [] text[k] = "l" -> IF k > 1 /\ text[k - 1] = "h" THEN 1 ELSE Escaped
    [] text[k] = "c" -> Escaped
    [] OTHER -> 1
TextChars(text) == FoldLeft(LAMBDA chars, k : chars + UnitChars(text, k), 0, [k \in DOMAIN text |-> k])

SumOf(S, Size(_)) == FoldSet(LAMBDA x, total : Size(x) + total, 0, S)

Slice(text, n) == SubSeq(text, 1, IF n < Len(text) THEN n ELSE Len(text))
WholePairs(text, n) == IF n > 0 /\ text[n] = "h" THEN n - 1 ELSE n

\* The cut that a search by halves finds.
RECURSIVE Cut(_, _, _, _)
Cut(text, low, high, room) ==
  IF low >= high THEN low
  ELSE LET mid == (low + high + 1) \div 2
       IN IF TextChars(Slice(text, mid)) <= room THEN Cut(text, mid, high, room) ELSE Cut(text, low, mid - 1, room)

PrefixWithinSerialized(text, room) ==
  IF TextChars(text) <= room THEN text ELSE Slice(text, WholePairs(text, Cut(text, 0, Len(text), room)))

\* Mutant: a cut may halve a character.
ClampTextAnywhere(text, max) ==
  IF Len(text) <= max THEN [text |-> text, truncated |-> FALSE] ELSE [text |-> Slice(text, max), truncated |-> TRUE]

ClampText(text, max) ==
  IF Len(text) <= max THEN [text |-> text, truncated |-> FALSE]
  ELSE [text |-> Slice(text, WholePairs(text, max)), truncated |-> TRUE]

Body(clamped) == TextChars(clamped.text) + (IF clamped.truncated THEN Marker ELSE 0)

\* Mutant: the texts are served as they come.
InOrderGiven(sizes) == [i \in DOMAIN sizes |-> i]

\* Ascending, the earlier of equals first.
InOrder(sizes) == SetToSortSeq(DOMAIN sizes, LAMBDA i, j : sizes[i] < sizes[j] \/ (sizes[i] = sizes[j] /\ i < j))

OmitLargest(sizes, budget) ==
  LET descending == SetToSortSeq(DOMAIN sizes, LAMBDA i, j : sizes[i] > sizes[j] \/ (sizes[i] = sizes[j] /\ i < j))
      Left(k) == SumOf({descending[j] : j \in k..Len(sizes)}, LAMBDA i : sizes[i])
  IN {descending[k] : k \in {k \in DOMAIN sizes : Left(k) > budget}}

ShareBudget(costs, budget) ==
  LET Take(acc, i) ==
        LET fair == acc.remaining \div acc.waiting
            take == IF costs[i] < fair THEN costs[i] ELSE fair
        IN [remaining |-> acc.remaining - take, waiting |-> acc.waiting - 1, out |-> [acc.out EXCEPT ![i] = take]]
  IN FoldLeft(Take, [remaining |-> budget, waiting |-> Len(costs), out |-> [i \in DOMAIN costs |-> 0]], InOrder(costs)).out

\* Mutant: the flag of an omitted block is not weighed.
WeighLess(notes, omit, suggested, offered) ==
  Hints + Serialized([i \in DOMAIN notes |-> Shell + Marker + (IF i \in omit THEN 0 ELSE notes[i].frontmatter)])

\* The result with every body a marker, without the frontmatter in `omit`.
Weigh(notes, omit, suggested, offered) ==
  Hints + Serialized([i \in DOMAIN notes |-> Shell + Marker + (IF i \in omit THEN 2 + Flag ELSE notes[i].frontmatter)])
    + (IF suggested = <<>> THEN 0 ELSE Key + Serialized(suggested))
    + (IF offered > 0 THEN Key ELSE 0)

FitSuggestions(offers, room) ==
  LET all == [k \in DOMAIN offers |-> offers[k].all]
      first == [k \in DOMAIN offers |-> offers[k].first]
      full == FitWithinBudget(all, all, room)
  IN IF full.cut THEN FitWithinBudget(first, first, room).kept ELSE full.kept

BatchResult(notes, offers, maxChars, wantFrontmatter) ==
  LET everything == DOMAIN notes
      without == Weigh(notes, everything, <<>>, Len(offers))
      quarter == ClientSafe \div 4
      room == IF quarter < ClientSafe - without THEN quarter ELSE ClientSafe - without
      suggested == IF offers # <<>> /\ room > LeastRoom THEN FitSuggestions(offers, room - Reserve) ELSE <<>>
      bare == Weigh(notes, everything, suggested, Len(offers))
      omitted == IF wantFrontmatter
                   THEN OmitLargest([i \in everything |-> notes[i].frontmatter], (ClientSafe - bare) \div 2)
                 ELSE everything
      bodiesRoom == ClientSafe - Weigh(notes, omitted, suggested, Len(offers))
      usable == [i \in everything |-> Slice(notes[i].text, maxChars)]
      costs == [i \in everything |-> TextChars(usable[i])]
      shares == ShareBudget(costs, IF bodiesRoom < 0 THEN 0 ELSE bodiesRoom)
  IN IF bare > ClientSafe THEN [refused |-> TRUE]
     ELSE [refused |-> FALSE, omitted |-> omitted, suggested |-> suggested, room |-> bodiesRoom, costs |-> costs,
           bodies |-> [i \in everything |-> ClampText(notes[i].text, Len(PrefixWithinSerialized(usable[i], shares[i])))],
           hintFrontmatter |-> wantFrontmatter /\ omitted # {}]

\* What is sent: a marker only where a text was cut, hints only where they say something.
SentChars(notes, offers, r) ==
  LET cut == \E i \in DOMAIN notes : r.bodies[i].truncated
  IN (IF cut \/ r.hintFrontmatter THEN Hints ELSE 0)
       + Serialized([i \in DOMAIN notes |->
                       Shell + Body(r.bodies[i]) + (IF i \in r.omitted THEN 2 + Flag ELSE notes[i].frontmatter)])
       + (IF r.suggested = <<>> THEN 0 ELSE Key + Serialized(r.suggested))
       + (IF Len(r.suggested) < Len(offers) THEN Key ELSE 0)

-----------------------------------------------------------------------------
\* A batch read either is refused for its paths alone or fits what a client
\* accepts, whatever its texts escape to; no text ends in half a character;
\* texts that fit together arrive whole, up to maxChars; and no text loses more
\* than one escaped character to the cut of what an even share would have given
\* it (the vault_batch_read handler, shareBudget, prefixWithinSerialized,
\* clampText).
BatchFits(notes, offers, maxChars) ==
  \A wantFrontmatter \in BOOLEAN :
    LET r == BatchResult(notes, offers, maxChars, wantFrontmatter)
        total == SumOf(DOMAIN notes, LAMBDA i : r.costs[i])
    IN ~r.refused =>
         /\ SentChars(notes, offers, r) <= ClientSafe
         /\ \A i \in DOMAIN notes :
              LET body == r.bodies[i]
                  given == IF r.costs[i] < r.room \div Len(notes) THEN r.costs[i] ELSE r.room \div Len(notes)
              IN /\ body.text # <<>> => Last(body.text) # "h"
                 /\ body.truncated <=> body.text # notes[i].text
                 /\ total <= r.room => Len(body.text) >= WholePairs(notes[i].text, Len(Slice(notes[i].text, maxChars)))
                 /\ TextChars(body.text) >= given - Escaped
=============================================================================
