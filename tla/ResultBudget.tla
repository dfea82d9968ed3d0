---------------------------- MODULE ResultBudget ----------------------------
(* Keeping a list within the characters a client accepts: item i of a      *)
(* serialized list costs costs[i] characters, in the order given.          *)
EXTENDS Naturals, Sequences, SequencesExt

Serialized(costs) ==
  2 + FoldLeft(LAMBDA chars, cost : chars + cost, 0, costs) + (IF costs = <<>> THEN 0 ELSE Len(costs) - 1)

\* An item that fits no list of this budget is skipped; the first other that
\* no longer fits ends the list.
FitWithinBudget(items, costs, budget) ==
  LET Take(acc, i) ==
        LET used == acc.used + costs[i] + (IF acc.kept = <<>> THEN 0 ELSE 1)
        IN  IF acc.full THEN acc
            ELSE IF costs[i] + 2 > budget THEN [acc EXCEPT !.cut = TRUE]
            ELSE IF used > budget THEN [acc EXCEPT !.cut = TRUE, !.full = TRUE]
            ELSE [acc EXCEPT !.used = used, !.kept = Append(@, items[i])]
      order == [i \in DOMAIN items |-> i]
  IN FoldLeft(Take, [used |-> 2, kept |-> <<>>, cut |-> FALSE, full |-> FALSE], order)
=============================================================================
