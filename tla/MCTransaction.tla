---------------------------- MODULE MCTransaction ----------------------------
(* TLC instances of Transaction: two or three notes, text files of a few parts, and  *)
(* batches that use every operation and overlap in every way.               *)
EXTENDS Transaction

MCPath == {"a", "b", "c"}
MCPath2 == {"a", "b"}
MCToken == {"key", "old", "new", "bad"}
MCKey == {"key"}

Write(p, text, merge) ==
  [op |-> "write", path |-> p, text |-> text, merge |-> merge, expect |-> Any]
Edit(p, find, replace, expect) ==
  [op |-> "edit", path |-> p, find |-> find, replace |-> replace, expect |-> expect]
AppendTo(p, line, heading, unique) ==
  [op |-> "append", path |-> p, line |-> line, heading |-> heading,
   unique |-> unique, expect |-> Any]
SetKeys(p, set, unset) ==
  [op |-> "frontmatter_update", path |-> p, set |-> set, unset |-> unset,
   expect |-> Any]
Move(p, q) == [op |-> "move", path |-> p, to |-> q, expect |-> Any]
Delete(p) == [op |-> "delete", path |-> p, confirm |-> TRUE, expect |-> Any]

(* The first two overlap at b, the third is disjoint from the first: two    *)
(* transactions may run side by side, or wait for each other.  An append    *)
(* that the batch makes redundant, an edit that the op before it makes      *)
(* possible, a merge into what a deletion leaves, a guarded edit.           *)
MCBatches ==
  { <<Move("a", "b"), Write("a", {"new"}, FALSE)>>,
    <<Edit("b", "old", "new", {"old"}), AppendTo("b", "new", {"new"}, TRUE),
      SetKeys("c", {"key"}, {})>>,
    <<Delete("c"), Write("c", {"new"}, TRUE)>>,
    <<AppendTo("a", "new", {}, FALSE), Edit("a", "new", "old", Any)>> }
MCVaults == { [a |-> {"old"}, b |-> Absent, c |-> {"old", "key"}] }

(* Several files, one of them made; enough for another program's write to   *)
(* meet every phase of the call.                                            *)
OneBatch == { <<Edit("a", "old", "new", Any), Write("b", {"new"}, FALSE)>>,
              <<Delete("b"), Move("a", "b")>>,
              <<Move("a", "b"), Write("a", {"new"}, FALSE)>> }
OneVault == { [p \in MCPath2 |-> IF p = "a" THEN {"old"} ELSE Absent],
              [p \in MCPath2 |-> IF p = "a" THEN Binary ELSE Absent],
              [p \in MCPath2 |-> {"old"}] }
OtherFiles == {Absent, {"old", "key"}}

(* What may go wrong in one run. *)
Mishap(faults, crashes, external) ==
  [faults: 0..faults, crashes: 0..crashes, external: 0..external]
FaultsOrOthers == Mishap(2, 1, 0) \cup Mishap(0, 1, 1)
OneOther == Mishap(0, 0, 1)
=============================================================================
