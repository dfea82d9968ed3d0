---------------------------- MODULE MCIndexHeals ----------------------------
(***************************************************************************)
(* Two small instances of IndexRefresh under its fairness: one note that   *)
(* changes again and again, and two notes, or one that moves, of which one *)
(* changes once.                                                           *)
(***************************************************************************)
EXTENDS MCIndexRefresh

VARIABLE subject
mcVars == <<vars, subject>>

MCInit == Init /\ subject \in {"one", "two"} /\ (subject = "one" => disk[2] = 0)

\* The bounds of the two: how many changes there are, and where.
InBounds ==
  \/ subject = "one" /\ touched'[2] = touched[2]
  \/ subject = "two" /\ clock' <= 2

MCNext == Next /\ InBounds /\ UNCHANGED subject

\* No step that Fairness speaks of changes the disk, so the bounds stop none.
MCSpec == MCInit /\ [][MCNext]_mcVars /\ Fairness
=============================================================================
