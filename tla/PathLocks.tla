------------------------------ MODULE PathLocks ------------------------------
(***************************************************************************)
(* What a caller of WriteGate.withLock relies on, and nothing of how it is *)
(* done: a call names the set of vault paths it is about to change, runs   *)
(* its body alone on those paths, and every call gets its turn.  WriteGate *)
(* implements this module; Transaction is built on it.                     *)
(***************************************************************************)

CONSTANTS
  Path,    \* vault paths
  Caller   \* concurrent withLock calls (tool calls, transactions)

VARIABLES
  status,  \* per caller: "idle", "waiting" for its paths, "inside" its body
  need     \* per caller: the paths of its current call

vars == <<status, need>>

Init ==
  /\ status = [c \in Caller |-> "idle"]
  /\ need = [c \in Caller |-> {}]

(* c asks to run a body on the paths P. *)
Request(c, P) ==
  /\ status[c] = "idle"
  /\ status' = [status EXCEPT ![c] = "waiting"]
  /\ need' = [need EXCEPT ![c] = P]

(* c's body starts: nobody is inside on any of its paths. *)
Enter(c) ==
  /\ status[c] = "waiting"
  /\ \A d \in Caller : status[d] = "inside" => need[d] \cap need[c] = {}
  /\ status' = [status EXCEPT ![c] = "inside"]
  /\ UNCHANGED need

(* c's body settled, normally or by throwing. *)
Leave(c) ==
  /\ status[c] = "inside"
  /\ status' = [status EXCEPT ![c] = "idle"]
  /\ need' = [need EXCEPT ![c] = {}]

Next ==
  \E c \in Caller :
    \/ \E P \in SUBSET Path : Request(c, P)
    \/ Enter(c)
    \/ Leave(c)

Safety == Init /\ [][Next]_vars

(* Bodies end, and a call that could run again and again is not passed over *)
(* for ever.                                                               *)
Fairness ==
  \A c \in Caller : SF_vars(Enter(c)) /\ WF_vars(Leave(c))

Spec == Safety /\ Fairness

-----------------------------------------------------------------------------
(* No two calls run their bodies on a common path at the same time.        *)
MutualExclusion ==
  \A c, d \in Caller :
    (c # d /\ status[c] = "inside" /\ status[d] = "inside")
      => need[c] \cap need[d] = {}
=============================================================================
