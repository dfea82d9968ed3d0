--------------------------- MODULE MCAuthorization ---------------------------
(***************************************************************************)
(* Small instances of the authorization side of the HTTP server, one per   *)
(* behaviour: the store (FileTokenStore), the handlers over it (AuthFlow)  *)
(* and the rate limits before them (RateLimits).                           *)
(***************************************************************************)
EXTENDS MCFileTokenStore, Authorization, TLC

CONSTANT
  MaxTroubles   \* how many of the faults and rewrites of the store there are in all (a bound)

VARIABLE part

\* The buckets.
Capacities == [oauth |-> 2, anonymous |-> 1, owner |-> 2]
Refills == [oauth |-> 1, anonymous |-> 1, owner |-> 2]

mcVars == <<part, vars, flowVars, rateVars>>

MCInit ==
  /\ part \in {"store", "flow", "rate"}
  /\ Init
  /\ FlowInit /\ (part # "flow" => pendings = <<>> /\ tokens = <<>>)
  /\ RateInit

MCNext ==
  \/ part = "store" /\ Next /\ rewrites' + faults' <= MaxTroubles /\ UNCHANGED <<part, flowVars, rateVars>>
  \/ part = "flow" /\ FlowNext /\ UNCHANGED <<part, vars, rateVars>>
  \/ part = "rate" /\ RateNext /\ UNCHANGED <<part, vars, flowVars>>

MCSpec == MCInit /\ [][MCNext]_mcVars

SlotsAlike == Permutations(Slots)
=============================================================================
