---------------------------- MODULE Authorization ----------------------------
(***************************************************************************)
(* The authorization server (AuthFlow) and the limits in front of it       *)
(* (RateLimits), and what the two together promise.                        *)
(***************************************************************************)
EXTENDS AuthFlow, RateLimits

\* The times are natural numbers, a lockout lasts a window at least, and the
\* buckets have sizes.
ASSUME AuthorizationAssumption == FlowConstants /\ Sizes

\* What guards the server: consent in front of the tokens (authorize.ts, owner.ts,
\* cimd.ts), the buckets in front of both (mount.ts, app.ts).  See the modules.
GatesHold == ConsentHolds /\ BucketsHold
=============================================================================
