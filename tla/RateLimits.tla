------------------------------ MODULE RateLimits ------------------------------
(***************************************************************************)
(* The token buckets in front of the HTTP server (auth/mount.ts, app.ts):  *)
(* one for /oauth, one for requests of /mcp that do not look authorized,   *)
(* and one for those whose token was found valid.  The clock may be set    *)
(* back.  A bucket's unit is a request; a tick is what refills it.         *)
(***************************************************************************)
EXTENDS Integers

CONSTANTS
  Capacity, Refill,  \* of each bucket: its size, and what a tick puts in
  MaxClock,          \* a bound on the clock
  MaxAsked           \* a bound on requests

Buckets == {"oauth", "anonymous", "owner"}

Sizes == Capacity \in [Buckets -> Nat] /\ Refill \in [Buckets -> Nat]

VARIABLES
  clock,
  level, last,   \* of each bucket: what is in it, when it was looked at
  gate,          \* requests of /mcp whose token is being looked up
  asked,         \* how many requests there were
  forward,       \* history: how far the clock has gone forward
  through,       \* history: what each bucket let through
  burst,         \* history: and since the clock last went forward
  owners         \* history: requests with a valid token

rateVars == <<clock, level, last, gate, asked, forward, through, burst, owners>>

Zero == [b \in Buckets |-> 0]

RateInit ==
  /\ clock = 1 /\ level = Capacity /\ last = [b \in Buckets |-> 1]
  /\ gate = 0 /\ asked = 0
  /\ forward = 0 /\ through = Zero /\ burst = Zero /\ owners = 0

Least(a, b) == IF a < b THEN a ELSE b

\* Mutant: a bucket has no rim.
FilledOver(b) == level[b] + (IF clock > last[b] THEN (clock - last[b]) * Refill[b] ELSE 0)

\* A clock set back refills nothing.
Filled(b) == Least(Capacity[b], level[b] + (IF clock > last[b] THEN (clock - last[b]) * Refill[b] ELSE 0))

\* createRateLimiter: a request draws one, or is refused.
Draw(b, passes) ==
  LET full == Filled(b) IN
  /\ passes <=> full >= 1
  /\ level' = [level EXCEPT ![b] = IF passes THEN full - 1 ELSE full]
  /\ last' = [last EXCEPT ![b] = clock]
  /\ through' = [through EXCEPT ![b] = IF passes THEN @ + 1 ELSE @]
  /\ burst' = [burst EXCEPT ![b] = IF passes THEN @ + 1 ELSE @]

Arrives == asked < MaxAsked /\ asked' = asked + 1 /\ UNCHANGED <<clock, forward>>

OAuth == Arrives /\ (\E passes \in BOOLEAN : Draw("oauth", passes)) /\ UNCHANGED <<gate, owners>>

\* Mutant: every request of /mcp draws from the one bucket.
FirstBucketOwner == "owner"

FirstBucket == "anonymous"

\* A request without a token's shape draws from the small bucket before its token is looked at.
Unshaped ==
  /\ Arrives
  /\ \E passes \in BOOLEAN : Draw(FirstBucket, passes) /\ gate' = IF passes THEN gate + 1 ELSE gate
  /\ UNCHANGED owners

Shaped == Arrives /\ gate' = gate + 1 /\ UNCHANGED <<level, last, through, burst, owners>>

\* bearerGate: the token is valid and the request draws from the owner's bucket, or it is refused.
Valid ==
  /\ gate > 0 /\ gate' = gate - 1 /\ owners' = owners + 1
  /\ \E passes \in BOOLEAN : Draw("owner", passes)
  /\ UNCHANGED <<clock, asked, forward>>

Invalid == gate > 0 /\ gate' = gate - 1 /\ UNCHANGED <<clock, level, last, asked, forward, through, burst, owners>>

Forward ==
  /\ clock < MaxClock /\ clock' = clock + 1 /\ forward' = forward + 1 /\ burst' = Zero
  /\ forward < 2 * MaxClock
  /\ UNCHANGED <<level, last, gate, asked, through, owners>>

SetBack == clock > 1 /\ clock' = 1 /\ UNCHANGED <<level, last, gate, asked, forward, through, burst, owners>>

RateNext == OAuth \/ Unshaped \/ Shaped \/ Valid \/ Invalid \/ Forward \/ SetBack

RateSpec == RateInit /\ [][RateNext]_rateVars

-----------------------------------------------------------------------------
\* Over any time a bucket lets through what it holds and what was refilled, at
\* one time no more than it holds, also when the clock is set back; and requests
\* that are not the owner's take nothing from the owner's bucket.
BucketsHold ==
  /\ \A b \in Buckets : burst[b] <= Capacity[b] /\ through[b] <= Capacity[b] + Refill[b] * forward
  /\ Capacity["owner"] - level["owner"] <= owners
=============================================================================
