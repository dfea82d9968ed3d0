------------------------- MODULE AuthorizationProofs -------------------------
(***************************************************************************)
(* Theorems about authorization, for any number of requests at once, any   *)
(* times and any sizes: the limits in front of the server (RateLimits), and *)
(* what consent, codes and tokens are good for behind them (AuthFlow).     *)
(***************************************************************************)
EXTENDS Authorization, TLAPS, FiniteSetTheorems, SequenceTheorems

-----------------------------------------------------------------------------
(* The buckets. *)

\* What a bucket has to its credit since it was looked at.
Due(b) == IF clock > last[b] THEN (clock - last[b]) * Refill[b] ELSE 0

BucketTypes ==
  /\ clock \in Int /\ forward \in Nat /\ owners \in Nat
  /\ level \in [Buckets -> Nat] /\ last \in [Buckets -> Int]
  /\ through \in [Buckets -> Nat] /\ burst \in [Buckets -> Nat]

\* Nothing that was let through came from nowhere.
Accounted(b) ==
  /\ level[b] <= Capacity[b]
  /\ through[b] + level[b] + Due(b) <= Capacity[b] + Refill[b] * forward

\* After a request was let through, nothing is refilled until the clock goes forward.
AtOnce(b) == burst[b] > 0 => last[b] >= clock /\ burst[b] + level[b] <= Capacity[b]

OwnersOwn == Capacity["owner"] - level["owner"] <= owners

BucketInv ==
  /\ BucketTypes
  /\ \A b \in Buckets : Accounted(b) /\ AtOnce(b)
  /\ OwnersOwn

\* One more tick puts in one refill more.
LEMMA Distributes == \A x, y \in Int : x * (y + 1) = x * y + x /\ (y + 1) * x = y * x + x
  BY SMT

\* What ticks put in is a natural number.
LEMMA ProductNat == \A x, y \in Nat : x * y \in Nat
  BY SMT

\* What is due is a natural number, and nothing when the bucket was just looked at.
LEMMA DueNat ==
  ASSUME BucketTypes, Sizes, NEW b \in Buckets
  PROVE  Due(b) \in Nat
  <1>1. CASE clock > last[b]
    <2>1. clock - last[b] \in Nat  BY <1>1 DEF BucketTypes
    <2>2. Refill[b] \in Nat  BY DEF Sizes
    <2> QED  BY <1>1, <2>1, <2>2, ProductNat DEF Due
  <1>2. CASE ~(clock > last[b])  BY <1>2 DEF Due
  <1> QED  BY <1>1, <1>2

\* A draw keeps what the invariant says of its bucket, and takes at most one of it.
LEMMA DrawKeeps ==
  ASSUME BucketInv, Sizes, NEW b \in Buckets, NEW passes \in BOOLEAN, Draw(b, passes),
         UNCHANGED <<clock, forward>>
  PROVE  /\ level' \in [Buckets -> Nat] /\ last' \in [Buckets -> Int]
         /\ through' \in [Buckets -> Nat] /\ burst' \in [Buckets -> Nat]
         /\ \A x \in Buckets : Accounted(x)' /\ AtOnce(x)'
         /\ level'[b] >= level[b] - 1 /\ \A x \in Buckets \ {b} : level'[x] = level[x]
  <1> DEFINE full == Filled(b)
  <1>1. Due(b) \in Nat  BY DueNat DEF BucketInv
  <1>2. /\ Capacity[b] \in Nat /\ level[b] \in Nat /\ through[b] \in Nat /\ burst[b] \in Nat
        /\ level[b] <= Capacity[b] /\ clock \in Int /\ last[b] \in Int
    BY DEF BucketInv, BucketTypes, Sizes, Accounted
  <1>3. full = IF Capacity[b] < level[b] + Due(b) THEN Capacity[b] ELSE level[b] + Due(b)
    BY DEF Filled, Least, Due
  <1>4. full \in Nat /\ full >= level[b] /\ full <= Capacity[b] /\ full <= level[b] + Due(b)
    BY <1>1, <1>2, <1>3
  <1> HIDE DEF full
  <1>5. /\ level' = [level EXCEPT ![b] = IF passes THEN full - 1 ELSE full]
        /\ last' = [last EXCEPT ![b] = clock]
        /\ through' = [through EXCEPT ![b] = IF passes THEN @ + 1 ELSE @]
        /\ burst' = [burst EXCEPT ![b] = IF passes THEN @ + 1 ELSE @]
        /\ passes => full >= 1
    BY DEF Draw, full
  <1>6. /\ level' \in [Buckets -> Nat] /\ last' \in [Buckets -> Int]
        /\ through' \in [Buckets -> Nat] /\ burst' \in [Buckets -> Nat]
    BY <1>2, <1>4, <1>5 DEF BucketInv, BucketTypes
  <1>7. /\ level'[b] = (IF passes THEN full - 1 ELSE full) /\ last'[b] = clock
        /\ through'[b] = (IF passes THEN through[b] + 1 ELSE through[b])
        /\ burst'[b] = (IF passes THEN burst[b] + 1 ELSE burst[b])
        /\ \A x \in Buckets \ {b} : /\ level'[x] = level[x] /\ last'[x] = last[x]
                                    /\ through'[x] = through[x] /\ burst'[x] = burst[x]
    BY <1>5 DEF BucketInv, BucketTypes
  <1>8. ASSUME NEW x \in Buckets  PROVE Accounted(x)' /\ AtOnce(x)'
    <2>1. CASE x # b
      BY <1>7, <2>1 DEF BucketInv, Accounted, AtOnce, Due
    <2>2. CASE x = b
      <3> DEFINE given == Capacity[b] + Refill[b] * forward
      <3>1. Due(b)' = 0  BY <1>2, <1>7 DEF Due
      <3>2. given \in Nat  BY ProductNat DEF Sizes, BucketInv, BucketTypes
      <3>3. through[b] + level[b] + Due(b) <= given  BY DEF BucketInv, Accounted
      <3> HIDE DEF given
      <3>4. through'[b] + level'[b] + 0 <= given
        BY <1>1, <1>2, <1>4, <1>5, <1>7, <3>2, <3>3
      <3>5. level'[b] <= Capacity[b]  BY <1>2, <1>4, <1>7
      <3>6. Accounted(b)'
        BY <3>1, <3>4, <3>5 DEF Accounted, given
      <3>7. burst[b] > 0 => Due(b) = 0  BY <1>2 DEF BucketInv, AtOnce, Due
      <3>8. burst[b] > 0 => burst[b] + level[b] <= Capacity[b]  BY DEF BucketInv, AtOnce
      <3>9. burst'[b] > 0 => burst'[b] + level'[b] <= Capacity[b]
        BY <1>1, <1>2, <1>4, <1>5, <1>7, <3>7, <3>8
      <3>10. AtOnce(b)'  BY <1>2, <1>7, <3>9 DEF AtOnce
      <3> QED  BY <2>2, <3>6, <3>10
    <2> QED  BY <2>1, <2>2
  <1>9. level'[b] >= level[b] - 1  BY <1>2, <1>4, <1>7
  <1> QED  BY <1>6, <1>7, <1>8, <1>9

\* Every step keeps the invariant: a draw by DrawKeeps, a tick because it adds one
\* refill to what is due, a clock set back because it only takes from it.
LEMMA BucketStep ==
  ASSUME BucketInv, Sizes, [RateNext]_rateVars
  PROVE  BucketInv'
  <1>1. CASE OAuth
    <2>1. PICK passes \in BOOLEAN : Draw("oauth", passes)  BY <1>1 DEF OAuth
    <2>2. UNCHANGED <<clock, forward, owners>>  BY <1>1 DEF OAuth, Arrives
    <2>3. "oauth" \in Buckets /\ "owner" \in Buckets \ {"oauth"}  BY DEF Buckets
    <2> QED  BY <2>1, <2>2, <2>3, DrawKeeps DEF BucketInv, BucketTypes, OwnersOwn
  <1>2. CASE Unshaped
    <2>1. PICK passes \in BOOLEAN : Draw("anonymous", passes)  BY <1>2 DEF Unshaped, FirstBucket
    <2>2. UNCHANGED <<clock, forward, owners>>  BY <1>2 DEF Unshaped, Arrives
    <2>3. "anonymous" \in Buckets /\ "owner" \in Buckets \ {"anonymous"}  BY DEF Buckets
    <2> QED  BY <2>1, <2>2, <2>3, DrawKeeps DEF BucketInv, BucketTypes, OwnersOwn
  <1>3. CASE Valid
    <2>1. PICK passes \in BOOLEAN : Draw("owner", passes)  BY <1>3 DEF Valid
    <2>2. UNCHANGED <<clock, forward>> /\ owners' = owners + 1  BY <1>3 DEF Valid
    <2>3. "owner" \in Buckets  BY DEF Buckets
    <2>4. /\ level' \in [Buckets -> Nat] /\ last' \in [Buckets -> Int]
          /\ through' \in [Buckets -> Nat] /\ burst' \in [Buckets -> Nat]
          /\ \A x \in Buckets : Accounted(x)' /\ AtOnce(x)'
          /\ level'["owner"] >= level["owner"] - 1
      BY <2>1, <2>2, <2>3, DrawKeeps
    <2>5. BucketTypes'  BY <2>2, <2>4 DEF BucketInv, BucketTypes
    <2>6. OwnersOwn'
      BY <2>2, <2>3, <2>4 DEF BucketInv, BucketTypes, OwnersOwn, Sizes
    <2> QED  BY <2>4, <2>5, <2>6 DEF BucketInv
  <1>4. CASE Forward
    <2>1. /\ clock' = clock + 1 /\ forward' = forward + 1 /\ burst' = [b \in Buckets |-> 0]
          /\ UNCHANGED <<level, last, through, owners>>
      BY <1>4 DEF Forward, Zero
    <2>2. BucketTypes' /\ OwnersOwn'
      BY <2>1 DEF BucketInv, BucketTypes, OwnersOwn
    <2>3. ASSUME NEW b \in Buckets  PROVE Accounted(b)' /\ AtOnce(b)'
      <3>1. /\ clock \in Int /\ last[b] \in Int /\ forward \in Nat /\ Refill[b] \in Nat
            /\ Capacity[b] \in Nat /\ level[b] \in Nat /\ through[b] \in Nat
        BY DEF BucketInv, BucketTypes, Sizes
      <3>2. Refill[b] * (forward + 1) = Refill[b] * forward + Refill[b]
        BY <3>1, Distributes
      <3>3. Refill[b] * forward \in Nat  BY <3>1, ProductNat
      <3>4. Due(b)' \in Int /\ Due(b)' <= Due(b) + Refill[b]
        <4>1. CASE clock > last[b]
          <5>1. (clock - last[b] + 1) * Refill[b] = (clock - last[b]) * Refill[b] + Refill[b]
            BY <3>1, Distributes
          <5>2. (clock - last[b]) * Refill[b] \in Nat  BY <3>1, <4>1, ProductNat
          <5>3. clock + 1 - last[b] = clock - last[b] + 1  BY <3>1
          <5>4. Due(b) = (clock - last[b]) * Refill[b]  BY <4>1 DEF Due
          <5>5. Due(b)' = (clock - last[b] + 1) * Refill[b]
            BY <2>1, <3>1, <4>1, <5>3 DEF Due
          <5> QED  BY <3>1, <5>1, <5>2, <5>4, <5>5
        <4>2. CASE clock = last[b]
          <5>1. Due(b) = 0  BY <3>1, <4>2 DEF Due
          <5>2. Due(b)' = (clock + 1 - last[b]) * Refill[b]  BY <2>1, <3>1, <4>2 DEF Due
          <5>3. clock + 1 - last[b] = 1  BY <3>1, <4>2
          <5>4. 1 * Refill[b] = Refill[b]  BY <3>1
          <5> QED  BY <3>1, <5>1, <5>2, <5>3, <5>4
        <4>3. CASE clock < last[b]
          <5>1. Due(b) = 0 /\ Due(b)' = 0  BY <2>1, <3>1, <4>3 DEF Due
          <5> QED  BY <3>1, <5>1
        <4> QED  BY <3>1, <4>1, <4>2, <4>3
      <3>5. Due(b) \in Nat  BY DueNat DEF BucketInv
      <3>6. /\ level[b] <= Capacity[b]
            /\ through[b] + level[b] + Due(b) <= Capacity[b] + Refill[b] * forward
        BY DEF BucketInv, Accounted
      <3>7. through[b] + level[b] + Due(b)' <= Capacity[b] + Refill[b] * (forward + 1)
        BY <3>1, <3>2, <3>3, <3>4, <3>5, <3>6
      <3>8. Accounted(b)'  BY <2>1, <3>6, <3>7 DEF Accounted
      <3>9. AtOnce(b)'  BY <2>1 DEF AtOnce
      <3> QED  BY <3>8, <3>9
    <2> QED  BY <2>2, <2>3 DEF BucketInv
  <1>5. CASE SetBack
    <2>1. /\ clock' = 1 /\ clock > 1
          /\ UNCHANGED <<level, last, forward, through, burst, owners>>
      BY <1>5 DEF SetBack
    <2>2. BucketTypes' /\ OwnersOwn'
      BY <2>1 DEF BucketInv, BucketTypes, OwnersOwn
    <2>3. ASSUME NEW b \in Buckets  PROVE Accounted(b)' /\ AtOnce(b)'
      <3>1. /\ clock \in Int /\ last[b] \in Int /\ Refill[b] \in Nat /\ forward \in Nat
            /\ Capacity[b] \in Nat /\ level[b] \in Nat /\ through[b] \in Nat /\ burst[b] \in Nat
        BY DEF BucketInv, BucketTypes, Sizes
      <3>2. Due(b) \in Nat  BY DueNat DEF BucketInv
      <3>3. Due(b)' \in Int /\ Due(b)' <= Due(b)
        <4>1. CASE last[b] >= 1
          BY <2>1, <3>1, <3>2, <4>1 DEF Due
        <4>2. CASE last[b] < 1
          <5>1. Due(b) = (clock - last[b]) * Refill[b] /\ Due(b)' = (1 - last[b]) * Refill[b]
            BY <2>1, <3>1, <4>2 DEF Due
          <5>2. (clock - last[b]) * Refill[b] = (clock - 1) * Refill[b] + (1 - last[b]) * Refill[b]
            BY <3>1
          <5>3. (clock - 1) * Refill[b] \in Nat /\ (1 - last[b]) * Refill[b] \in Nat
            BY <2>1, <3>1, <4>2, ProductNat
          <5> QED  BY <5>1, <5>2, <5>3
        <4> QED  BY <3>1, <4>1, <4>2
      <3>4. Refill[b] * forward \in Nat  BY <3>1, ProductNat
      <3>5. Accounted(b)'
        BY <2>1, <3>1, <3>2, <3>3, <3>4 DEF BucketInv, Accounted
      <3>6. AtOnce(b)'  BY <2>1, <3>1 DEF BucketInv, AtOnce
      <3> QED  BY <3>5, <3>6
    <2> QED  BY <2>2, <2>3 DEF BucketInv
  <1>6. CASE Shaped \/ Invalid \/ UNCHANGED rateVars
    <2>1. UNCHANGED <<clock, forward, owners, level, last, through, burst>>
      BY <1>6 DEF Shaped, Invalid, Arrives, rateVars
    <2> QED
      BY <2>1 DEF BucketInv, BucketTypes, Accounted, AtOnce, OwnersOwn, Due
  <1> QED  BY <1>1, <1>2, <1>3, <1>4, <1>5, <1>6 DEF RateNext

\* The limits in front of the server (auth/mount.ts, app.ts): a bucket lets
\* through what it holds and what was refilled, at one time no more than it
\* holds, whatever is done to the clock, and only requests with a valid token
\* draw from the owner's.
THEOREM RateBucketsHold ==
  ASSUME Sizes
  PROVE  RateSpec => []BucketsHold
  <1>1. RateInit => BucketInv
    <2> SUFFICES ASSUME RateInit PROVE BucketInv  OBVIOUS
    <2>1. BucketTypes  BY DEF RateInit, BucketTypes, Sizes, Zero
    <2>2. ASSUME NEW b \in Buckets  PROVE Accounted(b) /\ AtOnce(b)
      <3>1. Capacity[b] \in Nat /\ Refill[b] \in Nat  BY DEF Sizes
      <3>2. Refill[b] * 0 = 0  BY <3>1
      <3> QED  BY <3>1, <3>2 DEF RateInit, Zero, Accounted, AtOnce, Due
    <2>3. OwnersOwn  BY DEF RateInit, OwnersOwn, Sizes, Buckets
    <2> QED  BY <2>1, <2>2, <2>3 DEF BucketInv
  <1>2. BucketInv /\ [RateNext]_rateVars => BucketInv'  BY BucketStep
  <1>3. BucketInv => BucketsHold
    <2> SUFFICES ASSUME BucketInv PROVE BucketsHold  OBVIOUS
    <2>1. ASSUME NEW b \in Buckets
          PROVE  burst[b] <= Capacity[b] /\ through[b] <= Capacity[b] + Refill[b] * forward
      <3>1. /\ Capacity[b] \in Nat /\ level[b] \in Nat /\ through[b] \in Nat /\ burst[b] \in Nat
            /\ Refill[b] * forward \in Nat
        BY ProductNat DEF BucketInv, BucketTypes, Sizes
      <3>2. Due(b) \in Nat  BY DueNat DEF BucketInv
      <3> QED  BY <3>1, <3>2 DEF BucketInv, Accounted, AtOnce
    <2> QED  BY <2>1 DEF BucketInv, OwnersOwn, BucketsHold
  <1> QED  BY <1>1, <1>2, <1>3, PTL DEF RateSpec

-----------------------------------------------------------------------------
(* Codes and tokens. *)

\* A record of the store, and what a request goes by.
TokenRecords == [kind : {"access", "refresh"}, family : Nat, until : Nat, there : BOOLEAN, revoked : BOOLEAN,
                 rotated : Nat, used : Nat, done : Nat]
CodeRecords == [is : {"live", "used", "gone"}, until : Nat]
ReqFields == {"at", "job", "t", "family", "rec", "pair"}

Live == dead \ raced

ClockInv == time \in 1 .. MaxTime /\ made \in 0 .. MaxRequests

\* A code that bought a family is not live any more.
BuyInv ==
  /\ codes \in Seq(CodeRecords)
  /\ families \in Seq(Nat)
  /\ \A f \in DOMAIN families : families[f] = 0 \/ (families[f] \in DOMAIN codes /\ codes[families[f]].is # "live")
  /\ CodesBuyOnce

\* A token that was rotated before its first rotation was answered, and a dead one.
TokenInv ==
  /\ tokens \in Seq(TokenRecords) /\ dead \subseteq DOMAIN families
  /\ \A i \in DOMAIN tokens :
       LET rec == tokens[i] IN
       /\ rec.family \in DOMAIN families
       /\ rec.family \in Live => rec.revoked
       /\ rec.rotated <= time
       /\ rec.done # 0 => rec.rotated <= rec.done /\ (rec.there => rec.rotated # 0)

\* What a request still relies on when it goes on.
ReqInv(r) ==
  LET q == req[r] IN
  /\ DOMAIN q = ReqFields /\ q.t \in 0 .. time /\ q.family \in 0 .. Len(families)
  /\ q.at # "idle" => q.t # 0
  /\ q.at \in {"consent", "exchange", "refresh"} => q.job.kind = q.at
  /\ q.at = "consent" => q.job.action \in {"approve", "deny", "other"}
  /\ q.at = "exchange" => q.job.id \in DOMAIN codes
  /\ q.at \in {"refresh", "revoke", "use", "touch", "rotate"} => q.job.id \in DOMAIN tokens
  /\ q.at = "rotate" => q.job.kind = "refresh"
  /\ q.at \in {"revokeFamily", "rotate", "access", "pair"} => q.family \in DOMAIN families
  /\ q.at \in {"rotate", "access", "pair"} => q.family \notin Live
  /\ q.at = "rotate" => tokens[q.job.id].done = 0 \/ q.t <= tokens[q.job.id].done
  /\ q.at \in {"rotate", "access", "pair", "issued"} /\ q.job.kind = "refresh" =>
       /\ q.job.id \in DOMAIN tokens
       /\ tokens[q.job.id].done = 0 \/ q.t - tokens[q.job.id].done <= Grace
  /\ q.at \in {"access", "pair", "issued"} /\ q.job.kind = "refresh" /\ tokens[q.job.id].there =>
       tokens[q.job.id].rotated # 0

\* The failures noted are the last of the wrong secrets; the others are out of the window or led to a lockout.
AttemptInv ==
  /\ wrong \in Seq(Nat) /\ owner \in [failures : Seq(Nat), lockedUntil : Nat]
  /\ \A i \in DOMAIN wrong : wrong[i] <= time
  /\ \A i, j \in DOMAIN wrong : i <= j => wrong[i] <= wrong[j]
  /\ Len(owner.failures) < MaxAttempts /\ Len(owner.failures) <= Len(wrong)
  /\ \A j \in 1 .. Len(owner.failures) : owner.failures[j] = wrong[Len(wrong) - Len(owner.failures) + j]
  /\ \A i \in 1 .. Len(wrong) - Len(owner.failures) : time - wrong[i] >= Window \/ wrong[i] + Lockout <= owner.lockedUntil
  /\ AttemptsBounded

ClientInv == client.is \in {"none", "good", "negative"} /\ client.until \in Nat /\ failedAt \in Nat /\ NegativeEnds

RequestsInv == TokenInv /\ (DOMAIN req = Slots /\ \A r \in Slots : ReqInv(r))

FlowInv == ClockInv /\ BuyInv /\ RequestsInv /\ AttemptInv /\ ClientInv

\* What nearly every step below takes from the invariant.
LEMMA FlowFacts ==
  ASSUME FlowConstants, FlowInv
  PROVE  /\ time \in Nat /\ time # 0 /\ families \in Seq(Nat) /\ Len(families) \in Nat
         /\ tokens \in Seq(TokenRecords) /\ codes \in Seq(CodeRecords) /\ TokenInv
         /\ DOMAIN req = Slots /\ \A r \in Slots : ReqInv(r)
<1>1. ClockInv /\ BuyInv /\ TokenInv /\ DOMAIN req = Slots /\ (\A r \in Slots : ReqInv(r)) /\ MaxTime \in Nat
  BY DEF FlowInv, RequestsInv, FlowConstants
<1>2. time \in Nat /\ time # 0
  BY <1>1 DEF ClockInv
<1>3. families \in Seq(Nat) /\ codes \in Seq(CodeRecords)
  BY <1>1 DEF BuyInv
<1>4. tokens \in Seq(TokenRecords)
  BY <1>1 DEF TokenInv
<1> QED BY <1>1, <1>2, <1>3, <1>4

-----------------------------------------------------------------------------
(* A step of one request, and those that look on. *)

\* What the store still has for a request that waits.
Keeps ==
  /\ DOMAIN codes \subseteq DOMAIN codes' /\ DOMAIN tokens \subseteq DOMAIN tokens'
  /\ DOMAIN families \subseteq DOMAIN families' /\ Len(families) <= Len(families') /\ Len(families') \in Nat
  /\ time <= time' /\ time' \in Nat
  /\ \A i \in DOMAIN tokens : /\ tokens'[i].there => tokens[i].there
                              /\ tokens[i].rotated # 0 => tokens'[i].rotated # 0
                              /\ tokens'[i].done = tokens[i].done \/ tokens'[i].done = time
  /\ \A f \in Growing : f \in Live' => f \in Live

LEMMA OthersHold ==
  ASSUME FlowConstants, FlowInv, NEW r \in Slots, Keeps, req'[r] = req[r]
  PROVE  ReqInv(r)'
<1> DEFINE q == req[r]
<1>1. ReqInv(r) /\ time \in Nat /\ Grace \in Nat
  BY DEF FlowInv, RequestsInv, ClockInv, FlowConstants
<1>2. q.at \in {"rotate", "access", "pair"} => q.family \in Growing
  BY DEF Growing
<1>3. q.at \in {"rotate", "access", "pair"} => q.family \notin Live'
  BY <1>1, <1>2 DEF Keeps, ReqInv
<1>4. ASSUME NEW i \in DOMAIN tokens, tokens[i].done = 0 \/ q.t <= tokens[i].done
      PROVE  tokens'[i].done = 0 \/ q.t <= tokens'[i].done
  BY <1>1, <1>4 DEF Keeps, ReqInv
<1>5. ASSUME NEW i \in DOMAIN tokens, tokens[i].done = 0 \/ q.t - tokens[i].done <= Grace
      PROVE  tokens'[i].done = 0 \/ q.t - tokens'[i].done <= Grace
  BY <1>1, <1>5 DEF Keeps, ReqInv
<1>6. /\ DOMAIN q = ReqFields /\ q.t \in 0 .. time' /\ q.family \in 0 .. Len(families')
      /\ q.at # "idle" => q.t # 0
      /\ q.at \in {"consent", "exchange", "refresh"} => q.job.kind = q.at
      /\ q.at = "consent" => q.job.action \in {"approve", "deny", "other"}
      /\ q.at = "exchange" => q.job.id \in DOMAIN codes'
      /\ q.at \in {"refresh", "revoke", "use", "touch", "rotate"} => q.job.id \in DOMAIN tokens'
      /\ q.at = "rotate" => q.job.kind = "refresh"
      /\ q.at \in {"revokeFamily", "rotate", "access", "pair"} => q.family \in DOMAIN families'
  BY <1>1 DEF Keeps, ReqInv
<1>7. q.at = "rotate" => tokens'[q.job.id].done = 0 \/ q.t <= tokens'[q.job.id].done
  BY <1>1, <1>4 DEF ReqInv
<1>8. q.at \in {"rotate", "access", "pair", "issued"} /\ q.job.kind = "refresh" =>
        /\ q.job.id \in DOMAIN tokens'
        /\ tokens'[q.job.id].done = 0 \/ q.t - tokens'[q.job.id].done <= Grace
  BY <1>1, <1>5 DEF ReqInv, Keeps
<1>9. q.at \in {"access", "pair", "issued"} /\ q.job.kind = "refresh" /\ tokens'[q.job.id].there =>
        tokens'[q.job.id].rotated # 0
  BY <1>1 DEF ReqInv, Keeps
<1> QED BY <1>3, <1>6, <1>7, <1>8, <1>9 DEF ReqInv

\* A step of r alone.
Alone(r) == DOMAIN req' = Slots /\ \A x \in Slots \ {r} : req'[x] = req[x]

LEMMA GoesAlone ==
  ASSUME FlowInv, NEW r \in Slots
  PROVE  /\ \A at : GoesTo(r, at) =>
              /\ Alone(r) /\ DOMAIN req'[r] = ReqFields /\ req'[r].at = at
              /\ req'[r].job = req[r].job /\ req'[r].t = req[r].t /\ req'[r].family = req[r].family
         /\ Ends(r) => Alone(r) /\ req'[r] = Idle
BY DEF FlowInv, RequestsInv, ReqInv, GoesTo, Ends, Alone, ReqFields

LEMMA IdleHolds ==
  ASSUME NEW r \in Slots, req'[r] = Idle, time' \in Nat, Len(families') \in Nat
  PROVE  ReqInv(r)'
BY DEF ReqInv, Idle, ReqFields

\* A step that leaves the tokens alone.
LEMMA OnlyReq ==
  ASSUME FlowConstants, FlowInv, NEW r \in Slots, Alone(r), UNCHANGED <<time, tokens, families, dead, raced>>,
         DOMAIN codes \subseteq DOMAIN codes', ReqInv(r)'
  PROVE  RequestsInv'
<1>1. Keeps
  BY DEF Keeps, FlowInv, ClockInv, BuyInv, FlowConstants, Live
<1>2. TokenInv'
  BY DEF FlowInv, RequestsInv, TokenInv, Live
<1>3. \A x \in Slots \ {r} : ReqInv(x)'
  BY <1>1, OthersHold DEF Alone
<1> QED BY <1>2, <1>3 DEF RequestsInv, Alone

\* r is answered, or goes on where nothing is relied on.
LEMMA Careless ==
  ASSUME FlowConstants, FlowInv, NEW r \in Slots, UNCHANGED <<time, tokens, families, dead, raced>>,
         DOMAIN codes \subseteq DOMAIN codes', req[r].at # "idle",
         Ends(r) \/ \E at \in {"fetch", "resolved", "deletePending", "putCode"} : GoesTo(r, at)
  PROVE  RequestsInv'
<1>1. time \in Nat /\ Len(families) \in Nat /\ ReqInv(r) /\ time' \in Nat /\ Len(families') \in Nat
  BY DEF FlowInv, ClockInv, BuyInv, RequestsInv, FlowConstants
<1>2. CASE Ends(r)
  BY <1>1, <1>2, GoesAlone, IdleHolds, OnlyReq
<1>3. CASE \E at \in {"fetch", "resolved", "deletePending", "putCode"} : GoesTo(r, at)
  <2>1. PICK at \in {"fetch", "resolved", "deletePending", "putCode"} : GoesTo(r, at)
    BY <1>3
  <2>2. /\ Alone(r) /\ DOMAIN req'[r] = ReqFields /\ req'[r].at = at
        /\ req'[r].job = req[r].job /\ req'[r].t = req[r].t /\ req'[r].family = req[r].family
    BY <2>1, GoesAlone
  <2>3. ReqInv(r)'
    BY <1>1, <2>2 DEF ReqInv
  <2> QED BY <2>2, <2>3, OnlyReq
<1> QED BY <1>2, <1>3

LEMMA ArriveHolds ==
  ASSUME FlowConstants, FlowInv, NEW r \in Slots, Arrive(r)
  PROVE  RequestsInv'
<1>1. PICK job \in Jobs : req' = [req EXCEPT ![r] = [Idle EXCEPT !.at = job.kind, !.job = job, !.t = time]]
  BY DEF Arrive
<1>2. /\ job.kind \in {"authorize", "consent", "exchange", "refresh", "revoke", "use"}
      /\ job.kind = "consent" => job.action \in {"approve", "deny", "other"}
      /\ job.kind = "exchange" => job.id \in DOMAIN codes
      /\ job.kind \in {"refresh", "revoke", "use"} => job.id \in DOMAIN tokens
  <2>1. CASE job \in [kind : {"authorize"}, good : BOOLEAN]
    BY <2>1
  <2>2. CASE job \in Consents
    BY <2>2 DEF Consents
  <2>3. CASE job \in [kind : {"exchange"}, id : DOMAIN codes, good : BOOLEAN]
    BY <2>3
  <2>4. CASE job \in [kind : {"refresh"}, id : Known, good : BOOLEAN] \union [kind : {"revoke", "use"}, id : Known]
    <3>1. job.kind \in {"refresh", "revoke", "use"} /\ job.id \in Known
      BY <2>4
    <3> QED BY <3>1 DEF Known
  <2> QED BY <2>1, <2>2, <2>3, <2>4 DEF Jobs
<1>3. UNCHANGED <<time, tokens, families, dead, raced, codes>>
  BY DEF Arrive, store, history
<1>4. DOMAIN req = Slots /\ time \in Nat /\ time # 0 /\ Len(families) \in Nat
  BY DEF FlowInv, RequestsInv, ClockInv, FlowConstants, BuyInv
<1>5. req'[r] = [at |-> job.kind, job |-> job, t |-> time, family |-> 0, rec |-> Token("none", 0, 0), pair |-> {}] /\ Alone(r)
  BY <1>1, <1>4 DEF Idle, Alone
<1>6. ReqInv(r)'
  BY <1>2, <1>3, <1>4, <1>5 DEF ReqInv, ReqFields
<1> QED BY <1>3, <1>5, <1>6, OnlyReq

LEMMA CarelessSteps ==
  ASSUME FlowConstants, FlowInv, NEW r \in Slots,
         \/ Cached(r) \/ Fetched(r) \/ AskOwner(r) \/ Consent(r) \/ PutCode(r) \/ DeletePending(r)
  PROVE  RequestsInv'
<1>1. /\ req[r].at # "idle"
      /\ UNCHANGED <<time, tokens, families, dead, raced>> /\ DOMAIN codes \subseteq DOMAIN codes'
      /\ Ends(r) \/ \E at \in {"fetch", "resolved", "deletePending", "putCode"} : GoesTo(r, at)
  <2>1. CASE Cached(r)
    <3>1. client.is \in {"none", "good", "negative"}
      BY DEF FlowInv, ClientInv
    <3> QED BY <2>1, <3>1 DEF Cached, At, history
  <2>2. CASE Fetched(r)
    BY <2>2 DEF Fetched, At
  <2>3. CASE AskOwner(r)
    BY <2>3 DEF AskOwner, At, history
  <2>4. CASE Consent(r)
    <3>1. At(r, "consent") /\ UNCHANGED <<store, dead, raced, failedAt>>
      BY <2>4 DEF Consent
    <3>2. req[r].job.action \in {"approve", "deny", "other"}
      BY <3>1 DEF FlowInv, RequestsInv, ReqInv, At
    <3>3. Ends(r) \/ GoesTo(r, "deletePending") \/ GoesTo(r, "putCode")
      BY <2>4, <3>2 DEF Consent
    <3> QED BY <3>1, <3>3 DEF At, store
  <2>5. CASE PutCode(r)
    <3>1. codes \in Seq(CodeRecords)
      BY DEF FlowInv, BuyInv
    <3> QED BY <2>5, <3>1 DEF PutCode, At, history
  <2>6. CASE DeletePending(r)
    BY <2>6 DEF DeletePending, At, history
  <2> QED BY <2>1, <2>2, <2>3, <2>4, <2>5, <2>6
<1> QED BY <1>1, Careless

\* A refresh token that still refreshes is of no dead family, and its rotation, if it was answered, is recent.
LEMMA ReadRefreshHolds ==
  ASSUME FlowConstants, FlowInv, NEW r \in Slots, ReadRefresh(r)
  PROVE  RequestsInv'
<1> DEFINE i == req[r].job.id
           rec == tokens[i]
           t == req[r].t
           refused == rec.kind # "refresh" \/ rec.revoked \/ rec.until <= t \/ ~req[r].job.good
           reused == rec.rotated # 0 /\ t - rec.rotated > Grace
           at == CASE refused \/ reused -> "revokeFamily"
                   [] ~refused /\ ~reused /\ Rotates(rec) -> "rotate"
                   [] OTHER -> "access"
<1>1. /\ req[r].at = "refresh" /\ UNCHANGED <<time, tokens, families, dead, raced, codes>>
      /\ Ends(r) \/ (rec.there /\ req' = [req EXCEPT ![r].family = rec.family, ![r].at = at])
  BY DEF ReadRefresh, At, store, history
<1>2. /\ ReqInv(r) /\ i \in DOMAIN tokens /\ DOMAIN req = Slots /\ time \in Nat /\ Grace \in Nat /\ Len(families) \in Nat
      /\ t \in 0 .. time /\ t # 0
  <2>1. ReqInv(r) /\ DOMAIN req = Slots /\ time \in Nat /\ Grace \in Nat /\ Len(families) \in Nat
    BY DEF FlowInv, RequestsInv, ClockInv, FlowConstants, BuyInv
  <2> QED BY <1>1, <2>1 DEF ReqInv
<1>3. /\ rec.family \in DOMAIN families /\ (rec.family \in Live => rec.revoked)
      /\ rec.done # 0 => rec.rotated <= rec.done /\ (rec.there => rec.rotated # 0)
      /\ rec \in TokenRecords
  BY <1>2 DEF FlowInv, RequestsInv, TokenInv
<1>4. rec.rotated \in Nat /\ rec.done \in Nat /\ rec.family \in 0 .. Len(families)
  BY <1>3 DEF TokenRecords, FlowInv, BuyInv
<1>5. CASE Ends(r)
  BY <1>1, <1>5, Careless
<1>6. CASE rec.there /\ req' = [req EXCEPT ![r].family = rec.family, ![r].at = at]
  <2>1. /\ at \in {"revokeFamily", "rotate", "access"}
        /\ at \in {"rotate", "access"} => ~rec.revoked /\ (rec.rotated = 0 \/ t - rec.rotated <= Grace)
        /\ at = "rotate" => rec.rotated = 0
        /\ at = "access" => rec.rotated # 0
    <3> HIDE DEF rec, t
    <3>1. refused \in BOOLEAN /\ (reused <=> (rec.rotated # 0 /\ ~(t - rec.rotated <= Grace)))
      BY <1>2, <1>4 DEF t
    <3> QED BY <3>1 DEF Rotates
  <2> HIDE DEF at
  <2>2. /\ Alone(r) /\ DOMAIN req'[r] = ReqFields /\ req'[r].at = at
        /\ req'[r].job = req[r].job /\ req'[r].t = t /\ req'[r].family = rec.family
    BY <1>2, <1>6 DEF Alone, ReqInv, ReqFields
  <2>3. at \in {"rotate", "access"} => rec.family \notin Live'
    BY <1>1, <1>3, <2>1 DEF Live
  <2>4. at \in {"rotate", "access"} => rec.done = 0 \/ t - rec.done <= Grace
    <3> HIDE DEF rec, t
    <3>1. rec.there /\ rec.rotated \in Nat /\ rec.done \in Nat /\ t \in Nat
      BY <1>2, <1>4, <1>6
    <3> QED BY <1>2, <1>3, <2>1, <3>1
  <2>5. at = "rotate" => rec.done = 0
    BY <1>3, <1>6, <2>1
  <2>6. tokens'[i] = rec /\ i \in DOMAIN tokens'
    BY <1>1, <1>2
  <2>7. req[r].job.kind = "refresh"
    BY <1>1, <1>2 DEF ReqInv
  <2>8. ReqInv(r)'
    <3> HIDE DEF rec, t
    <3>1. req'[r].job.id = i
      BY <2>2
    <3> HIDE DEF i
    <3> QED BY <1>1, <1>2, <1>3, <1>4, <2>1, <2>2, <2>3, <2>4, <2>5, <2>6, <2>7, <3>1 DEF ReqInv
  <2> QED BY <1>1, <2>2, <2>8, OnlyReq
<1> QED BY <1>1, <1>5, <1>6

LEMMA ReadHolds ==
  ASSUME FlowConstants, FlowInv, NEW r \in Slots, ReadRevoke(r) \/ Verify(r)
  PROVE  RequestsInv'
<1> DEFINE rec == tokens[req[r].job.id]
<1>1. /\ req[r].at \in {"revoke", "use"} /\ UNCHANGED <<time, tokens, families, dead, raced, codes>>
      /\ \/ Ends(r)
         \/ req' = [req EXCEPT ![r].at = "revokeFamily", ![r].family = rec.family]
         \/ req' = [req EXCEPT ![r].at = "touch", ![r].t = time, ![r].rec = rec]
  BY DEF ReadRevoke, Verify, At, store, history
<1>2. /\ ReqInv(r) /\ req[r].job.id \in DOMAIN tokens /\ DOMAIN req = Slots /\ time \in Nat /\ time # 0 /\ Len(families) \in Nat
  <2>1. ReqInv(r)
    BY FlowFacts
  <2>2. req[r].job.id \in DOMAIN tokens
    BY <1>1, <2>1 DEF ReqInv
  <2> QED BY <2>1, <2>2, FlowFacts
<1>3. rec.family \in DOMAIN families /\ rec.family \in 0 .. Len(families)
  BY <1>2 DEF FlowInv, RequestsInv, TokenInv, BuyInv
<1>4. CASE Ends(r)
  BY <1>1, <1>4, Careless
<1>5. CASE req' = [req EXCEPT ![r].at = "revokeFamily", ![r].family = rec.family]
  <2>1. /\ Alone(r) /\ DOMAIN req'[r] = ReqFields /\ req'[r].at = "revokeFamily"
        /\ req'[r].job = req[r].job /\ req'[r].t = req[r].t /\ req'[r].family = rec.family
    BY <1>2, <1>5 DEF Alone, ReqInv, ReqFields
  <2>2. ReqInv(r)'
    BY <1>1, <1>2, <1>3, <2>1 DEF ReqInv
  <2> QED BY <1>1, <2>1, <2>2, OnlyReq
<1>6. CASE req' = [req EXCEPT ![r].at = "touch", ![r].t = time, ![r].rec = rec]
  <2>1. /\ Alone(r) /\ DOMAIN req'[r] = ReqFields /\ req'[r].at = "touch"
        /\ req'[r].job = req[r].job /\ req'[r].t = time /\ req'[r].family = req[r].family
    BY <1>2, <1>6 DEF Alone, ReqInv, ReqFields
  <2>2. ReqInv(r)'
    BY <1>1, <1>2, <2>1 DEF ReqInv
  <2> QED BY <1>1, <2>1, <2>2, OnlyReq
<1> QED BY <1>1, <1>4, <1>5, <1>6

\* A family that was just bought is new.
LEMMA ExchangeHolds ==
  ASSUME FlowConstants, FlowInv, NEW r \in Slots, Exchange(r)
  PROVE  RequestsInv'
<1> DEFINE k == req[r].job.id
           new == Len(families) + 1
<1>1. /\ req[r].at = "exchange" /\ UNCHANGED <<time, tokens, dead, raced>>
      /\ codes' = codes \/ codes' = [codes EXCEPT ![k] = Used(@)]
      /\ \/ families' = families /\ Ends(r)
         \/ families' = Append(families, k) /\ req' = [req EXCEPT ![r].at = "access", ![r].family = new]
  BY DEF Exchange, At, history
<1>2. /\ ReqInv(r) /\ k \in DOMAIN codes /\ DOMAIN req = Slots /\ time \in Nat /\ time # 0
      /\ families \in Seq(Nat) /\ codes \in Seq(CodeRecords) /\ k \in Nat
      /\ TokenInv /\ req[r].job.kind = "exchange"
  <2>1. /\ ReqInv(r) /\ DOMAIN req = Slots /\ time \in Nat /\ time # 0 /\ TokenInv
        /\ families \in Seq(Nat) /\ codes \in Seq(CodeRecords)
    BY DEF FlowInv, RequestsInv, ClockInv, FlowConstants, BuyInv
  <2>2. k \in DOMAIN codes /\ req[r].job.kind = "exchange"
    BY <1>1, <2>1 DEF ReqInv
  <2>3. k \in Nat
    BY <2>1, <2>2
  <2> QED BY <2>1, <2>2, <2>3
<1>3. DOMAIN codes \subseteq DOMAIN codes'
  BY <1>1
<1>4. CASE families' = families /\ Ends(r)
  BY <1>1, <1>3, <1>4, Careless
<1>5. CASE families' = Append(families, k) /\ req' = [req EXCEPT ![r].at = "access", ![r].family = new]
  <2>1. /\ Alone(r) /\ DOMAIN req'[r] = ReqFields /\ req'[r].at = "access"
        /\ req'[r].job = req[r].job /\ req'[r].t = req[r].t /\ req'[r].family = new
    BY <1>2, <1>5 DEF Alone, ReqInv, ReqFields
  <2>2. /\ DOMAIN families = 1 .. Len(families) /\ Len(families) \in Nat
        /\ DOMAIN families' = 1 .. new /\ Len(families') = new
    BY <1>2, <1>5
  <2>3. new \notin Live'
    BY <1>1, <1>2, <2>2 DEF TokenInv, Live
  <2>4. Keeps
    BY <1>1, <1>2, <1>3, <2>2 DEF Keeps, Live
  <2>5. TokenInv'
    BY <1>1, <1>2, <2>2 DEF TokenInv, Live
  <2>6. ReqInv(r)'
    BY <1>1, <1>2, <2>1, <2>2, <2>3 DEF ReqInv
  <2>7. \A x \in Slots \ {r} : ReqInv(x)'
    BY <2>1, <2>4, OthersHold DEF Alone
  <2> QED BY <2>1, <2>5, <2>6, <2>7 DEF RequestsInv, Alone
<1> QED BY <1>1, <1>4, <1>5

\* Tokens that grow by one, for r alone.
LEMMA GrowsHolds ==
  ASSUME FlowConstants, FlowInv, NEW r \in Slots, NEW rec \in TokenRecords, Alone(r),
         tokens' = Append(tokens, rec), UNCHANGED <<time, families, dead, raced, codes>>,
         rec.family \in DOMAIN families \ Live, rec.rotated = 0, rec.done = 0, ReqInv(r)'
  PROVE  RequestsInv'
<1>1. /\ tokens \in Seq(TokenRecords) /\ TokenInv /\ time \in Nat /\ Len(families) \in Nat
  BY FlowFacts
<1>2. /\ tokens' \in Seq(TokenRecords) /\ DOMAIN tokens \subseteq DOMAIN tokens'
      /\ \A i \in DOMAIN tokens : tokens'[i] = tokens[i]
      /\ \A i \in DOMAIN tokens' : i \in DOMAIN tokens \/ tokens'[i] = rec
  BY <1>1
<1>3. Keeps
  BY <1>1, <1>2 DEF Keeps, Live
<1>4. TokenInv'
  <2>1. \A i \in DOMAIN tokens' :
          /\ tokens'[i].family \in DOMAIN families
          /\ tokens'[i].family \in Live => tokens'[i].revoked
          /\ tokens'[i].rotated <= time
          /\ tokens'[i].done # 0 => tokens'[i].rotated <= tokens'[i].done /\ (tokens'[i].there => tokens'[i].rotated # 0)
    BY <1>1, <1>2 DEF TokenInv
  <2> QED BY <1>1, <1>2, <2>1 DEF TokenInv, Live
<1>5. \A x \in Slots \ {r} : ReqInv(x)'
  BY <1>3, OthersHold DEF Alone
<1> QED BY <1>4, <1>5 DEF RequestsInv, Alone

\* One of the two tokens of a pair is put.
Puts(r, kind, ttl, at, pair) ==
  /\ req[r].at \in {"access", "pair"} /\ at \in {"pair", "issued"}
  /\ kind \in {"access", "refresh"} /\ ttl \in {AccessTtl, RefreshTtl}
  /\ tokens' = Append(tokens, Token(kind, req[r].family, req[r].t + ttl))
  /\ req' = [req EXCEPT ![r].at = at, ![r].pair = pair]
  /\ UNCHANGED <<time, families, dead, raced, codes>>

LEMMA PutsHold ==
  ASSUME FlowConstants, FlowInv, NEW r \in Slots, NEW kind, NEW ttl, NEW at, NEW pair, Puts(r, kind, ttl, at, pair)
  PROVE  RequestsInv'
<1>1. /\ req[r].at \in {"access", "pair"} /\ at \in {"pair", "issued"}
      /\ kind \in {"access", "refresh"} /\ ttl \in {AccessTtl, RefreshTtl}
      /\ tokens' = Append(tokens, Token(kind, req[r].family, req[r].t + ttl))
      /\ req' = [req EXCEPT ![r].at = at, ![r].pair = pair]
      /\ UNCHANGED <<time, families, dead, raced, codes>>
  BY DEF Puts
<1>2. /\ ReqInv(r) /\ DOMAIN req = Slots /\ TokenInv /\ families \in Seq(Nat) /\ time \in Nat /\ ttl \in Nat
      /\ tokens \in Seq(TokenRecords)
  <2>1. ttl \in Nat
    BY <1>1 DEF FlowConstants
  <2> QED BY <2>1, FlowFacts
<1>3. /\ req[r].family \in DOMAIN families /\ req[r].family \notin Live /\ req[r].t \in Nat /\ req[r].family \in Nat
  BY <1>1, <1>2 DEF ReqInv
<1> DEFINE rec == Token(kind, req[r].family, req[r].t + ttl)
<1>4. /\ rec \in TokenRecords /\ rec.family = req[r].family /\ rec.rotated = 0 /\ rec.done = 0
  BY <1>1, <1>2, <1>3 DEF Token, TokenRecords
<1> HIDE DEF rec
<1>5. tokens' = Append(tokens, rec)
  BY <1>1 DEF rec
<1>6. /\ Alone(r) /\ DOMAIN req'[r] = ReqFields /\ req'[r].at = at
      /\ req'[r].job = req[r].job /\ req'[r].t = req[r].t /\ req'[r].family = req[r].family
  BY <1>1, <1>2 DEF Alone, ReqInv, ReqFields
<1>7. DOMAIN tokens \subseteq DOMAIN tokens' /\ \A i \in DOMAIN tokens : tokens'[i] = tokens[i]
  BY <1>1, <1>2, <1>4, <1>5
<1>8. ReqInv(r)'
  <2>1. req[r].job.kind = "refresh" =>
          /\ req[r].job.id \in DOMAIN tokens'
          /\ tokens'[req[r].job.id].done = 0 \/ req[r].t - tokens'[req[r].job.id].done <= Grace
          /\ tokens'[req[r].job.id].there => tokens'[req[r].job.id].rotated # 0
    BY <1>1, <1>2, <1>7 DEF ReqInv
  <2>2. /\ DOMAIN req'[r] = ReqFields /\ req'[r].t \in 0 .. time' /\ req'[r].family \in 0 .. Len(families')
        /\ req'[r].t # 0
    BY <1>1, <1>2, <1>6 DEF ReqInv
  <2>3. req'[r].family \notin Live'
    BY <1>1, <1>3, <1>6 DEF Live
  <2> QED BY <1>1, <1>3, <1>6, <2>1, <2>2, <2>3 DEF ReqInv
<1> QED BY <1>1, <1>3, <1>4, <1>5, <1>6, <1>8, GrowsHolds

LEMMA PutHolds ==
  ASSUME FlowConstants, FlowInv, NEW r \in Slots, PutAccess(r) \/ PutRefresh(r)
  PROVE  RequestsInv'
<1>1. CASE PutAccess(r)
  <2>1. Puts(r, "access", AccessTtl, "pair", {Len(tokens) + 1})
    BY <1>1 DEF PutAccess, At, history, Puts
  <2> QED BY <2>1, PutsHold
<1>2. CASE PutRefresh(r)
  <2>1. Puts(r, "refresh", RefreshTtl, "issued", req[r].pair \union {Len(tokens) + 1})
    BY <1>2 DEF PutRefresh, At, history, Puts
  <2> QED BY <2>1, PutsHold
<1> QED BY <1>1, <1>2

\* Tokens that change in place.
LEMMA ChangesHold ==
  ASSUME FlowConstants, FlowInv, NEW r \in Slots, Alone(r), ReqInv(r)',
         UNCHANGED <<time, families, dead, raced, codes>>,
         NEW i \in DOMAIN tokens, NEW rec \in TokenRecords, tokens' = [tokens EXCEPT ![i] = rec],
         rec.family = tokens[i].family, rec.revoked = tokens[i].revoked, rec.there => tokens[i].there,
         rec.rotated <= time, tokens[i].rotated # 0 => rec.rotated # 0,
         rec.done = tokens[i].done \/ rec.done = time,
         rec.done # 0 => rec.rotated <= rec.done /\ (rec.there => rec.rotated # 0)
  PROVE  RequestsInv'
<1>1. /\ tokens \in Seq(TokenRecords) /\ TokenInv /\ time \in Nat /\ Len(families) \in Nat
  <2>1. TokenInv /\ ClockInv /\ BuyInv /\ MaxTime \in Nat
    BY DEF FlowInv, RequestsInv, FlowConstants
  <2> QED BY <2>1 DEF TokenInv, ClockInv, BuyInv
<1>2. /\ tokens' \in Seq(TokenRecords) /\ DOMAIN tokens = DOMAIN tokens'
      /\ \A j \in DOMAIN tokens : tokens'[j] = IF j = i THEN rec ELSE tokens[j]
  BY <1>1
<1>3. Keeps
  BY <1>1, <1>2 DEF Keeps, Live
<1>4. TokenInv'
  <2>1. \A j \in DOMAIN tokens' :
          /\ tokens'[j].family \in DOMAIN families
          /\ tokens'[j].family \in Live => tokens'[j].revoked
          /\ tokens'[j].rotated <= time
          /\ tokens'[j].done # 0 => tokens'[j].rotated <= tokens'[j].done /\ (tokens'[j].there => tokens'[j].rotated # 0)
    BY <1>1, <1>2 DEF TokenInv
  <2> QED BY <1>1, <1>2, <2>1 DEF TokenInv, Live
<1>5. \A x \in Slots \ {r} : ReqInv(x)'
  BY <1>3, OthersHold DEF Alone
<1> QED BY <1>4, <1>5 DEF RequestsInv, Alone

LEMMA IssuedHolds ==
  ASSUME FlowConstants, FlowInv, NEW r \in Slots, Issued(r)
  PROVE  RequestsInv'
<1> DEFINE i == req[r].job.id
           rec == [tokens[i] EXCEPT !.done = time]
<1>1. /\ req[r].at = "issued" /\ UNCHANGED <<time, families, dead, raced, codes>> /\ Ends(r)
      /\ \/ tokens' = tokens
         \/ req[r].job.kind = "refresh" /\ tokens' = [tokens EXCEPT ![i] = rec]
  BY DEF Issued, At, history
<1>2. ReqInv(r) /\ TokenInv /\ time \in Nat /\ Len(families) \in Nat
  BY DEF FlowInv, RequestsInv, ClockInv, FlowConstants, BuyInv
<1>3. Alone(r) /\ ReqInv(r)'
  BY <1>1, <1>2, GoesAlone, IdleHolds
<1>4. CASE tokens' = tokens
  BY <1>1, <1>3, <1>4, OnlyReq
<1>5. CASE req[r].job.kind = "refresh" /\ tokens' = [tokens EXCEPT ![i] = rec]
  <2>1. i \in DOMAIN tokens /\ (tokens[i].there => tokens[i].rotated # 0)
    BY <1>1, <1>2, <1>5 DEF ReqInv
  <2>2. tokens[i] \in TokenRecords /\ tokens[i].rotated <= time
    BY <1>2, <2>1 DEF TokenInv
  <2>3. /\ rec \in TokenRecords /\ rec.family = tokens[i].family /\ rec.revoked = tokens[i].revoked
        /\ rec.there = tokens[i].there /\ rec.rotated = tokens[i].rotated /\ rec.done = time
    BY <1>2, <2>2 DEF TokenRecords
  <2> HIDE DEF rec, i
  <2> QED BY <1>1, <1>3, <1>5, <2>1, <2>2, <2>3, ChangesHold
<1> QED BY <1>1, <1>4, <1>5

LEMMA RotateHolds ==
  ASSUME FlowConstants, FlowInv, NEW r \in Slots, Rotate(r)
  PROVE  RequestsInv'
<1> DEFINE i == req[r].job.id
           rec == [tokens[i] EXCEPT !.rotated = req[r].t]
<1>1. /\ req[r].at = "rotate" /\ UNCHANGED <<time, families, dead, raced, codes>> /\ GoesTo(r, "access")
      /\ \/ ~tokens[i].there /\ tokens' = tokens
         \/ tokens' = [tokens EXCEPT ![i] = rec]
  BY DEF Rotate, At, history
<1>2. ReqInv(r) /\ TokenInv /\ time \in Nat /\ Len(families) \in Nat /\ Grace \in Nat
  BY DEF FlowInv, RequestsInv, ClockInv, FlowConstants, BuyInv
<1>3. /\ i \in DOMAIN tokens /\ req[r].t \in Nat /\ req[r].t <= time /\ req[r].t # 0 /\ req[r].job.kind = "refresh"
      /\ tokens[i].done = 0 \/ req[r].t <= tokens[i].done
      /\ tokens[i].done = 0 \/ req[r].t - tokens[i].done <= Grace
      /\ req[r].family \in DOMAIN families /\ req[r].family \notin Live
  BY <1>1, <1>2 DEF ReqInv
<1>4. /\ Alone(r) /\ DOMAIN req'[r] = ReqFields /\ req'[r].at = "access"
      /\ req'[r].job = req[r].job /\ req'[r].t = req[r].t /\ req'[r].family = req[r].family
  BY <1>1, GoesAlone
<1>5. tokens[i] \in TokenRecords
  BY <1>2, <1>3 DEF TokenInv
<1>6. /\ rec \in TokenRecords /\ rec.family = tokens[i].family /\ rec.revoked = tokens[i].revoked
      /\ rec.there = tokens[i].there /\ rec.rotated = req[r].t /\ rec.done = tokens[i].done
  BY <1>3, <1>5 DEF TokenRecords
<1>7. i \in DOMAIN tokens' /\ tokens'[i].done = tokens[i].done /\ (tokens'[i].there => tokens'[i].rotated # 0)
  BY <1>1, <1>3, <1>6
<1>8. ReqInv(r)'
  <2>1. /\ req'[r].t \in 0 .. time' /\ req'[r].family \in 0 .. Len(families') /\ req'[r].family \notin Live'
    BY <1>1, <1>2, <1>3, <1>4 DEF ReqInv, Live
  <2>2. req'[r].job.id = i /\ req'[r].job.kind = "refresh"
    BY <1>3, <1>4
  <2> HIDE DEF i
  <2> QED BY <1>1, <1>3, <1>4, <1>7, <2>1, <2>2 DEF ReqInv
<1>9. CASE tokens' = tokens
  BY <1>1, <1>4, <1>8, <1>9, OnlyReq
<1>10. CASE tokens' = [tokens EXCEPT ![i] = rec]
  <2> HIDE DEF rec, i
  <2> QED BY <1>1, <1>3, <1>4, <1>6, <1>8, <1>10, ChangesHold
<1> QED BY <1>1, <1>9, <1>10

LEMMA TouchHolds ==
  ASSUME FlowConstants, FlowInv, NEW r \in Slots, Touch(r)
  PROVE  RequestsInv'
<1> DEFINE i == req[r].job.id
           rec == [tokens[i] EXCEPT !.used = req[r].t]
<1>1. /\ req[r].at = "touch" /\ UNCHANGED <<time, families, dead, raced, codes>> /\ Ends(r)
      /\ tokens' = tokens \/ tokens' = [tokens EXCEPT ![i] = rec]
  BY DEF Touch, Touched, At, history
<1>2. ReqInv(r) /\ TokenInv /\ time \in Nat /\ Len(families) \in Nat
  BY DEF FlowInv, RequestsInv, ClockInv, FlowConstants, BuyInv
<1>3. Alone(r) /\ ReqInv(r)'
  BY <1>1, <1>2, GoesAlone, IdleHolds
<1>4. CASE tokens' = tokens
  BY <1>1, <1>3, <1>4, OnlyReq
<1>5. CASE tokens' = [tokens EXCEPT ![i] = rec]
  <2>1. i \in DOMAIN tokens /\ req[r].t \in Nat
    BY <1>1, <1>2 DEF ReqInv
  <2>2. /\ tokens[i] \in TokenRecords /\ tokens[i].rotated <= time
        /\ tokens[i].done # 0 => tokens[i].rotated <= tokens[i].done /\ (tokens[i].there => tokens[i].rotated # 0)
    BY <1>2, <2>1 DEF TokenInv
  <2>3. /\ rec \in TokenRecords /\ rec.family = tokens[i].family /\ rec.revoked = tokens[i].revoked
        /\ rec.there = tokens[i].there /\ rec.rotated = tokens[i].rotated /\ rec.done = tokens[i].done
    BY <2>1, <2>2 DEF TokenRecords
  <2> HIDE DEF rec, i
  <2> QED BY <1>1, <1>3, <1>5, <2>1, <2>2, <2>3, ChangesHold
<1> QED BY <1>1, <1>4, <1>5

\* Families are revoked: those a request is adding to are raced.
LEMMA RevokedHolds ==
  ASSUME FlowConstants, FlowInv, NEW S \in SUBSET DOMAIN families, tokens' = Revoked(S),
         dead' = dead \union S, raced' = raced \union (S \intersect Growing),
         UNCHANGED <<time, families>>, DOMAIN codes \subseteq DOMAIN codes'
  PROVE  Keeps /\ TokenInv'
<1>1. /\ tokens \in Seq(TokenRecords) /\ TokenInv /\ time \in Nat /\ Len(families) \in Nat
  <2>1. TokenInv /\ ClockInv /\ BuyInv /\ MaxTime \in Nat
    BY DEF FlowInv, RequestsInv, FlowConstants
  <2> QED BY <2>1 DEF TokenInv, ClockInv, BuyInv
<1>2. /\ DOMAIN tokens' = DOMAIN tokens
      /\ \A i \in DOMAIN tokens : tokens'[i] = IF tokens[i].family \in S THEN [tokens[i] EXCEPT !.revoked = TRUE] ELSE tokens[i]
  BY DEF Revoked
<1>3. ASSUME NEW i \in DOMAIN tokens
      PROVE  /\ tokens'[i] \in TokenRecords /\ tokens'[i].family = tokens[i].family
             /\ tokens'[i].revoked = (tokens[i].revoked \/ tokens[i].family \in S)
             /\ tokens'[i].there = tokens[i].there /\ tokens'[i].rotated = tokens[i].rotated
             /\ tokens'[i].done = tokens[i].done
  <2>1. tokens[i] \in TokenRecords
    BY <1>1
  <2> QED BY <1>2, <2>1 DEF TokenRecords
<1>4. tokens' \in Seq(TokenRecords)
  <2>1. tokens' = [i \in 1 .. Len(tokens) |-> tokens'[i]] /\ Len(tokens) \in Nat /\ DOMAIN tokens = 1 .. Len(tokens)
    BY <1>1 DEF Revoked
  <2>2. tokens' \in [1 .. Len(tokens) -> TokenRecords]
    BY <1>3, <2>1
  <2> QED BY <2>1, <2>2
<1>5. \A f \in Live' : f \in S \/ f \in Live
  BY DEF Live
<1>6. \A f \in Growing : f \in Live' => f \in Live
  BY DEF Live
<1>7. Keeps
  <2>1. \A i \in DOMAIN tokens : /\ tokens'[i].there => tokens[i].there
                                 /\ tokens[i].rotated # 0 => tokens'[i].rotated # 0
                                 /\ tokens'[i].done = tokens[i].done \/ tokens'[i].done = time
    BY <1>3
  <2>2. DOMAIN families' = DOMAIN families /\ Len(families') = Len(families) /\ time' = time
    OBVIOUS
  <2>3. DOMAIN tokens \subseteq DOMAIN tokens' /\ Len(families') \in Nat /\ time' \in Nat
        /\ Len(families) <= Len(families') /\ time <= time'
    BY <1>1, <1>2, <2>2
  <2> QED BY <1>6, <2>1, <2>2, <2>3 DEF Keeps
<1>8. TokenInv'
  <2>1. ASSUME NEW i \in DOMAIN tokens'
        PROVE  /\ tokens'[i].family \in DOMAIN families
               /\ tokens'[i].family \in Live' => tokens'[i].revoked
               /\ tokens'[i].rotated <= time
               /\ tokens'[i].done # 0 => tokens'[i].rotated <= tokens'[i].done /\ (tokens'[i].there => tokens'[i].rotated # 0)
    <3>1. /\ tokens[i].family \in DOMAIN families /\ tokens[i].rotated <= time
          /\ tokens[i].family \in Live => tokens[i].revoked
          /\ tokens[i].done # 0 => tokens[i].rotated <= tokens[i].done /\ (tokens[i].there => tokens[i].rotated # 0)
      BY <1>1, <1>2 DEF TokenInv
    <3>2. /\ tokens'[i].family = tokens[i].family /\ tokens'[i].revoked = (tokens[i].revoked \/ tokens[i].family \in S)
          /\ tokens'[i].there = tokens[i].there /\ tokens'[i].rotated = tokens[i].rotated
          /\ tokens'[i].done = tokens[i].done
      BY <1>2, <1>3
    <3> QED BY <1>5, <3>1, <3>2
  <2>2. dead' \subseteq DOMAIN families
    BY <1>1 DEF TokenInv
  <2> QED BY <1>4, <2>1, <2>2 DEF TokenInv
<1> QED BY <1>7, <1>8

LEMMA RevokeFamilyHolds ==
  ASSUME FlowConstants, FlowInv, NEW r \in Slots, RevokeFamily(r)
  PROVE  RequestsInv'
<1> DEFINE S == {req[r].family}
<1>1. /\ req[r].at = "revokeFamily" /\ UNCHANGED <<time, families, codes>> /\ Ends(r)
      /\ tokens' = Revoked(S) /\ dead' = dead \union S /\ raced' = raced \union (S \intersect Growing)
  BY DEF RevokeFamily, At
<1>2. ReqInv(r) /\ time \in Nat /\ Len(families) \in Nat
  BY FlowFacts
<1>3. S \in SUBSET DOMAIN families
  BY <1>1, <1>2 DEF ReqInv
<1> HIDE DEF S
<1>4. Keeps /\ TokenInv'
  BY <1>1, <1>3, RevokedHolds
<1>5. Alone(r) /\ ReqInv(r)'
  BY <1>1, <1>2, GoesAlone, IdleHolds
<1>6. \A x \in Slots \ {r} : ReqInv(x)'
  BY <1>4, <1>5, OthersHold DEF Alone
<1> QED BY <1>4, <1>5, <1>6 DEF RequestsInv, Alone

\* Steps of no request.
LEMMA AsideHolds ==
  ASSUME FlowConstants, FlowInv, RevokeAll \/ Sweep \/ Tick \/ UNCHANGED flowVars
  PROVE  RequestsInv'
<1>1. /\ tokens \in Seq(TokenRecords) /\ TokenInv /\ time \in Nat /\ Len(families) \in Nat /\ DOMAIN req = Slots
  <2>1. TokenInv /\ ClockInv /\ BuyInv /\ MaxTime \in Nat /\ DOMAIN req = Slots
    BY DEF FlowInv, RequestsInv, FlowConstants
  <2> QED BY <2>1 DEF TokenInv, ClockInv, BuyInv
<1>2. UNCHANGED req
  BY DEF RevokeAll, Sweep, Tick, flowVars
<1>3. Keeps /\ TokenInv'
  <2>1. CASE RevokeAll
    <3>1. /\ tokens' = Revoked(DOMAIN families) /\ dead' = dead \union DOMAIN families
          /\ raced' = raced \union (DOMAIN families \intersect Growing)
          /\ UNCHANGED <<time, families>> /\ DOMAIN codes \subseteq DOMAIN codes'
      BY <2>1 DEF RevokeAll
    <3> QED BY <3>1, RevokedHolds
  <2>2. CASE Sweep
    <3>1. /\ tokens' = [i \in DOMAIN tokens |-> [tokens[i] EXCEPT !.there = tokens[i].there /\ tokens[i].until > time]]
          /\ UNCHANGED <<time, families, dead, raced>> /\ DOMAIN codes \subseteq DOMAIN codes'
      BY <2>2 DEF Sweep, history
    <3>2. ASSUME NEW i \in DOMAIN tokens
          PROVE  /\ tokens'[i] \in TokenRecords /\ tokens'[i].family = tokens[i].family
                 /\ tokens'[i].revoked = tokens[i].revoked /\ (tokens'[i].there => tokens[i].there)
                 /\ tokens'[i].rotated = tokens[i].rotated /\ tokens'[i].done = tokens[i].done
      <4>1. tokens[i] \in TokenRecords
        BY <1>1
      <4> QED BY <3>1, <4>1 DEF TokenRecords
    <3>3. tokens' \in Seq(TokenRecords) /\ DOMAIN tokens' = DOMAIN tokens
      <4>1. DOMAIN tokens = 1 .. Len(tokens) /\ Len(tokens) \in Nat
        BY <1>1
      <4>2. tokens' \in [1 .. Len(tokens) -> TokenRecords]
        BY <3>1, <3>2, <4>1
      <4> QED BY <3>1, <4>1, <4>2
    <3>4. Keeps
      <4>1. Live' = Live /\ Len(families') = Len(families) /\ DOMAIN families' = DOMAIN families /\ time' = time
        BY <3>1 DEF Live
      <4>2. DOMAIN codes \subseteq DOMAIN codes'
        BY <3>1
      <4> QED BY <1>1, <3>2, <3>3, <4>1, <4>2 DEF Keeps
    <3>5. ASSUME NEW i \in DOMAIN tokens'
          PROVE  /\ tokens'[i].family \in DOMAIN families
                 /\ tokens'[i].family \in Live => tokens'[i].revoked
                 /\ tokens'[i].rotated <= time
                 /\ tokens'[i].done # 0 => tokens'[i].rotated <= tokens'[i].done /\ (tokens'[i].there => tokens'[i].rotated # 0)
      BY <1>1, <3>2, <3>3 DEF TokenInv
    <3>6. TokenInv'
      BY <1>1, <3>1, <3>3, <3>5 DEF TokenInv, Live
    <3> QED BY <3>4, <3>6
  <2>3. CASE Tick
    <3>1. time' = time + 1 /\ UNCHANGED <<tokens, codes, families, dead, raced>>
      BY <2>3 DEF Tick, store, history
    <3>2. Keeps
      BY <1>1, <3>1 DEF Keeps, Live
    <3>3. \A i \in DOMAIN tokens : tokens[i].rotated <= time'
      <4>1. \A i \in DOMAIN tokens : tokens[i].rotated \in Nat /\ tokens[i].rotated <= time
        <5>1. ASSUME NEW i \in DOMAIN tokens PROVE tokens[i].rotated \in Nat
          <6>1. tokens[i] \in TokenRecords
            BY <1>1
          <6> QED BY <6>1 DEF TokenRecords
        <5> QED BY <1>1, <5>1 DEF TokenInv
      <4> QED BY <1>1, <3>1, <4>1
    <3> QED BY <1>1, <3>1, <3>2, <3>3 DEF TokenInv, Live
  <2>4. CASE UNCHANGED flowVars
    <3>1. UNCHANGED <<time, tokens, codes, families, dead, raced>>
      BY <2>4 DEF flowVars, store, history
    <3> QED BY <1>1, <3>1 DEF Keeps, TokenInv, Live
  <2> QED BY <2>1, <2>2, <2>3, <2>4
<1>4. \A x \in Slots : ReqInv(x)'
  BY <1>2, <1>3, OthersHold
<1> QED BY <1>1, <1>2, <1>3, <1>4 DEF RequestsInv

-----------------------------------------------------------------------------
(* What codes buy. *)

\* Codes are only added, or go; no family is bought.
LEMMA CodesGo ==
  ASSUME BuyInv, UNCHANGED families, codes' \in Seq(CodeRecords),
         DOMAIN codes \subseteq DOMAIN codes',
         \A k \in DOMAIN codes : codes[k].is # "live" => codes'[k].is # "live"
  PROVE  BuyInv'
BY DEF BuyInv, CodesBuyOnce

LEMMA PutCodeBuys ==
  ASSUME FlowConstants, FlowInv, NEW r \in Slots, PutCode(r)
  PROVE  BuyInv'
<1> DEFINE c == [is |-> "live", until |-> req[r].t + CodeTtl]
<1>1. BuyInv /\ codes \in Seq(CodeRecords) /\ CodeTtl \in Nat /\ time \in Nat /\ ReqInv(r)
  BY DEF FlowInv, RequestsInv, BuyInv, ClockInv, FlowConstants
<1>2. req[r].t \in Nat
  BY <1>1 DEF ReqInv
<1>3. c \in CodeRecords
  BY <1>1, <1>2 DEF CodeRecords
<1>4. codes' = Append(codes, c) /\ UNCHANGED families
  BY DEF PutCode
<1> HIDE DEF c
<1>5. codes' \in Seq(CodeRecords) /\ DOMAIN codes \subseteq DOMAIN codes' /\ \A k \in DOMAIN codes : codes'[k] = codes[k]
  <2> QED BY <1>1, <1>3, <1>4
<1> QED BY <1>1, <1>4, <1>5, CodesGo

LEMMA ExchangeBuys ==
  ASSUME FlowConstants, FlowInv, NEW r \in Slots, Exchange(r)
  PROVE  BuyInv'
<1> DEFINE k == req[r].job.id
           found == codes[k].is = "live" /\ codes[k].until > req[r].t
           bought == found /\ req[r].job.good
<1>1. BuyInv /\ codes \in Seq(CodeRecords) /\ families \in Seq(Nat) /\ ReqInv(r)
  BY DEF FlowInv, RequestsInv, BuyInv
<1>2. k \in DOMAIN codes
  BY <1>1 DEF ReqInv, Exchange, At
<1>3. /\ codes' = IF found THEN [codes EXCEPT ![k] = Used(@)] ELSE codes
      /\ families' = IF bought THEN Append(families, k) ELSE families
  BY DEF Exchange
<1>4. \A n \in DOMAIN codes : codes[n] \in CodeRecords
  BY <1>1
<1>5. CASE ~found
  BY <1>1, <1>3, <1>5, CodesGo
<1>6. CASE found
  <2>1. codes' = [codes EXCEPT ![k] = [codes[k] EXCEPT !.is = "used"]]
    BY <1>3, <1>6 DEF Used
  <2>2. [codes[k] EXCEPT !.is = "used"] \in CodeRecords /\ [codes[k] EXCEPT !.is = "used"].is = "used"
    BY <1>2, <1>4 DEF CodeRecords
  <2>3. codes' \in Seq(CodeRecords) /\ DOMAIN codes' = DOMAIN codes /\ codes'[k].is = "used"
        /\ \A n \in DOMAIN codes : n # k => codes'[n] = codes[n]
    <3> DEFINE u == [codes[k] EXCEPT !.is = "used"]
    <3>1. codes' = [codes EXCEPT ![k] = u] /\ u \in CodeRecords /\ u.is = "used"
      BY <2>1, <2>2
    <3> HIDE DEF u, k
    <3>2. codes' \in Seq(CodeRecords) /\ DOMAIN codes' = DOMAIN codes /\ codes'[k] = u
          /\ \A n \in DOMAIN codes : n # k => codes'[n] = codes[n]
      BY <1>1, <1>2, <3>1
    <3> QED BY <3>1, <3>2
  <2>4. CASE ~bought
    BY <1>1, <1>3, <2>3, <2>4, CodesGo
  <2>5. CASE bought
    <3>1. families' = Append(families, k) /\ k \in Nat /\ k # 0
      BY <1>1, <1>2, <1>3, <2>5
    <3>2. families' \in Seq(Nat) /\ DOMAIN families' = DOMAIN families \union {Len(families) + 1}
          /\ families'[Len(families) + 1] = k /\ \A f \in DOMAIN families : families'[f] = families[f]
      BY <1>1, <3>1
    <3>3. \A f \in DOMAIN families : families[f] # k
      BY <1>1, <1>6, <3>1 DEF BuyInv
    <3>4. CodesBuyOnce'
      BY <1>1, <3>2, <3>3 DEF BuyInv, CodesBuyOnce
    <3>5. \A f \in DOMAIN families' : families'[f] = 0 \/ (families'[f] \in DOMAIN codes' /\ codes'[families'[f]].is # "live")
      BY <1>1, <1>2, <2>3, <3>2 DEF BuyInv
    <3> QED BY <2>3, <3>2, <3>4, <3>5 DEF BuyInv
  <2> QED BY <2>4, <2>5
<1> QED BY <1>5, <1>6

LEMMA CodesGoneBuy ==
  ASSUME FlowInv, RevokeAll \/ Sweep
  PROVE  BuyInv'
<1>1. BuyInv /\ codes \in Seq(CodeRecords) /\ UNCHANGED families
  BY DEF FlowInv, BuyInv, RevokeAll, Sweep
<1>2. /\ codes' = [k \in 1 .. Len(codes) |-> codes'[k]] /\ DOMAIN codes = 1 .. Len(codes) /\ Len(codes) \in Nat
      /\ \A k \in DOMAIN codes : codes'[k] = codes[k] \/ codes'[k] = [codes[k] EXCEPT !.is = "gone"]
  <2>1. DOMAIN codes = 1 .. Len(codes) /\ Len(codes) \in Nat
    BY <1>1
  <2> QED BY <2>1 DEF RevokeAll, Sweep
<1>3. ASSUME NEW k \in DOMAIN codes
      PROVE  codes'[k] \in CodeRecords /\ (codes[k].is # "live" => codes'[k].is # "live")
  <2>1. codes[k] \in CodeRecords
    BY <1>1
  <2> QED BY <1>2, <2>1 DEF CodeRecords
<1>4. codes' \in [1 .. Len(codes) -> CodeRecords]
  BY <1>2, <1>3
<1>5. codes' \in Seq(CodeRecords) /\ DOMAIN codes' = DOMAIN codes
  BY <1>2, <1>4
<1> QED BY <1>1, <1>3, <1>5, CodesGo

LEMMA BuyHolds ==
  ASSUME FlowConstants, FlowInv, [FlowNext]_flowVars
  PROVE  BuyInv'
<1>1. BuyInv
  BY DEF FlowInv
<1>2. CASE UNCHANGED <<codes, families>>
  BY <1>1, <1>2 DEF BuyInv, CodesBuyOnce
<1>3. CASE RevokeAll \/ Sweep
  BY <1>3, CodesGoneBuy
<1>4. ASSUME NEW r \in Slots, PutCode(r)
      PROVE  BuyInv'
  BY <1>4, PutCodeBuys
<1>5. ASSUME NEW r \in Slots, Exchange(r)
      PROVE  BuyInv'
  BY <1>5, ExchangeBuys
<1>6. CASE Tick \/ UNCHANGED flowVars
  BY <1>2, <1>6 DEF Tick, flowVars, store
<1>7. ASSUME NEW r \in Slots,
             Arrive(r) \/ Cached(r) \/ Fetched(r) \/ AskOwner(r) \/ Consent(r) \/ DeletePending(r) \/ PutAccess(r)
               \/ PutRefresh(r) \/ Issued(r) \/ ReadRefresh(r) \/ Rotate(r) \/ ReadRevoke(r) \/ RevokeFamily(r)
               \/ Verify(r) \/ Touch(r)
      PROVE  UNCHANGED <<codes, families>>
  BY <1>7 DEF Arrive, Cached, Fetched, AskOwner, Consent, DeletePending, PutAccess, PutRefresh, Issued, ReadRefresh,
              Rotate, ReadRevoke, RevokeFamily, Verify, Touch, store
<1> QED BY <1>2, <1>3, <1>4, <1>5, <1>6, <1>7 DEF FlowNext

-----------------------------------------------------------------------------
(* Attempts at the secret, and failures cached. *)

\* Failures noted as the clock goes: the ones that are not recent come first.
LEMMA RecentIsLast ==
  ASSUME NEW failures \in Seq(Nat), time \in Nat, Window \in Nat,
         \A i, j \in DOMAIN failures : i <= j => failures[i] <= failures[j]
  PROVE  \E c \in 0 .. Len(failures) :
           /\ Recent(failures) \in Seq(Nat) /\ Len(Recent(failures)) = Len(failures) - c
           /\ \A j \in 1 .. Len(failures) - c : Recent(failures)[j] = failures[c + j]
           /\ \A j \in 1 .. c : time - failures[j] >= Window
<1> DEFINE K == Len(failures)
           old == {i \in DOMAIN failures : time - failures[i] >= Window}
           c == Cardinality(old)
<1>1. K \in Nat /\ DOMAIN failures = 1 .. K /\ \A i \in 1 .. K : failures[i] \in Nat
  OBVIOUS
<1>2. IsFiniteSet(1 .. K) /\ Cardinality(1 .. K) = K
  <2>1. /\ IsFiniteSet(1 .. K)
        /\ Cardinality(1 .. K) = IF 1 > K THEN 0 ELSE K - 1 + 1
    BY <1>1, FS_Interval
  <2> QED BY <1>1, <2>1
<1>3. old \subseteq 1 .. K
  BY <1>1
<1>4. IsFiniteSet(old) /\ c \in Nat /\ c <= K
  BY <1>2, <1>3, FS_Subset, FS_CardinalityType
<1>5. ASSUME NEW j \in 1 .. c, ~(time - failures[j] >= Window)
      PROVE  FALSE
  <2>1. j \in 1 .. K
    BY <1>1, <1>4
  <2>2. old \subseteq 1 .. (j - 1)
    <3> SUFFICES ASSUME NEW i \in old
                 PROVE  i \in 1 .. (j - 1)
      OBVIOUS
    <3>1. i \in 1 .. K /\ time - failures[i] >= Window
      BY <1>1
    <3>2. ~(j <= i)
      <4>1. j <= i => failures[j] <= failures[i]
        BY <1>1, <2>1, <3>1
      <4>2. failures[i] \in Nat /\ failures[j] \in Nat
        BY <1>1, <2>1, <3>1
      <4> QED BY <1>5, <3>1, <4>1, <4>2
    <3> QED BY <1>1, <2>1, <3>1, <3>2
  <2>3. IsFiniteSet(1 .. (j - 1)) /\ Cardinality(1 .. (j - 1)) = j - 1
    <3>1. 1 \in Int /\ j - 1 \in Int /\ ~(1 > j - 1) => Cardinality(1 .. (j - 1)) = j - 1
      BY <1>4, FS_Interval
    <3>2. IsFiniteSet(1 .. (j - 1))
      BY <1>4, FS_Interval
    <3>3. CASE 1 > j - 1
      <4>1. j - 1 = 0 /\ 1 .. (j - 1) = {}
        BY <1>4, <3>3
      <4> QED BY <4>1, <3>2, FS_EmptySet
    <3> QED BY <1>4, <3>1, <3>2, <3>3
  <2>4. c <= j - 1
    BY <2>2, <2>3, FS_Subset
  <2> QED BY <1>4, <2>4
<1>6. Recent(failures) = SubSeq(failures, c + 1, K)
  BY DEF Recent
<1> HIDE DEF c
<1> HIDE DEF old
<1>7. /\ SubSeq(failures, c + 1, K) \in Seq(Nat) /\ Len(SubSeq(failures, c + 1, K)) = K - c
      /\ \A j \in 1 .. K - c : SubSeq(failures, c + 1, K)[j] = failures[c + j]
  <2>1. /\ SubSeq(failures, c + 1, K) \in Seq(Nat) /\ Len(SubSeq(failures, c + 1, K)) = K - (c + 1) + 1
        /\ \A j \in 1 .. K - (c + 1) + 1 : SubSeq(failures, c + 1, K)[j] = failures[(c + 1) + j - 1]
    <3>1. c + 1 \in 1 .. K + 1 /\ K \in (c + 1) - 1 .. K
      BY <1>1, <1>4
    <3> QED BY <3>1, SubSeqProperties
  <2>2. K - (c + 1) + 1 = K - c /\ \A j \in 1 .. K - c : (c + 1) + j - 1 = c + j
    BY <1>1, <1>4
  <2> QED BY <2>1, <2>2
<1>8. \A j \in 1 .. c : time - failures[j] >= Window
  BY <1>5
<1>9. /\ Recent(failures) \in Seq(Nat) /\ Len(Recent(failures)) = K - c
      /\ \A j \in 1 .. K - c : Recent(failures)[j] = failures[c + j]
  BY <1>6, <1>7
<1>10. c \in 0 .. K
  BY <1>1, <1>4
<1> HIDE DEF K
<1>11. \E n \in 0 .. K :
         /\ Recent(failures) \in Seq(Nat) /\ Len(Recent(failures)) = K - n
         /\ \A j \in 1 .. K - n : Recent(failures)[j] = failures[n + j]
         /\ \A j \in 1 .. n : time - failures[j] >= Window
  BY <1>8, <1>9, <1>10
<1> QED BY <1>11 DEF K

LEMMA RefuseHolds ==
  ASSUME FlowConstants, AttemptInv, time \in Nat, UNCHANGED time, ~Locked, Refuse, wrong' = Append(wrong, time)
  PROVE  AttemptInv'
<1> DEFINE F == owner.failures
           N == Len(wrong)
           K == Len(F)
           G == Append(Recent(F), time)
<1>1. /\ MaxAttempts \in Nat /\ MaxAttempts > 0 /\ Window \in Nat /\ Lockout \in Nat /\ Window <= Lockout
  BY DEF FlowConstants
<1>2. /\ wrong \in Seq(Nat) /\ F \in Seq(Nat) /\ N \in Nat /\ K \in Nat /\ K < MaxAttempts /\ K <= N
      /\ owner.lockedUntil \in Nat /\ DOMAIN wrong = 1 .. N /\ owner \in [failures : Seq(Nat), lockedUntil : Nat]
      /\ \A i \in 1 .. N : wrong[i] \in Nat /\ wrong[i] <= time
      /\ \A j \in 1 .. K : F[j] = wrong[N - K + j]
      /\ \A i, j \in 1 .. N : i <= j => wrong[i] <= wrong[j]
      /\ DOMAIN F = 1 .. K
  BY DEF AttemptInv
<1>3. owner.lockedUntil <= time
  BY <1>2 DEF Locked
<1>4. \A i, j \in DOMAIN F : i <= j => F[i] <= F[j]
  <2> SUFFICES ASSUME NEW i \in 1 .. K, NEW j \in 1 .. K, i <= j
               PROVE  F[i] <= F[j]
    BY <1>2
  <2>1. N - K + i \in 1 .. N /\ N - K + j \in 1 .. N /\ N - K + i <= N - K + j
    BY <1>2
  <2> QED BY <1>2, <2>1
<1>5. PICK c \in 0 .. K :
        /\ Recent(F) \in Seq(Nat) /\ Len(Recent(F)) = K - c
        /\ \A j \in 1 .. K - c : Recent(F)[j] = F[c + j]
        /\ \A j \in 1 .. c : time - F[j] >= Window
  BY <1>1, <1>2, <1>4, RecentIsLast
<1>6. c \in Nat /\ c <= K
  BY <1>2
<1>7. G \in Seq(Nat) /\ Len(G) = K - c + 1 /\ G[K - c + 1] = time /\ \A j \in 1 .. K - c : G[j] = F[c + j]
  BY <1>2, <1>5, <1>6
<1>8. /\ wrong' \in Seq(Nat) /\ Len(wrong') = N + 1 /\ DOMAIN wrong' = 1 .. N + 1 /\ wrong'[N + 1] = time
      /\ \A i \in 1 .. N : wrong'[i] = wrong[i]
  <2> DEFINE w == wrong
  <2>1. w \in Seq(Nat) /\ wrong' = Append(w, time) /\ N = Len(w)
    BY <1>2
  <2> HIDE DEF w, N
  <2>2. /\ wrong' \in Seq(Nat) /\ Len(wrong') = N + 1 /\ DOMAIN wrong' = 1 .. N + 1 /\ wrong'[N + 1] = time
        /\ \A i \in 1 .. N : wrong'[i] = w[i]
    BY <2>1
  <2> QED BY <2>2 DEF w
<1>9. ASSUME NEW i \in 1 .. N - K + c
      PROVE  time - wrong[i] >= Window
  <2>1. CASE i <= N - K
    <3>1. time - wrong[i] >= Window \/ wrong[i] + Lockout <= owner.lockedUntil
      BY <1>2, <2>1 DEF AttemptInv
    <3>2. wrong[i] \in Nat
      BY <1>2, <1>6, <2>1
    <3>3. owner.lockedUntil \in Nat
      BY <1>2
    <3> QED BY <1>1, <1>3, <3>1, <3>2, <3>3
  <2>2. CASE ~(i <= N - K)
    <3>1. i - (N - K) \in 1 .. c /\ i - (N - K) \in 1 .. K /\ N - K + (i - (N - K)) = i
      BY <1>2, <1>6, <2>2
    <3>2. time - F[i - (N - K)] >= Window /\ F[i - (N - K)] = wrong[N - K + (i - (N - K))]
      BY <1>2, <1>5, <3>1
    <3> QED BY <3>1, <3>2
  <2> QED BY <2>1, <2>2
<1>10. owner' = IF Len(G) >= MaxAttempts THEN [failures |-> <<>>, lockedUntil |-> time + Lockout]
                ELSE [owner EXCEPT !.failures = G]
  BY DEF Refuse
<1> HIDE DEF G, F, N, K
<1>11. \A i \in DOMAIN wrong' : wrong'[i] <= time'
  BY <1>2, <1>8
<1>12. \A i, j \in DOMAIN wrong' : i <= j => wrong'[i] <= wrong'[j]
  BY <1>2, <1>8
<1>13. AttemptsBounded'
  <2> SUFFICES ASSUME NEW i \in 1 .. Len(wrong') - MaxAttempts
               PROVE  (wrong[i + MaxAttempts] - wrong[i] >= Window)'
    BY DEF AttemptsBounded
  <2>1. i \in 1 .. N /\ i <= N + 1 - MaxAttempts
    BY <1>1, <1>2, <1>8
  <2>2. CASE i < N + 1 - MaxAttempts
    <3>1. i \in 1 .. Len(wrong) - MaxAttempts /\ i + MaxAttempts \in 1 .. N
      BY <1>1, <1>2, <2>2 DEF N
    <3>2. wrong[i + MaxAttempts] - wrong[i] >= Window
      BY <3>1 DEF AttemptInv, AttemptsBounded
    <3> QED BY <1>8, <2>1, <3>1, <3>2
  <2>3. CASE ~(i < N + 1 - MaxAttempts)
    <3>1. i + MaxAttempts = N + 1 /\ i \in 1 .. N - K + c
      BY <1>1, <1>2, <1>6, <2>3
    <3> QED BY <1>8, <1>9, <2>1, <3>1
  <2> QED BY <2>2, <2>3
<1>14. CASE Len(G) >= MaxAttempts
  <2>1. owner' = [failures |-> <<>>, lockedUntil |-> time + Lockout]
    BY <1>10, <1>14
  <2>2. /\ owner' \in [failures : Seq(Nat), lockedUntil : Nat] /\ Len(owner'.failures) = 0
        /\ owner'.lockedUntil = time + Lockout
    BY <1>1, <2>1
  <2>3. \A i \in 1 .. N + 1 : wrong'[i] + Lockout <= owner'.lockedUntil
    BY <1>1, <1>2, <1>8, <2>2
  <2>4. /\ \A j \in 1 .. Len(owner'.failures) : owner'.failures[j] = wrong'[Len(wrong') - Len(owner'.failures) + j]
        /\ Len(owner'.failures) < MaxAttempts /\ Len(owner'.failures) <= Len(wrong')
    BY <1>1, <1>2, <1>8, <2>2
  <2>5. \A i \in 1 .. Len(wrong') - Len(owner'.failures) : time' - wrong'[i] >= Window \/ wrong'[i] + Lockout <= owner'.lockedUntil
    <3>1. Len(wrong') - Len(owner'.failures) = N + 1
      BY <1>2, <1>8, <2>2
    <3> QED BY <2>3, <3>1
  <2> QED BY <1>8, <1>11, <1>12, <1>13, <2>2, <2>4, <2>5 DEF AttemptInv
<1>15. CASE ~(Len(G) >= MaxAttempts)
  <2>1. owner' = [owner EXCEPT !.failures = G]
    BY <1>10, <1>15
  <2>2. owner' \in [failures : Seq(Nat), lockedUntil : Nat] /\ owner'.failures = G
    BY <1>2, <1>7, <2>1
  <2>3. Len(G) \in Nat /\ Len(G) < MaxAttempts /\ Len(G) <= N + 1 /\ N + 1 - Len(G) = N - K + c
    BY <1>1, <1>2, <1>6, <1>7, <1>15
  <2>4. ASSUME NEW j \in 1 .. Len(G)
        PROVE  G[j] = wrong'[(N + 1) - Len(G) + j]
    <3>1. CASE j = K - c + 1
      <4>1. (N + 1) - Len(G) + j = N + 1
        BY <1>2, <1>6, <1>7, <3>1
      <4> QED BY <1>7, <1>8, <3>1, <4>1
    <3>2. CASE j # K - c + 1
      <4>1. j \in 1 .. K - c /\ c + j \in 1 .. K /\ N - K + (c + j) \in 1 .. N /\ (N + 1) - Len(G) + j = N - K + (c + j)
        BY <1>2, <1>6, <1>7, <3>2
      <4>2. G[j] = F[c + j] /\ F[c + j] = wrong[N - K + (c + j)]
        BY <1>2, <1>7, <4>1
      <4> QED BY <1>8, <4>1, <4>2
    <3> QED BY <3>1, <3>2
  <2>5. \A i \in 1 .. N - K + c : time - wrong'[i] >= Window
    <3>1. \A i \in 1 .. N - K + c : i \in 1 .. N
      BY <1>2, <1>6
    <3> QED BY <1>8, <1>9, <3>1
  <2>6. /\ \A j \in 1 .. Len(owner'.failures) : owner'.failures[j] = wrong'[Len(wrong') - Len(owner'.failures) + j]
        /\ Len(owner'.failures) < MaxAttempts /\ Len(owner'.failures) <= Len(wrong')
    <3>1. Len(wrong') = N + 1 /\ owner'.failures = G
      BY <1>8, <2>2
    <3>2. \A j \in 1 .. Len(G) : G[j] = wrong'[(N + 1) - Len(G) + j]
      BY <1>2, <2>3, <2>4
    <3> QED BY <2>3, <3>1, <3>2
  <2>7. \A i \in 1 .. Len(wrong') - Len(owner'.failures) : time' - wrong'[i] >= Window \/ wrong'[i] + Lockout <= owner'.lockedUntil
    <3>1. Len(wrong') - Len(owner'.failures) = N - K + c
      BY <1>2, <1>8, <2>2, <2>3
    <3> QED BY <2>5, <3>1
  <2> QED BY <1>8, <1>11, <1>12, <1>13, <2>2, <2>6, <2>7 DEF AttemptInv
<1> QED BY <1>14, <1>15

LEMMA ConsentTries ==
  ASSUME FlowConstants, FlowInv, NEW r \in Slots, Consent(r)
  PROVE  AttemptInv'
<1> DEFINE job == req[r].job
           p == pendings[job.id]
<1>1. AttemptInv /\ ReqInv(r) /\ time \in Nat /\ MaxAttempts \in Nat \ {0} /\ Window \in Nat
  BY DEF FlowInv, RequestsInv, ClockInv, FlowConstants
<1>2. req[r].at = "consent" /\ UNCHANGED time
  BY DEF Consent, At
<1>3. job.action \in {"approve", "deny", "other"}
  BY <1>1, <1>2 DEF ReqInv
<1>4. CASE UNCHANGED <<owner, wrong>>
  BY <1>1, <1>2, <1>4 DEF AttemptInv, AttemptsBounded
<1>5. CASE owner' = [owner EXCEPT !.failures = <<>>] /\ wrong' = <<>>
  <2>1. owner' \in [failures : Seq(Nat), lockedUntil : Nat] /\ Len(owner'.failures) = 0
    <3>1. owner \in [failures : Seq(Nat), lockedUntil : Nat]
      BY <1>1 DEF AttemptInv
    <3>2. <<>> \in Seq(Nat) /\ Len(<<>>) = 0
      OBVIOUS
    <3> QED BY <1>5, <3>1, <3>2
  <2>2. wrong' \in Seq(Nat) /\ Len(wrong') = 0 /\ DOMAIN wrong' = {}
    BY <1>5
  <2> QED BY <1>1, <2>1, <2>2 DEF AttemptInv, AttemptsBounded
<1>6. CASE Refuse /\ wrong' = Append(wrong, time) /\ ~Locked
  BY <1>1, <1>2, <1>6, RefuseHolds
<1> HIDE DEF p
<1>7. \/ UNCHANGED <<owner, wrong>>
      \/ owner' = [owner EXCEPT !.failures = <<>>] /\ wrong' = <<>>
      \/ Refuse /\ wrong' = Append(wrong, time) /\ ~Locked
  BY <1>3 DEF Consent, p
<1> QED BY <1>4, <1>5, <1>6, <1>7

LEMMA AttemptHolds ==
  ASSUME FlowConstants, FlowInv, [FlowNext]_flowVars
  PROVE  AttemptInv'
<1>1. AttemptInv /\ time \in Nat /\ Window \in Nat
  BY DEF FlowInv, ClockInv, FlowConstants
<1>2. CASE UNCHANGED <<owner, wrong>> /\ (time' = time \/ time' = time + 1)
  <2>1. \A i \in DOMAIN wrong : wrong[i] \in Nat
    BY <1>1 DEF AttemptInv
  <2>2. time' \in Nat /\ time <= time'
    BY <1>1, <1>2
  <2>3. \A i \in 1 .. Len(wrong) - Len(owner.failures) : i \in DOMAIN wrong
    BY <1>1 DEF AttemptInv
  <2>4. \A i \in DOMAIN wrong : wrong[i] <= time'
    BY <1>1, <2>1, <2>2 DEF AttemptInv
  <2>5. \A i \in 1 .. Len(wrong) - Len(owner.failures) : time' - wrong[i] >= Window \/ wrong[i] + Lockout <= owner.lockedUntil
    BY <1>1, <2>1, <2>2, <2>3 DEF AttemptInv
  <2> QED BY <1>1, <1>2, <2>4, <2>5 DEF AttemptInv, AttemptsBounded
<1>3. ASSUME NEW r \in Slots, Consent(r)
      PROVE  AttemptInv'
  BY <1>3, ConsentTries
<1>4. CASE RevokeAll \/ Sweep \/ Tick \/ UNCHANGED flowVars
  BY <1>2, <1>4 DEF RevokeAll, Sweep, Tick, flowVars, history
<1>5. ASSUME NEW r \in Slots,
             Arrive(r) \/ Cached(r) \/ Fetched(r) \/ AskOwner(r) \/ PutCode(r) \/ DeletePending(r) \/ Exchange(r)
               \/ PutAccess(r) \/ PutRefresh(r) \/ Issued(r) \/ ReadRefresh(r) \/ Rotate(r) \/ ReadRevoke(r)
               \/ RevokeFamily(r) \/ Verify(r) \/ Touch(r)
      PROVE  UNCHANGED <<owner, wrong, time>>
  BY <1>5 DEF Arrive, Cached, Fetched, AskOwner, PutCode, DeletePending, Exchange, PutAccess, PutRefresh, Issued,
              ReadRefresh, Rotate, ReadRevoke, RevokeFamily, Verify, Touch, history, At
<1> QED BY <1>2, <1>3, <1>4, <1>5 DEF FlowNext

LEMMA ClientHolds ==
  ASSUME FlowConstants, FlowInv, [FlowNext]_flowVars
  PROVE  ClientInv'
<1>1. ClientInv /\ GoodTtl \in Nat /\ NegativeTtl \in Nat
  BY DEF FlowInv, FlowConstants
<1>2. CASE UNCHANGED <<client, failedAt>>
  BY <1>1, <1>2 DEF ClientInv, NegativeEnds
<1>3. ASSUME NEW r \in Slots, Fetched(r)
      PROVE  ClientInv'
  <2>1. req[r].t \in Nat
    BY DEF FlowInv, RequestsInv, ReqInv, ClockInv
  <2>2. CASE client' = client /\ failedAt' = failedAt
    BY <1>2, <2>2
  <2>3. CASE \E ttl \in {0, GoodTtl} : client' = [is |-> "good", until |-> req[r].t + ttl] /\ failedAt' = failedAt
    BY <1>1, <2>1, <2>3 DEF ClientInv, NegativeEnds
  <2>4. CASE client' = [is |-> "negative", until |-> req[r].t + NegativeTtl] /\ failedAt' = req[r].t
    BY <1>1, <2>1, <2>4 DEF ClientInv, NegativeEnds
  <2> QED BY <1>3, <2>2, <2>3, <2>4 DEF Fetched
<1>4. CASE Sweep
  BY <1>1, <1>4 DEF Sweep, history, ClientInv, NegativeEnds, NoClient
<1>5. CASE RevokeAll \/ Tick \/ UNCHANGED flowVars
  BY <1>2, <1>5 DEF RevokeAll, Tick, flowVars, history, store
<1>6. ASSUME NEW r \in Slots, Cached(r)
      PROVE  UNCHANGED <<client, failedAt>>
  BY <1>1, <1>6 DEF Cached, Rethrown, history, ClientInv
<1>7. ASSUME NEW r \in Slots,
             Arrive(r) \/ AskOwner(r) \/ Consent(r) \/ PutCode(r) \/ DeletePending(r) \/ Exchange(r)
               \/ PutAccess(r) \/ PutRefresh(r) \/ Issued(r) \/ ReadRefresh(r) \/ Rotate(r) \/ ReadRevoke(r)
               \/ RevokeFamily(r) \/ Verify(r) \/ Touch(r)
      PROVE  UNCHANGED <<client, failedAt>>
  BY <1>7 DEF Arrive, AskOwner, Consent, PutCode, DeletePending, Exchange, PutAccess, PutRefresh, Issued,
              ReadRefresh, Rotate, ReadRevoke, RevokeFamily, Verify, Touch, history, store
<1> QED BY <1>2, <1>3, <1>4, <1>5, <1>6, <1>7 DEF FlowNext

LEMMA ClockHolds ==
  ASSUME FlowConstants, FlowInv, [FlowNext]_flowVars
  PROVE  ClockInv'
<1>1. ClockInv /\ MaxTime \in Nat /\ MaxRequests \in Nat
  BY DEF FlowInv, FlowConstants
<1>2. CASE UNCHANGED <<time, made>>
  BY <1>1, <1>2 DEF ClockInv
<1>3. CASE Tick
  BY <1>1, <1>3 DEF Tick, ClockInv
<1>4. ASSUME NEW r \in Slots, Arrive(r)
      PROVE  ClockInv'
  BY <1>1, <1>4 DEF Arrive, ClockInv
<1>5. CASE RevokeAll \/ Sweep \/ UNCHANGED flowVars
  BY <1>2, <1>5 DEF RevokeAll, Sweep, flowVars
<1>6. ASSUME NEW r \in Slots,
             Cached(r) \/ Fetched(r) \/ AskOwner(r) \/ Consent(r) \/ PutCode(r) \/ DeletePending(r) \/ Exchange(r)
               \/ PutAccess(r) \/ PutRefresh(r) \/ Issued(r) \/ ReadRefresh(r) \/ Rotate(r) \/ ReadRevoke(r)
               \/ RevokeFamily(r) \/ Verify(r) \/ Touch(r)
      PROVE  UNCHANGED <<time, made>>
  BY <1>6 DEF Cached, Fetched, AskOwner, Consent, PutCode, DeletePending, Exchange, PutAccess, PutRefresh, Issued,
              ReadRefresh, Rotate, ReadRevoke, RevokeFamily, Verify, Touch, At
<1> QED BY <1>2, <1>3, <1>4, <1>5, <1>6 DEF FlowNext

-----------------------------------------------------------------------------
(* The invariant of every behavior. *)

LEMMA RequestsHold ==
  ASSUME FlowConstants, FlowInv, [FlowNext]_flowVars
  PROVE  RequestsInv'
<1>1. ASSUME NEW r \in Slots, Exchange(r) \/ PutAccess(r) \/ PutRefresh(r) \/ Issued(r) \/ Rotate(r) \/ Touch(r)
      PROVE  RequestsInv'
  BY <1>1, ExchangeHolds, PutHolds, IssuedHolds, RotateHolds, TouchHolds
<1>2. ASSUME NEW r \in Slots, ReadRefresh(r) \/ ReadRevoke(r) \/ Verify(r) \/ RevokeFamily(r)
      PROVE  RequestsInv'
  BY <1>2, ReadRefreshHolds, ReadHolds, RevokeFamilyHolds
<1>3. ASSUME NEW r \in Slots,
             Arrive(r) \/ Cached(r) \/ Fetched(r) \/ AskOwner(r) \/ Consent(r) \/ PutCode(r) \/ DeletePending(r)
      PROVE  RequestsInv'
  BY <1>3, ArriveHolds, CarelessSteps
<1> QED BY <1>1, <1>2, <1>3, AsideHolds DEF FlowNext

LEMMA FlowInvStarts ==
  ASSUME FlowConstants, FlowInit
  PROVE  FlowInv
<1>1. PICK start \in Starts, s \in {Empty, Asked, Granted, Aged} :
        /\ client = s.client /\ tokens = s.tokens /\ families = s.families
        /\ time \in {1, 2}
  BY DEF FlowInit, FlowConstants
<1>2. /\ {AccessTtl, RefreshTtl, PendingTtl, GoodTtl} \subseteq Nat /\ MaxTime \in Nat \ {0, 1} /\ MaxAttempts \in Nat \ {0}
      /\ MaxRequests \in Nat
  BY DEF FlowConstants
<1>3. /\ codes = <<>> /\ owner = [failures |-> <<>>, lockedUntil |-> 0] /\ req = [r \in Slots |-> Idle] /\ made = 0
      /\ wrong = <<>> /\ dead = {} /\ raced = {} /\ failedAt = 0
  BY DEF FlowInit
<1>4. /\ Empty.client = NoClient /\ Empty.tokens = <<>> /\ Empty.families = <<>>
      /\ Asked.client = [is |-> "good", until |-> 1 + GoodTtl] /\ Asked.tokens = <<>> /\ Asked.families = <<>>
      /\ Granted.client = NoClient /\ Granted.families = <<0>>
      /\ Granted.tokens = <<Token("access", 1, 1 + AccessTtl), Token("refresh", 1, 1 + RefreshTtl)>>
      /\ Aged.client = NoClient /\ Aged.families = <<0>> /\ Aged.tokens = <<Token("refresh", 1, 3)>>
  BY DEF Empty, Asked, Granted, Aged
<1>5. ClockInv
  BY <1>1, <1>2, <1>3 DEF ClockInv
<1>6. families = <<>> \/ families = <<0>>
  BY <1>1, <1>4
<1>7. BuyInv
  <2>1. codes \in Seq(CodeRecords) /\ families \in Seq(Nat)
    <3>1. \A n \in Nat : <<n>> \in Seq(Nat)
      OBVIOUS
    <3>2. <<0>> \in Seq(Nat)
      BY <3>1
    <3>3. <<>> \in Seq(Nat) /\ <<>> \in Seq(CodeRecords)
      OBVIOUS
    <3> QED BY <1>3, <1>6, <3>2, <3>3
  <2>2. \A f \in DOMAIN families : families[f] = 0 /\ f = 1
    BY <1>6
  <2> QED BY <2>1, <2>2 DEF BuyInv, CodesBuyOnce
<1>8. TokenInv
  <2>1. ASSUME NEW kind \in {"access", "refresh"}, NEW until \in Nat
        PROVE  Token(kind, 1, until) \in TokenRecords
    BY DEF Token, TokenRecords
  <2>2. \/ tokens = <<>>
        \/ families = <<0>> /\ tokens = <<Token("access", 1, 1 + AccessTtl), Token("refresh", 1, 1 + RefreshTtl)>>
        \/ families = <<0>> /\ tokens = <<Token("refresh", 1, 3)>>
    BY <1>1, <1>4
  <2>3. \A i \in DOMAIN tokens : \E kind \in {"access", "refresh"}, until \in Nat : tokens[i] = Token(kind, 1, until) /\ 1 \in DOMAIN families
    BY <1>2, <2>2
  <2>4. tokens \in Seq(TokenRecords)
    <3>1. \A a, b \in TokenRecords : <<a, b>> \in Seq(TokenRecords) /\ <<a>> \in Seq(TokenRecords)
      OBVIOUS
    <3>2. /\ Token("access", 1, 1 + AccessTtl) \in TokenRecords /\ Token("refresh", 1, 1 + RefreshTtl) \in TokenRecords
          /\ Token("refresh", 1, 3) \in TokenRecords
      BY <1>2, <2>1
    <3>3. <<>> \in Seq(TokenRecords)
      OBVIOUS
    <3> QED BY <2>2, <3>1, <3>2, <3>3
  <2>5. \A kind, until : Token(kind, 1, until).family = 1 /\ Token(kind, 1, until).rotated = 0 /\ Token(kind, 1, until).done = 0
    BY DEF Token
  <2>6. ASSUME NEW i \in DOMAIN tokens
        PROVE  tokens[i].family \in DOMAIN families /\ tokens[i].rotated <= time /\ tokens[i].done = 0
    BY <1>1, <2>3, <2>5
  <2> QED BY <1>3, <2>4, <2>6 DEF TokenInv, Live
<1>9. DOMAIN req = Slots /\ \A r \in Slots : ReqInv(r)
  <2>1. time \in Nat /\ Len(families) \in Nat
    BY <1>1, <1>6
  <2>2. DOMAIN Idle = ReqFields /\ Idle.at = "idle" /\ Idle.t = 0 /\ Idle.family = 0
    BY DEF Idle, ReqFields
  <2> QED BY <1>3, <2>1, <2>2 DEF ReqInv
<1>10. AttemptInv
  <2>1. <<>> \in Seq(Nat) /\ Len(<<>>) = 0 /\ DOMAIN <<>> = {}
    OBVIOUS
  <2>2. owner \in [failures : Seq(Nat), lockedUntil : Nat] /\ owner.failures = <<>>
    BY <1>3, <2>1
  <2> QED BY <1>2, <1>3, <2>1, <2>2 DEF AttemptInv, AttemptsBounded
<1>11. ClientInv
  <2>1. client.is \in {"none", "good"} /\ client.until \in Nat
    BY <1>1, <1>2, <1>4 DEF NoClient
  <2> QED BY <1>3, <2>1 DEF ClientInv, NegativeEnds
<1> QED BY <1>5, <1>7, <1>8, <1>9, <1>10, <1>11 DEF FlowInv, RequestsInv

\* What FlowInv says of tokens and requests is what the store has to hold.
LEMMA FlowInvHolds ==
  ASSUME FlowConstants, FlowInv
  PROVE  TokensHold /\ ConsentHolds
<1>1. ClockInv /\ BuyInv /\ TokenInv /\ (\A r \in Slots : ReqInv(r)) /\ AttemptInv /\ ClientInv
  BY DEF FlowInv, RequestsInv
<1>2. CodesBuyOnce /\ AttemptsBounded /\ NegativeEnds
  BY <1>1 DEF BuyInv, AttemptInv, ClientInv
<1>3. RevokedIsDead
  BY <1>1 DEF TokenInv, RevokedIsDead, Live
<1>4. GraceEnds
  BY <1>1 DEF ReqInv, GraceEnds
<1>5. \A i \in DOMAIN tokens : tokens[i].kind \in {"access", "refresh"} /\ tokens[i].family \in DOMAIN families
  <2>1. \A i \in DOMAIN tokens : tokens[i] \in TokenRecords
    BY <1>1 DEF TokenInv
  <2> QED BY <1>1, <2>1 DEF TokenInv, TokenRecords
<1>6. \A r \in Slots : req[r].family \in 0 .. Len(families)
  BY <1>1 DEF ReqInv
<1>7. FlowTypeOK
  BY <1>1, <1>5, <1>6 DEF FlowTypeOK, ClockInv, ClientInv
<1> QED BY <1>2, <1>3, <1>4, <1>7 DEF TokensHold, ConsentHolds

\* The invariant of consent, codes and tokens holds whatever requests overlap.
THEOREM FlowInvariant ==
  ASSUME FlowConstants
  PROVE  FlowSpec => []FlowInv
<1>1. FlowInit => FlowInv
  BY FlowInvStarts
<1>2. FlowInv /\ [FlowNext]_flowVars => FlowInv'
  BY RequestsHold, BuyHolds, AttemptHolds, ClientHolds, ClockHolds DEF FlowInv
<1> QED BY <1>1, <1>2, PTL DEF FlowSpec

\* A code buys one family; a family that was revoked has no live token any more,
\* unless a pair was being added to it; and a rotated refresh token is good for
\* its grace only, however many retries and writes overlap (auth/as/token.ts).
THEOREM FlowTokensHold ==
  ASSUME FlowConstants
  PROVE  FlowSpec => []TokensHold
<1>1. FlowInv => TokensHold
  BY FlowInvHolds
<1> QED BY <1>1, FlowInvariant, PTL

\* No more than the allowed attempts at the owner's secret are compared in a
\* window, a failed client is tried again, and each bucket lets through what it
\* holds and was refilled with, whatever requests overlap.
THEOREM ServerGatesHold ==
  ASSUME FlowConstants, Sizes
  PROVE  FlowSpec /\ RateSpec => []GatesHold
<1>1. FlowInv => ConsentHolds
  BY FlowInvHolds
<1>2. RateSpec => []BucketsHold
  BY RateBucketsHold
<1>3. ConsentHolds /\ BucketsHold => GatesHold
  BY DEF GatesHold
<1> QED BY <1>1, <1>2, <1>3, FlowInvariant, PTL
=============================================================================
