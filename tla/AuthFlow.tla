------------------------------ MODULE AuthFlow ------------------------------
(***************************************************************************)
(* The authorization server (auth/as/authorize.ts, token.ts, cimd.ts,      *)
(* auth/owner.ts, auth/rs/verifier.ts): a client is resolved, its request  *)
(* waits for the owner's consent, the consent buys a code, the code a      *)
(* family of tokens, and a refresh token the next pair of its family.      *)
(*                                                                         *)
(* Requests are served side by side, and each call of the store is a wait: *)
(* what a handler has read may be old when it writes.  Here a call of the  *)
(* store is one step (FileTokenStore is how it gets to be one).  A handler *)
(* takes the time when it starts.  There is one client; ids are numbers in *)
(* the order they are made.                                                *)
(***************************************************************************)
EXTENDS Integers, Sequences, FiniteSets

CONSTANTS
  Slots,        \* requests served at once
  Starts,       \* what the store may hold at first: "empty", "asked", "granted", "aged"
  Grace, CodeTtl, PendingTtl, AccessTtl, RefreshTtl, GoodTtl, NegativeTtl, UsedEvery,
  MaxAttempts, Window, Lockout,    \* of the owner's secret
  MaxRequests,  \* how many requests are made (a bound)
  MaxTime       \* when the clock stops (a bound)

VARIABLES
  time,       \* the clock
  client,     \* the client's cached record
  pendings, codes, tokens,   \* the store, by id
  families,   \* the code each family of tokens was bought with
  owner,      \* [failures, lockedUntil] of createOwnerAuth
  req,        \* where each request is
  made,       \* how many there were
  wrong,      \* history: when a wrong secret was compared since the last right one
  dead,       \* history: families revoked
  raced,      \* history: those with a refresh or an exchange under way then
  failedAt    \* history: when the last fetch that failed was begun

\* What the code gives: times that are natural numbers, a lockout no shorter than
\* the window (owner.ts: 15 minutes, 1 minute), at least one attempt.
FlowConstants ==
  /\ Starts \subseteq {"empty", "asked", "granted", "aged"}
  /\ {Grace, CodeTtl, PendingTtl, AccessTtl, RefreshTtl, GoodTtl, NegativeTtl, UsedEvery, Window, Lockout, MaxRequests} \subseteq Nat
  /\ MaxAttempts \in Nat \ {0} /\ Window <= Lockout /\ MaxTime \in Nat \ {0, 1}

store == <<client, pendings, codes, tokens, families>>
history == <<wrong, dead, raced, failedAt>>
flowVars == <<time, store, owner, req, made, history>>

NoClient == [is |-> "none", until |-> 0]
Token(kind, family, until) ==
  [kind |-> kind, family |-> family, until |-> until, there |-> TRUE, revoked |-> FALSE,
   rotated |-> 0, used |-> 0, done |-> 0]
NoJob == [kind |-> "none"]
Idle == [at |-> "idle", job |-> NoJob, t |-> 0, family |-> 0, rec |-> Token("none", 0, 0), pair |-> {}]

\* What the store may hold: nothing, a request that waits for consent, a family of tokens, an old one whose access token was swept.
Empty == [client |-> NoClient, pendings |-> <<>>, tokens |-> <<>>, families |-> <<>>]
Asked == [Empty EXCEPT !.client = [is |-> "good", until |-> 1 + GoodTtl], !.pendings = <<[there |-> TRUE, until |-> 1 + PendingTtl]>>]
Granted == [Empty EXCEPT !.tokens = <<Token("access", 1, 1 + AccessTtl), Token("refresh", 1, 1 + RefreshTtl)>>, !.families = <<0>>]
Aged == [Granted EXCEPT !.tokens = <<Token("refresh", 1, 3)>>]

FlowInit ==
  /\ \E start \in Starts :
       LET s == CASE start = "empty" -> Empty [] start = "asked" -> Asked [] start = "granted" -> Granted [] start = "aged" -> Aged
       IN  /\ client = s.client /\ pendings = s.pendings /\ tokens = s.tokens /\ families = s.families
           /\ time = IF start = "aged" THEN 2 ELSE 1
  /\ codes = <<>>
  /\ owner = [failures |-> <<>>, lockedUntil |-> 0]
  /\ req = [r \in Slots |-> Idle] /\ made = 0
  /\ wrong = <<>> /\ dead = {} /\ raced = {} /\ failedAt = 0

\* Tokens a client has been answered with.
Known == {i \in DOMAIN tokens : \A r \in Slots : i \notin req[r].pair}

Consents == [kind : {"consent"}, id : DOMAIN pendings, nonce : BOOLEAN, action : {"approve"}, secret : BOOLEAN]
              \union [kind : {"consent"}, id : DOMAIN pendings, nonce : {TRUE}, action : {"deny", "other"}, secret : {FALSE}]

\* What may be asked; "good": the parameters, or the binding of the code or the token, are right.
Jobs ==
  UNION {[kind : {"authorize"}, good : BOOLEAN], Consents,
         [kind : {"exchange"}, id : DOMAIN codes, good : BOOLEAN],
         [kind : {"refresh"}, id : Known, good : BOOLEAN], [kind : {"revoke", "use"}, id : Known]}

Arrive(r) ==
  /\ req[r].at = "idle" /\ made < MaxRequests
  /\ \E job \in Jobs : req' = [req EXCEPT ![r] = [Idle EXCEPT !.at = job.kind, !.job = job, !.t = time]]
  /\ made' = made + 1
  /\ UNCHANGED <<time, store, owner, history>>

\* A request goes on, or is answered.
GoesTo(r, at) == req' = [req EXCEPT ![r].at = at]
Ends(r) == req' = [req EXCEPT ![r] = Idle]

At(r, at) == req[r].at = at /\ UNCHANGED <<time, made>>

-----------------------------------------------------------------------------
(* GET /oauth/authorize. *)

\* Mutant: a failure found in the cache is cached once more.
RethrownCached(r) == IF client.is = "negative" THEN [client EXCEPT !.until = req[r].t + NegativeTtl] ELSE client

\* The error of a cached failure is passed on as it is.
Rethrown(r) == client

\* resolveClient: a record that has not expired, also of a failure, is taken as it is.
Cached(r) ==
  LET fresh == client.is # "none" /\ client.until > req[r].t IN
  /\ At(r, "authorize")
  /\ CASE ~fresh -> GoesTo(r, "fetch") /\ UNCHANGED client
       [] fresh /\ client.is = "negative" -> Ends(r) /\ client' = Rethrown(r)
       [] fresh /\ client.is = "good" -> GoesTo(r, "resolved") /\ UNCHANGED client
  /\ UNCHANGED <<pendings, codes, tokens, families, owner, history>>

\* fetchClientMetadataDocument has its document, which may not be cached; or the
\* address, the deadline, the size or the shape is wrong.
Fetched(r) ==
  /\ At(r, "fetch")
  /\ \/ /\ \E ttl \in {0, GoodTtl} : client' = IF ttl > 0 THEN [is |-> "good", until |-> req[r].t + ttl] ELSE client
        /\ GoesTo(r, "resolved") /\ UNCHANGED failedAt
     \/ client' = [is |-> "negative", until |-> req[r].t + NegativeTtl] /\ failedAt' = req[r].t /\ Ends(r)
  /\ UNCHANGED <<pendings, codes, tokens, families, owner, wrong, dead, raced>>

\* The request's own parameters; then it waits for the owner.
AskOwner(r) ==
  /\ At(r, "resolved")
  /\ pendings' = IF req[r].job.good THEN Append(pendings, [there |-> TRUE, until |-> time + PendingTtl]) ELSE pendings
  /\ Ends(r)
  /\ UNCHANGED <<client, codes, tokens, families, owner, history>>

-----------------------------------------------------------------------------
(* POST /oauth/consent. *)

\* Mutant: failures of before the window are kept, those within it forgotten.
RecentOld(failures) == SelectSeq(failures, LAMBDA f : time - f >= Window)

\* Failures are noted as the clock goes, so those within the window are the last.
Recent(failures) ==
  SubSeq(failures, Cardinality({i \in DOMAIN failures : time - failures[i] >= Window}) + 1, Len(failures))

Locked == time < owner.lockedUntil

\* ownerAuth.verify of a wrong secret.
Refuse ==
  LET failures == Append(Recent(owner.failures), time) IN
  owner' = IF Len(failures) >= MaxAttempts THEN [failures |-> <<>>, lockedUntil |-> time + Lockout]
           ELSE [owner EXCEPT !.failures = failures]

\* getPending, the checks, and the verdict on the secret in one go.
Consent(r) ==
  LET job == req[r].job
      p == pendings[job.id]
  IN
  /\ At(r, "consent")
  /\ IF ~p.there
     THEN Ends(r) /\ UNCHANGED <<owner, wrong>>
     ELSE IF p.until <= req[r].t \/ ~job.nonce \/ job.action = "deny"
     THEN GoesTo(r, "deletePending") /\ UNCHANGED <<owner, wrong>>
     ELSE IF job.action = "other" \/ Locked
     THEN Ends(r) /\ UNCHANGED <<owner, wrong>>
     ELSE IF job.secret
     THEN owner' = [owner EXCEPT !.failures = <<>>] /\ wrong' = <<>> /\ GoesTo(r, "putCode")
     ELSE Refuse /\ wrong' = Append(wrong, time) /\ Ends(r)
  /\ UNCHANGED <<store, dead, raced, failedAt>>

PutCode(r) ==
  /\ At(r, "putCode")
  /\ codes' = Append(codes, [is |-> "live", until |-> req[r].t + CodeTtl])
  /\ GoesTo(r, "deletePending")
  /\ UNCHANGED <<client, pendings, tokens, families, owner, history>>

DeletePending(r) ==
  /\ At(r, "deletePending")
  /\ pendings' = [pendings EXCEPT ![req[r].job.id].there = FALSE]
  /\ Ends(r)
  /\ UNCHANGED <<client, codes, tokens, families, owner, history>>

-----------------------------------------------------------------------------
(* POST /oauth/token with a code. *)

\* Mutant: the code is only looked up.
UsedNever(code) == code

Used(code) == [code EXCEPT !.is = "used"]

\* consumeCode, and then whether the code was made for this request.
Exchange(r) ==
  LET k == req[r].job.id
      found == codes[k].is = "live" /\ codes[k].until > req[r].t
      bought == found /\ req[r].job.good
  IN
  /\ At(r, "exchange")
  /\ codes' = IF found THEN [codes EXCEPT ![k] = Used(@)] ELSE codes
  /\ families' = IF bought THEN Append(families, k) ELSE families
  /\ IF bought THEN req' = [req EXCEPT ![r].at = "access", ![r].family = Len(families) + 1] ELSE Ends(r)
  /\ UNCHANGED <<client, pendings, tokens, owner, history>>

\* issuePair: the access token, then the refresh token.
PutAccess(r) ==
  /\ At(r, "access")
  /\ tokens' = Append(tokens, Token("access", req[r].family, req[r].t + AccessTtl))
  /\ req' = [req EXCEPT ![r].at = "pair", ![r].pair = {Len(tokens) + 1}]
  /\ UNCHANGED <<client, pendings, codes, families, owner, history>>

PutRefresh(r) ==
  /\ At(r, "pair")
  /\ tokens' = Append(tokens, Token("refresh", req[r].family, req[r].t + RefreshTtl))
  /\ req' = [req EXCEPT ![r].at = "issued", ![r].pair = @ \union {Len(tokens) + 1}]
  /\ UNCHANGED <<client, pendings, codes, families, owner, history>>

\* The pair is sent ("done": when the first rotation of a token was answered).
Issued(r) ==
  LET job == req[r].job IN
  /\ At(r, "issued")
  /\ tokens' = IF job.kind = "refresh" /\ tokens[job.id].done = 0 THEN [tokens EXCEPT ![job.id].done = time] ELSE tokens
  /\ Ends(r)
  /\ UNCHANGED <<client, pendings, codes, families, owner, history>>

-----------------------------------------------------------------------------
(* POST /oauth/token with a refresh token; POST /oauth/revoke. *)

\* Mutant: every retry in the grace counts as the first rotation.
RotatesAlways(rec) == TRUE

Rotates(rec) == rec.rotated = 0

\* getToken and the checks: a token that should not be used any more costs its family.
ReadRefresh(r) ==
  LET rec == tokens[req[r].job.id]
      t == req[r].t
      refused == rec.kind # "refresh" \/ rec.revoked \/ rec.until <= t \/ ~req[r].job.good
      reused == rec.rotated # 0 /\ t - rec.rotated > Grace
  IN
  /\ At(r, "refresh")
  /\ IF rec.there
     THEN req' = [req EXCEPT ![r].family = rec.family,
                             ![r].at = CASE refused \/ reused -> "revokeFamily"
                                         [] ~refused /\ ~reused /\ Rotates(rec) -> "rotate"
                                         [] OTHER -> "access"]
     ELSE Ends(r)
  /\ UNCHANGED <<store, owner, history>>

Rotate(r) ==
  LET i == req[r].job.id IN
  /\ At(r, "rotate")
  /\ tokens' = IF tokens[i].there THEN [tokens EXCEPT ![i].rotated = req[r].t] ELSE tokens
  /\ GoesTo(r, "access")
  /\ UNCHANGED <<client, pendings, codes, families, owner, history>>

ReadRevoke(r) ==
  LET rec == tokens[req[r].job.id] IN
  /\ At(r, "revoke")
  /\ IF rec.there THEN req' = [req EXCEPT ![r].at = "revokeFamily", ![r].family = rec.family] ELSE Ends(r)
  /\ UNCHANGED <<store, owner, history>>

\* Mutant: only the tokens that can refresh.
RevokedRefresh(S) ==
  [i \in DOMAIN tokens |-> IF tokens[i].family \in S /\ tokens[i].kind = "refresh" THEN [tokens[i] EXCEPT !.revoked = TRUE]
                           ELSE tokens[i]]

Revoked(S) ==
  [i \in DOMAIN tokens |-> IF tokens[i].family \in S THEN [tokens[i] EXCEPT !.revoked = TRUE] ELSE tokens[i]]

\* Families a request is about to give tokens to.
Growing == {req[r].family : r \in {x \in Slots : req[x].at \in {"rotate", "access", "pair"}}}

RevokeFamily(r) ==
  LET S == {req[r].family} IN
  /\ At(r, "revokeFamily")
  /\ tokens' = Revoked(S)
  /\ dead' = dead \union S /\ raced' = raced \union (S \intersect Growing)
  /\ Ends(r)
  /\ UNCHANGED <<client, pendings, codes, families, owner, wrong, failedAt>>

\* ./brainstem revoke-all.
RevokeAll ==
  LET S == DOMAIN families IN
  /\ S \ dead # {}
  /\ tokens' = Revoked(S)
  /\ codes' = [k \in DOMAIN codes |-> [codes[k] EXCEPT !.is = "gone"]]
  /\ pendings' = [p \in DOMAIN pendings |-> [pendings[p] EXCEPT !.there = FALSE]]
  /\ dead' = dead \union S /\ raced' = raced \union (S \intersect Growing)
  /\ UNCHANGED <<time, client, families, owner, req, made, wrong, failedAt>>

-----------------------------------------------------------------------------
(* A request of /mcp with its access token (verifyAccessToken). *)

Verify(r) ==
  LET rec == tokens[req[r].job.id]
      valid == rec.there /\ rec.kind = "access" /\ ~rec.revoked /\ rec.until > time
  IN
  /\ At(r, "use")
  /\ IF valid /\ (rec.used = 0 \/ time - rec.used >= UsedEvery)
     THEN req' = [req EXCEPT ![r].at = "touch", ![r].t = time, ![r].rec = rec]
     ELSE Ends(r)
  /\ UNCHANGED <<store, owner, history>>

\* Mutant: the record is written as it was read.
TouchedWhole(now, read, t) == [read EXCEPT !.used = t]

Touched(now, read, t) == [now EXCEPT !.used = t]

\* lastUsedAt is written after the request was let in.
Touch(r) ==
  LET i == req[r].job.id IN
  /\ At(r, "touch")
  /\ tokens' = IF tokens[i].there THEN [tokens EXCEPT ![i] = Touched(@, req[r].rec, req[r].t)] ELSE tokens
  /\ Ends(r)
  /\ UNCHANGED <<client, pendings, codes, families, owner, history>>

-----------------------------------------------------------------------------
\* sweepExpired.
Sweep ==
  /\ pendings' = [p \in DOMAIN pendings |-> [pendings[p] EXCEPT !.there = @ /\ pendings[p].until > time]]
  /\ codes' = [k \in DOMAIN codes |-> IF codes[k].until <= time \/ codes[k].is = "used" THEN [codes[k] EXCEPT !.is = "gone"] ELSE codes[k]]
  /\ tokens' = [i \in DOMAIN tokens |-> [tokens[i] EXCEPT !.there = @ /\ tokens[i].until > time]]
  /\ client' = IF client.is = "negative" /\ client.until <= time THEN NoClient ELSE client
  /\ UNCHANGED <<time, families, owner, req, made, history>>

Tick == time < MaxTime /\ time' = time + 1 /\ UNCHANGED <<store, owner, req, made, history>>

FlowNext ==
  \/ \E r \in Slots :
       \/ Arrive(r) \/ Cached(r) \/ Fetched(r) \/ AskOwner(r)
       \/ Consent(r) \/ PutCode(r) \/ DeletePending(r)
       \/ Exchange(r) \/ PutAccess(r) \/ PutRefresh(r) \/ Issued(r)
       \/ ReadRefresh(r) \/ Rotate(r) \/ ReadRevoke(r) \/ RevokeFamily(r) \/ Verify(r) \/ Touch(r)
  \/ RevokeAll \/ Sweep \/ Tick

FlowSpec == FlowInit /\ [][FlowNext]_flowVars

-----------------------------------------------------------------------------
\* What the store and the requests hold.
FlowTypeOK ==
  /\ time \in 1 .. MaxTime /\ made \in 0 .. MaxRequests
  /\ client.is \in {"none", "good", "negative"}
  /\ \A i \in DOMAIN tokens : tokens[i].kind \in {"access", "refresh"} /\ tokens[i].family \in DOMAIN families
  /\ \A r \in Slots : req[r].family \in 0 .. Len(families)

\* A code buys one family, however many exchanges of it overlap (consumeCode).
CodesBuyOnce == \A f, g \in DOMAIN families : families[f] = families[g] => f = g

\* A family revoked (reuse, /oauth/revoke, revoke-all) has no live token any
\* more, whatever was written late, unless a pair was being added to it.
RevokedIsDead == \A i \in DOMAIN tokens : tokens[i].family \in dead \ raced => tokens[i].revoked

\* A refresh token is good for its grace after the answer of its first rotation
\* and not longer, however often it is retried within it.
GraceEnds ==
  \A r \in Slots : req[r].job.kind = "refresh" /\ req[r].at \in {"rotate", "access", "pair", "issued"} =>
    LET done == tokens[req[r].job.id].done IN done = 0 \/ req[r].t - done <= Grace

TokensHold == CodesBuyOnce /\ RevokedIsDead /\ GraceEnds

\* No more than MaxAttempts wrong secrets are compared within a window without
\* a right one, over all requests that wait for consent (createOwnerAuth).
AttemptsBounded == \A i \in 1 .. Len(wrong) - MaxAttempts : wrong[i + MaxAttempts] - wrong[i] >= Window

\* A client that could not be fetched is tried again after NEGATIVE_TTL_MS, also
\* when it comes back all the time.
NegativeEnds == client.is = "negative" => client.until <= failedAt + NegativeTtl

ConsentHolds == FlowTypeOK /\ AttemptsBounded /\ NegativeEnds
=============================================================================
