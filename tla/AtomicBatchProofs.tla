-------------------------- MODULE AtomicBatchProofs --------------------------
(***************************************************************************)
(* vault_transaction keeps its promise, for every set of paths, batches    *)
(* and transactions and every number of faults and crashes: Transaction    *)
(* implements AtomicBatch, and no rollback takes another one's file.       *)
(*                                                                         *)
(* The inductive invariant PInv adds to the one of TransactionProofs what  *)
(* each call has done of its batch: the files it has simulated, applied or *)
(* put back so far are those the batch makes of the vault it found (Run),  *)
(* op by op.  A batch depends on, and changes, only the paths it touches   *)
(* (AfterLocal), so what it makes of that vault it makes of any vault with *)
(* the same files there, such as the one the other tools see (val).        *)
(***************************************************************************)
EXTENDS TransactionProofs, WellFoundedInduction

-----------------------------------------------------------------------------
(* A nonempty set of natural numbers has a least member: all the induction *)
(* these proofs need.                                                      *)
LEMMA Least ==
  ASSUME NEW T, T \subseteq Nat, T # {}
  PROVE  \E x \in T : \A y \in T : x <= y
<1>. DEFINE R == OpToRel(<, Nat)
<1>1. IsWellFoundedOn(R, Nat)
  BY NatLessThanWellFounded, Zenon
<1>2. \A x, y \in Nat : y < x => <<y, x>> \in R
  BY DEF OpToRel
<1>. HIDE DEF R
<1>3. PICK x \in T : \A y \in T : ~ (<<y, x>> \in R)
  BY <1>1, WFMin
<1>4. ASSUME NEW y \in T PROVE x <= y
  <2>1. x \in Nat /\ y \in Nat /\ ~ (<<y, x>> \in R)
    BY <1>3
  <2>2. ~ (y < x)
    BY <1>2, <2>1
  <2>. QED BY <2>1, <2>2
<1>. QED BY <1>4

-----------------------------------------------------------------------------
(* A batch, op by op.                                                      *)

(* The files after each of the first n operations of b. *)
Prefix(b, S, n, f) ==
  /\ f \in [0..n -> Vault]
  /\ f[0] = S
  /\ \A i \in 1..n : f[i] = Effect(b[i], f[i - 1])

(* There are such files: a least n without them would have a predecessor   *)
(* with them, and one more operation makes the nth.                        *)
LEMMA PrefixExists ==
  ASSUME NEW b \in Seq(Op), NEW S \in Vault, NEW n \in 0..Len(b)
  PROVE  \E f : Prefix(b, S, n, f)
<1>. DEFINE T == {k \in 0..Len(b) : ~ \E f : Prefix(b, S, k, f)}
<1>. SUFFICES ASSUME T # {} PROVE FALSE
  OBVIOUS
<1>1. Len(b) \in Nat
  OBVIOUS
<1>2. PICK k \in T : \A y \in T : k <= y
  <2>1. T \subseteq Nat
    BY <1>1
  <2>. HIDE DEF T
  <2>. QED BY <2>1, Least
<1>3. k # 0
  <2>1. Prefix(b, S, 0, [i \in 0..0 |-> S])
    BY DEF Prefix
  <2>. QED BY <2>1
<1>4. k - 1 \in 0..Len(b) /\ k - 1 \notin T /\ k \in 1..Len(b) /\ k \in Nat
  BY <1>1, <1>2, <1>3
<1>5. PICK f : Prefix(b, S, k - 1, f)
  BY <1>4
<1>. DEFINE g == [i \in 0..k |-> IF i = k THEN Effect(b[k], f[k - 1]) ELSE f[i]]
<1>6. f[k - 1] \in Vault /\ b[k] \in Op
  BY <1>4, <1>5 DEF Prefix
<1>7. Effect(b[k], f[k - 1]) \in Vault
  BY <1>6, VaultEffect
<1>8. Prefix(b, S, k, g)
  BY <1>4, <1>5, <1>7 DEF Prefix
<1>. QED BY <1>2, <1>8

(* After is the recursive function it reads as. *)
LEMMA AfterRuns ==
  ASSUME NEW b \in Seq(Op), NEW S \in Vault
  PROVE  Prefix(b, S, Len(b), After(b, S))
<1>. DEFINE F(f) == [i \in 0..Len(b) |-> IF i = 0 THEN S ELSE Effect(b[i], f[i - 1])]
<1>1. Len(b) \in Nat
  OBVIOUS
<1>2. After(b, S) = CHOOSE f : f = F(f)
  BY DEF After
<1>3. PICK f : Prefix(b, S, Len(b), f)
  BY <1>1, PrefixExists
<1>4. f = F(f)
  BY <1>1, <1>3 DEF Prefix
<1>5. After(b, S) = F(After(b, S))
  BY <1>2, <1>4
<1>6. \A i \in 0..Len(b) : After(b, S)[i] = IF i = 0 THEN S ELSE Effect(b[i], After(b, S)[i - 1])
  BY <1>5
<1>. DEFINE T == {k \in 0..Len(b) : After(b, S)[k] # f[k]}
<1>7. T = {}
  <2>. SUFFICES ASSUME T # {} PROVE FALSE
    OBVIOUS
  <2>1. PICK k \in T : \A y \in T : k <= y
    <3>1. T \subseteq Nat
      BY <1>1
    <3>. HIDE DEF T
    <3>. QED BY <3>1, Least
  <2>2. k # 0
    BY <1>1, <1>3, <1>6 DEF Prefix
  <2>3. k \in 1..Len(b) /\ k - 1 \in 0..Len(b) /\ k - 1 \notin T
    BY <1>1, <2>1, <2>2
  <2>4. After(b, S)[k] = Effect(b[k], After(b, S)[k - 1])
    BY <1>6, <2>3
  <2>5. f[k] = Effect(b[k], f[k - 1])
    BY <1>3, <2>3 DEF Prefix
  <2>. QED BY <2>1, <2>3, <2>4, <2>5
<1>8. After(b, S) = f
  BY <1>3, <1>5, <1>7 DEF Prefix
<1>. QED BY <1>3, <1>8

(* An operation looks at the files it names only, and makes them of these. *)
LEMMA EffectLocal ==
  ASSUME NEW op \in Op, NEW X, NEW Y, File \subseteq X, File \subseteq Y,
         NEW S \in [Path -> X], NEW T \in [Path -> Y],
         \A p \in PathsOf(op) : S[p] \in File /\ T[p] = S[p]
  PROVE  /\ \A p \in PathsOf(op) : Effect(op, T)[p] = Effect(op, S)[p]
         /\ Passes(op, T) <=> Passes(op, S)
<1>1. op.path \in Path /\ op.path \in PathsOf(op) /\ T[op.path] = S[op.path]
  BY DEF Op, PathsOf
<1>2. op.op = "move" => op.to \in Path /\ op.to \in PathsOf(op) /\ T[op.to] = S[op.to]
  BY DEF Op, PathsOf
<1>3. Passes(op, T) <=> Passes(op, S)
  BY <1>1, <1>2 DEF Passes, Ready, AsExpected
<1>4. CASE op.op = "move"
  <2>1. /\ Effect(op, S) = [S EXCEPT ![op.to] = S[op.path], ![op.path] = Absent]
        /\ Effect(op, T) = [T EXCEPT ![op.to] = T[op.path], ![op.path] = Absent]
        /\ PathsOf(op) = {op.path, op.to}
    BY <1>4 DEF Effect, PathsOf
  <2>. QED BY <1>1, <1>2, <1>3, <1>4, <2>1
<1>5. CASE op.op = "delete"
  <2>1. /\ Effect(op, S) = [S EXCEPT ![op.path] = Absent]
        /\ Effect(op, T) = [T EXCEPT ![op.path] = Absent]
        /\ PathsOf(op) = {op.path}
    BY <1>5 DEF Effect, PathsOf
  <2>. QED BY <1>1, <1>3, <2>1
<1>6. CASE op.op \notin {"move", "delete"}
  <2>1. /\ Effect(op, S) = IF Skips(op, S[op.path]) THEN S
                           ELSE [S EXCEPT ![op.path] = Produced(op, S[op.path])]
        /\ Effect(op, T) = IF Skips(op, T[op.path]) THEN T
                           ELSE [T EXCEPT ![op.path] = Produced(op, T[op.path])]
        /\ PathsOf(op) = {op.path}
    BY <1>6 DEF Effect, PathsOf
  <2>. QED BY <1>1, <1>3, <2>1
<1>. QED BY <1>4, <1>5, <1>6

(* The same of two vaults. *)
LEMMA VaultLocal ==
  ASSUME NEW op \in Op, NEW S \in Vault, NEW T \in Vault,
         \A p \in PathsOf(op) : T[p] = S[p]
  PROVE  /\ Effect(op, S) \in Vault /\ Effect(op, T) \in Vault
         /\ \A p \in PathsOf(op) : Effect(op, T)[p] = Effect(op, S)[p]
         /\ \A p \in Path \ PathsOf(op) : Effect(op, S)[p] = S[p]
         /\ \A p \in Path \ PathsOf(op) : Effect(op, T)[p] = T[p]
         /\ Passes(op, T) <=> Passes(op, S)
<1>1. S \in [Path -> File] /\ T \in [Path -> File] /\ PathsOf(op) \subseteq Path
  BY OpPaths DEF Vault
<1>2. \A p \in PathsOf(op) : S[p] \in File /\ T[p] \in File
  BY <1>1
<1>3. /\ Effect(op, S) \in Vault /\ \A p \in Path \ PathsOf(op) : Effect(op, S)[p] = S[p]
      /\ Effect(op, T) \in Vault /\ \A p \in Path \ PathsOf(op) : Effect(op, T)[p] = T[p]
  BY VaultEffect
<1>4. /\ \A p \in PathsOf(op) : Effect(op, T)[p] = Effect(op, S)[p]
      /\ Passes(op, T) <=> Passes(op, S)
  BY <1>1, <1>2, EffectLocal
<1>. QED BY <1>3, <1>4

(* What holds of 0, and of each number up to n whose predecessor it holds  *)
(* of, holds of all of them.                                               *)
LEMMA UpTo ==
  ASSUME NEW n \in Nat, NEW P, 0 \in P, \A i \in 1..n : i - 1 \in P => i \in P
  PROVE  0..n \subseteq P
<1>. DEFINE T == {k \in 0..n : k \notin P}
<1>. SUFFICES ASSUME T # {} PROVE FALSE
  OBVIOUS
<1>1. T \subseteq Nat
  OBVIOUS
<1>2. PICK k \in T : \A y \in T : k <= y
  <2>. HIDE DEF T
  <2>. QED BY <1>1, Least
<1>3. k \in 1..n /\ k - 1 \in 0..n /\ k - 1 \notin T
  BY <1>2
<1>. QED BY <1>2, <1>3

(* So does a batch: what it makes of the paths it touches depends on these *)
(* only, and it leaves the others alone.                                   *)
LEMMA AfterLocal ==
  ASSUME NEW b \in Seq(Op), NEW S \in Vault, NEW T \in Vault,
         \A p \in Touched(b) : T[p] = S[p]
  PROVE  /\ \A i \in 0..Len(b) :
              /\ \A p \in Touched(b) : After(b, T)[i][p] = After(b, S)[i][p]
              /\ \A p \in Path \ Touched(b) : After(b, T)[i][p] = T[p]
         /\ AllPass(b, S) => AllPass(b, T)
<1>1. Len(b) \in Nat
  OBVIOUS
<1>2. Prefix(b, S, Len(b), After(b, S)) /\ Prefix(b, T, Len(b), After(b, T))
  BY AfterRuns
<1>. DEFINE A == After(b, S)
            B == After(b, T)
            Like(i) == /\ \A p \in Touched(b) : B[i][p] = A[i][p]
                       /\ \A p \in Path \ Touched(b) : B[i][p] = T[p]
            P == {i \in 0..Len(b) : Like(i)}
<1>3. 0 \in P
  BY <1>1, <1>2 DEF Prefix
<1>4. ASSUME NEW i \in 1..Len(b), Like(i - 1)
      PROVE  Like(i) /\ (Passes(b[i], A[i - 1]) => Passes(b[i], B[i - 1]))
  <2>1. /\ A[i - 1] \in Vault /\ B[i - 1] \in Vault
        /\ A[i] = Effect(b[i], A[i - 1]) /\ B[i] = Effect(b[i], B[i - 1])
    BY <1>1, <1>2, <1>4 DEF Prefix
  <2>2. b[i] \in Op /\ PathsOf(b[i]) \subseteq Touched(b) /\ PathsOf(b[i]) \subseteq Path
    BY <1>1, OpTouched, OpPaths
  <2>. HIDE DEF A, B
  <2>3. \A p \in PathsOf(b[i]) : B[i - 1][p] = A[i - 1][p]
    BY <1>4, <2>2
  <2>4. /\ \A p \in PathsOf(b[i]) : B[i][p] = A[i][p]
        /\ \A p \in Path \ PathsOf(b[i]) : A[i][p] = A[i - 1][p]
        /\ \A p \in Path \ PathsOf(b[i]) : B[i][p] = B[i - 1][p]
        /\ Passes(b[i], B[i - 1]) <=> Passes(b[i], A[i - 1])
    BY <2>1, <2>2, <2>3, VaultLocal
  <2>6. Touched(b) \subseteq Path
    BY <1>1, OpTouched, OpPaths DEF Touched
  <2>. QED BY <1>4, <2>2, <2>4, <2>6
<1>5. \A i \in 1..Len(b) : i - 1 \in P => i \in P
  <2>. HIDE DEF Like
  <2>. QED BY <1>1, <1>4
<1>6. 0..Len(b) \subseteq P
  <2>. HIDE DEF P
  <2>. QED BY <1>1, <1>3, <1>5, UpTo
<1>7. ASSUME AllPass(b, S), NEW i \in 1..Len(b) PROVE Passes(b[i], B[i - 1])
  <2>1. Passes(b[i], A[i - 1])
    BY <1>7 DEF AllPass
  <2>2. i - 1 \in 0..Len(b)
    BY <1>1
  <2>. HIDE DEF Like
  <2>. QED BY <1>4, <1>6, <2>1, <2>2
<1>. QED BY <1>6, <1>7 DEF AllPass

-----------------------------------------------------------------------------
(* How far a call is, compared with what its batch makes of the vault it   *)
(* found.                                                                  *)

Run(t) == After(tx[t].batch, before[t])

(* Nothing is in the journal but the pre-images it lists. *)
Listed(t) ==
  LET m == tx[t] IN
  /\ m.pc = "idle" => m.batch = <<>>
  /\ m.pc \in {"idle", "queued"} => \A p \in Path : m.view[p] = Unread
  /\ (m.pc \in Early \cup Mutating \/ m.fate = "interrupted") =>
       \A p \in Path \ m.copied : journal[t].bins[p] = Absent

(* The files simulated so far are those the batch makes, and it passed. *)
Simulated(t) ==
  LET m == tx[t] IN
  /\ m.pc = "preflight" =>
       /\ \A p \in Path :
            Run(t)[m.step - 1][p] = IF m.view[p] = Unread THEN before[t][p] ELSE m.view[p]
       /\ \A i \in 1..(m.step - 1) : Passes(m.batch[i], Run(t)[i - 1])
  /\ (m.pc \in {"mkdir", "copy", "apply"} \/ (m.pc = "flip" /\ m.ending = "applied")) =>
       AllPass(m.batch, before[t])

(* The files applied so far are those the batch makes, and a file where    *)
(* there was none was made by an operation applied.                        *)
Applied(t) ==
  LET m == tx[t] IN
  /\ m.pc = "apply" => \A p \in need[t] : disk[p] = Run(t)[m.step - 1][p]
  /\ (m.pc = "flip" /\ m.ending = "applied") =>
       \A p \in need[t] : disk[p] = Run(t)[Len(m.batch)][p]
  /\ m.pc \in {"apply", "restore", "restoring", "uncreate"} =>
       \A p \in need[t] :
         (before[t][p] = Absent /\ disk[p] # Absent) => p \in MadeBy(t)

(* The files put back so far are those the call found. *)
PutBack(t) ==
  LET m == tx[t] IN
  /\ m.pc \in {"restore", "restoring"} =>
       \A p \in m.copied \ (m.todo \cup m.current) : disk[p] = before[t][p]
  /\ m.pc = "uncreate" =>
       /\ \A p \in m.copied : disk[p] = before[t][p]
       /\ \A p \in m.created \ m.todo : disk[p] = Absent
  /\ (m.pc = "flip" /\ m.ending = "rolled-back") =>
       \A p \in need[t] : disk[p] = before[t][p]

Progress(t) ==
  Listed(t) /\ (Undisturbed => Simulated(t) /\ Applied(t) /\ PutBack(t))

PInv == IInv /\ \A t \in Tx : Progress(t)

-----------------------------------------------------------------------------
(* A step of t leaves the progress of the others as it is.                 *)

(* What a call holds, nobody else writes. *)
LEMMA HeldApart ==
  ASSUME IInv, NEW t \in Tx, Local(t), NEW u \in Tx \ {t}, tx[u].pc \in Holding,
         NEW p \in need[u]
  PROVE  disk'[p] = disk[p]
<1>1. status[u] = "inside" /\ p \in Path
  BY DEF IInv, TypeOK, Phase, Locked
<1>2. CASE disk' = disk
  BY <1>2
<1>3. CASE tx[t].pc \in Holding /\ \A q \in Path \ need[t] : disk'[q] = disk[q]
  <2>1. status[t] = "inside"
    BY <1>3 DEF IInv, Phase, Locked
  <2>2. p \notin need[t]
    BY <1>1, <2>1 DEF IInv, Exclusive
  <2>. QED BY <1>1, <1>3, <2>2
<1>. QED BY <1>2, <1>3 DEF Local

LEMMA ProgressFrame ==
  ASSUME PInv, NEW t \in Tx, Local(t), NEW u \in Tx \ {t}
  PROVE  Progress(u)'
<1>1. /\ tx'[u] = tx[u] /\ journal'[u] = journal[u] /\ before'[u] = before[u]
      /\ need'[u] = need[u]
      /\ Phase(u) /\ Progress(u) /\ (Undisturbed' <=> Undisturbed)
  BY DEF Local, PInv, IInv, Undisturbed
<1>2. tx[u].pc \in Holding => \A p \in need[u] : disk'[p] = disk[p]
  BY HeldApart DEF PInv
<1>3. Run(u)' = Run(u) /\ MadeBy(u)' = MadeBy(u)
  BY <1>1 DEF Run, MadeBy
<1>4. tx[u].pc \in {"restore", "restoring", "uncreate"} =>
        tx[u].copied \subseteq need[u] /\ tx[u].created \subseteq need[u]
  BY <1>1 DEF Phase, Guarded, Locked, Mutating, Holding, Pcs
<1>5. Listed(u)'
  BY <1>1 DEF Progress, Listed
<1>6. Simulated(u) => Simulated(u)'
  BY <1>1, <1>3 DEF Simulated
<1>7. Applied(u) => Applied(u)'
  BY <1>1, <1>2, <1>3 DEF Applied, Holding, Pcs
<1>8. PutBack(u) => PutBack(u)'
  BY <1>1, <1>2, <1>4 DEF PutBack, Holding, Pcs
<1>. QED BY <1>1, <1>5, <1>6, <1>7, <1>8 DEF Progress

-----------------------------------------------------------------------------
(* The vault as everybody but the owner of the locks may rely on it.       *)

Held(t, p) == tx[t].pc \in Mutating /\ p \in need[t]

HeldVal == \A t \in Tx, p \in Path : Held(t, p) => val[p] = before[t][p]
FreeVal == \A p \in Path : (\A t \in Tx : ~Held(t, p)) => val[p] = disk[p]

LEMMA ValHeld == IInv => HeldVal
<1>. SUFFICES ASSUME IInv, NEW t \in Tx, NEW p \in Path, Held(t, p)
              PROVE  val[p] = before[t][p]
  BY DEF HeldVal
<1>1. \A u \in Tx : Held(u, p) => u = t
  BY DEF Held, IInv, Exclusive, Phase, Locked, Mutating, Holding, Pcs
<1>2. (CHOOSE u \in Tx : tx[u].pc \in Mutating /\ p \in need[u]) = t
  BY <1>1 DEF Held
<1>. QED BY <1>2 DEF val, Held

LEMMA ValFree == FreeVal
  BY DEF FreeVal, val, Held

LEMMA ValTyped == IInv => val \in Vault
<1>. SUFFICES ASSUME IInv, NEW p \in Path PROVE val[p] \in File
  BY DEF val, Vault
<1>1. CASE \A t \in Tx : ~Held(t, p)
  BY <1>1, ValFree DEF FreeVal, IInv, TypeOK, Vault
<1>2. ASSUME NEW t \in Tx, Held(t, p) PROVE val[p] \in File
  BY <1>2, ValHeld DEF HeldVal, IInv, TypeOK, Vault
<1>. QED BY <1>1, <1>2

(* A path that t holds neither before its step nor after it, and does not  *)
(* write.                                                                  *)
LEMMA ValElsewhere ==
  ASSUME IInv, IInv', NEW t \in Tx, Local(t), NEW p \in Path,
         ~Held(t, p), ~Held(t, p)', disk'[p] = disk[p]
  PROVE  val'[p] = val[p]
<1>1. HeldVal' /\ FreeVal'
  <2>1. IInv' => HeldVal'
    BY ValHeld, PTL
  <2>2. FreeVal'
    BY ValFree, PTL
  <2>. QED BY <2>1, <2>2
<1>2. \A u \in Tx \ {t} : (Held(u, p)' <=> Held(u, p)) /\ before'[u] = before[u]
  BY DEF Local, Held
<1>3. CASE \A u \in Tx : ~Held(u, p)
  BY <1>1, <1>2, <1>3, ValFree DEF FreeVal
<1>4. ASSUME NEW u \in Tx, Held(u, p) PROVE val'[p] = val[p]
  BY <1>1, <1>2, <1>4, ValHeld DEF HeldVal
<1>. QED BY <1>3, <1>4

(* While t keeps its locks, or never mutates, the vault looks the same. *)
LEMMA ValSame ==
  ASSUME IInv, IInv', NEW t \in Tx, Local(t),
         tx[t].pc \in Mutating <=> tx'[t].pc \in Mutating,
         \/ UNCHANGED disk
         \/ tx[t].pc \in Mutating,
         tx[t].pc \in Mutating => need'[t] = need[t] /\ before'[t] = before[t]
  PROVE  val' = val
<1>1. HeldVal' /\ HeldVal
  <2>1. IInv' => HeldVal'
    BY ValHeld, PTL
  <2>. QED BY <2>1, ValHeld
<1>2. ASSUME NEW p \in Path PROVE val'[p] = val[p]
  <2>1. CASE Held(t, p)
    <3>1. Held(t, p)'
      BY <2>1 DEF Held
    <3>. QED BY <1>1, <2>1, <3>1 DEF HeldVal, Held
  <2>2. CASE ~Held(t, p)
    <3>1. ~Held(t, p)'
      BY <2>2 DEF Held
    <3>2. disk'[p] = disk[p]
      BY <2>2 DEF Local, Held
    <3>. QED BY <2>2, <3>1, <3>2, ValElsewhere
  <2>. QED BY <2>1, <2>2
<1>. QED BY <1>2 DEF val

(* t's call lets go of its paths, or takes hold of them, without writing:   *)
(* each shows from now on what it holds.                                   *)
LEMMA ValLetsGo ==
  ASSUME IInv, IInv', NEW t \in Tx, Local(t), UNCHANGED disk,
         tx[t].pc \in Mutating, tx'[t].pc \notin Mutating
  PROVE  /\ \A p \in need[t] : val[p] = before[t][p] /\ val'[p] = disk[p]
         /\ \A p \in Path \ need[t] : val'[p] = val[p]
<1>. need[t] \subseteq Path
  BY DEF IInv, TypeOK
<1>1. HeldVal /\ FreeVal'
  <2>1. FreeVal'
    BY ValFree, PTL
  <2>. QED BY <2>1, ValHeld
<1>2. ASSUME NEW p \in need[t] PROVE val[p] = before[t][p] /\ val'[p] = disk[p]
  <2>1. val[p] = before[t][p]
    BY <1>1 DEF HeldVal, Held
  <2>2. status[t] = "inside"
    BY DEF IInv, Phase, Locked, Mutating, Holding, Pcs
  <2>3. ASSUME NEW u \in Tx PROVE ~Held(u, p)'
    <3>1. CASE u = t
      BY <3>1 DEF Held
    <3>2. CASE u # t
      <4>1. status[u] = "inside" => p \notin need[u]
        BY <2>2, <3>2 DEF IInv, Exclusive
      <4>2. tx[u].pc \in Mutating => status[u] = "inside"
        BY DEF IInv, Phase, Locked, Mutating, Holding, Pcs
      <4>. QED BY <3>2, <4>1, <4>2 DEF Held, Local
    <3>. QED BY <3>1, <3>2
  <2>4. val'[p] = disk'[p]
    BY <1>1, <2>3 DEF FreeVal
  <2>. QED BY <2>1, <2>4
<1>3. ASSUME NEW p \in Path \ need[t] PROVE val'[p] = val[p]
  BY <1>3, ValElsewhere DEF Held
<1>. QED BY <1>2, <1>3

LEMMA ValTakesHold ==
  ASSUME IInv, IInv', NEW t \in Tx, Local(t), UNCHANGED disk,
         tx[t].pc \in Holding \ Mutating, tx'[t].pc \in Mutating,
         need'[t] = need[t], before'[t] = before[t],
         \A p \in need[t] : disk[p] = before[t][p]
  PROVE  val' = val
<1>. need[t] \subseteq Path
  BY DEF IInv, TypeOK
<1>1. HeldVal' /\ FreeVal
  <2>1. IInv' => HeldVal'
    BY ValHeld, PTL
  <2>. QED BY <2>1, ValFree
<1>2. ASSUME NEW p \in need[t] PROVE val'[p] = val[p]
  <2>1. val'[p] = before[t][p]
    BY <1>1 DEF HeldVal, Held
  <2>2. status[t] = "inside"
    BY DEF IInv, Phase, Locked, Mutating, Holding, Pcs
  <2>3. ASSUME NEW u \in Tx PROVE ~Held(u, p)
    <3>1. CASE u = t
      BY <3>1 DEF Held
    <3>2. CASE u # t
      <4>1. status[u] = "inside" => p \notin need[u]
        BY <2>2, <3>2 DEF IInv, Exclusive
      <4>2. tx[u].pc \in Mutating => status[u] = "inside"
        BY DEF IInv, Phase, Locked, Mutating, Holding, Pcs
      <4>. QED BY <4>1, <4>2 DEF Held
    <3>. QED BY <3>1, <3>2
  <2>4. val[p] = disk[p]
    BY <1>1, <2>3 DEF FreeVal
  <2>. QED BY <2>1, <2>4
<1>3. ASSUME NEW p \in Path \ need[t] PROVE val'[p] = val[p]
  BY <1>3, ValElsewhere DEF Held
<1>4. ASSUME NEW p \in Path PROVE val'[p] = val[p]
  BY <1>2, <1>3
<1>. QED BY <1>4 DEF val

-----------------------------------------------------------------------------
(* The steps of AtomicBatch.                                               *)

(* AtomicBatch's batches and files are Transaction's. *)
LEMMA SameOps ==
  ASSUME NEW b, NEW S
  PROVE  /\ Atomic!AllPass(b, S) <=> AllPass(b, S)
         /\ Atomic!Result(b, S) = Result(b, S)
         /\ Atomic!Touched(b) = Touched(b)
         /\ Atomic!Vault = Vault
<1>1. ASSUME NEW op, NEW T PROVE Atomic!Effect(op, T) = Effect(op, T)
  BY DEF Atomic!Effect, Effect, Atomic!Skips, Skips, Atomic!Produced, Produced,
    Atomic!KeysIn, KeysIn, Atomic!IsText, IsText
<1>2. ASSUME NEW op, NEW T PROVE Atomic!Passes(op, T) <=> Passes(op, T)
  BY DEF Atomic!Passes, Passes, Atomic!Ready, Ready, Atomic!AsExpected, AsExpected,
    Atomic!Merges, Merges, Atomic!IsText, IsText
<1>3. Atomic!After(b, S) = After(b, S)
  BY <1>1 DEF Atomic!After, After
<1>4. Atomic!AllPass(b, S) <=> AllPass(b, S)
  BY <1>2, <1>3 DEF Atomic!AllPass, AllPass
<1>5. Atomic!Result(b, S) = Result(b, S)
  BY <1>3 DEF Atomic!Result, Result
<1>6. Atomic!Touched(b) = Touched(b)
  BY DEF Atomic!Touched, Touched, Atomic!PathsOf, PathsOf
<1>7. Atomic!Vault = Vault
  BY DEF Atomic!Vault, Vault, Atomic!File, File, Atomic!Bytes, Bytes, Atomic!Text, Text
<1>. QED BY <1>4, <1>5, <1>6, <1>7

Implements == (Undisturbed' => Atomic!Next) \/ UNCHANGED Atomic!vars

(* What the other transactions show of themselves. *)
LEMMA OthersKept ==
  ASSUME NEW t \in Tx, Local(t), NEW u \in Tx \ {t}
  PROVE  tx'[u].batch = tx[u].batch /\ tx'[u].fate = tx[u].fate /\ Kept(u)' = Kept(u)
  BY DEF Local, Kept

LEMMA NothingKept ==
  ASSUME NEW t \in Tx, tx[t].fate # "interrupted"
  PROVE  Kept(t) = Atomic!Nothing
  BY DEF Kept, Atomic!Nothing

LEMMA NothingKeptNext ==
  ASSUME NEW t \in Tx, tx'[t].fate # "interrupted"
  PROVE  Kept(t)' = Atomic!Nothing
  BY DEF Kept, Atomic!Nothing

(* A step that shows nothing. *)
LEMMA Stutters ==
  ASSUME NEW t \in Tx, Local(t), val' = val,
         tx'[t].batch = tx[t].batch, tx'[t].fate = tx[t].fate,
         tx[t].fate # "interrupted"
  PROVE  Implements
<1>1. ASSUME NEW u \in Tx
      PROVE  tx'[u].batch = tx[u].batch /\ tx'[u].fate = tx[u].fate /\ Kept(u)' = Kept(u)
  <2>1. CASE u = t
    BY <2>1, NothingKept, NothingKeptNext
  <2>2. CASE u # t
    BY <2>2, OthersKept
  <2>. QED BY <2>1, <2>2
<1>2. /\ [u \in Tx |-> tx'[u].batch] = [u \in Tx |-> tx[u].batch]
      /\ [u \in Tx |-> tx'[u].fate] = [u \in Tx |-> tx[u].fate]
      /\ [u \in Tx |-> Kept(u)'] = [u \in Tx |-> Kept(u)]
  BY <1>1
<1>. QED BY <1>2 DEF Implements, Atomic!vars

(* A step that settles t's fate. *)
Settled(t, fate) ==
  /\ tx'[t].batch = tx[t].batch /\ tx[t].batch # <<>>
  /\ tx[t].fate = "none" /\ tx'[t].fate = fate

LEMMA Undoes ==
  ASSUME NEW t \in Tx, Local(t), val' = val, Settled(t, "undone")
  PROVE  Implements
<1>1. ASSUME NEW u \in Tx
      PROVE  /\ tx'[u].batch = tx[u].batch /\ Kept(u)' = Kept(u)
             /\ tx'[u].fate = IF u = t THEN "undone" ELSE tx[u].fate
  <2>1. CASE u = t
    BY <2>1, NothingKept, NothingKeptNext DEF Settled
  <2>2. CASE u # t
    BY <2>2, OthersKept
  <2>. QED BY <2>1, <2>2
<1>2. /\ [u \in Tx |-> tx'[u].batch] = [u \in Tx |-> tx[u].batch]
      /\ [u \in Tx |-> tx'[u].fate] = [[u \in Tx |-> tx[u].fate] EXCEPT ![t] = "undone"]
      /\ [u \in Tx |-> Kept(u)'] = [u \in Tx |-> Kept(u)]
  BY <1>1
<1>3. Atomic!Undo(t)
  BY <1>2 DEF Atomic!Undo, Atomic!Open, Settled
<1>. QED BY <1>3 DEF Implements, Atomic!Next

LEMMA Commits ==
  ASSUME NEW t \in Tx, Local(t), Settled(t, "committed"),
         Undisturbed' => AllPass(tx[t].batch, val) /\ val' = Result(tx[t].batch, val)
  PROVE  Implements
<1>. SUFFICES ASSUME Undisturbed' PROVE Atomic!Commit(t)
  BY DEF Implements, Atomic!Next
<1>1. ASSUME NEW u \in Tx
      PROVE  /\ tx'[u].batch = tx[u].batch /\ Kept(u)' = Kept(u)
             /\ tx'[u].fate = IF u = t THEN "committed" ELSE tx[u].fate
  <2>1. CASE u = t
    BY <2>1, NothingKept, NothingKeptNext DEF Settled
  <2>2. CASE u # t
    BY <2>2, OthersKept
  <2>. QED BY <2>1, <2>2
<1>2. /\ [u \in Tx |-> tx'[u].batch] = [u \in Tx |-> tx[u].batch]
      /\ [u \in Tx |-> tx'[u].fate] = [[u \in Tx |-> tx[u].fate] EXCEPT ![t] = "committed"]
      /\ [u \in Tx |-> Kept(u)'] = [u \in Tx |-> Kept(u)]
  BY <1>1
<1>. QED BY <1>2, SameOps DEF Atomic!Commit, Atomic!Open, Settled

(* The transactions I are cut short, those of U had changed nothing yet. *)
CutShort(I, U) ==
  /\ I \cap U = {}
  /\ \A u \in Tx : tx'[u].batch = tx[u].batch
  /\ \A u \in I \cup U : tx[u].batch # <<>> /\ tx[u].fate = "none"
  /\ \A u \in Tx : tx'[u].fate = IF u \in I THEN "interrupted"
                                 ELSE IF u \in U THEN "undone" ELSE tx[u].fate
  /\ val' \in Vault
  /\ \A p \in Path : (\A u \in I : p \notin Touched(tx[u].batch)) => val'[p] = val[p]
  /\ Undisturbed' => \A u \in I : Kept(u)' = [p \in Touched(tx[u].batch) |-> val[p]]
  /\ \A u \in Tx \ I : Kept(u)' = Kept(u)

LEMMA Interrupts ==
  ASSUME NEW I \in SUBSET Tx, NEW U \in SUBSET Tx, CutShort(I, U)
  PROVE  Implements
<1>. SUFFICES ASSUME Undisturbed' PROVE Atomic!Interrupt(I, U)
  BY DEF Implements, Atomic!Next
<1>. USE DEF CutShort
<1>1. /\ [u \in Tx |-> tx'[u].batch] = [u \in Tx |-> tx[u].batch]
      /\ [u \in Tx |-> tx'[u].fate] =
           [u \in Tx |-> IF u \in I THEN "interrupted"
                         ELSE IF u \in U THEN "undone" ELSE [v \in Tx |-> tx[v].fate][u]]
  OBVIOUS
<1>2. ASSUME NEW u \in Tx
      PROVE  Kept(u)' = IF u \in I
                        THEN [p \in Atomic!Touched([v \in Tx |-> tx[v].batch][u]) |-> val[p]]
                        ELSE [v \in Tx |-> Kept(v)][u]
  <2>1. Atomic!Touched(tx[u].batch) = Touched(tx[u].batch)
    BY SameOps
  <2>. QED BY <2>1
<1>3. [u \in Tx |-> Kept(u)'] =
        [u \in Tx |-> IF u \in I
                      THEN [p \in Atomic!Touched([v \in Tx |-> tx[v].batch][u]) |-> val[p]]
                      ELSE [v \in Tx |-> Kept(v)][u]]
  BY <1>2
<1>4. \A u \in I \cup U : Atomic!Open(u)
  BY DEF Atomic!Open
<1>5. \A p \in Path :
        (\A u \in I : p \notin Atomic!Touched([v \in Tx |-> tx[v].batch][u]))
          => val'[p] = val[p]
  <2>1. \A u \in I : Atomic!Touched([v \in Tx |-> tx[v].batch][u]) = Touched(tx[u].batch)
    BY SameOps
  <2>. QED BY <2>1
<1>6. val' \in Atomic!Vault
  BY SameOps
<1>. QED BY <1>1, <1>3, <1>4, <1>5, <1>6 DEF Atomic!Interrupt

(* What an interrupted call leaves in its journal is what it found. *)
LEMMA KeepsWhole ==
  ASSUME PInv, Undisturbed, NEW t \in Tx, tx[t].pc \in Mutating,
         tx'[t].fate = "interrupted", tx'[t].batch = tx[t].batch,
         journal'[t] = journal[t]
  PROVE  Kept(t)' = [p \in Touched(tx[t].batch) |-> val[p]]
<1>1. /\ journal[t].dir /\ journal[t].manifest = "applying"
      /\ Touched(tx[t].batch) = tx[t].copied \cup tx[t].created
      /\ need[t] = Touched(tx[t].batch) /\ need[t] \subseteq Path
      /\ \A p \in tx[t].copied : journal[t].bins[p] = before[t][p]
      /\ \A p \in tx[t].created : before[t][p] = Absent
      /\ \A p \in Path \ tx[t].copied : journal[t].bins[p] = Absent
  BY DEF PInv, IInv, TypeOK, Phase, Guarded, Saved, Locked, Progress, Listed, Mutating,
    Holding, Pcs
<1>2. \A p \in Touched(tx[t].batch) : val[p] = before[t][p]
  BY <1>1, ValHeld DEF PInv, HeldVal, Held
<1>3. ASSUME NEW p \in Touched(tx[t].batch) PROVE journal[t].bins[p] = val[p]
  BY <1>1, <1>2
<1>4. Kept(t)' = [p \in Touched(tx[t].batch) |-> journal[t].bins[p]]
  BY <1>1 DEF Kept
<1>. QED BY <1>3, <1>4

-----------------------------------------------------------------------------
(* The steps of a call, one by one.                                        *)

Lossless == Undisturbed' => \A p \in Path : LeavesInOrder(p)

Good == PInv' /\ Implements /\ Lossless

LEMMA LosslessStill == UNCHANGED disk => Lossless
  BY DEF Lossless, LeavesInOrder

LEMMA GoLocal ==
  ASSUME TypeOK, NEW t \in Tx, NEW m, NEW pc, Go(t, m, pc)
  PROVE  /\ tx'[t] = [m EXCEPT !.pc = pc]
         /\ \A u \in Tx \ {t} : tx'[u] = tx[u]
  BY DEF Go, TypeOK

LEMMA ReturnLocal ==
  ASSUME TypeOK, NEW t \in Tx, NEW m, NEW fate, NEW result, Return(t, m, fate, result)
  PROVE  /\ tx'[t] = [[m EXCEPT !.fate = fate, !.result = result] EXCEPT !.pc = "done"]
         /\ \A u \in Tx \ {t} :
              tx'[u] = tx[u] /\ status'[u] = status[u] /\ need'[u] = need[u]
<1>1. \A u \in Tx \ {t} : status'[u] = status[u] /\ need'[u] = need[u]
  BY DEF Return, Locks!Leave, TypeOK
<1>. DEFINE n == [m EXCEPT !.fate = fate, !.result = result]
<1>2. Go(t, n, "done")
  BY DEF Return
<1>3. tx'[t] = [n EXCEPT !.pc = "done"] /\ \A u \in Tx \ {t} : tx'[u] = tx[u]
  <2>. HIDE DEF n
  <2>. QED BY <1>2, GoLocal
<1>. QED BY <1>1, <1>3

(* A call that ends before its first mutation. *)
LEMMA GivesUp ==
  ASSUME PInv, IInv', NEW t \in Tx, NEW m \in Calls, NEW result \in Results,
         tx[t].pc \in Early \ {"idle", "queued"}, m.batch = tx[t].batch,
         Return(t, m, "undone", result),
         UNCHANGED met \/ Meet("faults"),
         UNCHANGED <<disk, trash, journal, before>>
  PROVE  Good
<1>. TypeOK /\ Exclusive /\ Phase(t) /\ tx[t] \in Calls /\ Progress(t) /\ IInv
  BY DEF PInv, IInv, TypeOK
<1>1. /\ tx'[t] = [[m EXCEPT !.fate = "undone", !.result = result] EXCEPT !.pc = "done"]
      /\ \A u \in Tx \ {t} :
           tx'[u] = tx[u] /\ status'[u] = status[u] /\ need'[u] = need[u]
  BY ReturnLocal
<1>2. met'.external = met.external
  BY MeetTyped
<1>3. Local(t)
  BY <1>1, <1>2 DEF Local
<1>4. tx'[t].pc = "done" /\ tx'[t].fate = "undone" /\ tx'[t].batch = tx[t].batch
  BY <1>1 DEF Calls
<1>5. Progress(t)'
  BY <1>4 DEF Progress, Listed, Simulated, Applied, PutBack, Early, Mutating
<1>6. PInv'
  BY <1>3, <1>5, ProgressFrame DEF PInv
<1>7. val' = val
  BY <1>3, <1>4, ValSame DEF Early, Mutating
<1>8. Settled(t, "undone")
  <2>1. Len(tx[t].batch) # 0
    BY DEF Phase, Looping, Early, Holding, Pcs
  <2>. QED BY <1>4, <2>1 DEF Settled, Phase, Ending, Early, Late
<1>. QED BY <1>3, <1>6, <1>7, <1>8, Undoes, LosslessStill DEF Good

LEMMA SubmitGood ==
  ASSUME PInv, IInv', NEW t \in Tx, Submit(t)
  PROVE  Good
<1>. TypeOK /\ Phase(t) /\ Progress(t) /\ IInv /\ tx[t].pc = "idle" /\ tx[t] \in Calls
  BY DEF PInv, IInv, TypeOK, Submit, At
<1>1. PICK b \in Batches, d \in BOOLEAN :
        /\ Go(t, [tx[t] EXCEPT !.batch = b, !.dry = d], "queued")
        /\ Locks!Request(t, Touched(b))
  BY DEF Submit
<1>2. b \in Seq(Op)
  BY TxAssumption
<1>3. /\ tx'[t] = [[tx[t] EXCEPT !.batch = b, !.dry = d] EXCEPT !.pc = "queued"]
      /\ \A u \in Tx \ {t} : tx'[u] = tx[u]
  BY <1>1, GoLocal
<1>4. Local(t)
  BY <1>1, <1>3 DEF Local, Submit, Locks!Request, TypeOK
<1>5. /\ tx'[t].pc = "queued" /\ tx'[t].batch = b /\ tx'[t].fate = tx[t].fate
      /\ tx'[t].view = tx[t].view /\ tx'[t].copied = tx[t].copied
  BY <1>3 DEF Calls
<1>6. Progress(t)'
  BY <1>5 DEF Progress, Listed, Simulated, Applied, PutBack, Early, Mutating, Submit
<1>7. PInv'
  BY <1>4, <1>6, ProgressFrame DEF PInv
<1>8. val' = val
  BY <1>4, <1>5, ValSame DEF Submit, Mutating
<1>9. Implements
  <2>1. tx[t].fate = "none" /\ tx[t].batch = <<>>
    BY DEF Phase, Ending, Late, Progress, Listed
  <2>2. ASSUME NEW u \in Tx
        PROVE  /\ tx'[u].fate = tx[u].fate /\ Kept(u)' = Kept(u)
               /\ tx'[u].batch = IF u = t THEN b ELSE tx[u].batch
    <3>1. CASE u = t
      BY <1>5, <2>1, <3>1, NothingKept, NothingKeptNext
    <3>2. CASE u # t
      BY <1>4, <3>2, OthersKept
    <3>. QED BY <3>1, <3>2
  <2>3. /\ [u \in Tx |-> tx'[u].fate] = [u \in Tx |-> tx[u].fate]
        /\ [u \in Tx |-> Kept(u)'] = [u \in Tx |-> Kept(u)]
        /\ [u \in Tx |-> tx'[u].batch] = [[u \in Tx |-> tx[u].batch] EXCEPT ![t] = b]
    BY <2>2
  <2>4. Atomic!Submit(t)
    BY <1>8, <2>1, <2>3 DEF Atomic!Submit
  <2>. QED BY <2>4 DEF Implements, Atomic!Next
<1>. QED BY <1>7, <1>9, LosslessStill DEF Good, Submit

(* A step that neither writes to the vault nor settles the call, before    *)
(* the first mutation.                                                     *)
LEMMA EarlyGood ==
  ASSUME PInv, IInv', NEW t \in Tx, Local(t), Progress(t)', UNCHANGED disk,
         tx[t].pc \in Early, tx'[t].pc \in Early,
         tx'[t].batch = tx[t].batch, tx'[t].fate = tx[t].fate
  PROVE  Good
<1>1. IInv /\ tx[t].fate = "none"
  BY DEF PInv, IInv, Phase, Ending, Early, Late
<1>2. val' = val
  BY <1>1, ValSame DEF Early, Mutating
<1>3. PInv'
  BY ProgressFrame DEF PInv
<1>. QED BY <1>1, <1>2, <1>3, Stutters, LosslessStill DEF Good

LEMMA BeginGood ==
  ASSUME PInv, IInv', NEW t \in Tx, Begin(t)
  PROVE  Good
<1>. TypeOK /\ Phase(t) /\ Progress(t) /\ tx[t].pc = "queued" /\ tx[t] \in Calls
  BY DEF PInv, IInv, TypeOK, Begin, At
<1>1. /\ tx'[t] = [tx[t] EXCEPT !.pc = "preflight"]
      /\ \A u \in Tx \ {t} : tx'[u] = tx[u]
  BY GoLocal DEF Begin
<1>2. Local(t)
  BY <1>1 DEF Local, Begin, Locks!Enter, TypeOK
<1>3. /\ tx'[t].pc = "preflight" /\ tx'[t].batch = tx[t].batch /\ tx'[t].fate = tx[t].fate
      /\ tx'[t].view = tx[t].view /\ tx'[t].copied = tx[t].copied /\ tx'[t].step = 1
  BY <1>1 DEF Calls, Phase, Looping
<1>4. before'[t] = disk /\ disk \in Vault
  BY DEF Begin, TypeOK
<1>5. Run(t)'[0] = disk
  <2>1. Prefix(tx[t].batch, disk, Len(tx[t].batch), After(tx[t].batch, disk))
    BY <1>4, AfterRuns DEF Calls
  <2>2. Run(t)' = After(tx[t].batch, disk)
    BY <1>3, <1>4 DEF Run
  <2>. QED BY <2>1, <2>2 DEF Prefix
<1>6. Simulated(t)'
  <2>1. tx'[t].step - 1 = 0 /\ 1..(tx'[t].step - 1) = {}
    BY <1>3
  <2>2. \A p \in Path : tx'[t].view[p] = Unread
    BY <1>3 DEF Progress, Listed
  <2>. QED BY <1>3, <1>4, <1>5, <2>1, <2>2 DEF Simulated
<1>7. Listed(t)'
  BY <1>3 DEF Progress, Listed, Early, Begin
<1>8. Progress(t)'
  BY <1>3, <1>6, <1>7 DEF Progress, Applied, PutBack
<1>. QED BY <1>2, <1>3, <1>8, EarlyGood DEF Begin, Early

(* Simulating an op on the files loaded so far is running it on the files  *)
(* the batch has made so far.                                              *)
LEMMA SimulatesRight ==
  ASSUME PInv, NEW t \in Tx, tx[t].pc = "preflight", Undisturbed
  PROVE  LET b == tx[t].batch
             k == tx[t].step
             view == Loaded(b[k], tx[t].view)
             new == Effect(b[k], view) IN
         /\ \A p \in Path :
              Run(t)[k][p] = IF new[p] = Unread THEN before[t][p] ELSE new[p]
         /\ Passes(b[k], view) => Passes(b[k], Run(t)[k - 1])
<1>. DEFINE b == tx[t].batch
            k == tx[t].step
            op == b[k]
            view == Loaded(op, tx[t].view)
            A == Run(t)
            V == File \cup {Unread}
<1>. TypeOK /\ Phase(t) /\ Simulated(t) /\ tx[t] \in Calls
  BY DEF PInv, IInv, TypeOK, Progress
<1>1. b \in Seq(Op) /\ k \in 1..Len(b) /\ need[t] = Touched(b) /\ before[t] \in Vault
  BY DEF Calls, Phase, Looping, Locked, Holding, Pcs, TypeOK
<1>2. op \in Op /\ PathsOf(op) \subseteq need[t] /\ PathsOf(op) \subseteq Path
  BY <1>1, OpTouched, OpPaths
<1>3. A[k - 1] \in [Path -> File] /\ A[k] = Effect(op, A[k - 1]) /\ A[k] \in [Path -> File]
  <2>1. Prefix(b, before[t], Len(b), A)
    BY <1>1, AfterRuns DEF Run
  <2>. QED BY <1>1, <2>1 DEF Prefix, Vault
<1>4. tx[t].view \in [Path -> V]
  BY DEF Calls
<1>5. /\ view \in [Path -> V]
      /\ \A p \in PathsOf(op) : view[p] \in File
      /\ \A p \in Path \ PathsOf(op) : view[p] = tx[t].view[p]
      /\ \A p \in PathsOf(op) : view[p] = IF tx[t].view[p] = Unread THEN disk[p] ELSE tx[t].view[p]
  <2>1. /\ view \in [Path -> V]
        /\ \A p \in PathsOf(op) : view[p] \in File
    BY <1>2, <1>4, LoadedTyped
  <2>. QED BY <1>2, <2>1 DEF Loaded
<1>6. \A p \in Path :
        A[k - 1][p] = IF tx[t].view[p] = Unread THEN before[t][p] ELSE tx[t].view[p]
  BY DEF Simulated
<1>7. \A p \in need[t] : disk[p] = before[t][p]
  BY DEF Phase, Fresh
<1>8. \A p \in PathsOf(op) : view[p] = A[k - 1][p]
  BY <1>2, <1>5, <1>6, <1>7
<1>9. Unread \notin File
  BY VaultAssumption DEF Unread, File, Bytes, Text
<1>. HIDE DEF op, view, A, V
<1>10. /\ \A p \in PathsOf(op) : Effect(op, view)[p] = A[k][p]
       /\ Passes(op, view) <=> Passes(op, A[k - 1])
  <2>1. File \subseteq V /\ \A p \in PathsOf(op) : A[k - 1][p] \in File /\ view[p] = A[k - 1][p]
    BY <1>2, <1>3, <1>8 DEF V
  <2>. DEFINE a == A[k - 1]
  <2>2. a \in [Path -> File] /\ \A p \in PathsOf(op) : a[p] \in File /\ view[p] = a[p]
    BY <1>3, <2>1
  <2>. HIDE DEF a
  <2>3. /\ \A p \in PathsOf(op) : Effect(op, view)[p] = Effect(op, a)[p]
        /\ Passes(op, view) <=> Passes(op, a)
    BY <1>2, <1>5, <2>1, <2>2, EffectLocal
  <2>. QED BY <1>3, <2>3 DEF a
<1>11. \A p \in Path \ PathsOf(op) : Effect(op, view)[p] = tx[t].view[p]
  <2>1. File \subseteq V
    BY DEF V
  <2>. QED BY <1>2, <1>5, <2>1, EffectTyped
<1>12. \A p \in Path \ PathsOf(op) : A[k][p] = A[k - 1][p]
  <2>1. \A p \in PathsOf(op) : A[k - 1][p] \in File
    BY <1>2, <1>3
  <2>. QED BY <1>2, <1>3, <2>1, EffectTyped
<1>13. ASSUME NEW p \in Path
       PROVE  A[k][p] = IF Effect(op, view)[p] = Unread THEN before[t][p] ELSE Effect(op, view)[p]
  <2>1. CASE p \in PathsOf(op)
    BY <1>2, <1>3, <1>9, <1>10, <2>1
  <2>2. CASE p \notin PathsOf(op)
    BY <1>6, <1>11, <1>12, <2>2
  <2>. QED BY <2>1, <2>2
<1>. QED BY <1>10, <1>13 DEF op, view, A

LEMMA PreflightGood ==
  ASSUME PInv, IInv', NEW t \in Tx, Preflight(t)
  PROVE  Good
<1>. DEFINE m == tx[t]
            op == OpOf(t)
            view == Loaded(op, m.view)
            next == [m EXCEPT !.view = Effect(op, view),
                              !.seen = Loaded(op, m.seen), !.step = @ + 1]
<1>. TypeOK /\ Exclusive /\ Phase(t) /\ Progress(t) /\ m.pc = "preflight" /\ m \in Calls
  BY DEF PInv, IInv, Preflight, At, TypeOK
<1>1. op \in Op /\ m.step \in 1..Len(m.batch) /\ m.batch \in Seq(Op)
      /\ op = m.batch[m.step] /\ Len(m.batch) \in Nat
  <2>1. m.batch \in Seq(Op) /\ m.step \in 1..Len(m.batch)
    BY DEF Calls, Phase, Looping
  <2>. QED BY <2>1, OpTouched DEF OpOf
<1>2. /\ Effect(op, view) \in [Path -> File \cup {Unread}]
      /\ Loaded(op, m.seen) \in [Path -> File \cup {Unread}]
  <2>1. /\ m.view \in [Path -> File \cup {Unread}]
        /\ m.seen \in [Path -> File \cup {Unread}]
    BY DEF Calls
  <2>2. /\ view \in [Path -> File \cup {Unread}]
        /\ \A p \in PathsOf(op) : view[p] \in File
    BY <1>1, <2>1, LoadedTyped
  <2>3. Effect(op, view) \in [Path -> File \cup {Unread}]
    BY <1>1, <2>2, EffectTyped
  <2>. QED BY <1>1, <2>1, <2>3, LoadedTyped
<1>3. next \in Calls /\ next.batch = m.batch /\ next.view = Effect(op, view)
      /\ next.step = m.step + 1 /\ next.fate = m.fate /\ next.copied = m.copied
  <2>. DEFINE V == Effect(op, view)
              S == Loaded(op, m.seen)
              n == [m EXCEPT !.view = V, !.seen = S, !.step = @ + 1]
  <2>1. m.step + 1 \in Nat
    BY <1>1 DEF Calls
  <2>2. V \in [Path -> File \cup {Unread}] /\ S \in [Path -> File \cup {Unread}]
    BY <1>2
  <2>. HIDE DEF V, S
  <2>3. n \in Calls /\ n.batch = m.batch /\ n.view = V /\ n.step = m.step + 1
        /\ n.fate = m.fate /\ n.copied = m.copied
    BY <2>1, <2>2 DEF Calls
  <2>. QED BY <2>3 DEF V, S
<1>4. ASSUME NEW pc \in {"preflight", "mkdir"}, Go(t, next, pc), Passes(op, view),
             pc = "mkdir" => LastOp(t),
             UNCHANGED <<status, need, met>>
      PROVE  Good
  <2>1. /\ tx'[t] = [next EXCEPT !.pc = pc]
        /\ \A u \in Tx \ {t} : tx'[u] = tx[u]
    <3>. HIDE DEF next
    <3>. QED BY <1>4, GoLocal
  <2>2. Local(t)
    BY <1>4, <2>1 DEF Local, Preflight
  <2>3. /\ tx'[t].pc = pc /\ tx'[t].batch = m.batch /\ tx'[t].view = Effect(op, view)
        /\ tx'[t].step = m.step + 1 /\ tx'[t].fate = m.fate /\ tx'[t].copied = m.copied
    <3>. HIDE DEF next
    <3>. QED BY <1>3, <2>1 DEF Calls
  <2>4. before' = before /\ journal' = journal /\ disk' = disk
        /\ (Undisturbed' <=> Undisturbed) /\ Run(t)' = Run(t)
    BY <1>4, <2>3 DEF Preflight, Undisturbed, Run
  <2>5. Listed(t)'
    BY <2>3, <2>4 DEF Progress, Listed, Early
  <2>6. ASSUME Undisturbed PROVE Simulated(t)'
    <3>1. /\ \A p \in Path :
               Run(t)[m.step][p] = IF Effect(op, view)[p] = Unread THEN before[t][p]
                                   ELSE Effect(op, view)[p]
          /\ Passes(op, Run(t)[m.step - 1])
      BY <1>1, <1>4, <2>6, SimulatesRight
    <3>2. \A i \in 1..m.step : Passes(m.batch[i], Run(t)[i - 1])
      <4>1. \A i \in 1..(m.step - 1) : Passes(m.batch[i], Run(t)[i - 1])
        BY <2>6 DEF Progress, Simulated
      <4>2. ASSUME NEW i \in 1..m.step PROVE Passes(m.batch[i], Run(t)[i - 1])
        <5>1. i = m.step \/ i \in 1..(m.step - 1)
          BY <1>1
        <5>. QED BY <1>1, <3>1, <4>1, <5>1
      <4>. QED BY <4>2
    <3>3. pc = "mkdir" => AllPass(m.batch, before[t])
      BY <1>1, <1>4, <3>2 DEF LastOp, AllPass, Run
    <3>4. tx'[t].step - 1 = m.step
      BY <1>1, <2>3
    <3>5. \A p \in Path :
            Run(t)'[tx'[t].step - 1][p] =
              IF tx'[t].view[p] = Unread THEN before'[t][p] ELSE tx'[t].view[p]
      BY <2>3, <2>4, <3>1, <3>4
    <3>6. \A i \in 1..(tx'[t].step - 1) : Passes(tx'[t].batch[i], Run(t)'[i - 1])
      BY <2>3, <2>4, <3>2, <3>4
    <3>7. tx'[t].pc = "mkdir" => AllPass(tx'[t].batch, before'[t])
      BY <2>3, <2>4, <3>3
    <3>8. tx'[t].pc \in {"preflight", "mkdir"}
      BY <1>4, <2>3
    <3>. QED BY <3>5, <3>6, <3>7, <3>8 DEF Simulated
  <2>7. Progress(t)'
    BY <1>4, <2>3, <2>4, <2>5, <2>6 DEF Progress, Applied, PutBack
  <2>. QED BY <1>4, <2>2, <2>3, <2>4, <2>7, EarlyGood DEF Early
<1>5. ASSUME Return(t, next, "undone", "dry"), UNCHANGED met
      PROVE  Good
  <2>. HIDE DEF next
  <2>. QED BY <1>3, <1>5, GivesUp DEF Preflight, Early, Results
<1>6. ASSUME Return(t, m, "undone", "refused"), UNCHANGED met \/ Meet("faults")
      PROVE  Good
  BY <1>6, GivesUp DEF Preflight, Early, Results
<1>. QED BY <1>4, <1>5, <1>6 DEF Preflight

LEMMA MakeDirGood ==
  ASSUME PInv, IInv', NEW t \in Tx, MakeDir(t)
  PROVE  Good
<1>. TypeOK /\ Exclusive /\ Phase(t) /\ Progress(t) /\ tx[t].pc = "mkdir" /\ tx[t] \in Calls
     /\ journal[t] \in Journals
  BY DEF PInv, IInv, MakeDir, At, TypeOK
<1>1. CASE /\ journal' = [journal EXCEPT ![t].dir = TRUE]
           /\ Go(t, [tx[t] EXCEPT !.todo = need[t]], "copy")
           /\ UNCHANGED <<status, need, met>>
  <2>1. /\ tx'[t] = [[tx[t] EXCEPT !.todo = need[t]] EXCEPT !.pc = "copy"]
        /\ \A u \in Tx \ {t} : tx'[u] = tx[u]
    BY <1>1, GoLocal
  <2>2. /\ journal'[t].bins = journal[t].bins
        /\ \A u \in Tx \ {t} : journal'[u] = journal[u]
    BY <1>1 DEF TypeOK, Journals
  <2>3. Local(t)
    BY <1>1, <2>1, <2>2 DEF Local, MakeDir
  <2>4. /\ tx'[t].pc = "copy" /\ tx'[t].batch = tx[t].batch /\ tx'[t].fate = tx[t].fate
        /\ tx'[t].copied = tx[t].copied
    BY <2>1 DEF Calls
  <2>5. before' = before /\ disk' = disk /\ (Undisturbed' <=> Undisturbed)
    BY <1>1 DEF MakeDir, Undisturbed
  <2>6. Progress(t)'
    BY <2>2, <2>4, <2>5 DEF Progress, Listed, Simulated, Applied, PutBack, Early
  <2>. QED BY <2>3, <2>4, <2>5, <2>6, EarlyGood DEF Early
<1>2. CASE Meet("faults") /\ Throw(t) /\ UNCHANGED journal
  BY <1>2, GivesUp DEF MakeDir, Early, Throw, Results
<1>. QED BY <1>1, <1>2 DEF MakeDir

LEMMA CopyGood ==
  ASSUME PInv, IInv', NEW t \in Tx, CopyPreImage(t)
  PROVE  Good
<1>. DEFINE Rest(p) == [tx[t] EXCEPT !.todo = @ \ {p}]
<1>. TypeOK /\ Exclusive /\ Phase(t) /\ Progress(t) /\ tx[t].pc = "copy" /\ tx[t] \in Calls
     /\ journal[t] \in Journals
  BY DEF PInv, IInv, CopyPreImage, At, TypeOK
<1>1. PICK p \in tx[t].todo :
       LET m == Rest(p) IN
       \/ /\ m.seen[p] = Absent
          /\ Go(t, [m EXCEPT !.created = @ \cup {p}], "copy")
          /\ UNCHANGED <<status, need, journal, met>>
       \/ /\ m.seen[p] # Absent /\ disk[p] # Absent
          /\ journal' = [journal EXCEPT ![t].bins[p] = disk[p]]
          /\ Go(t, [m EXCEPT !.copied = @ \cup {p}], "copy")
          /\ UNCHANGED <<status, need, met>>
       \/ /\ m.seen[p] # Absent /\ disk[p] = Absent
          /\ Throw(t)
          /\ UNCHANGED <<journal, met>>
       \/ /\ m.seen[p] # Absent
          /\ Meet("faults") /\ Throw(t)
          /\ UNCHANGED journal
  BY DEF CopyPreImage
<1>2. p \in Path
  BY DEF Calls
<1>3. ASSUME Local(t), tx'[t].pc = "copy", tx'[t].batch = tx[t].batch,
             tx'[t].fate = tx[t].fate, UNCHANGED met,
             \A q \in Path \ tx'[t].copied : journal'[t].bins[q] = Absent
      PROVE  Good
  <2>1. before' = before /\ disk' = disk /\ (Undisturbed' <=> Undisturbed)
    BY <1>3 DEF CopyPreImage, Undisturbed
  <2>2. Progress(t)'
    BY <1>3, <2>1 DEF Progress, Listed, Simulated, Applied, PutBack, Early
  <2>. QED BY <1>3, <2>1, <2>2, EarlyGood DEF Early
<1>4. CASE /\ Go(t, [Rest(p) EXCEPT !.created = @ \cup {p}], "copy")
           /\ UNCHANGED <<status, need, journal, met>>
  <2>. DEFINE n == [Rest(p) EXCEPT !.created = @ \cup {p}]
  <2>1. tx'[t] = [n EXCEPT !.pc = "copy"] /\ \A u \in Tx \ {t} : tx'[u] = tx[u]
    <3>1. Go(t, n, "copy")
      BY <1>4
    <3>. HIDE DEF n
    <3>. QED BY <3>1, GoLocal
  <2>2. Local(t)
    BY <1>4, <2>1 DEF Local, CopyPreImage
  <2>3. /\ tx'[t].pc = "copy" /\ tx'[t].batch = tx[t].batch /\ tx'[t].fate = tx[t].fate
        /\ tx'[t].copied = tx[t].copied
    BY <2>1 DEF Calls
  <2>4. \A q \in Path \ tx[t].copied : journal[t].bins[q] = Absent
    BY DEF Progress, Listed, Early
  <2>. QED BY <1>3, <1>4, <2>2, <2>3, <2>4
<1>5. CASE /\ journal' = [journal EXCEPT ![t].bins[p] = disk[p]]
           /\ Go(t, [Rest(p) EXCEPT !.copied = @ \cup {p}], "copy")
           /\ UNCHANGED <<status, need, met>>
  <2>. DEFINE n == [Rest(p) EXCEPT !.copied = @ \cup {p}]
  <2>1. tx'[t] = [n EXCEPT !.pc = "copy"] /\ \A u \in Tx \ {t} : tx'[u] = tx[u]
    <3>1. Go(t, n, "copy")
      BY <1>5
    <3>. HIDE DEF n
    <3>. QED BY <3>1, GoLocal
  <2>2. /\ \A u \in Tx \ {t} : journal'[u] = journal[u]
        /\ \A q \in Path \ {p} : journal'[t].bins[q] = journal[t].bins[q]
    BY <1>5 DEF TypeOK, Journals, Vault
  <2>3. Local(t)
    BY <1>5, <2>1, <2>2 DEF Local, CopyPreImage
  <2>4. /\ tx'[t].pc = "copy" /\ tx'[t].batch = tx[t].batch /\ tx'[t].fate = tx[t].fate
        /\ tx'[t].copied = tx[t].copied \cup {p}
    BY <2>1 DEF Calls
  <2>5. \A q \in Path \ tx[t].copied : journal[t].bins[q] = Absent
    BY DEF Progress, Listed, Early
  <2>. QED BY <1>3, <1>5, <2>2, <2>3, <2>4, <2>5
<1>6. CASE Throw(t) /\ UNCHANGED journal /\ (UNCHANGED met \/ Meet("faults"))
  BY <1>6, GivesUp DEF CopyPreImage, Early, Throw, Results
<1>. QED BY <1>1, <1>4, <1>5, <1>6

LEMMA ManifestGood ==
  ASSUME PInv, IInv', NEW t \in Tx, WriteManifest(t)
  PROVE  Good
<1>. TypeOK /\ Exclusive /\ Phase(t) /\ Progress(t) /\ tx[t].pc = "copy" /\ tx[t] \in Calls
     /\ journal[t] \in Journals /\ IInv
  BY DEF PInv, IInv, WriteManifest, At, TypeOK
<1>1. CASE /\ journal' = [journal EXCEPT ![t].manifest = "applying"]
           /\ Go(t, [tx[t] EXCEPT !.step = 1], "apply")
           /\ UNCHANGED <<status, need, met>>
  <2>1. /\ tx'[t] = [[tx[t] EXCEPT !.step = 1] EXCEPT !.pc = "apply"]
        /\ \A u \in Tx \ {t} : tx'[u] = tx[u]
    BY <1>1, GoLocal
  <2>2. /\ journal'[t].bins = journal[t].bins
        /\ \A u \in Tx \ {t} : journal'[u] = journal[u]
    BY <1>1 DEF TypeOK, Journals
  <2>3. Local(t)
    BY <1>1, <2>1, <2>2 DEF Local, WriteManifest
  <2>4. /\ tx'[t].pc = "apply" /\ tx'[t].batch = tx[t].batch /\ tx'[t].fate = tx[t].fate
        /\ tx'[t].copied = tx[t].copied /\ tx'[t].step = 1
    BY <2>1 DEF Calls
  <2>5. before' = before /\ disk' = disk /\ need' = need /\ (Undisturbed' <=> Undisturbed)
        /\ Run(t)' = Run(t)
    BY <1>1, <2>4 DEF WriteManifest, Undisturbed, Run
  <2>6. tx[t].batch \in Seq(Op) /\ before[t] \in Vault /\ need[t] \subseteq Path
        /\ tx[t].fate = "none"
    BY DEF Calls, TypeOK, Phase, Ending, Late
  <2>7. Run(t)[0] = before[t]
    <3>1. Prefix(tx[t].batch, before[t], Len(tx[t].batch), Run(t))
      BY <2>6, AfterRuns DEF Run
    <3>. QED BY <3>1 DEF Prefix
  <2>8. Undisturbed => \A p \in need[t] : disk[p] = before[t][p]
    BY DEF Phase, Fresh
  <2>9. Listed(t)'
    BY <2>2, <2>4 DEF Progress, Listed, Early
  <2>10. Undisturbed => Simulated(t)'
    BY <2>4, <2>5 DEF Progress, Simulated
  <2>11. Undisturbed => Applied(t)'
    BY <2>4, <2>5, <2>7, <2>8 DEF Applied
  <2>12. PutBack(t)'
    BY <2>4 DEF PutBack
  <2>13. PInv'
    BY <2>3, <2>5, <2>9, <2>10, <2>11, <2>12, ProgressFrame DEF PInv, Progress
  <2>14. Undisturbed' => Implements
    <3>1. SUFFICES ASSUME Undisturbed' PROVE Implements
      OBVIOUS
    <3>2. val' = val
      BY <2>3, <2>4, <2>5, <2>8, <3>1, ValTakesHold DEF Holding, Pcs, Mutating
    <3>. QED BY <2>3, <2>4, <2>6, <3>2, Stutters
  <2>. QED BY <2>5, <2>13, <2>14, LosslessStill DEF Good, Implements
<1>2. CASE Meet("faults") /\ Throw(t) /\ UNCHANGED journal
  BY <1>2, GivesUp DEF WriteManifest, Early, Throw, Results
<1>. QED BY <1>1, <1>2 DEF WriteManifest

(* A step of a call that mutates the vault, or undoes what it did. *)
LEMMA MutatingGood ==
  ASSUME PInv, IInv', NEW t \in Tx, NEW m \in Calls, NEW pc \in Mutating,
         tx[t].pc \in Mutating, Go(t, m, pc),
         m.batch = tx[t].batch, m.copied = tx[t].copied, m.fate = tx[t].fate,
         \A p \in Path \ need[t] : disk'[p] = disk[p],
         UNCHANGED met \/ Meet("faults"),
         UNCHANGED <<status, need, journal, before>>,
         Undisturbed => Simulated(t)' /\ Applied(t)' /\ PutBack(t)',
         Lossless
  PROVE  Good
<1>. TypeOK /\ Phase(t) /\ Progress(t) /\ tx[t] \in Calls /\ IInv
  BY DEF PInv, IInv, TypeOK
<1>1. tx'[t] = [m EXCEPT !.pc = pc] /\ \A u \in Tx \ {t} : tx'[u] = tx[u]
  BY GoLocal
<1>2. met'.external = met.external /\ (Undisturbed' <=> Undisturbed)
  BY MeetTyped DEF Undisturbed
<1>3. Local(t)
  BY <1>1, <1>2 DEF Local, Mutating, Holding, Pcs
<1>4. /\ tx'[t].pc = pc /\ tx'[t].batch = tx[t].batch /\ tx'[t].fate = tx[t].fate
      /\ tx'[t].copied = tx[t].copied
  BY <1>1 DEF Calls
<1>5. Listed(t)'
  BY <1>4 DEF Progress, Listed, Mutating, Early
<1>6. Progress(t)'
  BY <1>2, <1>5 DEF Progress
<1>7. val' = val
  BY <1>3, <1>4, ValSame
<1>8. tx[t].fate = "none"
  BY DEF Phase, Ending, Late, Mutating
<1>9. PInv'
  BY <1>3, <1>6, ProgressFrame DEF PInv
<1>. QED BY <1>3, <1>4, <1>7, <1>8, <1>9, Stutters DEF Good

(* Where an operation puts a file, and what it leaves without one. *)
Target(op) == IF op.op = "move" THEN op.to ELSE op.path

LEMMA EffectMakes ==
  ASSUME NEW op \in Op, NEW S \in Vault, NEW p \in Path
  PROVE  Effect(op, S)[p] # Absent => S[p] # Absent \/ p = Target(op)
<1>1. op.path \in Path /\ (op.op = "move" => op.to \in Path)
  BY DEF Op
<1>2. CASE op.op = "move"
  BY <1>1, <1>2 DEF Effect, Target, Vault
<1>3. CASE op.op = "delete"
  BY <1>1, <1>3 DEF Effect, Target, Vault
<1>4. CASE op.op \notin {"move", "delete"}
  <2>1. Effect(op, S) = IF Skips(op, S[op.path]) THEN S
                        ELSE [S EXCEPT ![op.path] = Produced(op, S[op.path])]
    BY <1>4 DEF Effect
  <2>. QED BY <1>1, <1>4, <2>1 DEF Target, Vault
<1>. QED BY <1>2, <1>3, <1>4

(* An operation that applies takes a file away by moving it or by sending  *)
(* it to .trash/.                                                          *)
LEMMA AppliesInOrder ==
  ASSUME NEW op \in Op, disk \in Vault, Applies(op, disk), disk' = Effect(op, disk),
         trash' = trash \cup Trashed(op)
  PROVE  Lossless
<1>. SUFFICES ASSUME NEW p \in Path, disk[p] # Absent, disk'[p] = Absent
              PROVE  LeavesInOrder(p)
  BY DEF Lossless, LeavesInOrder
<1>1. op.path \in Path /\ (op.op = "move" => op.to \in Path)
  BY DEF Op
<1>2. CASE op.op = "move"
  <2>1. disk[op.to] = Absent /\ op.path # op.to
    BY <1>2 DEF Applies, Ready
  <2>2. disk' = [disk EXCEPT ![op.to] = disk[op.path], ![op.path] = Absent]
    BY <1>2 DEF Effect
  <2>3. p = op.path /\ disk'[op.to] = disk[p]
    BY <1>1, <1>2, <2>1, <2>2 DEF Vault
  <2>. QED BY <1>1, <1>2, <2>1, <2>3 DEF LeavesInOrder
<1>3. CASE op.op = "delete"
  <2>1. disk' = [disk EXCEPT ![op.path] = Absent]
    BY <1>3 DEF Effect
  <2>2. p = op.path
    BY <1>1, <2>1 DEF Vault
  <2>. QED BY <1>3, <2>2 DEF LeavesInOrder, Trashed
<1>4. CASE op.op \notin {"move", "delete"}
  <2>1. disk' = IF Skips(op, disk[op.path]) THEN disk
                ELSE [disk EXCEPT ![op.path] = Produced(op, disk[op.path])]
    BY <1>4 DEF Effect
  <2>2. Produced(op, disk[op.path]) \in Text
    BY <1>1, <1>4, ProducedText DEF Vault
  <2>3. Absent \notin Text
    BY VaultAssumption DEF Text
  <2>. QED BY <1>1, <2>1, <2>2, <2>3 DEF Vault
<1>. QED BY <1>2, <1>3, <1>4

(* Applying an op on top of what the batch has made so far. *)
LEMMA AppliesRight ==
  ASSUME PInv, NEW t \in Tx, tx[t].pc = "apply", Undisturbed
  PROVE  LET k == tx[t].step
             new == Effect(OpOf(t), disk) IN
         /\ \A p \in need[t] : new[p] = Run(t)[k][p]
         /\ \A p \in need[t] :
              (before[t][p] = Absent /\ new[p] # Absent) =>
                p \in MadeBy(t) \/ p = Target(OpOf(t))
<1>. DEFINE b == tx[t].batch
            k == tx[t].step
            op == OpOf(t)
            A == Run(t)
<1>. TypeOK /\ Phase(t) /\ Applied(t) /\ tx[t] \in Calls
  BY DEF PInv, IInv, TypeOK, Progress
<1>1. b \in Seq(Op) /\ k \in 1..Len(b) /\ need[t] = Touched(b) /\ before[t] \in Vault
      /\ op = b[k] /\ disk \in Vault
  BY DEF Calls, Phase, Looping, Locked, Holding, Pcs, TypeOK, OpOf
<1>2. op \in Op /\ PathsOf(op) \subseteq need[t] /\ need[t] \subseteq Path
  BY <1>1, OpTouched DEF TypeOK
<1>3. A[k - 1] \in Vault /\ A[k] = Effect(op, A[k - 1])
  <2>1. Prefix(b, before[t], Len(b), A)
    BY <1>1, AfterRuns DEF Run
  <2>. QED BY <1>1, <2>1 DEF Prefix
<1>4. \A p \in need[t] : disk[p] = A[k - 1][p]
  BY DEF Applied
<1>5. \A p \in need[t] : (before[t][p] = Absent /\ disk[p] # Absent) => p \in MadeBy(t)
  BY DEF Applied
<1>. HIDE DEF op, A
<1>6. /\ \A p \in PathsOf(op) : Effect(op, disk)[p] = Effect(op, A[k - 1])[p]
      /\ \A p \in Path \ PathsOf(op) : Effect(op, A[k - 1])[p] = A[k - 1][p]
      /\ \A p \in Path \ PathsOf(op) : Effect(op, disk)[p] = disk[p]
  <2>. DEFINE a == A[k - 1]
  <2>1. a \in Vault /\ \A p \in PathsOf(op) : disk[p] = a[p]
    BY <1>2, <1>3, <1>4
  <2>. HIDE DEF a
  <2>2. /\ \A p \in PathsOf(op) : Effect(op, disk)[p] = Effect(op, a)[p]
        /\ \A p \in Path \ PathsOf(op) : Effect(op, a)[p] = a[p]
        /\ \A p \in Path \ PathsOf(op) : Effect(op, disk)[p] = disk[p]
    BY <1>1, <1>2, <2>1, VaultLocal
  <2>. QED BY <2>2 DEF a
<1>7. \A p \in need[t] : Effect(op, disk)[p] = A[k][p]
  BY <1>2, <1>3, <1>4, <1>6
<1>8. \A p \in need[t] : Effect(op, disk)[p] # Absent => disk[p] # Absent \/ p = Target(op)
  BY <1>1, <1>2, EffectMakes
<1>. QED BY <1>5, <1>7, <1>8 DEF op, A

(* The files an operation applied has made. *)
LEMMA MadeByNext ==
  ASSUME NEW t \in Tx, tx'[t].batch = tx[t].batch, before'[t] = before[t],
         tx[t].step \in Nat \ {0}
  PROVE  /\ tx'[t].step = tx[t].step => MadeBy(t)' = MadeBy(t)
         /\ tx'[t].step = tx[t].step + 1 =>
              \A p \in Path :
                (before[t][p] = Absent /\ (p \in MadeBy(t) \/ p = Target(OpOf(t))))
                  => p \in MadeBy(t)'
<1>1. CASE tx'[t].step = tx[t].step
  BY <1>1 DEF MadeBy
<1>2. ASSUME tx'[t].step = tx[t].step + 1, NEW p \in Path, before[t][p] = Absent,
             p \in MadeBy(t) \/ p = Target(OpOf(t))
      PROVE  p \in MadeBy(t)'
  <2>1. tx'[t].step - 1 = tx[t].step
    BY <1>2
  <2>2. PICK i \in 1..tx[t].step :
          LET op == tx[t].batch[i] IN p = IF op.op = "move" THEN op.to ELSE op.path
    <3>1. CASE p \in MadeBy(t)
      BY <3>1 DEF MadeBy
    <3>2. CASE p = Target(OpOf(t))
      <4>1. tx[t].step \in 1..tx[t].step
        OBVIOUS
      <4>. QED BY <3>2, <4>1 DEF Target, OpOf
    <3>. QED BY <1>2, <3>1, <3>2
  <2>. QED BY <1>2, <2>1, <2>2 DEF MadeBy
<1>. QED BY <1>1, <1>2

LEMMA ApplyGood ==
  ASSUME PInv, IInv', NEW t \in Tx, Apply(t)
  PROVE  Good
<1>. DEFINE m == tx[t]
            op == OpOf(t)
            undo == [m EXCEPT !.todo = m.copied, !.ending = "rolled-back"]
            Writes == /\ Applies(op, disk)
                      /\ disk' = Effect(op, disk)
                      /\ trash' = trash \cup Trashed(op)
            Spares == UNCHANGED <<disk, trash>>
<1>. TypeOK /\ Phase(t) /\ Progress(t) /\ m.pc = "apply" /\ m \in Calls /\ IInv
  BY DEF PInv, IInv, Apply, At, TypeOK
<1>1. op \in Op /\ PathsOf(op) \subseteq need[t] /\ m.step \in 1..Len(m.batch)
      /\ m.batch \in Seq(Op) /\ m.current = {} /\ Len(m.batch) \in Nat
      /\ need[t] \subseteq Path /\ m.step \in Nat \ {0}
  <2>1. m.batch \in Seq(Op) /\ m.step \in 1..Len(m.batch) /\ need[t] = Touched(m.batch)
        /\ m.current = {}
    BY DEF Calls, Phase, Looping, Locked, Holding, Pcs
  <2>. QED BY <2>1, OpTouched DEF OpOf, TypeOK
<1>2. Writes \/ Spares =>
        /\ Lossless
        /\ \A p \in Path \ need[t] : disk'[p] = disk[p]
  <2>1. CASE Spares
    BY <2>1, LosslessStill
  <2>2. CASE Writes
    <3>1. disk \in Vault
      BY DEF TypeOK
    <3>. HIDE DEF op
    <3>2. \A p \in Path \ PathsOf(op) : Effect(op, disk)[p] = disk[p]
      BY <1>1, <3>1, VaultLocal
    <3>. QED BY <1>1, <2>2, <3>1, <3>2, AppliesInOrder
  <2>. QED BY <2>1, <2>2
<1>3. Undisturbed =>
        /\ \A p \in need[t] : Effect(op, disk)[p] = Run(t)[m.step][p]
        /\ \A p \in need[t] :
             (before[t][p] = Absent /\ Effect(op, disk)[p] # Absent) =>
               p \in MadeBy(t) \/ p = Target(op)
        /\ \A p \in need[t] :
             (before[t][p] = Absent /\ disk[p] # Absent) => p \in MadeBy(t)
        /\ AllPass(m.batch, before[t])
  BY AppliesRight DEF Progress, Applied, Simulated
<1>4. undo \in Calls /\ undo.batch = m.batch /\ undo.copied = m.copied
      /\ undo.fate = m.fate /\ undo.todo = m.copied
      /\ undo.step = m.step
  BY DEF Calls, States
<1>5. ASSUME NEW n \in Calls, NEW pc \in {"apply", "restore", "flip"}, Go(t, n, pc),
             n.batch = m.batch, n.copied = m.copied, n.fate = m.fate,
             UNCHANGED met \/ Meet("faults"),
             \/ Writes /\ n.step = m.step + 1 /\ pc # "flip"
             \/ Writes /\ pc = "flip" /\ LastOp(t) /\ n.ending = "applied"
             \/ Spares /\ n.step = m.step /\ pc = "restore",
             pc = "restore" => n.todo = m.copied
      PROVE  Good
  <2>1. tx'[t] = [n EXCEPT !.pc = pc]
    BY <1>5, GoLocal
  <2>2. /\ tx'[t].pc = pc /\ tx'[t].batch = m.batch /\ tx'[t].copied = m.copied
        /\ tx'[t].step = n.step /\ tx'[t].ending = n.ending /\ tx'[t].todo = n.todo
    BY <1>5, <2>1 DEF Calls
  <2>3. before' = before /\ need' = need /\ Run(t)' = Run(t)
    BY <2>2 DEF Apply, Run
  <2>4. Undisturbed => Simulated(t)'
    BY <1>3, <1>5, <2>2, <2>3 DEF Simulated
  <2>5. Undisturbed => PutBack(t)'
    BY <1>5, <2>2, <2>3 DEF PutBack
  <2>6. ASSUME Undisturbed PROVE Applied(t)'
    <3>1. ASSUME pc = "apply", NEW p \in need[t]
          PROVE  disk'[p] = Run(t)[tx'[t].step - 1][p]
      BY <1>1, <1>3, <1>5, <2>2, <2>6, <3>1
    <3>2. ASSUME pc = "flip", NEW p \in need[t]
          PROVE  disk'[p] = Run(t)[Len(m.batch)][p]
      BY <1>3, <1>5, <2>6, <3>2 DEF LastOp
    <3>3. ASSUME pc # "flip", NEW p \in need[t], before[t][p] = Absent, disk'[p] # Absent
          PROVE  p \in MadeBy(t)'
      <4>1. p \in Path
        BY <1>1
      <4>2. CASE Writes /\ n.step = m.step + 1
        <5>1. p \in MadeBy(t) \/ p = Target(op)
          BY <1>3, <2>6, <3>3, <4>2
        <5>. QED BY <1>1, <2>2, <2>3, <3>3, <4>1, <4>2, <5>1, MadeByNext
      <4>3. CASE Spares /\ n.step = m.step
        <5>1. p \in MadeBy(t)
          BY <1>3, <2>6, <3>3, <4>3
        <5>. QED BY <1>1, <2>2, <2>3, <4>3, <5>1, MadeByNext
      <4>. QED BY <1>5, <3>3, <4>2, <4>3
    <3>. QED BY <2>2, <2>3, <3>1, <3>2, <3>3 DEF Applied
  <2>7. Lossless /\ \A p \in Path \ need[t] : disk'[p] = disk[p]
    BY <1>2, <1>5
  <2>8. pc \in Mutating /\ m.pc \in Mutating
    BY DEF Mutating
  <2>. HIDE DEF op, Writes, Spares
  <2>. QED BY <1>5, <2>4, <2>5, <2>6, <2>7, <2>8, MutatingGood DEF Apply
<1>6. CASE Writes /\ LastOp(t) /\ Go(t, [m EXCEPT !.ending = "applied"], "flip")
           /\ UNCHANGED met
  <2>. DEFINE n == [m EXCEPT !.ending = "applied"]
  <2>1. n \in Calls /\ n.batch = m.batch /\ n.copied = m.copied /\ n.fate = m.fate
        /\ n.ending = "applied" /\ Go(t, n, "flip")
    BY <1>6 DEF Calls, States
  <2>. HIDE DEF n, Writes, Spares
  <2>. QED BY <1>5, <1>6, <2>1
<1>7. CASE Writes /\ ~LastOp(t) /\ Go(t, [m EXCEPT !.step = @ + 1], "apply")
           /\ UNCHANGED met
  <2>. DEFINE n == [m EXCEPT !.step = @ + 1]
  <2>1. n \in Calls /\ n.batch = m.batch /\ n.copied = m.copied /\ n.fate = m.fate
        /\ n.step = m.step + 1
    BY <1>1 DEF Calls
  <2>2. Go(t, n, "apply")
    BY <1>7
  <2>. HIDE DEF n, Writes, Spares
  <2>. QED BY <1>5, <1>7, <2>1, <2>2
<1>8. CASE Spares /\ Go(t, undo, "restore") /\ (UNCHANGED met \/ Meet("faults"))
  <2>. HIDE DEF undo, Writes, Spares
  <2>. QED BY <1>4, <1>5, <1>8
<1>9. CASE Writes /\ Go(t, [undo EXCEPT !.step = @ + 1], "restore") /\ Meet("faults")
  <2>. DEFINE n == [undo EXCEPT !.step = @ + 1]
  <2>1. n \in Calls /\ n.batch = m.batch /\ n.copied = m.copied /\ n.fate = m.fate
        /\ n.step = m.step + 1 /\ n.todo = m.copied
    <3>1. m.step + 1 \in Nat
      BY <1>1
    <3>. HIDE DEF undo, m
    <3>. QED BY <1>4, <3>1 DEF Calls
  <2>2. Go(t, n, "restore")
    BY <1>9
  <2>. HIDE DEF n, Writes, Spares
  <2>. QED BY <1>5, <1>9, <2>1, <2>2
<1>. QED BY <1>6, <1>7, <1>8, <1>9 DEF Apply

(* A rollback that cannot finish. *)
LEMMA StuckGood ==
  ASSUME PInv, IInv', NEW t \in Tx, tx[t].pc \in Mutating, Stuck(t), Meet("faults"),
         UNCHANGED <<disk, trash, journal, before>>
  PROVE  Good
<1>. TypeOK /\ Exclusive /\ Phase(t) /\ Progress(t) /\ tx[t] \in Calls /\ IInv
  BY DEF PInv, IInv, TypeOK
<1>1. /\ tx'[t] = [[tx[t] EXCEPT !.fate = "interrupted", !.result = "stuck"]
                     EXCEPT !.pc = "done"]
      /\ \A u \in Tx \ {t} :
           tx'[u] = tx[u] /\ status'[u] = status[u] /\ need'[u] = need[u]
  BY ReturnLocal DEF Stuck
<1>2. met'.external = met.external /\ (Undisturbed' <=> Undisturbed)
  BY MeetTyped DEF Undisturbed
<1>3. Local(t)
  BY <1>1, <1>2 DEF Local
<1>4. /\ tx'[t].pc = "done" /\ tx'[t].fate = "interrupted"
      /\ tx'[t].batch = tx[t].batch /\ tx'[t].copied = tx[t].copied
  BY <1>1 DEF Calls
<1>5. Progress(t)'
  BY <1>4 DEF Progress, Listed, Simulated, Applied, PutBack
<1>6. PInv'
  BY <1>3, <1>5, ProgressFrame DEF PInv
<1>7. /\ \A p \in Path \ need[t] : val'[p] = val[p]
      /\ need[t] = Touched(tx[t].batch)
      /\ tx[t].batch # <<>> /\ tx[t].fate = "none"
  <2>1. tx'[t].pc \notin Mutating
    BY <1>4 DEF Mutating
  <2>2. \A p \in Path \ need[t] : val'[p] = val[p]
    BY <1>3, <2>1, ValLetsGo
  <2>3. Len(tx[t].batch) # 0
    BY DEF Phase, Looping, Mutating, Holding, Pcs
  <2>. QED BY <2>2, <2>3 DEF Phase, Locked, Ending, Late, Mutating, Holding, Pcs
<1>8. val' \in Vault
  <2>1. IInv' => (val \in Vault)'
    BY ValTyped, PTL
  <2>. QED BY <2>1
<1>9. Undisturbed' => Kept(t)' = [p \in Touched(tx[t].batch) |-> val[p]]
  BY <1>2, <1>4, KeepsWhole
<1>10. Implements
  <2>. DEFINE I == {t}
              U == {u \in Tx : FALSE}
  <2>1. I \in SUBSET Tx /\ U \in SUBSET Tx /\ I \cap U = {}
    OBVIOUS
  <2>2. \A u \in Tx : /\ tx'[u].batch = tx[u].batch
                      /\ tx'[u].fate = IF u \in I THEN "interrupted"
                                       ELSE IF u \in U THEN "undone" ELSE tx[u].fate
    BY <1>1, <1>4
  <2>3. \A u \in I \cup U : tx[u].batch # <<>> /\ tx[u].fate = "none"
    BY <1>7
  <2>4. \A p \in Path : (\A u \in I : p \notin Touched(tx[u].batch)) => val'[p] = val[p]
    BY <1>7
  <2>5. Undisturbed' =>
          \A u \in I : Kept(u)' = [p \in Touched(tx[u].batch) |-> val[p]]
    BY <1>9
  <2>6. \A u \in Tx \ I : Kept(u)' = Kept(u)
    BY <1>3, OthersKept
  <2>. HIDE DEF I, U
  <2>7. CutShort(I, U)
    BY <1>8, <2>1, <2>2, <2>3, <2>4, <2>5, <2>6 DEF CutShort
  <2>. QED BY <2>1, <2>7, Interrupts
<1>. QED BY <1>6, <1>10, LosslessStill DEF Good

LEMMA BeginRestoreGood ==
  ASSUME PInv, IInv', NEW t \in Tx, BeginRestore(t)
  PROVE  Good
<1>. TypeOK /\ Phase(t) /\ Progress(t) /\ tx[t].pc = "restore" /\ tx[t] \in Calls
  BY DEF PInv, IInv, BeginRestore, At, TypeOK
<1>1. CASE Meet("faults") /\ Stuck(t) /\ UNCHANGED disk
  BY <1>1, StuckGood DEF BeginRestore, Mutating
<1>2. ASSUME NEW p \in tx[t].todo,
             disk' = [disk EXCEPT ![p] = Torn],
             Go(t, [tx[t] EXCEPT !.current = {p}, !.todo = @ \ {p}], "restoring"),
             UNCHANGED <<status, need, met>>
      PROVE  Good
  <2>. DEFINE n == [tx[t] EXCEPT !.current = {p}, !.todo = @ \ {p}]
  <2>1. /\ p \in tx[t].copied /\ p \in Path /\ p \in need[t] /\ tx[t].current = {}
        /\ tx[t].copied \subseteq need[t] /\ need[t] \subseteq Path
    BY <1>2 DEF Calls, Phase, Looping, Locked, Guarded, Mutating, Holding, Pcs, TypeOK
  <2>2. n \in Calls /\ n.batch = tx[t].batch /\ n.copied = tx[t].copied
        /\ n.fate = tx[t].fate /\ n.todo = tx[t].todo \ {p} /\ n.current = {p}
        /\ n.step = tx[t].step
    BY <2>1 DEF Calls
  <2>3. /\ \A q \in Path \ {p} : disk'[q] = disk[q]
        /\ \A q \in Path : disk'[q] = Absent => disk[q] = Absent
    BY <1>2, <2>1, VaultAssumption DEF TypeOK, Vault
  <2>. HIDE DEF n
  <2>4. Go(t, n, "restoring")
    BY <1>2 DEF n
  <2>5. /\ tx'[t].pc = "restoring" /\ tx'[t].batch = tx[t].batch /\ tx'[t].copied = tx[t].copied
        /\ tx'[t].todo = tx[t].todo \ {p} /\ tx'[t].current = {p}
        /\ tx'[t].step = tx[t].step
    <3>1. tx'[t] = [n EXCEPT !.pc = "restoring"]
      BY <2>4, GoLocal
    <3>. QED BY <2>2, <3>1 DEF Calls
  <2>6. before' = before /\ need' = need /\ MadeBy(t)' = MadeBy(t)
    BY <1>2, <2>5 DEF BeginRestore, MadeBy
  <2>7. Undisturbed => before[t][p] # Absent
    BY <2>1 DEF Phase, Guarded, Saved, Mutating
  <2>8. Simulated(t)'
    BY <2>5 DEF Simulated
  <2>9. Undisturbed => Applied(t)'
    BY <2>1, <2>3, <2>5, <2>6, <2>7 DEF Progress, Applied
  <2>10. Undisturbed => PutBack(t)'
    BY <2>1, <2>3, <2>5, <2>6 DEF Progress, PutBack
  <2>11. Lossless
    BY <2>3 DEF Lossless, LeavesInOrder
  <2>. QED BY <1>2, <2>1, <2>2, <2>3, <2>4, <2>8, <2>9, <2>10, <2>11, MutatingGood
         DEF BeginRestore, Mutating
<1>. QED BY <1>1, <1>2 DEF BeginRestore

LEMMA EndRestoreGood ==
  ASSUME PInv, IInv', NEW t \in Tx, EndRestore(t)
  PROVE  Good
<1>. TypeOK /\ Phase(t) /\ Progress(t) /\ tx[t].pc = "restoring" /\ tx[t] \in Calls
  BY DEF PInv, IInv, EndRestore, At, TypeOK
<1>1. CASE Meet("faults") /\ Stuck(t) /\ UNCHANGED disk
  BY <1>1, StuckGood DEF EndRestore, Mutating
<1>2. CASE /\ disk' = [p \in Path |-> IF p \in tx[t].current
                                     THEN journal[t].bins[p] ELSE disk[p]]
           /\ Go(t, [tx[t] EXCEPT !.current = {}], "restore")
           /\ UNCHANGED <<status, need, met>>
  <2>. DEFINE n == [tx[t] EXCEPT !.current = {}]
  <2>1. /\ tx[t].current \subseteq tx[t].copied /\ tx[t].copied \subseteq need[t]
        /\ need[t] \subseteq Path
    BY DEF Phase, Looping, Locked, Guarded, Mutating, Holding, Pcs, TypeOK
  <2>2. n \in Calls /\ n.batch = tx[t].batch /\ n.copied = tx[t].copied
        /\ n.fate = tx[t].fate /\ n.todo = tx[t].todo /\ n.current = {}
        /\ n.step = tx[t].step
    BY DEF Calls
  <2>3. /\ \A q \in Path \ tx[t].current : disk'[q] = disk[q]
        /\ \A q \in tx[t].current : disk'[q] = journal[t].bins[q]
        /\ \A q \in tx[t].copied : journal[t].bins[q] # Absent
    BY <1>2, <2>1 DEF Phase, Guarded, Saved, Mutating
  <2>. HIDE DEF n
  <2>4. Go(t, n, "restore")
    BY <1>2 DEF n
  <2>5. /\ tx'[t].pc = "restore" /\ tx'[t].batch = tx[t].batch /\ tx'[t].copied = tx[t].copied
        /\ tx'[t].todo = tx[t].todo /\ tx'[t].current = {}
        /\ tx'[t].step = tx[t].step
    <3>1. tx'[t] = [n EXCEPT !.pc = "restore"]
      BY <2>4, GoLocal
    <3>. QED BY <2>2, <3>1 DEF Calls
  <2>6. before' = before /\ need' = need /\ MadeBy(t)' = MadeBy(t)
    BY <1>2, <2>5 DEF EndRestore, MadeBy
  <2>7. Undisturbed =>
          \A q \in tx[t].copied : before[t][q] # Absent /\ journal[t].bins[q] = before[t][q]
    BY <2>3 DEF Phase, Guarded, Saved, Mutating
  <2>8. Simulated(t)'
    BY <2>5 DEF Simulated
  <2>9. ASSUME Undisturbed PROVE Applied(t)'
    <3>1. ASSUME NEW q \in need[t], before[t][q] = Absent, disk'[q] # Absent
          PROVE  q \in MadeBy(t)
      <4>1. q \notin tx[t].current /\ q \in Path
        BY <2>1, <2>7, <2>9, <3>1
      <4>2. disk[q] # Absent
        BY <2>3, <3>1, <4>1
      <4>. QED BY <2>9, <3>1, <4>2 DEF Progress, Applied
    <3>. QED BY <2>5, <2>6, <3>1 DEF Applied
  <2>10. ASSUME Undisturbed PROVE PutBack(t)'
    <3>1. ASSUME NEW q \in tx[t].copied \ tx[t].todo PROVE disk'[q] = before[t][q]
      <4>1. CASE q \in tx[t].current
        BY <2>3, <2>7, <2>10, <4>1
      <4>2. CASE q \notin tx[t].current
        BY <2>1, <2>3, <2>10, <3>1, <4>2 DEF Progress, PutBack
      <4>. QED BY <4>1, <4>2
    <3>. QED BY <2>5, <2>6, <3>1 DEF PutBack
  <2>11. Lossless
    <3>1. \A q \in Path : disk'[q] = Absent => disk[q] = Absent
      BY <2>1, <2>3
    <3>. QED BY <3>1 DEF Lossless, LeavesInOrder
  <2>12. \A q \in Path \ need[t] : disk'[q] = disk[q]
    BY <2>1, <2>3
  <2>. QED BY <1>2, <2>2, <2>4, <2>8, <2>9, <2>10, <2>11, <2>12, MutatingGood
         DEF EndRestore, Mutating
<1>. QED BY <1>1, <1>2 DEF EndRestore

LEMMA RestoredGood ==
  ASSUME PInv, IInv', NEW t \in Tx, Restored(t)
  PROVE  Good
<1>. TypeOK /\ Phase(t) /\ Progress(t) /\ tx[t].pc = "restore" /\ tx[t] \in Calls
     /\ tx[t].todo = {}
  BY DEF PInv, IInv, Restored, At, TypeOK
<1>. DEFINE n == [tx[t] EXCEPT !.todo = tx[t].created]
<1>1. n \in Calls /\ n.batch = tx[t].batch /\ n.copied = tx[t].copied
      /\ n.created = tx[t].created /\ n.fate = tx[t].fate
      /\ n.todo = n.created /\ n.step = tx[t].step
  BY DEF Calls
<1>. HIDE DEF n
<1>2. Go(t, n, "uncreate")
  BY DEF n, Restored
<1>3. /\ tx'[t].pc = "uncreate" /\ tx'[t].batch = tx[t].batch /\ tx'[t].copied = tx[t].copied
      /\ tx'[t].created = tx[t].created /\ tx'[t].todo = tx[t].created
      /\ tx'[t].step = tx[t].step
  <2>1. tx'[t] = [n EXCEPT !.pc = "uncreate"]
    BY <1>2, GoLocal
  <2>. QED BY <1>1, <2>1 DEF Calls
<1>4. MadeBy(t)' = MadeBy(t)
  BY <1>3 DEF Restored, MadeBy
<1>5. tx[t].current = {}
  BY DEF Phase, Looping
<1>6. Simulated(t)'
  BY <1>3 DEF Simulated
<1>7. Undisturbed => Applied(t)' /\ PutBack(t)'
  BY <1>3, <1>4, <1>5 DEF Restored, Progress, Applied, PutBack
<1>. QED BY <1>1, <1>2, <1>6, <1>7, MutatingGood, LosslessStill DEF Restored, Mutating

LEMMA UncreateGood ==
  ASSUME PInv, IInv', NEW t \in Tx, Uncreate(t)
  PROVE  Good
<1>. TypeOK /\ Phase(t) /\ Progress(t) /\ tx[t].pc = "uncreate" /\ tx[t] \in Calls
  BY DEF PInv, IInv, Uncreate, At, TypeOK
<1>1. CASE Meet("faults") /\ Stuck(t) /\ UNCHANGED disk
  BY <1>1, StuckGood DEF Uncreate, Mutating
<1>2. ASSUME NEW p \in tx[t].todo,
             disk' = [disk EXCEPT ![p] = Absent],
             Go(t, [tx[t] EXCEPT !.todo = @ \ {p}], "uncreate"),
             UNCHANGED <<status, need, met>>
      PROVE  Good
  <2>. DEFINE n == [tx[t] EXCEPT !.todo = @ \ {p}]
  <2>1. /\ p \in tx[t].created /\ p \in Path /\ p \in need[t] /\ need[t] \subseteq Path
        /\ tx[t].copied \subseteq need[t] /\ tx[t].created \subseteq need[t]
    BY <1>2 DEF Calls, Phase, Looping, Locked, Guarded, Mutating, Holding, Pcs, TypeOK
  <2>2. n \in Calls /\ n.batch = tx[t].batch /\ n.copied = tx[t].copied
        /\ n.created = tx[t].created /\ n.fate = tx[t].fate
        /\ n.todo = tx[t].todo \ {p} /\ n.step = tx[t].step
    BY <2>1 DEF Calls
  <2>3. disk'[p] = Absent /\ \A q \in Path \ {p} : disk'[q] = disk[q]
    BY <1>2, <2>1 DEF TypeOK, Vault
  <2>. HIDE DEF n
  <2>4. Go(t, n, "uncreate")
    BY <1>2 DEF n
  <2>5. /\ tx'[t].pc = "uncreate" /\ tx'[t].batch = tx[t].batch
        /\ tx'[t].copied = tx[t].copied /\ tx'[t].created = tx[t].created
        /\ tx'[t].todo = tx[t].todo \ {p} /\ tx'[t].step = tx[t].step
    <3>1. tx'[t] = [n EXCEPT !.pc = "uncreate"]
      BY <2>4, GoLocal
    <3>. QED BY <2>2, <3>1 DEF Calls
  <2>6. before' = before /\ need' = need /\ MadeBy(t)' = MadeBy(t)
    BY <1>2, <2>5 DEF Uncreate, MadeBy
  <2>7. Undisturbed =>
          /\ before[t][p] = Absent
          /\ \A q \in tx[t].copied : before[t][q] # Absent
    BY <2>1 DEF Phase, Guarded, Saved, Mutating
  <2>8. Simulated(t)'
    BY <2>5 DEF Simulated
  <2>9. ASSUME Undisturbed PROVE Applied(t)'
    <3>1. ASSUME NEW q \in need[t], before[t][q] = Absent, disk'[q] # Absent
          PROVE  q \in MadeBy(t)
      <4>1. disk[q] # Absent
        BY <2>1, <2>3, <3>1
      <4>. QED BY <2>9, <3>1, <4>1 DEF Progress, Applied
    <3>. QED BY <2>5, <2>6, <3>1 DEF Applied
  <2>10. ASSUME Undisturbed PROVE PutBack(t)'
    <3>1. ASSUME NEW q \in tx[t].copied PROVE disk'[q] = before[t][q]
      <4>1. q # p /\ q \in Path
        BY <2>1, <2>7, <2>10
      <4>. QED BY <2>3, <2>10, <4>1 DEF Progress, PutBack
    <3>2. ASSUME NEW q \in tx[t].created \ tx'[t].todo PROVE disk'[q] = Absent
      <4>1. CASE q = p
        BY <2>3, <4>1
      <4>2. CASE q # p
        <5>1. q \in Path /\ q \in tx[t].created \ tx[t].todo
          BY <2>1, <2>5, <3>2, <4>2
        <5>. QED BY <2>3, <2>10, <4>2, <5>1 DEF Progress, PutBack
      <4>. QED BY <4>1, <4>2
    <3>. QED BY <2>5, <2>6, <3>1, <3>2 DEF PutBack
  <2>11. Lossless
    <3>. SUFFICES ASSUME Undisturbed', NEW q \in Path, disk[q] # Absent, disk'[q] = Absent
                  PROVE  q \in MadeBy(t)
      BY DEF Lossless, LeavesInOrder, At
    <3>1. Undisturbed
      BY <1>2 DEF Undisturbed
    <3>2. q = p
      BY <2>3
    <3>. QED BY <2>1, <2>7, <3>1, <3>2 DEF Progress, Applied
  <2>12. \A q \in Path \ need[t] : disk'[q] = disk[q]
    BY <2>1, <2>3
  <2>. QED BY <1>2, <2>2, <2>4, <2>8, <2>9, <2>10, <2>11, <2>12, MutatingGood
         DEF Uncreate, Mutating
<1>. QED BY <1>1, <1>2 DEF Uncreate

LEMMA UndoneGood ==
  ASSUME PInv, IInv', NEW t \in Tx, Undone(t)
  PROVE  Good
<1>. TypeOK /\ Phase(t) /\ Progress(t) /\ tx[t].pc = "uncreate" /\ tx[t] \in Calls
     /\ tx[t].todo = {} /\ tx[t].ending = "rolled-back"
  BY DEF PInv, IInv, Undone, At, TypeOK, Phase, Ending
<1>1. /\ tx'[t].pc = "flip" /\ tx'[t].batch = tx[t].batch /\ tx'[t].ending = "rolled-back"
  <2>1. tx'[t] = [tx[t] EXCEPT !.pc = "flip"]
    BY GoLocal DEF Undone
  <2>. QED BY <2>1 DEF Calls
<1>2. need[t] = tx[t].copied \cup tx[t].created
  BY DEF Phase, Locked, Guarded, Mutating, Holding, Pcs
<1>3. Undisturbed => \A p \in tx[t].created : before[t][p] = Absent
  BY DEF Phase, Guarded, Saved, Mutating
<1>4. Simulated(t)' /\ Applied(t)'
  BY <1>1 DEF Simulated, Applied
<1>5. Undisturbed => PutBack(t)'
  BY <1>1, <1>2, <1>3 DEF Undone, Progress, PutBack
<1>. QED BY <1>4, <1>5, MutatingGood, LosslessStill DEF Undone, Mutating

(* The end is recorded. *)
LEMMA FlipGood ==
  ASSUME PInv, IInv', NEW t \in Tx, Flip(t)
  PROVE  Good
<1>. DEFINE fate == IF tx[t].ending = "applied" THEN "committed" ELSE "undone"
            n == [tx[t] EXCEPT !.fate = fate]
            b == tx[t].batch
<1>. TypeOK /\ Phase(t) /\ Progress(t) /\ tx[t].pc = "flip" /\ tx[t] \in Calls /\ IInv
  BY DEF PInv, IInv, Flip, At, TypeOK
<1>1. tx'[t] = [n EXCEPT !.pc = "remove"] /\ \A u \in Tx \ {t} : tx'[u] = tx[u]
  <2>1. Go(t, n, "remove")
    BY DEF Flip
  <2>. HIDE DEF n
  <2>. QED BY <2>1, GoLocal
<1>2. tx'[t].pc = "remove" /\ tx'[t].batch = b /\ tx'[t].fate = fate
  BY <1>1 DEF Calls
<1>3. \A u \in Tx \ {t} : journal'[u] = journal[u]
  BY DEF Flip, TypeOK
<1>4. met'.external = met.external /\ (Undisturbed' <=> Undisturbed)
  BY MeetTyped DEF Flip, Undisturbed
<1>5. Local(t)
  BY <1>1, <1>3, <1>4 DEF Flip, Local
<1>6. Progress(t)'
  BY <1>2 DEF Progress, Listed, Simulated, Applied, PutBack, Early, Mutating
<1>7. PInv'
  BY <1>5, <1>6, ProgressFrame DEF PInv
<1>8. /\ \A p \in need[t] : val[p] = before[t][p] /\ val'[p] = disk[p]
      /\ \A p \in Path \ need[t] : val'[p] = val[p]
  <2>1. tx'[t].pc \notin Mutating /\ tx[t].pc \in Mutating
    BY <1>2 DEF Mutating
  <2>. QED BY <1>5, <2>1, ValLetsGo DEF Flip
<1>9. /\ b \in Seq(Op) /\ need[t] = Touched(b) /\ need[t] \subseteq Path
      /\ before[t] \in Vault /\ b # <<>> /\ tx[t].fate = "none"
      /\ tx[t].ending \in {"applied", "rolled-back"}
  <2>1. Len(b) # 0
    BY DEF Phase, Looping, Holding, Pcs
  <2>. QED BY <2>1 DEF Calls, TypeOK, Phase, Locked, Ending, Late, Holding, Pcs
<1>10. Settled(t, fate)
  BY <1>2, <1>9 DEF Settled
<1>11. CASE tx[t].ending = "rolled-back"
  <2>1. fate = "undone"
    BY <1>11
  <2>2. ASSUME Undisturbed PROVE val' = val
    <3>1. \A p \in need[t] : disk[p] = before[t][p]
      BY <1>11, <2>2 DEF Progress, PutBack
    <3>2. \A p \in Path : val'[p] = val[p]
      BY <1>8, <3>1
    <3>. QED BY <3>2 DEF val
  <2>3. Undisturbed' => Implements
    BY <1>4, <1>5, <1>10, <2>1, <2>2, Undoes
  <2>. QED BY <1>7, <2>3, LosslessStill DEF Good, Implements, Flip
<1>12. CASE tx[t].ending = "applied"
  <2>1. fate = "committed"
    BY <1>12
  <2>2. ASSUME Undisturbed PROVE AllPass(b, val) /\ val' = Result(b, val)
    <3>1. AllPass(b, before[t]) /\ \A p \in need[t] : disk[p] = Run(t)[Len(b)][p]
      BY <1>12, <2>2 DEF Progress, Simulated, Applied
    <3>2. val \in Vault /\ \A p \in Touched(b) : val[p] = before[t][p]
      BY <1>8, <1>9, ValTyped
    <3>3. Len(b) \in 0..Len(b)
      BY <1>9
    <3>4. /\ \A p \in Touched(b) : After(b, val)[Len(b)][p] = Run(t)[Len(b)][p]
          /\ \A p \in Path \ Touched(b) : After(b, val)[Len(b)][p] = val[p]
          /\ AllPass(b, val)
      <4>. HIDE DEF b
      <4>1. /\ \A i \in 0..Len(b) :
                 /\ \A p \in Touched(b) : After(b, val)[i][p] = After(b, before[t])[i][p]
                 /\ \A p \in Path \ Touched(b) : After(b, val)[i][p] = val[p]
            /\ AllPass(b, before[t]) => AllPass(b, val)
        BY <1>9, <3>2, AfterLocal
      <4>2. Run(t) = After(b, before[t])
        BY DEF Run, b
      <4>. QED BY <3>1, <3>3, <4>1, <4>2
    <3>5. \A p \in Path : val'[p] = After(b, val)[Len(b)][p]
      BY <1>8, <1>9, <3>1, <3>4
    <3>6. After(b, val)[Len(b)] \in Vault
      <4>1. Prefix(b, val, Len(b), After(b, val))
        BY <1>9, <3>2, AfterRuns
      <4>. QED BY <3>3, <4>1 DEF Prefix
    <3>7. val' = After(b, val)[Len(b)]
      <4>1. DOMAIN val' = Path
        BY DEF val
      <4>. HIDE DEF b
      <4>. QED BY <3>5, <3>6, <4>1 DEF Vault, val
    <3>. QED BY <3>4, <3>7 DEF Result
  <2>3. Implements
    BY <1>4, <1>5, <1>10, <2>1, <2>2, Commits
  <2>. QED BY <1>7, <2>3, LosslessStill DEF Good, Flip
<1>. QED BY <1>9, <1>11, <1>12

(* A call that has recorded its end cleans up. *)
LEMMA CleanupGood ==
  ASSUME PInv, IInv', NEW t \in Tx, Local(t), UNCHANGED disk,
         tx[t].pc = "remove", tx'[t].pc \in {"remove", "done"},
         tx'[t].batch = tx[t].batch, tx'[t].fate = tx[t].fate
  PROVE  Good
<1>1. IInv /\ tx[t].fate # "interrupted"
  BY DEF PInv, IInv, Phase, Ending
<1>2. val' = val
  BY <1>1, ValSame DEF Mutating
<1>3. Progress(t)'
  BY <1>1 DEF Progress, Listed, Simulated, Applied, PutBack, Early, Mutating
<1>4. PInv'
  BY <1>3, ProgressFrame DEF PInv
<1>. QED BY <1>1, <1>2, <1>4, Stutters, LosslessStill DEF Good

LEMMA RemoveEntryGood ==
  ASSUME PInv, IInv', NEW t \in Tx, RemoveEntry(t)
  PROVE  Good
<1>1. \A u \in Tx \ {t} : journal'[u] = journal[u]
  BY DEF RemoveEntry, PInv, IInv, TypeOK
<1>2. Local(t)
  BY <1>1 DEF RemoveEntry, Local
<1>. QED BY <1>2, CleanupGood DEF RemoveEntry, At

LEMMA CloseGood ==
  ASSUME PInv, IInv', NEW t \in Tx, Close(t)
  PROVE  Good
<1>. TypeOK /\ tx[t].pc = "remove" /\ tx[t] \in Calls
  BY DEF PInv, IInv, Close, At, TypeOK
<1>1. /\ tx'[t] = [[tx[t] EXCEPT !.fate = tx[t].fate, !.result = tx[t].ending]
                     EXCEPT !.pc = "done"]
      /\ \A u \in Tx \ {t} :
           tx'[u] = tx[u] /\ status'[u] = status[u] /\ need'[u] = need[u]
  BY ReturnLocal DEF Close
<1>2. tx'[t].pc = "done" /\ tx'[t].batch = tx[t].batch /\ tx'[t].fate = tx[t].fate
  BY <1>1 DEF Calls
<1>3. \A u \in Tx \ {t} : journal'[u] = journal[u]
  BY DEF Close, TypeOK
<1>4. met'.external = met.external
  BY MeetTyped DEF Close
<1>5. Local(t)
  BY <1>1, <1>3, <1>4 DEF Close, Local
<1>. QED BY <1>2, <1>5, CleanupGood DEF Close

(* The process dies: the calls that were mutating are cut short, the others *)
(* have changed nothing.                                                   *)
LEMMA CrashGood ==
  ASSUME PInv, IInv', Crash
  PROVE  Good
<1>. TypeOK /\ IInv
  BY DEF PInv, IInv
<1>. DEFINE I == {t \in Tx : tx[t].pc \in Mutating}
            U == {t \in Tx : tx[t].pc \in Early \ {"idle"}}
<1>1. /\ Undisturbed' <=> Undisturbed
      /\ UNCHANGED <<disk, trash, journal, before>>
  BY DEF Crash, Meet, TypeOK, Undisturbed
<1>2. ASSUME NEW u \in Tx
      PROVE  /\ tx'[u].batch = tx[u].batch
             /\ tx'[u].copied = tx[u].copied
             /\ tx'[u].pc = IF tx[u].pc \in InFlight THEN "crashed" ELSE tx[u].pc
             /\ tx'[u].fate = IF u \in I THEN "interrupted"
                              ELSE IF u \in U THEN "undone" ELSE tx[u].fate
  <2>1. tx'[u] = Fallen(tx[u]) /\ tx[u] \in Calls /\ Phase(u)
    BY DEF Crash, TypeOK, IInv
  <2>2. CASE tx[u].pc \notin InFlight
    <3>1. tx'[u] = tx[u] /\ u \notin I /\ u \notin U
      BY <2>1, <2>2 DEF Fallen, InFlight, Pcs, Mutating, Early
    <3>. QED BY <2>2, <3>1
  <2>3. CASE tx[u].pc \in InFlight
    <3>1. /\ tx'[u].pc = "crashed" /\ tx'[u].batch = tx[u].batch
          /\ tx'[u].copied = tx[u].copied
          /\ tx'[u].fate = IF tx[u].fate # "none" THEN tx[u].fate
                           ELSE IF tx[u].pc \in Mutating THEN "interrupted" ELSE "undone"
      BY <2>1, <2>3, FallenTyped
    <3>2. tx[u].pc \in Mutating \cup Early => tx[u].fate = "none"
      BY <2>1 DEF Phase, Ending, Late, Mutating, Early
    <3>3. tx[u].pc = "remove" => tx[u].fate # "none"
      BY <2>1 DEF Phase, Ending
    <3>4. tx[u].pc \in Mutating \cup (Early \ {"idle"}) \cup {"remove"}
      BY <2>3 DEF InFlight, Pcs, Mutating, Early
    <3>5. u \in I <=> tx[u].pc \in Mutating
      OBVIOUS
    <3>6. u \in U <=> tx[u].pc \in Early \ {"idle"}
      OBVIOUS
    <3>7. Mutating \cap Early = {} /\ "remove" \notin Mutating \cup Early
      BY DEF Mutating, Early
    <3>. HIDE DEF I, U
    <3>. QED BY <2>3, <3>1, <3>2, <3>3, <3>4, <3>5, <3>6, <3>7
  <2>. QED BY <2>2, <2>3
<1>3. ASSUME NEW u \in Tx PROVE Progress(u)'
  <2>1. Progress(u) /\ Phase(u)
    BY DEF PInv, IInv
  <2>2. CASE tx[u].pc \in InFlight
    <3>1. tx'[u].pc = "crashed" /\ tx'[u].copied = tx[u].copied
      BY <1>2, <2>2
    <3>2. tx'[u].fate = "interrupted" =>
            tx[u].pc \in Mutating \/ tx[u].fate = "interrupted"
      BY <1>2
    <3>3. Listed(u)'
      BY <1>1, <2>1, <3>1, <3>2 DEF Progress, Listed, Early, Mutating
    <3>. QED BY <3>1, <3>3 DEF Progress, Simulated, Applied, PutBack
  <2>3. CASE tx[u].pc \notin InFlight
    <3>1. tx'[u] = tx[u]
      BY <2>3 DEF Crash, Fallen, TypeOK
    <3>2. Listed(u)'
      BY <1>1, <2>1, <3>1 DEF Progress, Listed
    <3>3. tx[u].pc \in {"idle", "done", "crashed"}
      BY <2>3 DEF InFlight, TypeOK, Calls
    <3>. QED BY <3>1, <3>2, <3>3 DEF Progress, Simulated, Applied, PutBack
  <2>. QED BY <2>2, <2>3
<1>4. PInv'
  BY <1>3 DEF PInv
<1>5. Implements
  <2>1. \A u \in I \cup U : tx[u].batch # <<>> /\ tx[u].fate = "none"
    <3>1. ASSUME NEW u \in Tx, tx[u].pc \in Mutating \cup (Early \ {"idle"})
          PROVE  tx[u].batch # <<>> /\ tx[u].fate = "none"
      <4>1. Phase(u)
        BY DEF IInv
      <4>2. Len(tx[u].batch) # 0
        BY <3>1, <4>1 DEF Phase, Looping, Mutating, Early, Holding, Pcs
      <4>. QED BY <3>1, <4>1, <4>2 DEF Phase, Ending, Late, Mutating, Early
    <3>. QED BY <3>1
  <2>2. val' \in Vault
    <3>1. IInv' => (val \in Vault)'
      BY ValTyped, PTL
    <3>. QED BY <3>1
  <2>3. ASSUME NEW p \in Path, \A u \in I : p \notin Touched(tx[u].batch)
        PROVE  val'[p] = val[p]
    <3>1. \A u \in Tx : ~Held(u, p)
      <4>1. ASSUME NEW u \in Tx, Held(u, p) PROVE FALSE
        <5>1. u \in I /\ p \in need[u] /\ Phase(u)
          BY <4>1 DEF Held, IInv
        <5>2. need[u] = Touched(tx[u].batch)
          BY <5>1 DEF Phase, Locked, Mutating, Holding, Pcs
        <5>. QED BY <2>3, <5>1, <5>2
      <4>. QED BY <4>1
    <3>2. \A u \in Tx : ~Held(u, p)'
      BY DEF Crash, Held
    <3>3. FreeVal /\ FreeVal'
      <4>1. FreeVal'
        BY ValFree, PTL
      <4>. QED BY <4>1, ValFree
    <3>. QED BY <1>1, <3>1, <3>2, <3>3 DEF FreeVal
  <2>4. ASSUME Undisturbed', NEW u \in I
        PROVE  Kept(u)' = [p \in Touched(tx[u].batch) |-> val[p]]
    BY <1>1, <1>2, <2>4, KeepsWhole
  <2>5. ASSUME NEW u \in Tx \ I PROVE Kept(u)' = Kept(u)
    <3>1. tx'[u].fate = "interrupted" <=> tx[u].fate = "interrupted"
      <4>1. u \in U => tx[u].fate = "none"
        BY <2>1
      <4>. QED BY <1>2, <2>5, <4>1
    <3>. QED BY <1>1, <1>2, <3>1 DEF Kept
  <2>6. I \in SUBSET Tx /\ U \in SUBSET Tx /\ I \cap U = {}
    BY DEF Mutating, Early
  <2>7. \A u \in Tx : tx'[u].batch = tx[u].batch
    BY <1>2
  <2>8. \A u \in Tx : tx'[u].fate = IF u \in I THEN "interrupted"
                                    ELSE IF u \in U THEN "undone" ELSE tx[u].fate
    BY <1>2
  <2>. HIDE DEF I, U
  <2>9. CutShort(I, U)
    BY <2>1, <2>2, <2>3, <2>4, <2>5, <2>6, <2>7, <2>8 DEF CutShort
  <2>. QED BY <2>6, <2>9, Interrupts
<1>. QED BY <1>1, <1>4, <1>5, LosslessStill DEF Good

(* Another program writes: nothing is promised from here on. *)
LEMMA ExternalGood ==
  ASSUME PInv, IInv', External
  PROVE  Good
<1>1. met'.external = met.external + 1 /\ met.external \in Nat
  BY TxAssumption DEF External, Meet, PInv, IInv, TypeOK
<1>2. ~Undisturbed'
  BY <1>1 DEF Undisturbed
<1>3. ASSUME NEW u \in Tx PROVE Progress(u)'
  <2>1. Progress(u)
    BY DEF PInv
  <2>. QED BY <1>2, <2>1 DEF External, Progress, Listed
<1>. QED BY <1>2, <1>3 DEF Good, PInv, Implements, Lossless

LEMMA InitProgress == Init => PInv
<1>. SUFFICES ASSUME Init PROVE PInv
  OBVIOUS
<1>1. IInv
  BY InitInv
<1>2. ASSUME NEW t \in Tx PROVE Progress(t)
  BY DEF Init, Call0, Journal0, Progress, Listed, Simulated, Applied, PutBack, Early, Mutating
<1>. QED BY <1>1, <1>2 DEF PInv

LEMMA NextGood == PInv /\ [Next]_vars => Good
<1>. SUFFICES ASSUME PInv, [Next]_vars PROVE Good
  OBVIOUS
<1>1. IInv'
  BY NextInv DEF PInv
<1>2. ASSUME NEW t \in Tx, Step(t) PROVE Good
  BY <1>1, <1>2, PreflightGood, MakeDirGood, CopyGood, ManifestGood, ApplyGood,
    BeginRestoreGood, EndRestoreGood, RestoredGood, UncreateGood, UndoneGood, FlipGood,
    RemoveEntryGood, CloseGood DEF Step
<1>3. ASSUME NEW t \in Tx, Submit(t) \/ Begin(t) PROVE Good
  BY <1>1, <1>3, SubmitGood, BeginGood
<1>4. CASE UNCHANGED vars
  <2>1. ASSUME NEW u \in Tx PROVE Progress(u)'
    <3>1. Run(u)' = Run(u) /\ MadeBy(u)' = MadeBy(u) /\ Progress(u)
      BY <1>4 DEF vars, Run, MadeBy, PInv
    <3>. QED BY <1>4, <3>1 DEF vars, Progress, Listed, Simulated, Applied, PutBack, Undisturbed
  <2>2. Implements
    BY <1>4 DEF vars, Implements, Atomic!vars, val, Kept
  <2>3. Lossless
    BY <1>4, LosslessStill DEF vars
  <2>. QED BY <1>1, <2>1, <2>2, <2>3 DEF Good, PInv
<1>. QED BY <1>1, <1>2, <1>3, <1>4, CrashGood, ExternalGood DEF Next

LEMMA TxProgress == Spec => []PInv
<1>1. PInv /\ [Next]_vars => PInv'
  BY NextGood DEF Good
<1>. QED BY <1>1, InitProgress, PTL DEF Spec

-----------------------------------------------------------------------------
(* runTransaction implements AtomicBatch: as long as no other program      *)
(* writes to the vault, a batch takes effect as a whole or not at all      *)
(* whatever fails and whenever the process dies, and what a crash or a     *)
(* failed rollback tears is kept in full in the journal.                   *)
THEOREM TxImplementsAtomicBatch == Spec => ImplementsAtomicBatch
<1>1. Init => Atomic!Init
  <2>. SUFFICES ASSUME Init PROVE Atomic!Init
    OBVIOUS
  <2>1. IInv
    BY InitInv
  <2>2. \A t \in Tx : tx[t].batch = <<>> /\ tx[t].fate = "none" /\ Kept(t) = Atomic!Nothing
    BY NothingKept DEF Init, Call0
  <2>3. val \in Atomic!Vault
    BY <2>1, ValTyped, SameOps
  <2>. QED BY <2>2, <2>3 DEF Atomic!Init
<1>2. PInv /\ [Next]_vars => [Undisturbed' => Atomic!Next]_(Atomic!vars)
  BY NextGood DEF Good, Implements
<1>. HIDE DEF Init, Next, PInv
<1>. QED BY <1>1, <1>2, TxProgress, PTL DEF Spec, ImplementsAtomicBatch

(* A file leaves a vault no other program writes to only by being moved or *)
(* trashed, or because the rollback of the transaction that made it undoes *)
(* it: no rollback deletes what another transaction made, however many     *)
(* run, fail and crash (rollback, adapter.softDelete).                     *)
THEOREM TxUndoesOnlyOwnFiles == Spec => UndoesOnlyOwnFiles
<1>1. PInv /\ [Next]_vars => [Undisturbed' => \A p \in Path : LeavesInOrder(p)]_vars
  BY NextGood DEF Good, Lossless
<1>. QED BY <1>1, TxProgress, PTL DEF Spec, UndoesOnlyOwnFiles
=============================================================================
