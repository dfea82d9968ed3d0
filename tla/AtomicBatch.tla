----------------------------- MODULE AtomicBatch -----------------------------
(***************************************************************************)
(* What vault_transaction promises: a batch takes effect as a whole or not *)
(* at all.  The one exception is a batch cut short by a crash, or by a     *)
(* rollback that failed: its files may then hold anything, and a complete  *)
(* copy of what they held before is kept for the owner, for good.          *)
(***************************************************************************)
EXTENDS VaultOps

CONSTANTS Tx, Batches

VARIABLES
  val,    \* the vault as the other tools see it
  job,    \* per transaction: its batch (<<>>: not submitted)
  fate,   \* "none", "committed", "undone" or "interrupted"
  saved   \* per transaction: the copy kept for the owner

vars == <<val, job, fate, saved>>

(* Nothing is kept for a transaction that was not interrupted. *)
Nothing == [p \in {} |-> Absent]

Init ==
  /\ val \in Vault
  /\ job = [t \in Tx |-> <<>>]
  /\ fate = [t \in Tx |-> "none"]
  /\ saved = [t \in Tx |-> Nothing]

Submit(t) ==
  /\ job[t] = <<>>
  /\ \E b \in Batches : job' = [job EXCEPT ![t] = b]
  /\ UNCHANGED <<val, fate, saved>>

Open(t) == job[t] # <<>> /\ fate[t] = "none"

Commit(t) ==
  /\ Open(t)
  /\ AllPass(job[t], val)
  /\ val' = Result(job[t], val)
  /\ fate' = [fate EXCEPT ![t] = "committed"]
  /\ UNCHANGED <<job, saved>>

Undo(t) ==
  /\ Open(t)
  /\ fate' = [fate EXCEPT ![t] = "undone"]
  /\ UNCHANGED <<val, job, saved>>

(* The transactions I are cut short at once; those of U were not far enough *)
(* to have changed anything.                                               *)
Interrupt(I, U) ==
  /\ \A t \in I \cup U : Open(t)
  /\ I \cap U = {}
  /\ fate' = [t \in Tx |-> IF t \in I THEN "interrupted"
                           ELSE IF t \in U THEN "undone" ELSE fate[t]]
  /\ \A p \in Path : (\A t \in I : p \notin Touched(job[t])) => val'[p] = val[p]
  /\ val' \in Vault
  /\ saved' = [t \in Tx |-> IF t \in I THEN [p \in Touched(job[t]) |-> val[p]]
                            ELSE saved[t]]
  /\ UNCHANGED job

Next ==
  \/ \E t \in Tx : Submit(t) \/ Commit(t) \/ Undo(t)
  \/ \E I, U \in SUBSET Tx : Interrupt(I, U)

Spec == Init /\ [][Next]_vars
=============================================================================
