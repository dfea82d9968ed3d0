----------------------------- MODULE Transaction -----------------------------
(***************************************************************************)
(* vault_transaction: runTransaction of src/src/storage/transaction.ts.    *)
(* Transactions run concurrently, each under the locks of the paths it     *)
(* touches (PathLocks, which WriteGate implements): pre-flight in memory,  *)
(* journal the pre-images, apply through the adapter, then either close    *)
(* the journal or roll back first.  Any file operation may fail, the       *)
(* process may crash between any two of them, and other programs           *)
(* (Obsidian, a sync client) may write to the vault without the locks.     *)
(***************************************************************************)
EXTENDS VaultOps

CONSTANTS
  Tx,           \* transactions; each runs once
  Batches,      \* the batches of operations they may be asked to run
  Vaults,       \* the vaults a run may start from
  MaxOps, MaxFiles,   \* MAX_TX_OPS, MAX_TX_FILES
  Mishaps,      \* bound: how many file operations fail, crashes and writes by
                \* other programs there may be, taken together
  ExternalFiles \* what other programs leave at a path

ASSUME TxAssumption ==
  /\ Batches \subseteq Seq(Op)
  /\ Vaults \subseteq Vault
  /\ ExternalFiles \subseteq File
  /\ MaxOps \in Nat /\ MaxFiles \in Nat
  /\ Mishaps \subseteq [{"faults", "crashes", "external"} -> Nat]

VARIABLES
  status, need,  \* the locks (PathLocks)
  disk,          \* the vault's files
  trash,         \* what .trash/ has received
  tx,            \* per transaction: its call, in memory
  journal,       \* per transaction: its directory under <stateDir>/tx/
  before,        \* history: the vault when the transaction got its locks
  met            \* the faults, crashes and external writes so far

vars == <<status, need, disk, trash, tx, journal, before, met>>

Locks == INSTANCE PathLocks WITH Caller <- Tx

-----------------------------------------------------------------------------
(* A transaction's memory.  pc: where its call is; batch, dry: arguments;  *)
(* step: the current op; view: simulated files (`states`); seen: files as  *)
(* first loaded (`onDisk`); copied, created: the paths the journal has a   *)
(* pre-image of, and those that did not exist; todo: what is left of the   *)
(* current loop; current: the path being restored; ending: the terminal    *)
(* state to record; fate: how it ended in fact; result: what the caller    *)
(* was told.                                                               *)
Pcs == {"idle", "queued", "preflight", "mkdir", "copy", "apply",
        "restore", "restoring", "uncreate", "flip", "remove",
        "done", "crashed"}
Fates == {"none", "committed", "undone", "interrupted"}
Results == {"none", "refused", "dry", "threw", "applied", "rolled-back", "stuck"}
Unread == Any

Call0 == [pc |-> "idle", batch |-> <<>>, dry |-> FALSE, step |-> 1,
          view |-> [p \in Path |-> Unread], seen |-> [p \in Path |-> Unread],
          copied |-> {}, created |-> {}, todo |-> {}, current |-> {}, ending |-> "none",
          fate |-> "none", result |-> "none"]

(* A journal directory: whether it exists, the state its manifest.json     *)
(* names ("none": no manifest), and its .bin files (Absent: no such file). *)
States == {"none", "applying", "applied", "rolled-back"}
Journal0 == [dir |-> FALSE, manifest |-> "none", bins |-> [p \in Path |-> Absent]]

Init ==
  /\ Locks!Init
  /\ disk \in Vaults
  /\ trash = {}
  /\ tx = [t \in Tx |-> Call0]
  /\ journal = [t \in Tx |-> Journal0]
  /\ before = [t \in Tx |-> disk]
  /\ met = [faults |-> 0, crashes |-> 0, external |-> 0]

Meet(k) == met' = [met EXCEPT ![k] = @ + 1] /\ met' \in Mishaps

At(t, pc) == tx[t].pc = pc
OpOf(t) == tx[t].batch[tx[t].step]
LastOp(t) == tx[t].step = Len(tx[t].batch)

(* t's memory becomes m, at pc. *)
Go(t, m, pc) == tx' = [tx EXCEPT ![t] = [m EXCEPT !.pc = pc]]

(* Mutated: the locks are not released. *)
ReturnHoldingLocks(t, m, fate, result) ==
  /\ Go(t, [m EXCEPT !.fate = fate, !.result = result], "done")
  /\ UNCHANGED <<status, need>>

(* runTransaction returns (or throws, "threw") and the locks are released. *)
Return(t, m, fate, result) ==
  /\ Go(t, [m EXCEPT !.fate = fate, !.result = result], "done")
  /\ Locks!Leave(t)

-----------------------------------------------------------------------------
(* The call, up to asking for the locks. *)
Submit(t) ==
  /\ At(t, "idle")
  /\ \E b \in Batches, d \in BOOLEAN :
       /\ Len(b) \in 1..MaxOps
       /\ Cardinality(Touched(b)) <= MaxFiles
       /\ Go(t, [tx[t] EXCEPT !.batch = b, !.dry = d], "queued")
       /\ Locks!Request(t, Touched(b))
  /\ UNCHANGED <<disk, trash, journal, before, met>>

Begin(t) ==
  /\ At(t, "queued")
  /\ Locks!Enter(t)
  /\ before' = [before EXCEPT ![t] = disk]
  /\ Go(t, tx[t], "preflight")
  /\ UNCHANGED <<disk, trash, journal, met>>

(* load(p) for the paths of op: a path is read once, then simulated. *)
Loaded(op, files) ==
  [p \in Path |-> IF p \in PathsOf(op) /\ files[p] = Unread
                  THEN disk[p] ELSE files[p]]

(* Simulate one op.  The first that throws refuses the batch. *)
Preflight(t) ==
  LET m == tx[t]
      view == Loaded(OpOf(t), m.view)
      next == [m EXCEPT !.view = Effect(OpOf(t), view),
                        !.seen = Loaded(OpOf(t), m.seen), !.step = @ + 1]
  IN
  /\ At(t, "preflight")
  /\ \/ /\ Passes(OpOf(t), view)
        /\ IF ~LastOp(t) THEN Go(t, next, "preflight") /\ UNCHANGED <<status, need>>
           ELSE IF m.dry THEN Return(t, next, "undone", "dry")
           ELSE Go(t, next, "mkdir") /\ UNCHANGED <<status, need>>
        /\ UNCHANGED met
     \/ ~Passes(OpOf(t), view) /\ Return(t, m, "undone", "refused") /\ UNCHANGED met
     \/ Meet("faults") /\ Return(t, m, "undone", "refused")
  /\ UNCHANGED <<disk, trash, journal, before>>

(* A failure while the journal is being written leaves runTransaction by   *)
(* an exception: nothing catches it, nothing removes the directory.        *)
Throw(t) == Return(t, tx[t], "undone", "threw")

MakeDir(t) ==
  /\ At(t, "mkdir")
  /\ \/ /\ journal' = [journal EXCEPT ![t].dir = TRUE]
        /\ Go(t, [tx[t] EXCEPT !.todo = need[t]], "copy")
        /\ UNCHANGED <<status, need, met>>
     \/ Meet("faults") /\ Throw(t) /\ UNCHANGED journal
  /\ UNCHANGED <<disk, trash, before>>

(* Mutated: the pre-image is what the batch will leave. *)
CopyPostImage(t) ==
  /\ At(t, "copy")
  /\ \E p \in tx[t].todo :
       LET m == [tx[t] EXCEPT !.todo = @ \ {p}] IN
       \/ /\ m.view[p] = Absent
          /\ Go(t, [m EXCEPT !.created = @ \cup {p}], "copy")
          /\ UNCHANGED <<status, need, journal, met>>
       \/ /\ m.view[p] # Absent
          /\ journal' = [journal EXCEPT ![t].bins[p] = m.view[p]]
          /\ Go(t, [m EXCEPT !.copied = @ \cup {p}], "copy")
          /\ UNCHANGED <<status, need, met>>
  /\ UNCHANGED <<disk, trash, before>>

(* One path into the journal: a copy of the file that is there now, or a   *)
(* note that there was none at pre-flight.                                 *)
CopyPreImage(t) ==
  /\ At(t, "copy")
  /\ \E p \in tx[t].todo :
       LET m == [tx[t] EXCEPT !.todo = @ \ {p}] IN
       \/ /\ m.seen[p] = Absent
          /\ Go(t, [m EXCEPT !.created = @ \cup {p}], "copy")
          /\ UNCHANGED <<status, need, journal, met>>
       \/ /\ m.seen[p] # Absent /\ disk[p] # Absent
          /\ journal' = [journal EXCEPT ![t].bins[p] = disk[p]]
          /\ Go(t, [m EXCEPT !.copied = @ \cup {p}], "copy")
          /\ UNCHANGED <<status, need, met>>
       \/ /\ m.seen[p] # Absent /\ disk[p] = Absent
          /\ Throw(t)
          /\ UNCHANGED <<journal, met>>
       \/ /\ m.seen[p] # Absent
          /\ Meet("faults") /\ Throw(t)
          /\ UNCHANGED journal
  /\ UNCHANGED <<disk, trash, before>>

(* Mutated: mutations start before the journal says so. *)
SkipManifest(t) ==
  /\ At(t, "copy") /\ tx[t].todo = {}
  /\ Go(t, [tx[t] EXCEPT !.step = 1], "apply")
  /\ UNCHANGED <<status, need, disk, trash, journal, before, met>>

(* writeManifest('applying'), before the first mutation. *)
WriteManifest(t) ==
  /\ At(t, "copy") /\ tx[t].todo = {}
  /\ \/ /\ journal' = [journal EXCEPT ![t].manifest = "applying"]
        /\ Go(t, [tx[t] EXCEPT !.step = 1], "apply")
        /\ UNCHANGED <<status, need, met>>
     \/ Meet("faults") /\ Throw(t) /\ UNCHANGED journal
  /\ UNCHANGED <<disk, trash, before>>

(* Mutated: whatever is at the path goes to .trash/, file or not. *)
TrashedAlways(op) == {<<op.path, disk[op.path]>>}

(* adapter.softDelete moves the file into .trash/. *)
Trashed(op) == IF op.op = "delete" THEN {<<op.path, disk[op.path]>>} ELSE {}

(* One op through the adapter; the first that fails starts the rollback.   *)
(* It may fail with the file already written: the adapter stats the file   *)
(* after its rename to return its new metadata.                            *)
Apply(t) ==
  LET m == tx[t]
      op == OpOf(t)
      undo == [m EXCEPT !.todo = m.copied, !.ending = "rolled-back"]
  IN
  /\ At(t, "apply")
  /\ \/ /\ Applies(op, disk)
        /\ disk' = Effect(op, disk)
        /\ trash' = trash \cup Trashed(op)
        /\ IF LastOp(t) THEN Go(t, [m EXCEPT !.ending = "applied"], "flip")
                        ELSE Go(t, [m EXCEPT !.step = @ + 1], "apply")
        /\ UNCHANGED met
     \/ ~Applies(op, disk) /\ Go(t, undo, "restore") /\ UNCHANGED <<disk, trash, met>>
     \/ Meet("faults") /\ Go(t, undo, "restore") /\ UNCHANGED <<disk, trash>>
     \/ /\ Applies(op, disk)
        /\ disk' = Effect(op, disk)
        /\ trash' = trash \cup Trashed(op)
        /\ Meet("faults")
        /\ Go(t, [undo EXCEPT !.step = @ + 1], "restore")
  /\ UNCHANGED <<status, need, journal, before>>

(* A rollback that cannot finish keeps the journal and says where it is. *)
Stuck(t) == Return(t, tx[t], "interrupted", "stuck")

(* copyFile of a pre-image over its path is not atomic: open and truncate, *)
(* then fill.                                                              *)
BeginRestore(t) ==
  /\ At(t, "restore")
  /\ \E p \in tx[t].todo :
       \/ /\ disk' = [disk EXCEPT ![p] = Torn]
          /\ Go(t, [tx[t] EXCEPT !.current = {p}, !.todo = @ \ {p}], "restoring")
          /\ UNCHANGED <<status, need, met>>
       \/ Meet("faults") /\ Stuck(t) /\ UNCHANGED disk
  /\ UNCHANGED <<trash, journal, before>>

EndRestore(t) ==
  /\ At(t, "restoring")
  /\ \/ /\ disk' = [p \in Path |-> IF p \in tx[t].current
                                   THEN journal[t].bins[p] ELSE disk[p]]
        /\ Go(t, [tx[t] EXCEPT !.current = {}], "restore")
        /\ UNCHANGED <<status, need, met>>
     \/ Meet("faults") /\ Stuck(t) /\ UNCHANGED disk
  /\ UNCHANGED <<trash, journal, before>>

(* Mutated: every touched path is deleted, or none is. *)
RestoredAll(t) ==
  /\ At(t, "restore") /\ tx[t].todo = {}
  /\ Go(t, [tx[t] EXCEPT !.todo = need[t]], "uncreate")
  /\ UNCHANGED <<status, need, disk, trash, journal, before, met>>
RestoredOnly(t) ==
  /\ At(t, "restore") /\ tx[t].todo = {}
  /\ Go(t, tx[t], "uncreate")
  /\ UNCHANGED <<status, need, disk, trash, journal, before, met>>

(* Every pre-image is back: now the paths that did not exist. *)
Restored(t) ==
  /\ At(t, "restore") /\ tx[t].todo = {}
  /\ Go(t, [tx[t] EXCEPT !.todo = tx[t].created], "uncreate")
  /\ UNCHANGED <<status, need, disk, trash, journal, before, met>>

(* hardDelete; a path that still has no file is not an error. *)
Uncreate(t) ==
  /\ At(t, "uncreate")
  /\ \E p \in tx[t].todo :
       \/ /\ disk' = [disk EXCEPT ![p] = Absent]
          /\ Go(t, [tx[t] EXCEPT !.todo = @ \ {p}], "uncreate")
          /\ UNCHANGED <<status, need, met>>
       \/ Meet("faults") /\ Stuck(t) /\ UNCHANGED disk
  /\ UNCHANGED <<trash, journal, before>>

Undone(t) ==
  /\ At(t, "uncreate") /\ tx[t].todo = {}
  /\ Go(t, tx[t], "flip")
  /\ UNCHANGED <<status, need, disk, trash, journal, before, met>>

(* Mutated: a rollback is recorded as a commit. *)
FlipApplied(t) ==
  LET m == tx[t] IN
  /\ At(t, "flip")
  /\ journal' = [journal EXCEPT ![t].manifest = "applied"]
  /\ Go(t, [m EXCEPT !.fate = IF m.ending = "applied" THEN "committed" ELSE "undone"],
        "remove")
  /\ UNCHANGED <<status, need, disk, trash, before, met>>

(* Mutated: the journal is removed without having been told how it ended. *)
FlipSkipped(t) ==
  LET m == tx[t] IN
  /\ At(t, "flip")
  /\ Go(t, [m EXCEPT !.fate = IF m.ending = "applied" THEN "committed" ELSE "undone"],
        "remove")
  /\ UNCHANGED <<status, need, disk, trash, journal, before, met>>

(* closeJournal, first half: the terminal state, by tmp + rename.  An error *)
(* is swallowed.                                                           *)
Flip(t) ==
  LET m == tx[t] IN
  /\ At(t, "flip")
  /\ \/ /\ journal' = [journal EXCEPT ![t].manifest = m.ending]
        /\ UNCHANGED met
     \/ Meet("faults") /\ UNCHANGED journal
  /\ Go(t, [m EXCEPT !.fate = IF m.ending = "applied" THEN "committed" ELSE "undone"],
        "remove")
  /\ UNCHANGED <<status, need, disk, trash, before>>

(* closeJournal, second half: a recursive rm unlinks the entries one by    *)
(* one, in no particular order, then the directory; it may fail anywhere.  *)
RemoveEntry(t) ==
  /\ At(t, "remove")
  /\ \/ /\ journal[t].manifest # "none"
        /\ journal' = [journal EXCEPT ![t].manifest = "none"]
     \/ \E p \in Path :
          /\ journal[t].bins[p] # Absent
          /\ journal' = [journal EXCEPT ![t].bins[p] = Absent]
  /\ UNCHANGED <<status, need, disk, trash, tx, before, met>>

Empty(j) == j.manifest = "none" /\ \A p \in Path : j.bins[p] = Absent

Close(t) ==
  /\ At(t, "remove")
  /\ \/ /\ Empty(journal[t])
        /\ journal' = [journal EXCEPT ![t].dir = FALSE]
        /\ UNCHANGED met
     \/ Meet("faults") /\ UNCHANGED journal
  /\ Return(t, tx[t], tx[t].fate, tx[t].ending)
  /\ UNCHANGED <<disk, trash, before>>

-----------------------------------------------------------------------------
(* The process dies: every call in flight is gone, with its locks.  What   *)
(* is on disk stays; the next boot replays nothing.                        *)
Mutating == {"apply", "restore", "restoring", "uncreate", "flip"}
InFlight == Pcs \ {"idle", "done", "crashed"}

Fallen(m) ==
  IF m.pc \notin InFlight THEN m
  ELSE [m EXCEPT !.pc = "crashed",
                 !.fate = IF @ # "none" THEN @
                          ELSE IF m.pc \in Mutating THEN "interrupted" ELSE "undone"]

Crash ==
  /\ Meet("crashes")
  /\ tx' = [t \in Tx |-> Fallen(tx[t])]
  /\ status' = [t \in Tx |-> "idle"]
  /\ need' = [t \in Tx |-> {}]
  /\ UNCHANGED <<disk, trash, journal, before>>

(* Another program writes or deletes a file; it knows nothing of the locks. *)
External ==
  /\ Meet("external")
  /\ \E p \in Path, f \in ExternalFiles : disk' = [disk EXCEPT ![p] = f]
  /\ UNCHANGED <<status, need, trash, tx, journal, before>>

Step(t) ==
  \/ Preflight(t) \/ MakeDir(t) \/ CopyPreImage(t) \/ WriteManifest(t)
  \/ Apply(t) \/ BeginRestore(t) \/ EndRestore(t) \/ Restored(t)
  \/ Uncreate(t) \/ Undone(t) \/ Flip(t) \/ RemoveEntry(t) \/ Close(t)

Next ==
  \/ \E t \in Tx : Submit(t) \/ Begin(t) \/ Step(t)
  \/ Crash
  \/ External

(* File operations settle, and the gate passes nobody over for ever.       *)
Fairness == \A t \in Tx : SF_vars(Begin(t)) /\ WF_vars(Step(t))

Spec == Init /\ [][Next]_vars /\ Fairness

-----------------------------------------------------------------------------
Calls ==
  [pc : Pcs, batch : Seq(Op), dry : BOOLEAN, step : Nat,
   view : [Path -> File \cup {Unread}], seen : [Path -> File \cup {Unread}],
   copied : SUBSET Path, created : SUBSET Path,
   todo : SUBSET Path, current : SUBSET Path,
   ending : States, fate : Fates, result : Results]
Journals == [dir : BOOLEAN, manifest : States, bins : Vault]

TypeOK ==
  /\ status \in [Tx -> {"idle", "waiting", "inside"}]
  /\ need \in [Tx -> SUBSET Path]
  /\ disk \in Vault
  /\ trash \subseteq Path \X Bytes
  /\ tx \in [Tx -> Calls]
  /\ journal \in [Tx -> Journals]
  /\ before \in [Tx -> Vault]
  /\ met \in [{"faults", "crashes", "external"} -> Nat]

(* classifyJournal(...).needsRestore *)
NeedsRestore(j) == j.manifest \notin {"applied", "rolled-back"}

(* No other program has written to the vault yet. *)
Undisturbed == met.external = 0

(* From the first mutation until the end is recorded, and for ever after a *)
(* crash or a failed rollback, the journal is on disk, says `applying`,    *)
(* and holds every byte the batch may have overwritten: for each touched   *)
(* path a pre-image, or the note that there was no file; both as it was    *)
(* when the locks were granted, if no other program wrote since.           *)
JournalGuards ==
  \A t \in Tx :
    (tx[t].pc \in Mutating \/ tx[t].fate = "interrupted") =>
      /\ journal[t].dir /\ journal[t].manifest = "applying"
      /\ Touched(tx[t].batch) = tx[t].copied \cup tx[t].created
      /\ \A p \in tx[t].copied : journal[t].bins[p] # Absent
      /\ Undisturbed =>
           /\ \A p \in tx[t].copied : journal[t].bins[p] = before[t][p]
           /\ \A p \in tx[t].created : before[t][p] = Absent

(* The boot scan never tells the owner to discard the only copy: a journal *)
(* called safe to delete belongs to a batch that did commit, or that was   *)
(* undone with its files back as they were ("under-warning is not" cheap). *)
NoUnderWarning(t) ==
  journal[t].dir /\ ~NeedsRestore(journal[t]) =>
    /\ journal[t].manifest = "applied" => tx[t].fate = "committed"
    /\ journal[t].manifest = "rolled-back" => tx[t].fate = "undone"

(* Nor to bring back what a committed batch replaced, "the one way this     *)
(* design can lose data": when the removal of its journal fails, or the     *)
(* process dies in it, what is left says that the batch committed; unless   *)
(* the writing of that failed as well, or the removal had begun with the    *)
(* manifest, which the recursive rm may take first.                         *)
LeftoverSaysCommitted(t) ==
  tx[t].fate = "committed" /\ journal[t].dir =>
    \/ journal[t].manifest \in {"applied", "none"}
    \/ met.faults >= IF tx[t].pc = "done" THEN 2 ELSE 1

(* A journal that is left tells how its batch ended, in both directions. *)
JournalTells == \A t \in Tx : NoUnderWarning(t) /\ LeftoverSaysCommitted(t)

(* The paths that had no file, and where the ops applied so far put one. *)
MadeBy(t) ==
  {p \in Path :
     /\ before[t][p] = Absent
     /\ \E i \in 1..(tx[t].step - 1) :
          LET op == tx[t].batch[i] IN
          p = IF op.op = "move" THEN op.to ELSE op.path}

(* A file leaves the vault only by being moved, by going to .trash/, or    *)
(* because the rollback of the very transaction that made it undoes it.    *)
LeavesInOrder(p) ==
  (disk[p] # Absent /\ disk'[p] = Absent) =>
    \/ \E q \in Path : disk[q] = Absent /\ disk'[q] = disk[p]
    \/ <<p, disk[p]>> \in trash'
    \/ \E t \in Tx : At(t, "uncreate") /\ p \in MadeBy(t)

(* Of a vault no other program writes to, the transactions lose no file,   *)
(* whatever fails: none deletes what another one made (rollback).          *)
UndoesOnlyOwnFiles == [][Undisturbed' => \A p \in Path : LeavesInOrder(p)]_vars

(* The same of a vault other programs write to, except in those writes.    *)
SparesForeignFiles ==
  [][met'.external = met.external => \A p \in Path : LeavesInOrder(p)]_vars

(* Every transaction that asks for its locks ends: it returns, unless the  *)
(* process dies.                                                           *)
Settles == \A t \in Tx : At(t, "queued") ~> tx[t].pc \in {"done", "crashed"}

-----------------------------------------------------------------------------
(* The vault as everybody but the owner of the locks may rely on it: the   *)
(* files of a transaction that is being applied count as they were.        *)
val ==
  [p \in Path |->
     IF \E t \in Tx : tx[t].pc \in Mutating /\ p \in need[t]
     THEN before[CHOOSE t \in Tx : tx[t].pc \in Mutating /\ p \in need[t]][p]
     ELSE disk[p]]

Kept(t) ==
  IF tx[t].fate = "interrupted" /\ journal[t].dir /\ journal[t].manifest = "applying"
  THEN [p \in Touched(tx[t].batch) |-> journal[t].bins[p]]
  ELSE [p \in {} |-> Absent]

Atomic == INSTANCE AtomicBatch WITH
            job <- [t \in Tx |-> tx[t].batch],
            fate <- [t \in Tx |-> tx[t].fate],
            saved <- [t \in Tx |-> Kept(t)]

(* As long as no other program writes, nobody ever sees half a batch, and  *)
(* what a crash or a failed rollback tears is kept in full: runTransaction *)
(* implements AtomicBatch.                                                 *)
ImplementsAtomicBatch ==
  Atomic!Init /\ [][Undisturbed' => Atomic!Next]_(Atomic!vars)

=============================================================================
