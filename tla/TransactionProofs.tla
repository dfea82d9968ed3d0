-------------------------- MODULE TransactionProofs --------------------------
(***************************************************************************)
(* Theorems of Transaction, for every set of paths, batches, transactions  *)
(* and every number of faults, crashes and external writes: its state is   *)
(* well typed, the journal guards every file a batch may have overwritten, *)
(* and the state it records never misleads the boot scan.                  *)
(***************************************************************************)
EXTENDS Transaction, TLAPS

-----------------------------------------------------------------------------
(* What the operations do to a vault.                                      *)

(* An operation names paths of the vault. *)
LEMMA OpPaths == ASSUME NEW op \in Op PROVE PathsOf(op) \subseteq Path
  BY DEF Op, PathsOf

(* What an operation writes is a text. *)
LEMMA ProducedText ==
  ASSUME NEW op \in Op, op.op \notin {"move", "delete"}, NEW f \in File
  PROVE  Produced(op, f) \in Text
<1>. DEFINE old == IF IsText(f) THEN f ELSE {}
<1>1. old \in Text
  BY DEF IsText, File, Bytes, Text
<1>2. CASE op.op = "write"
  <2>1. op.text \in Text
    BY <1>2 DEF Op
  <2>2. KeysIn(op.path, f) \in Text
    BY VaultAssumption DEF KeysIn, IsText, File, Bytes, Text
  <2>3. Produced(op, f) = op.text \cup (IF op.merge THEN KeysIn(op.path, f) ELSE {})
    BY <1>2 DEF Produced
  <2>. QED BY <2>1, <2>2, <2>3 DEF Text
<1>3. CASE op.op = "edit"
  <2>1. op.replace \in Token
    BY <1>3 DEF Op
  <2>2. Produced(op, f) = (old \ {op.find}) \cup {op.replace}
    BY <1>3 DEF Produced
  <2>. QED BY <1>1, <2>1, <2>2 DEF Text
<1>4. CASE op.op = "append"
  <2>1. op.line \in Token
    BY <1>4 DEF Op
  <2>2. Produced(op, f) = old \cup {op.line}
    BY <1>4 DEF Produced
  <2>. QED BY <1>1, <2>1, <2>2 DEF Text
<1>5. CASE op.op = "frontmatter_update"
  <2>1. op.set \subseteq Token
    BY <1>5, VaultAssumption DEF Op
  <2>2. Produced(op, f) = (old \cup op.set) \ op.unset
    BY <1>5 DEF Produced
  <2>. QED BY <1>1, <2>1, <2>2 DEF Text
<1>. QED BY <1>2, <1>3, <1>4, <1>5 DEF Op

(* An operation makes files of files, and leaves the paths it does not     *)
(* name alone.  X is File, or File with the mark of a file not read yet.   *)
LEMMA EffectTyped ==
  ASSUME NEW op \in Op, NEW X, File \subseteq X,
         NEW S \in [Path -> X], \A p \in PathsOf(op) : S[p] \in File
  PROVE  /\ Effect(op, S) \in [Path -> X]
         /\ \A p \in Path \ PathsOf(op) : Effect(op, S)[p] = S[p]
<1>1. op.path \in Path /\ op.path \in PathsOf(op) /\ S[op.path] \in File
  BY DEF Op, PathsOf
<1>2. CASE op.op = "move"
  <2>1. op.to \in Path /\ PathsOf(op) = {op.path, op.to}
    BY <1>2 DEF Op, PathsOf
  <2>2. Effect(op, S) = [S EXCEPT ![op.to] = S[op.path], ![op.path] = Absent]
    BY <1>2 DEF Effect
  <2>. QED BY <1>1, <2>1, <2>2 DEF File
<1>3. CASE op.op = "delete"
  <2>1. Effect(op, S) = [S EXCEPT ![op.path] = Absent]
    BY <1>3 DEF Effect
  <2>. QED BY <1>1, <2>1 DEF File
<1>4. CASE op.op \notin {"move", "delete"}
  <2>1. Effect(op, S) = IF Skips(op, S[op.path]) THEN S
                        ELSE [S EXCEPT ![op.path] = Produced(op, S[op.path])]
    BY <1>4 DEF Effect
  <2>2. Produced(op, S[op.path]) \in Text
    BY <1>1, <1>4, ProducedText
  <2>3. Produced(op, S[op.path]) \in X
    BY <2>2 DEF File, Bytes
  <2>. QED BY <1>1, <2>1, <2>3
<1>. QED BY <1>2, <1>3, <1>4

(* The same of a vault. *)
LEMMA VaultEffect ==
  ASSUME NEW op \in Op, NEW S \in Vault
  PROVE  /\ Effect(op, S) \in Vault
         /\ \A p \in Path \ PathsOf(op) : Effect(op, S)[p] = S[p]
<1>1. File \subseteq File /\ S \in [Path -> File]
  BY DEF Vault
<1>2. \A p \in PathsOf(op) : S[p] \in File
  BY <1>1, OpPaths
<1>. QED BY <1>1, <1>2, EffectTyped DEF Vault

(* The op at hand is one of the batch, and touches its paths only. *)
LEMMA OpTouched ==
  ASSUME NEW b \in Seq(Op), NEW i \in 1..Len(b)
  PROVE  b[i] \in Op /\ PathsOf(b[i]) \subseteq Touched(b)
  BY DEF Touched

-----------------------------------------------------------------------------
(* The inductive invariant.                                                *)

Holding == Pcs \ {"idle", "queued", "done", "crashed"}
Early == {"idle", "queued", "preflight", "mkdir", "copy"}
Late == {"remove", "done", "crashed"}

(* The locks: who holds them, and that they exclude each other. *)
Locked(t) ==
  /\ tx[t].pc \in Holding <=> status[t] = "inside"
  /\ tx[t].pc = "queued" <=> status[t] = "waiting"
  /\ tx[t].pc \in Holding \cup {"queued"} => need[t] = Touched(tx[t].batch)

Exclusive ==
  \A t, u \in Tx :
    (t # u /\ status[t] = "inside" /\ status[u] = "inside")
      => need[t] \cap need[u] = {}

(* The loops of the call: where they are, and what is left of them. *)
Looping(t) ==
  LET m == tx[t] IN
  /\ m.pc \in Holding \cup {"queued"} => Len(m.batch) \in Nat \ {0}
  /\ m.pc \in {"idle", "queued"} => m.step = 1
  /\ m.pc \in {"preflight", "apply"} => m.step \in 1..Len(m.batch)
  /\ m.pc \in Early \ {"copy"} => m.copied = {} /\ m.created = {}
  /\ m.pc = "copy" => m.copied \cup m.created \cup m.todo = need[t]
  /\ m.pc \notin {"restoring", "done", "crashed"} => m.current = {}
  /\ m.pc \in {"restore", "restoring"} => m.todo \cup m.current \subseteq m.copied
  /\ m.pc = "uncreate" => m.todo \subseteq m.created

(* How the call ends, and what its journal says of it. *)
Ending(t) ==
  LET m == tx[t] IN
  /\ m.pc \notin Late => m.fate = "none"
  /\ m.pc \in {"restore", "restoring", "uncreate"} => m.ending = "rolled-back"
  /\ m.pc \in {"flip", "remove"} => m.ending \in {"applied", "rolled-back"}
  /\ m.pc = "remove" =>
       m.fate = IF m.ending = "applied" THEN "committed" ELSE "undone"
  /\ m.pc \in Early => journal[t].manifest = "none"
  /\ journal[t].manifest = "applied" => m.pc \in Late /\ m.fate = "committed"
  /\ journal[t].manifest = "rolled-back" => m.pc \in Late /\ m.fate = "undone"

(* While no other program writes, a call sees the vault as it was when it  *)
(* got its locks, until it starts to apply.                                *)
Fresh(t) ==
  LET m == tx[t] IN
  Undisturbed =>
    /\ m.pc \in {"preflight", "mkdir", "copy"} =>
         \A p \in need[t] : disk[p] = before[t][p]
    /\ m.pc \in {"idle", "queued"} => \A p \in Path : m.seen[p] = Unread
    /\ m.pc \in Early =>
         \A p \in Path : m.seen[p] \in {Unread, before[t][p]}

(* What the journal holds of the paths dealt with so far. *)
Saved(t) ==
  LET m == tx[t] IN
  /\ \A p \in m.copied : journal[t].bins[p] # Absent
  /\ Undisturbed =>
       /\ \A p \in m.copied : journal[t].bins[p] = before[t][p]
       /\ \A p \in m.created : before[t][p] = Absent

Guarded(t) ==
  LET m == tx[t] IN
  /\ m.pc = "copy" => journal[t].dir /\ Saved(t)
  /\ (m.pc \in Mutating \/ m.fate = "interrupted") =>
       /\ journal[t].dir /\ journal[t].manifest = "applying"
       /\ Touched(m.batch) = m.copied \cup m.created
       /\ Saved(t)

Phase(t) ==
  Locked(t) /\ Looping(t) /\ Ending(t) /\ Fresh(t) /\ Guarded(t)

IInv == TypeOK /\ Exclusive /\ \A t \in Tx : Phase(t)

-----------------------------------------------------------------------------
(* What every step of one transaction leaves alone.                        *)

Local(t) ==
  /\ \A u \in Tx \ {t} :
       /\ tx'[u] = tx[u] /\ journal'[u] = journal[u] /\ before'[u] = before[u]
       /\ status'[u] = status[u] /\ need'[u] = need[u]
  /\ \/ disk' = disk
     \/ tx[t].pc \in Holding /\ \A p \in Path \ need[t] : disk'[p] = disk[p]
  /\ met'.external = met.external

(* A step of t disturbs no other transaction: what it writes is under its  *)
(* locks.                                                                  *)
LEMMA Frame ==
  ASSUME IInv, NEW t \in Tx, Local(t), NEW u \in Tx \ {t}
  PROVE  Phase(u)'
<1>1. /\ tx'[u] = tx[u] /\ journal'[u] = journal[u] /\ before'[u] = before[u]
      /\ status'[u] = status[u] /\ need'[u] = need[u]
      /\ Phase(u) /\ (Undisturbed' <=> Undisturbed)
  BY DEF Local, IInv, Undisturbed
<1>2. Locked(u)' /\ Looping(u)' /\ Ending(u)' /\ Guarded(u)'
  BY <1>1 DEF Phase, Locked, Looping, Ending, Guarded, Saved
<1>3. Fresh(u)'
  <2>1. ASSUME tx[u].pc \in {"preflight", "mkdir", "copy"}, NEW p \in need[u]
        PROVE  disk'[p] = disk[p]
    <3>1. p \in Path /\ status[u] = "inside"
      BY <1>1, <2>1 DEF IInv, TypeOK, Phase, Locked, Holding, Pcs
    <3>2. CASE disk' = disk
      BY <3>2
    <3>3. CASE tx[t].pc \in Holding /\ \A q \in Path \ need[t] : disk'[q] = disk[q]
      <4>1. status[t] = "inside"
        BY <3>3 DEF IInv, Phase, Locked
      <4>2. p \notin need[t]
        BY <3>1, <4>1, <2>1 DEF IInv, Exclusive
      <4>. QED BY <3>1, <3>3, <4>2
    <3>. QED BY <3>2, <3>3 DEF Local
  <2>. QED BY <1>1, <2>1 DEF Phase, Fresh
<1>. QED BY <1>2, <1>3 DEF Phase

(* t's call moves on, its memory becoming m. *)
LEMMA GoTyped ==
  ASSUME TypeOK, NEW t \in Tx, NEW m \in Calls, NEW pc \in Pcs, Go(t, m, pc)
  PROVE  /\ tx' \in [Tx -> Calls]
         /\ tx'[t] = [m EXCEPT !.pc = pc]
         /\ \A u \in Tx \ {t} : tx'[u] = tx[u]
<1>1. [m EXCEPT !.pc = pc] \in Calls
  BY DEF Calls
<1>. QED BY <1>1 DEF Go, TypeOK

(* A file operation that fails, or any step that leaves the bound alone. *)
LEMMA MeetTyped ==
  ASSUME TypeOK, Meet("faults")
  PROVE  /\ met' \in [{"faults", "crashes", "external"} -> Nat]
         /\ met'.external = met.external
  BY DEF TypeOK, Meet

(* runTransaction returns: the locks are released, and nobody else's        *)
(* standing changes.                                                       *)
LEMMA ReturnTyped ==
  ASSUME TypeOK, Exclusive, NEW t \in Tx, NEW m \in Calls, NEW fate \in Fates,
         NEW result \in Results, Return(t, m, fate, result)
  PROVE  /\ tx' \in [Tx -> Calls]
         /\ tx'[t] = [m EXCEPT !.fate = fate, !.result = result, !.pc = "done"]
         /\ \A u \in Tx \ {t} :
              tx'[u] = tx[u] /\ status'[u] = status[u] /\ need'[u] = need[u]
         /\ status' \in [Tx -> {"idle", "waiting", "inside"}]
         /\ need' \in [Tx -> SUBSET Path]
         /\ status'[t] = "idle" /\ need'[t] = {}
         /\ Exclusive'
<1>1. [m EXCEPT !.fate = fate, !.result = result] \in Calls
  BY DEF Calls
<1>2. /\ tx' \in [Tx -> Calls]
      /\ tx'[t] = [[m EXCEPT !.fate = fate, !.result = result] EXCEPT !.pc = "done"]
      /\ \A u \in Tx \ {t} : tx'[u] = tx[u]
  BY <1>1, GoTyped DEF Return, Pcs
<1>3. /\ status' = [status EXCEPT ![t] = "idle"]
      /\ need' = [need EXCEPT ![t] = {}]
  BY DEF Return, Locks!Leave
<1>4. /\ status' \in [Tx -> {"idle", "waiting", "inside"}]
      /\ need' \in [Tx -> SUBSET Path]
      /\ status'[t] = "idle" /\ need'[t] = {}
      /\ \A u \in Tx \ {t} : status'[u] = status[u] /\ need'[u] = need[u]
  BY <1>3 DEF TypeOK
<1>5. Exclusive'
  BY <1>4 DEF Exclusive
<1>. QED BY <1>2, <1>4, <1>5 DEF Calls

(* A call that ends before its first mutation. *)
LEMMA GiveUp ==
  ASSUME IInv, NEW t \in Tx, NEW result \in Results,
         tx[t].pc \in Early, Return(t, tx[t], "undone", result),
         \/ UNCHANGED met
         \/ Meet("faults"),
         UNCHANGED <<disk, trash, journal, before>>
  PROVE  IInv'
<1>. TypeOK /\ Exclusive /\ Phase(t) /\ tx[t] \in Calls
  BY DEF IInv, TypeOK
<1>1. /\ tx' \in [Tx -> Calls]
      /\ tx'[t] = [tx[t] EXCEPT !.fate = "undone", !.result = result, !.pc = "done"]
      /\ \A u \in Tx \ {t} :
           tx'[u] = tx[u] /\ status'[u] = status[u] /\ need'[u] = need[u]
      /\ status' \in [Tx -> {"idle", "waiting", "inside"}]
      /\ need' \in [Tx -> SUBSET Path]
      /\ status'[t] = "idle" /\ need'[t] = {}
      /\ Exclusive'
  BY ReturnTyped DEF Fates
<1>2. /\ met' \in [{"faults", "crashes", "external"} -> Nat]
      /\ met'.external = met.external
  BY MeetTyped DEF TypeOK
<1>3. TypeOK'
  BY <1>1, <1>2 DEF TypeOK
<1>4. Local(t)
  BY <1>1, <1>2 DEF Local
<1>5. Phase(t)'
  BY <1>1, <1>2 DEF Calls, Phase, Locked, Looping, Ending, Fresh, Guarded, Saved,
    Undisturbed, Holding, Pcs, Early, Late, Mutating
<1>. QED BY <1>1, <1>3, <1>4, <1>5, Frame DEF IInv

LEMMA ThrowStep ==
  ASSUME IInv, NEW t \in Tx, tx[t].pc \in Early, Throw(t),
         UNCHANGED met \/ Meet("faults"),
         UNCHANGED <<disk, trash, journal, before>>
  PROVE  IInv'
  BY GiveUp DEF Throw, Results

LEMMA MakeDirStep ==
  ASSUME IInv, NEW t \in Tx, MakeDir(t)
  PROVE  IInv'
<1>. TypeOK /\ Exclusive /\ Phase(t) /\ tx[t].pc = "mkdir"
  BY DEF IInv, MakeDir, At
<1>1. CASE /\ journal' = [journal EXCEPT ![t].dir = TRUE]
           /\ Go(t, [tx[t] EXCEPT !.todo = need[t]], "copy")
           /\ UNCHANGED <<status, need, met>>
  <2>1. [tx[t] EXCEPT !.todo = need[t]] \in Calls
    <3>1. tx[t] \in Calls /\ need[t] \in SUBSET Path
      BY DEF TypeOK
    <3>. QED BY <3>1 DEF Calls
  <2>2. /\ tx' \in [Tx -> Calls]
        /\ tx'[t] = [[tx[t] EXCEPT !.todo = need[t]] EXCEPT !.pc = "copy"]
        /\ \A u \in Tx \ {t} : tx'[u] = tx[u]
    BY <1>1, <2>1, GoTyped DEF Pcs
  <2>3. TypeOK'
    <3>1. [journal[t] EXCEPT !.dir = TRUE] \in Journals
      BY DEF TypeOK, Journals
    <3>2. journal' \in [Tx -> Journals]
      BY <1>1, <3>1 DEF TypeOK
    <3>. QED BY <1>1, <2>2, <3>2 DEF TypeOK, MakeDir
  <2>4. Exclusive'
    BY <1>1 DEF Exclusive
  <2>5. Local(t)
    BY <1>1, <2>2 DEF Local, MakeDir, TypeOK
  <2>6. Phase(t)'
    BY <1>1, <2>2, <2>3 DEF MakeDir, TypeOK, Calls, Journals, Phase, Locked, Looping,
      Ending, Fresh, Guarded, Saved, Undisturbed, Holding, Pcs, Early, Late, Mutating
  <2>. QED BY <2>3, <2>4, <2>5, <2>6, Frame DEF IInv
<1>2. CASE Meet("faults") /\ Throw(t) /\ UNCHANGED journal
  BY <1>2, ThrowStep DEF MakeDir, Early
<1>. QED BY <1>1, <1>2 DEF MakeDir

LEMMA SubmitStep ==
  ASSUME IInv, NEW t \in Tx, Submit(t)
  PROVE  IInv'
<1>. TypeOK /\ Exclusive /\ Phase(t) /\ tx[t].pc = "idle" /\ tx[t] \in Calls
  BY DEF IInv, Submit, At, TypeOK
<1>1. PICK b \in Batches, d \in BOOLEAN :
        /\ Len(b) \in 1..MaxOps
        /\ Go(t, [tx[t] EXCEPT !.batch = b, !.dry = d], "queued")
        /\ Locks!Request(t, Touched(b))
  BY DEF Submit
<1>2. b \in Seq(Op) /\ Touched(b) \subseteq Path
  <2>1. b \in Seq(Op)
    BY TxAssumption
  <2>2. ASSUME NEW i \in 1..Len(b) PROVE PathsOf(b[i]) \subseteq Path
    BY <2>1, OpPaths
  <2>. QED BY <2>1, <2>2 DEF Touched
<1>3. [tx[t] EXCEPT !.batch = b, !.dry = d] \in Calls
  BY <1>2 DEF Calls
<1>4. /\ tx' \in [Tx -> Calls]
      /\ tx'[t] = [[tx[t] EXCEPT !.batch = b, !.dry = d] EXCEPT !.pc = "queued"]
      /\ \A u \in Tx \ {t} : tx'[u] = tx[u]
  BY <1>1, <1>3, GoTyped DEF Pcs
<1>5. /\ status' = [status EXCEPT ![t] = "waiting"]
      /\ need' = [need EXCEPT ![t] = Touched(b)]
  BY <1>1 DEF Locks!Request
<1>6. TypeOK'
  BY <1>2, <1>4, <1>5 DEF TypeOK, Submit
<1>7. Exclusive'
  BY <1>5 DEF Exclusive, TypeOK
<1>8. Local(t)
  BY <1>4, <1>5 DEF Local, Submit, TypeOK
<1>9. Phase(t)'
  BY <1>1, <1>2, <1>4, <1>5 DEF Submit, TypeOK, Calls, Phase, Locked, Looping, Ending,
    Fresh, Guarded, Saved, Undisturbed, Holding, Pcs, Early, Late, Mutating
<1>. QED BY <1>6, <1>7, <1>8, <1>9, Frame DEF IInv

LEMMA BeginStep ==
  ASSUME IInv, NEW t \in Tx, Begin(t)
  PROVE  IInv'
<1>. TypeOK /\ Exclusive /\ Phase(t) /\ tx[t].pc = "queued" /\ tx[t] \in Calls
  BY DEF IInv, Begin, At, TypeOK
<1>1. /\ tx' \in [Tx -> Calls]
      /\ tx'[t] = [tx[t] EXCEPT !.pc = "preflight"]
      /\ \A u \in Tx \ {t} : tx'[u] = tx[u]
  BY GoTyped DEF Begin, Pcs
<1>2. /\ status' = [status EXCEPT ![t] = "inside"]
      /\ UNCHANGED need
      /\ \A u \in Tx : status[u] = "inside" => need[u] \cap need[t] = {}
  BY DEF Begin, Locks!Enter
<1>3. TypeOK'
  BY <1>1, <1>2 DEF TypeOK, Begin
<1>4. Exclusive'
  BY <1>2 DEF Exclusive, TypeOK
<1>5. Local(t)
  BY <1>1, <1>2 DEF Local, Begin, TypeOK
<1>6. Phase(t)'
  BY <1>1, <1>2 DEF Begin, TypeOK, Calls, Phase, Locked, Looping, Ending,
    Fresh, Guarded, Saved, Undisturbed, Holding, Pcs, Early, Late, Mutating
<1>. QED BY <1>3, <1>4, <1>5, <1>6, Frame DEF IInv

(* load reads a path the op names, the first time; files that were read    *)
(* before stay as simulated.                                               *)
LEMMA LoadedTyped ==
  ASSUME TypeOK, NEW op \in Op, NEW files \in [Path -> File \cup {Unread}]
  PROVE  /\ Loaded(op, files) \in [Path -> File \cup {Unread}]
         /\ \A p \in PathsOf(op) : Loaded(op, files)[p] \in File
         /\ \A p \in Path :
              \/ Loaded(op, files)[p] = files[p]
              \/ p \in PathsOf(op) /\ Loaded(op, files)[p] = disk[p]
<1>1. PathsOf(op) \subseteq Path
  BY OpPaths
<1>2. \A p \in Path : disk[p] \in File
  BY DEF TypeOK, Vault
<1>. QED BY <1>1, <1>2 DEF Loaded, Unread

LEMMA PreflightStep ==
  ASSUME IInv, NEW t \in Tx, Preflight(t)
  PROVE  IInv'
<1>. DEFINE m == tx[t]
            op == OpOf(t)
            view == Loaded(op, m.view)
            next == [m EXCEPT !.view = Effect(op, view),
                              !.seen = Loaded(op, m.seen), !.step = @ + 1]
<1>. TypeOK /\ Exclusive /\ Phase(t) /\ m.pc = "preflight" /\ m \in Calls
  BY DEF IInv, Preflight, At, TypeOK
<1>1. op \in Op /\ PathsOf(op) \subseteq need[t] /\ m.step \in 1..Len(m.batch)
      /\ m.batch \in Seq(Op)
  <2>1. m.batch \in Seq(Op) /\ m.step \in 1..Len(m.batch) /\ need[t] = Touched(m.batch)
    BY DEF Calls, Phase, Looping, Locked, Holding, Pcs
  <2>. QED BY <2>1, OpTouched DEF OpOf
<1>2. /\ m.view \in [Path -> File \cup {Unread}]
      /\ m.seen \in [Path -> File \cup {Unread}]
  BY DEF Calls
<1>3. /\ Effect(op, view) \in [Path -> File \cup {Unread}]
      /\ Loaded(op, m.seen) \in [Path -> File \cup {Unread}]
      /\ \A p \in Path : \/ Loaded(op, m.seen)[p] = m.seen[p]
                         \/ p \in need[t] /\ Loaded(op, m.seen)[p] = disk[p]
  <2>1. /\ view \in [Path -> File \cup {Unread}]
        /\ \A p \in PathsOf(op) : view[p] \in File
    BY <1>1, <1>2, LoadedTyped
  <2>2. Effect(op, view) \in [Path -> File \cup {Unread}]
    BY <1>1, <2>1, EffectTyped
  <2>3. /\ Loaded(op, m.seen) \in [Path -> File \cup {Unread}]
        /\ \A p \in Path :
             \/ Loaded(op, m.seen)[p] = m.seen[p]
             \/ p \in PathsOf(op) /\ Loaded(op, m.seen)[p] = disk[p]
    BY <1>1, <1>2, LoadedTyped
  <2>. QED BY <1>1, <2>2, <2>3
<1>4. next \in Calls
  <2>. DEFINE V == Effect(op, view)
              S == Loaded(op, m.seen)
  <2>1. m.step + 1 \in Nat
    BY <1>1 DEF Calls
  <2>2. V \in [Path -> File \cup {Unread}] /\ S \in [Path -> File \cup {Unread}]
    BY <1>3
  <2>. HIDE DEF V, S
  <2>3. [m EXCEPT !.view = V, !.seen = S, !.step = @ + 1] \in Calls
    BY <2>1, <2>2 DEF Calls
  <2>. QED BY <2>3 DEF V, S
<1>5. ASSUME NEW pc \in {"preflight", "mkdir"}, Go(t, next, pc),
             pc = "preflight" => ~LastOp(t),
             UNCHANGED <<status, need, met>>
      PROVE  IInv'
  <2>1. /\ tx' \in [Tx -> Calls]
        /\ tx'[t] = [next EXCEPT !.pc = pc]
        /\ \A u \in Tx \ {t} : tx'[u] = tx[u]
    <3>1. pc \in Pcs
      BY <1>5 DEF Pcs
    <3>. HIDE DEF next
    <3>. QED BY <1>4, <1>5, <3>1, GoTyped
  <2>2. TypeOK'
    BY <1>5, <2>1 DEF TypeOK, Preflight
  <2>3. Exclusive'
    BY <1>5 DEF Exclusive
  <2>4. Local(t)
    BY <1>5, <2>1 DEF Local, Preflight
  <2>5. /\ tx'[t].pc = pc /\ tx'[t].seen = Loaded(op, m.seen) /\ tx'[t].step = m.step + 1
        /\ tx'[t].batch = m.batch /\ tx'[t].copied = m.copied
        /\ tx'[t].created = m.created /\ tx'[t].todo = m.todo /\ tx'[t].current = m.current
        /\ tx'[t].ending = m.ending /\ tx'[t].fate = m.fate
    BY <2>1 DEF Calls
  <2>6. Fresh(t)'
    BY <1>3, <1>5, <2>5 DEF Preflight, Phase, Fresh, Undisturbed, Early
  <2>7. Looping(t)'
    BY <1>1, <1>5, <2>5 DEF LastOp, Phase, Looping, Holding, Pcs, Early
  <2>8. Locked(t)' /\ Ending(t)' /\ Guarded(t)'
    BY <1>5, <2>5 DEF Preflight, Phase, Locked, Ending, Guarded, Holding, Pcs, Early, Late,
      Mutating
  <2>9. Phase(t)'
    BY <2>6, <2>7, <2>8 DEF Phase
  <2>. QED BY <2>2, <2>3, <2>4, <2>9, Frame DEF IInv
<1>6. ASSUME Return(t, next, "undone", "dry"), UNCHANGED met
      PROVE  IInv'
  <2>1. /\ tx' \in [Tx -> Calls]
        /\ tx'[t] = [next EXCEPT !.fate = "undone", !.result = "dry", !.pc = "done"]
        /\ \A u \in Tx \ {t} :
             tx'[u] = tx[u] /\ status'[u] = status[u] /\ need'[u] = need[u]
        /\ status' \in [Tx -> {"idle", "waiting", "inside"}]
        /\ need' \in [Tx -> SUBSET Path]
        /\ status'[t] = "idle" /\ need'[t] = {}
        /\ Exclusive'
    BY <1>4, <1>6, ReturnTyped DEF Fates, Results
  <2>2. TypeOK'
    BY <1>6, <2>1 DEF TypeOK, Preflight
  <2>3. Local(t)
    BY <1>6, <2>1 DEF Local, Preflight
  <2>4. tx'[t].pc = "done" /\ tx'[t].fate = "undone"
    BY <2>1 DEF Calls
  <2>5. Phase(t)'
    BY <2>1, <2>4 DEF Preflight, Phase, Locked, Looping, Ending, Fresh, Guarded, Holding,
      Pcs, Early, Late, Mutating
  <2>. QED BY <2>1, <2>2, <2>3, <2>5, Frame DEF IInv
<1>7. ASSUME Return(t, m, "undone", "refused"), UNCHANGED met \/ Meet("faults")
      PROVE  IInv'
  BY <1>7, GiveUp DEF Preflight, Early, Results
<1>. QED BY <1>5, <1>6, <1>7 DEF Preflight

(* t's journal becomes j. *)
LEMMA JournalTyped ==
  ASSUME TypeOK, NEW t \in Tx, NEW j \in Journals, journal' = [journal EXCEPT ![t] = j]
  PROVE  /\ journal' \in [Tx -> Journals]
         /\ journal'[t] = j
         /\ \A u \in Tx \ {t} : journal'[u] = journal[u]
  BY DEF TypeOK

LEMMA CopyStep ==
  ASSUME IInv, NEW t \in Tx, CopyPreImage(t)
  PROVE  IInv'
<1>. DEFINE Rest(p) == [tx[t] EXCEPT !.todo = @ \ {p}]
<1>. TypeOK /\ Exclusive /\ Phase(t) /\ tx[t].pc = "copy" /\ tx[t] \in Calls
  BY DEF IInv, CopyPreImage, At, TypeOK
<1>1. PICK p \in tx[t].todo :
       LET m == Rest(p) IN
       \/ /\ m.seen[p] = Absent
          /\ Go(t, [m EXCEPT !.created = @ \cup {p}], "copy")
          /\ UNCHANGED <<status, need, journal, met>>
       \/ /\ m.seen[p] # Absent /\ disk[p] # Absent
          /\ journal' = [journal EXCEPT ![t].bins[p] = disk[p]]
          /\ Go(t, [m EXCEPT !.copied = @ \cup {p}], "copy")
          /\ UNCHANGED <<status, need, met>>
       \/ /\ m.seen[p] # Absent /\ disk[p] = Absent
          /\ Throw(t)
          /\ UNCHANGED <<journal, met>>
       \/ /\ m.seen[p] # Absent
          /\ Meet("faults") /\ Throw(t)
          /\ UNCHANGED journal
  BY DEF CopyPreImage
<1>2. p \in Path /\ p \in need[t]
  BY DEF Calls, Phase, Looping
<1>3. Rest(p) \in Calls /\ Rest(p).seen = tx[t].seen
  BY DEF Calls
<1>4. CASE /\ tx[t].seen[p] = Absent
           /\ Go(t, [Rest(p) EXCEPT !.created = @ \cup {p}], "copy")
           /\ UNCHANGED <<status, need, journal, met>>
  <2>1. [Rest(p) EXCEPT !.created = @ \cup {p}] \in Calls
    BY <1>2, <1>3 DEF Calls
  <2>2. /\ tx' \in [Tx -> Calls]
        /\ tx'[t] = [[Rest(p) EXCEPT !.created = @ \cup {p}] EXCEPT !.pc = "copy"]
        /\ \A u \in Tx \ {t} : tx'[u] = tx[u]
    BY <1>4, <2>1, GoTyped DEF Pcs
  <2>3. TypeOK'
    BY <1>4, <2>2 DEF TypeOK, CopyPreImage
  <2>4. Exclusive' /\ Local(t)
    BY <1>4, <2>2 DEF Exclusive, Local, CopyPreImage
  <2>5. Undisturbed => before[t][p] = Absent
    BY <1>2, <1>4, VaultAssumption DEF Phase, Fresh, Early, Unread
  <2>6. Phase(t)'
    BY <1>4, <2>2, <2>5 DEF CopyPreImage, Calls, Phase, Locked, Looping, Ending,
      Fresh, Guarded, Saved, Undisturbed, Holding, Pcs, Early, Late, Mutating
  <2>. QED BY <2>3, <2>4, <2>6, Frame DEF IInv
<1>5. CASE /\ disk[p] # Absent
           /\ journal' = [journal EXCEPT ![t].bins[p] = disk[p]]
           /\ Go(t, [Rest(p) EXCEPT !.copied = @ \cup {p}], "copy")
           /\ UNCHANGED <<status, need, met>>
  <2>. DEFINE bins == [journal[t].bins EXCEPT ![p] = disk[p]]
              j == [journal[t] EXCEPT !.bins = bins]
  <2>1. [Rest(p) EXCEPT !.copied = @ \cup {p}] \in Calls
    BY <1>2, <1>3 DEF Calls
  <2>2. /\ tx' \in [Tx -> Calls]
        /\ tx'[t] = [[Rest(p) EXCEPT !.copied = @ \cup {p}] EXCEPT !.pc = "copy"]
        /\ \A u \in Tx \ {t} : tx'[u] = tx[u]
    BY <1>5, <2>1, GoTyped DEF Pcs
  <2>3. journal[t] \in Journals /\ bins \in Vault
    BY <1>2 DEF TypeOK, Journals, Vault
  <2>4. j \in Journals /\ j.bins = bins /\ j.dir = journal[t].dir
        /\ j.manifest = journal[t].manifest
    BY <2>3 DEF Journals
  <2>5. /\ journal' \in [Tx -> Journals] /\ journal'[t] = j
        /\ \A u \in Tx \ {t} : journal'[u] = journal[u]
    <3>1. journal' = [journal EXCEPT ![t] = j]
      BY <1>5
    <3>. QED BY <2>4, <3>1, JournalTyped
  <2>6. TypeOK'
    BY <1>5, <2>2, <2>5 DEF TypeOK, CopyPreImage
  <2>7. Exclusive' /\ Local(t)
    BY <1>5, <2>2, <2>5 DEF Exclusive, Local, CopyPreImage
  <2>8. Undisturbed => disk[p] = before[t][p]
    BY <1>2 DEF Phase, Fresh
  <2>9. \A q \in Path : journal'[t].bins[q] = IF q = p THEN disk[p] ELSE journal[t].bins[q]
    BY <1>2, <2>3, <2>4, <2>5 DEF Journals, Vault
  <2>10. /\ tx'[t].copied = tx[t].copied \cup {p} /\ tx'[t].todo = tx[t].todo \ {p}
         /\ tx'[t].created = tx[t].created /\ tx'[t].pc = "copy" /\ tx'[t].seen = tx[t].seen
         /\ tx'[t].batch = tx[t].batch /\ tx'[t].fate = tx[t].fate
         /\ tx'[t].current = tx[t].current /\ tx[t].copied \subseteq Path
    BY <2>2 DEF Calls
  <2>11. Saved(t)'
    <3>1. \A q \in tx[t].copied : journal[t].bins[q] # Absent
      BY DEF Phase, Guarded, Saved
    <3>2. Undisturbed =>
            /\ \A q \in tx[t].copied : journal[t].bins[q] = before[t][q]
            /\ \A q \in tx[t].created : before[t][q] = Absent
      BY DEF Phase, Guarded, Saved
    <3>3. before' = before /\ (Undisturbed' <=> Undisturbed)
      BY <1>5 DEF CopyPreImage, Undisturbed
    <3>4. \A q \in tx'[t].copied : q \in Path /\ (q = p \/ q \in tx[t].copied)
      BY <1>2, <2>10
    <3>5. \A q \in tx'[t].copied : journal'[t].bins[q] # Absent
      BY <1>5, <2>9, <3>1, <3>4
    <3>6. Undisturbed => \A q \in tx'[t].copied : journal'[t].bins[q] = before[t][q]
      BY <2>8, <2>9, <3>2, <3>4
    <3>. QED BY <2>10, <3>2, <3>3, <3>5, <3>6 DEF Saved
  <2>12. Phase(t)'
    BY <1>5, <2>4, <2>5, <2>10, <2>11 DEF CopyPreImage, Phase, Locked, Looping, Ending,
      Fresh, Guarded, Undisturbed, Holding, Pcs, Early, Late, Mutating
  <2>. QED BY <2>6, <2>7, <2>12, Frame DEF IInv
<1>6. CASE Throw(t) /\ UNCHANGED journal /\ (UNCHANGED met \/ Meet("faults"))
  BY <1>6, ThrowStep DEF CopyPreImage, Early
<1>. QED BY <1>1, <1>3, <1>4, <1>5, <1>6

LEMMA ManifestStep ==
  ASSUME IInv, NEW t \in Tx, WriteManifest(t)
  PROVE  IInv'
<1>. TypeOK /\ Exclusive /\ Phase(t) /\ tx[t].pc = "copy" /\ tx[t] \in Calls
     /\ tx[t].todo = {}
  BY DEF IInv, WriteManifest, At, TypeOK
<1>1. CASE /\ journal' = [journal EXCEPT ![t].manifest = "applying"]
           /\ Go(t, [tx[t] EXCEPT !.step = 1], "apply")
           /\ UNCHANGED <<status, need, met>>
  <2>. DEFINE j == [journal[t] EXCEPT !.manifest = "applying"]
  <2>1. [tx[t] EXCEPT !.step = 1] \in Calls
    BY DEF Calls
  <2>2. /\ tx' \in [Tx -> Calls]
        /\ tx'[t] = [[tx[t] EXCEPT !.step = 1] EXCEPT !.pc = "apply"]
        /\ \A u \in Tx \ {t} : tx'[u] = tx[u]
    BY <1>1, <2>1, GoTyped DEF Pcs
  <2>3. j \in Journals /\ j.bins = journal[t].bins /\ j.dir = journal[t].dir
        /\ j.manifest = "applying"
    BY DEF TypeOK, Journals, States
  <2>4. /\ journal' \in [Tx -> Journals] /\ journal'[t] = j
        /\ \A u \in Tx \ {t} : journal'[u] = journal[u]
    <3>1. journal' = [journal EXCEPT ![t] = j]
      BY <1>1
    <3>. QED BY <2>3, <3>1, JournalTyped
  <2>5. TypeOK'
    BY <1>1, <2>2, <2>4 DEF TypeOK, WriteManifest
  <2>6. Exclusive' /\ Local(t)
    BY <1>1, <2>2, <2>4 DEF Exclusive, Local, WriteManifest
  <2>7. /\ tx'[t].pc = "apply" /\ tx'[t].step = 1 /\ tx'[t].current = tx[t].current
        /\ tx'[t].copied = tx[t].copied /\ tx'[t].created = tx[t].created
        /\ tx'[t].batch = tx[t].batch /\ tx'[t].fate = tx[t].fate
    BY <2>2 DEF Calls
  <2>8. Saved(t)'
    BY <1>1, <2>3, <2>4, <2>7 DEF WriteManifest, Phase, Guarded, Saved, Undisturbed
  <2>9. Phase(t)'
    BY <1>1, <2>3, <2>4, <2>7, <2>8 DEF WriteManifest, Phase, Locked, Looping, Ending,
      Fresh, Guarded, Undisturbed, Holding, Pcs, Early, Late, Mutating
  <2>. QED BY <2>5, <2>6, <2>9, Frame DEF IInv
<1>2. CASE Meet("faults") /\ Throw(t) /\ UNCHANGED journal
  BY <1>2, ThrowStep DEF WriteManifest, Early
<1>. QED BY <1>1, <1>2 DEF WriteManifest

(* A step of a call that mutates the vault: it stays within its locks and   *)
(* leaves its journal alone.                                               *)
LEMMA MutatingStep ==
  ASSUME IInv, NEW t \in Tx, NEW m \in Calls, NEW pc \in Mutating,
         tx[t].pc \in Mutating, Go(t, m, pc),
         m.batch = tx[t].batch, m.copied = tx[t].copied, m.created = tx[t].created,
         m.fate = tx[t].fate,
         pc = "apply" => m.step \in 1..Len(m.batch),
         pc \in {"restore", "restoring"} => m.todo \cup m.current \subseteq m.copied,
         pc # "restoring" => m.current = {},
         pc = "uncreate" => m.todo \subseteq m.created,
         pc \in {"restore", "restoring", "uncreate"} => m.ending = "rolled-back",
         pc = "flip" => m.ending \in {"applied", "rolled-back"},
         disk' \in Vault,
         \A p \in Path \ need[t] : disk'[p] = disk[p],
         trash' \subseteq Path \X Bytes,
         UNCHANGED met \/ Meet("faults"),
         UNCHANGED <<status, need, journal, before>>
  PROVE  IInv'
<1>. TypeOK /\ Exclusive /\ Phase(t) /\ tx[t] \in Calls /\ pc \in Pcs
  BY DEF IInv, TypeOK, Mutating, Pcs
<1>1. /\ tx' \in [Tx -> Calls]
      /\ tx'[t] = [m EXCEPT !.pc = pc]
      /\ \A u \in Tx \ {t} : tx'[u] = tx[u]
  BY GoTyped
<1>2. /\ met' \in [{"faults", "crashes", "external"} -> Nat]
      /\ met'.external = met.external
  BY MeetTyped DEF TypeOK
<1>3. TypeOK'
  BY <1>1, <1>2 DEF TypeOK
<1>4. Exclusive'
  BY DEF Exclusive
<1>5. Local(t)
  BY <1>1, <1>2 DEF Local, Mutating, Holding, Pcs
<1>6. /\ tx'[t].pc = pc /\ tx'[t].batch = tx[t].batch /\ tx'[t].copied = tx[t].copied
      /\ tx'[t].created = tx[t].created /\ tx'[t].fate = tx[t].fate
      /\ tx'[t].step = m.step /\ tx'[t].todo = m.todo /\ tx'[t].current = m.current
      /\ tx'[t].ending = m.ending
  BY <1>1 DEF Calls
<1>7. Saved(t)'
  BY <1>2, <1>6 DEF Phase, Guarded, Saved, Undisturbed
<1>8. Locked(t)' /\ Looping(t)' /\ Ending(t)' /\ Fresh(t)'
  BY <1>6 DEF Phase, Locked, Looping, Ending, Fresh, Holding, Pcs, Early, Late, Mutating
<1>9. Guarded(t)'
  BY <1>6, <1>7 DEF Phase, Guarded, Mutating
<1>. QED BY <1>3, <1>4, <1>5, <1>8, <1>9, Frame DEF IInv, Phase

(* A rollback that cannot finish. *)
LEMMA StuckStep ==
  ASSUME IInv, NEW t \in Tx, tx[t].pc \in Mutating, Stuck(t), Meet("faults"),
         UNCHANGED <<disk, trash, journal, before>>
  PROVE  IInv'
<1>. TypeOK /\ Exclusive /\ Phase(t) /\ tx[t] \in Calls
  BY DEF IInv, TypeOK
<1>1. /\ tx' \in [Tx -> Calls]
      /\ tx'[t] = [tx[t] EXCEPT !.fate = "interrupted", !.result = "stuck", !.pc = "done"]
      /\ \A u \in Tx \ {t} :
           tx'[u] = tx[u] /\ status'[u] = status[u] /\ need'[u] = need[u]
      /\ status' \in [Tx -> {"idle", "waiting", "inside"}]
      /\ need' \in [Tx -> SUBSET Path]
      /\ status'[t] = "idle" /\ need'[t] = {}
      /\ Exclusive'
  BY ReturnTyped DEF Stuck, Fates, Results
<1>2. /\ met' \in [{"faults", "crashes", "external"} -> Nat]
      /\ met'.external = met.external
  BY MeetTyped
<1>3. TypeOK'
  BY <1>1, <1>2 DEF TypeOK
<1>4. Local(t)
  BY <1>1, <1>2 DEF Local
<1>5. /\ tx'[t].pc = "done" /\ tx'[t].fate = "interrupted"
      /\ tx'[t].batch = tx[t].batch /\ tx'[t].copied = tx[t].copied
      /\ tx'[t].created = tx[t].created
  BY <1>1 DEF Calls
<1>6. Guarded(t)'
  BY <1>2, <1>5 DEF Phase, Guarded, Saved, Undisturbed
<1>7. Locked(t)' /\ Looping(t)' /\ Ending(t)' /\ Fresh(t)'
  BY <1>1, <1>5 DEF Phase, Locked, Looping, Ending, Fresh, Holding, Pcs, Early, Late, Mutating
<1>. QED BY <1>1, <1>3, <1>4, <1>6, <1>7, Frame DEF IInv, Phase

LEMMA ApplyStep ==
  ASSUME IInv, NEW t \in Tx, Apply(t)
  PROVE  IInv'
<1>. DEFINE m == tx[t]
            op == OpOf(t)
            undo == [m EXCEPT !.todo = m.copied, !.ending = "rolled-back"]
<1>. TypeOK /\ Phase(t) /\ m.pc = "apply" /\ m \in Calls
  BY DEF IInv, Apply, At, TypeOK
<1>1. op \in Op /\ PathsOf(op) \subseteq need[t] /\ m.step \in 1..Len(m.batch)
      /\ m.batch \in Seq(Op) /\ m.current = {}
  <2>1. m.batch \in Seq(Op) /\ m.step \in 1..Len(m.batch) /\ need[t] = Touched(m.batch)
        /\ m.current = {}
    BY DEF Calls, Phase, Looping, Locked, Holding, Pcs
  <2>. QED BY <2>1, OpTouched DEF OpOf
<1>2. /\ Effect(op, disk) \in Vault
      /\ \A p \in Path \ need[t] : Effect(op, disk)[p] = disk[p]
  <2>1. disk \in Vault
    BY DEF TypeOK
  <2>. HIDE DEF op
  <2>2. /\ Effect(op, disk) \in Vault
        /\ \A p \in Path \ PathsOf(op) : Effect(op, disk)[p] = disk[p]
    BY <1>1, <2>1, VaultEffect
  <2>. QED BY <1>1, <2>2
<1>3. ASSUME Applies(op, disk) PROVE trash \cup Trashed(op) \subseteq Path \X Bytes
  <2>1. CASE op.op = "delete"
    <3>1. disk[op.path] # Absent
      BY <1>3, <2>1 DEF Applies, Ready
    <3>2. op.path \in Path /\ disk[op.path] \in File
      BY <1>1, <2>1 DEF Op, TypeOK, Vault
    <3>. QED BY <3>1, <3>2 DEF Trashed, TypeOK, File
  <2>2. CASE op.op # "delete"
    BY <2>2 DEF Trashed, TypeOK
  <2>. QED BY <2>1, <2>2
<1>4. undo \in Calls /\ undo.batch = m.batch /\ undo.copied = m.copied
      /\ undo.created = m.created /\ undo.fate = m.fate /\ undo.todo = m.copied
      /\ undo.current = {} /\ undo.ending = "rolled-back"
  BY <1>1 DEF Calls, States
<1>5. ASSUME disk' \in Vault, \A p \in Path \ need[t] : disk'[p] = disk[p],
             trash' \subseteq Path \X Bytes, UNCHANGED met \/ Meet("faults"),
             Go(t, undo, "restore")
      PROVE  IInv'
  <2>. HIDE DEF undo
  <2>. QED BY <1>4, <1>5, MutatingStep DEF Apply, Mutating
<1>6. CASE Applies(op, disk) /\ disk' = Effect(op, disk)
           /\ trash' = trash \cup Trashed(op)
           /\ LastOp(t) /\ Go(t, [m EXCEPT !.ending = "applied"], "flip")
           /\ UNCHANGED met
  <2>. DEFINE n == [m EXCEPT !.ending = "applied"]
  <2>1. n \in Calls /\ n.batch = m.batch /\ n.copied = m.copied /\ n.created = m.created
        /\ n.fate = m.fate /\ n.ending = "applied" /\ n.current = {}
    BY <1>1 DEF Calls, States
  <2>. HIDE DEF n
  <2>2. Go(t, n, "flip")
    BY <1>6 DEF n
  <2>. QED BY <1>2, <1>3, <1>6, <2>1, <2>2, MutatingStep DEF Apply, Mutating
<1>7. CASE Applies(op, disk) /\ disk' = Effect(op, disk)
           /\ trash' = trash \cup Trashed(op)
           /\ ~LastOp(t) /\ Go(t, [m EXCEPT !.step = @ + 1], "apply")
           /\ UNCHANGED met
  <2>. DEFINE n == [m EXCEPT !.step = @ + 1]
  <2>1. n \in Calls /\ n.batch = m.batch /\ n.copied = m.copied /\ n.created = m.created
        /\ n.fate = m.fate /\ n.step = m.step + 1 /\ n.current = {}
    BY <1>1 DEF Calls
  <2>2. n.step \in 1..Len(n.batch)
    BY <1>1, <1>7, <2>1 DEF LastOp
  <2>. HIDE DEF n
  <2>3. Go(t, n, "apply")
    BY <1>7 DEF n
  <2>. QED BY <1>2, <1>3, <1>7, <2>1, <2>2, <2>3, MutatingStep DEF Apply, Mutating
<1>8. CASE ~Applies(op, disk) /\ Go(t, undo, "restore") /\ UNCHANGED <<disk, trash, met>>
  BY <1>5, <1>8 DEF TypeOK
<1>9. CASE Meet("faults") /\ Go(t, undo, "restore") /\ UNCHANGED <<disk, trash>>
  BY <1>5, <1>9 DEF TypeOK
<1>10. CASE /\ Applies(op, disk)
            /\ disk' = Effect(op, disk)
            /\ trash' = trash \cup Trashed(op)
            /\ Meet("faults")
            /\ Go(t, [undo EXCEPT !.step = @ + 1], "restore")
  <2>. DEFINE n == [undo EXCEPT !.step = @ + 1]
  <2>1. n \in Calls /\ n.batch = m.batch /\ n.copied = m.copied /\ n.created = m.created
        /\ n.fate = m.fate /\ n.todo = m.copied /\ n.current = {}
        /\ n.ending = "rolled-back"
    <3>1. ASSUME NEW c \in Calls, NEW k \in Nat
          PROVE  LET d == [c EXCEPT !.step = k] IN
                 /\ d \in Calls /\ d.batch = c.batch /\ d.copied = c.copied
                 /\ d.created = c.created /\ d.fate = c.fate /\ d.todo = c.todo
                 /\ d.current = c.current /\ d.ending = c.ending
      BY DEF Calls
    <3>2. undo.step + 1 \in Nat
      BY <1>1 DEF Calls
    <3>. HIDE DEF undo
    <3>. QED BY <1>4, <3>1, <3>2
  <2>. HIDE DEF n
  <2>2. Go(t, n, "restore")
    BY <1>10 DEF n
  <2>. QED BY <1>2, <1>3, <1>10, <2>1, <2>2, MutatingStep DEF Apply, Mutating
<1>. QED BY <1>6, <1>7, <1>8, <1>9, <1>10 DEF Apply

LEMMA BeginRestoreStep ==
  ASSUME IInv, NEW t \in Tx, BeginRestore(t)
  PROVE  IInv'
<1>. TypeOK /\ Phase(t) /\ tx[t].pc = "restore" /\ tx[t] \in Calls
  BY DEF IInv, BeginRestore, At, TypeOK
<1>1. CASE Meet("faults") /\ Stuck(t) /\ UNCHANGED disk
  BY <1>1, StuckStep DEF BeginRestore, Mutating
<1>2. ASSUME NEW p \in tx[t].todo,
             disk' = [disk EXCEPT ![p] = Torn],
             Go(t, [tx[t] EXCEPT !.current = {p}, !.todo = @ \ {p}], "restoring"),
             UNCHANGED <<status, need, met>>
      PROVE  IInv'
  <2>. DEFINE n == [tx[t] EXCEPT !.current = {p}, !.todo = @ \ {p}]
  <2>1. p \in tx[t].copied /\ p \in Path /\ p \in need[t] /\ tx[t].todo \subseteq tx[t].copied
        /\ tx[t].ending = "rolled-back"
    BY <1>2 DEF Calls, Phase, Looping, Locked, Guarded, Ending, Mutating, Holding, Pcs
  <2>2. n \in Calls /\ n.batch = tx[t].batch /\ n.copied = tx[t].copied
        /\ n.created = tx[t].created /\ n.fate = tx[t].fate
        /\ n.todo \cup n.current \subseteq n.copied /\ n.ending = "rolled-back"
    BY <2>1 DEF Calls
  <2>3. /\ disk' \in Vault
        /\ \A q \in Path \ need[t] : disk'[q] = disk[q]
    BY <1>2, <2>1 DEF TypeOK, Vault, File, Bytes
  <2>. HIDE DEF n
  <2>4. Go(t, n, "restoring")
    BY <1>2 DEF n
  <2>. QED BY <1>2, <2>2, <2>3, <2>4, MutatingStep DEF BeginRestore, Mutating, TypeOK
<1>. QED BY <1>1, <1>2 DEF BeginRestore

LEMMA EndRestoreStep ==
  ASSUME IInv, NEW t \in Tx, EndRestore(t)
  PROVE  IInv'
<1>. TypeOK /\ Phase(t) /\ tx[t].pc = "restoring" /\ tx[t] \in Calls
  BY DEF IInv, EndRestore, At, TypeOK
<1>1. CASE Meet("faults") /\ Stuck(t) /\ UNCHANGED disk
  BY <1>1, StuckStep DEF EndRestore, Mutating
<1>2. ASSUME disk' = [p \in Path |-> IF p \in tx[t].current
                                     THEN journal[t].bins[p] ELSE disk[p]],
             Go(t, [tx[t] EXCEPT !.current = {}], "restore"),
             UNCHANGED <<status, need, met>>
      PROVE  IInv'
  <2>. DEFINE n == [tx[t] EXCEPT !.current = {}]
  <2>1. tx[t].current \subseteq need[t] /\ tx[t].todo \subseteq tx[t].copied
        /\ tx[t].ending = "rolled-back"
    BY DEF Calls, Phase, Looping, Locked, Guarded, Ending, Mutating, Holding, Pcs
  <2>2. n \in Calls /\ n.batch = tx[t].batch /\ n.copied = tx[t].copied
        /\ n.created = tx[t].created /\ n.fate = tx[t].fate
        /\ n.todo \cup n.current \subseteq n.copied /\ n.ending = "rolled-back"
        /\ n.current = {}
    BY <2>1 DEF Calls
  <2>3. journal[t].bins \in Vault
    BY DEF TypeOK, Journals
  <2>4. /\ disk' \in Vault
        /\ \A q \in Path \ need[t] : disk'[q] = disk[q]
    BY <1>2, <2>1, <2>3 DEF TypeOK, Vault
  <2>. HIDE DEF n
  <2>5. Go(t, n, "restore")
    BY <1>2 DEF n
  <2>. QED BY <1>2, <2>2, <2>4, <2>5, MutatingStep DEF EndRestore, Mutating, TypeOK
<1>. QED BY <1>1, <1>2 DEF EndRestore

LEMMA RestoredStep ==
  ASSUME IInv, NEW t \in Tx, Restored(t)
  PROVE  IInv'
<1>. TypeOK /\ Phase(t) /\ tx[t].pc = "restore" /\ tx[t] \in Calls
  BY DEF IInv, Restored, At, TypeOK
<1>. DEFINE n == [tx[t] EXCEPT !.todo = tx[t].created]
<1>1. n \in Calls /\ n.batch = tx[t].batch /\ n.copied = tx[t].copied
      /\ n.created = tx[t].created /\ n.fate = tx[t].fate
      /\ n.todo = n.created /\ n.ending = "rolled-back" /\ n.current = {}
  BY DEF Calls, Phase, Looping, Ending
<1>. HIDE DEF n
<1>2. Go(t, n, "uncreate")
  BY DEF n, Restored
<1>. QED BY <1>1, <1>2, MutatingStep DEF Restored, Mutating, TypeOK

LEMMA UncreateStep ==
  ASSUME IInv, NEW t \in Tx, Uncreate(t)
  PROVE  IInv'
<1>. TypeOK /\ Phase(t) /\ tx[t].pc = "uncreate" /\ tx[t] \in Calls
  BY DEF IInv, Uncreate, At, TypeOK
<1>1. CASE Meet("faults") /\ Stuck(t) /\ UNCHANGED disk
  BY <1>1, StuckStep DEF Uncreate, Mutating
<1>2. ASSUME NEW p \in tx[t].todo,
             disk' = [disk EXCEPT ![p] = Absent],
             Go(t, [tx[t] EXCEPT !.todo = @ \ {p}], "uncreate"),
             UNCHANGED <<status, need, met>>
      PROVE  IInv'
  <2>. DEFINE n == [tx[t] EXCEPT !.todo = @ \ {p}]
  <2>1. p \in tx[t].created /\ p \in Path /\ p \in need[t]
        /\ tx[t].todo \subseteq tx[t].created /\ tx[t].ending = "rolled-back"
        /\ tx[t].current = {}
    BY <1>2 DEF Calls, Phase, Looping, Locked, Guarded, Ending, Mutating, Holding, Pcs
  <2>2. n \in Calls /\ n.batch = tx[t].batch /\ n.copied = tx[t].copied
        /\ n.created = tx[t].created /\ n.fate = tx[t].fate
        /\ n.todo \subseteq n.created /\ n.ending = "rolled-back" /\ n.current = {}
    BY <2>1 DEF Calls
  <2>3. /\ disk' \in Vault
        /\ \A q \in Path \ need[t] : disk'[q] = disk[q]
    BY <1>2, <2>1 DEF TypeOK, Vault, File
  <2>. HIDE DEF n
  <2>4. Go(t, n, "uncreate")
    BY <1>2 DEF n
  <2>. QED BY <1>2, <2>2, <2>3, <2>4, MutatingStep DEF Uncreate, Mutating, TypeOK
<1>. QED BY <1>1, <1>2 DEF Uncreate

LEMMA UndoneStep ==
  ASSUME IInv, NEW t \in Tx, Undone(t)
  PROVE  IInv'
<1>. TypeOK /\ Phase(t) /\ tx[t].pc = "uncreate" /\ tx[t] \in Calls
  BY DEF IInv, Undone, At, TypeOK
<1>1. tx[t].ending = "rolled-back" /\ tx[t].current = {}
  BY DEF Phase, Ending, Looping
<1>. QED BY <1>1, MutatingStep DEF Undone, Mutating, TypeOK

(* A step of a call that has recorded its end, or records it now. *)
LEMMA FlipStep ==
  ASSUME IInv, NEW t \in Tx, Flip(t)
  PROVE  IInv'
<1>. DEFINE fate == IF tx[t].ending = "applied" THEN "committed" ELSE "undone"
            n == [tx[t] EXCEPT !.fate = fate]
            j == [journal[t] EXCEPT !.manifest = tx[t].ending]
<1>. TypeOK /\ Exclusive /\ Phase(t) /\ tx[t].pc = "flip" /\ tx[t] \in Calls
     /\ journal[t] \in Journals
  BY DEF IInv, Flip, At, TypeOK
<1>1. tx[t].ending \in {"applied", "rolled-back"} /\ journal[t].manifest = "applying"
      /\ tx[t].current = {}
  BY DEF Phase, Ending, Guarded, Looping, Mutating
<1>2. n \in Calls
  BY DEF Calls, Fates
<1>3. /\ tx' \in [Tx -> Calls]
      /\ tx'[t] = [n EXCEPT !.pc = "remove"]
      /\ \A u \in Tx \ {t} : tx'[u] = tx[u]
  <2>1. Go(t, n, "remove")
    BY DEF Flip
  <2>. HIDE DEF n
  <2>. QED BY <1>2, <2>1, GoTyped DEF Pcs
<1>4. /\ tx'[t].pc = "remove" /\ tx'[t].batch = tx[t].batch /\ tx'[t].fate = fate
      /\ tx'[t].ending = tx[t].ending /\ tx'[t].current = {}
  BY <1>1, <1>3 DEF Calls
<1>5. j \in Journals /\ j.manifest = tx[t].ending
  BY <1>1 DEF Journals, States
<1>6. /\ journal' \in [Tx -> Journals]
      /\ journal'[t] \in {j, journal[t]}
      /\ \A u \in Tx \ {t} : journal'[u] = journal[u]
  <2>1. CASE UNCHANGED journal
    BY <2>1 DEF TypeOK
  <2>2. CASE journal' = [journal EXCEPT ![t].manifest = tx[t].ending]
    <3>1. journal' = [journal EXCEPT ![t] = j]
      BY <2>2
    <3>. HIDE DEF j
    <3>. QED BY <1>5, <3>1, JournalTyped
  <2>. QED BY <2>1, <2>2 DEF Flip
<1>7. /\ met' \in [{"faults", "crashes", "external"} -> Nat]
      /\ met'.external = met.external
  BY MeetTyped DEF Flip, TypeOK
<1>8. TypeOK'
  BY <1>3, <1>6, <1>7 DEF Flip, TypeOK
<1>9. Exclusive' /\ Local(t)
  BY <1>3, <1>6, <1>7 DEF Flip, Exclusive, Local
<1>10. Ending(t)'
  BY <1>1, <1>4, <1>5, <1>6 DEF Ending, Late, Early
<1>11. Locked(t)' /\ Looping(t)' /\ Fresh(t)' /\ Guarded(t)'
  BY <1>4 DEF Flip, Phase, Locked, Looping, Fresh, Guarded, Holding, Pcs, Early, Mutating
<1>. QED BY <1>8, <1>9, <1>10, <1>11, Frame DEF IInv, Phase

LEMMA RemoveEntryStep ==
  ASSUME IInv, NEW t \in Tx, RemoveEntry(t)
  PROVE  IInv'
<1>. TypeOK /\ Exclusive /\ Phase(t) /\ tx[t].pc = "remove" /\ tx[t] \in Calls
     /\ journal[t] \in Journals
  BY DEF IInv, RemoveEntry, At, TypeOK
<1>1. /\ journal' \in [Tx -> Journals]
      /\ journal'[t].manifest \in {"none", journal[t].manifest}
      /\ \A u \in Tx \ {t} : journal'[u] = journal[u]
  <2>1. CASE journal' = [journal EXCEPT ![t].manifest = "none"]
    <3>. DEFINE j == [journal[t] EXCEPT !.manifest = "none"]
    <3>1. j \in Journals /\ j.manifest = "none"
      BY DEF Journals, States
    <3>2. journal' = [journal EXCEPT ![t] = j]
      BY <2>1
    <3>. HIDE DEF j
    <3>. QED BY <3>1, <3>2, JournalTyped
  <2>2. ASSUME NEW p \in Path, journal' = [journal EXCEPT ![t].bins[p] = Absent]
        PROVE  <1>1!1 /\ <1>1!2 /\ <1>1!3
    <3>. DEFINE bins == [journal[t].bins EXCEPT ![p] = Absent]
                j == [journal[t] EXCEPT !.bins = bins]
    <3>1. bins \in Vault
      BY DEF Journals, Vault, File
    <3>2. j \in Journals /\ j.manifest = journal[t].manifest
      BY <3>1 DEF Journals
    <3>3. journal' = [journal EXCEPT ![t] = j]
      BY <2>2
    <3>. HIDE DEF j
    <3>. QED BY <3>2, <3>3, JournalTyped
  <2>. QED BY <2>1, <2>2 DEF RemoveEntry
<1>2. TypeOK'
  BY <1>1 DEF RemoveEntry, TypeOK
<1>3. Exclusive' /\ Local(t)
  BY <1>1 DEF RemoveEntry, Exclusive, Local
<1>4. Ending(t)'
  BY <1>1 DEF RemoveEntry, Phase, Ending, Late, Early
<1>5. Locked(t)' /\ Looping(t)' /\ Fresh(t)'
  BY DEF RemoveEntry, Phase, Locked, Looping, Fresh, Undisturbed
<1>6. Guarded(t)'
  BY DEF RemoveEntry, Phase, Ending, Guarded, Mutating
<1>. QED BY <1>2, <1>3, <1>4, <1>5, <1>6, Frame DEF IInv, Phase

LEMMA CloseStep ==
  ASSUME IInv, NEW t \in Tx, Close(t)
  PROVE  IInv'
<1>. TypeOK /\ Exclusive /\ Phase(t) /\ tx[t].pc = "remove" /\ tx[t] \in Calls
     /\ journal[t] \in Journals
  BY DEF IInv, Close, At, TypeOK
<1>1. tx[t].ending \in Results /\ tx[t].fate \in Fates /\ tx[t].fate # "interrupted"
  BY DEF Phase, Ending, Calls, Results
<1>2. /\ tx' \in [Tx -> Calls]
      /\ tx'[t] = [tx[t] EXCEPT !.fate = tx[t].fate, !.result = tx[t].ending, !.pc = "done"]
      /\ \A u \in Tx \ {t} :
           tx'[u] = tx[u] /\ status'[u] = status[u] /\ need'[u] = need[u]
      /\ status' \in [Tx -> {"idle", "waiting", "inside"}]
      /\ need' \in [Tx -> SUBSET Path]
      /\ status'[t] = "idle" /\ need'[t] = {}
      /\ Exclusive'
  BY <1>1, ReturnTyped DEF Close
<1>3. tx'[t].pc = "done" /\ tx'[t].fate = tx[t].fate
  BY <1>2 DEF Calls
<1>4. /\ journal' \in [Tx -> Journals]
      /\ journal'[t].manifest = journal[t].manifest
      /\ \A u \in Tx \ {t} : journal'[u] = journal[u]
  <2>1. CASE journal' = [journal EXCEPT ![t].dir = FALSE]
    <3>. DEFINE j == [journal[t] EXCEPT !.dir = FALSE]
    <3>1. j \in Journals /\ j.manifest = journal[t].manifest
      BY DEF Journals
    <3>2. journal' = [journal EXCEPT ![t] = j]
      BY <2>1
    <3>. HIDE DEF j
    <3>. QED BY <3>1, <3>2, JournalTyped
  <2>2. CASE UNCHANGED journal
    BY <2>2 DEF TypeOK
  <2>. QED BY <2>1, <2>2 DEF Close
<1>5. /\ met' \in [{"faults", "crashes", "external"} -> Nat]
      /\ met'.external = met.external
  BY MeetTyped DEF Close, TypeOK
<1>6. TypeOK'
  BY <1>2, <1>4, <1>5 DEF Close, TypeOK
<1>7. Local(t)
  BY <1>2, <1>4, <1>5 DEF Close, Local
<1>8. Phase(t)'
  BY <1>1, <1>2, <1>3, <1>4 DEF Phase, Locked, Looping, Ending, Fresh, Guarded, Holding,
    Pcs, Early, Late, Mutating
<1>. QED BY <1>2, <1>6, <1>7, <1>8, Frame DEF IInv

(* What a crash leaves of a call. *)
LEMMA FallenTyped ==
  ASSUME NEW m \in Calls
  PROVE  /\ Fallen(m) \in Calls
         /\ m.pc \in InFlight =>
              /\ Fallen(m).pc = "crashed"
              /\ Fallen(m).batch = m.batch /\ Fallen(m).copied = m.copied
              /\ Fallen(m).created = m.created
              /\ Fallen(m).fate = IF m.fate # "none" THEN m.fate
                                  ELSE IF m.pc \in Mutating THEN "interrupted" ELSE "undone"
<1>. DEFINE g == IF m.fate # "none" THEN m.fate
                 ELSE IF m.pc \in Mutating THEN "interrupted" ELSE "undone"
<1>1. g \in Fates
  BY DEF Calls, Fates
<1>2. Fallen(m) = IF m.pc \notin InFlight THEN m
                  ELSE [m EXCEPT !.pc = "crashed", !.fate = g]
  BY DEF Fallen
<1>. HIDE DEF g
<1>3. "crashed" \in Pcs
  BY DEF Pcs
<1>4. LET c == [m EXCEPT !.pc = "crashed", !.fate = g] IN
      /\ c \in Calls /\ c.pc = "crashed" /\ c.batch = m.batch /\ c.copied = m.copied
      /\ c.created = m.created /\ c.fate = g
  BY <1>1, <1>3 DEF Calls
<1>. QED BY <1>2, <1>4 DEF g

(* The process dies. *)
LEMMA CrashStep ==
  ASSUME IInv, Crash
  PROVE  IInv'
<1>. TypeOK
  BY DEF IInv
<1>1. ASSUME NEW u \in Tx
      PROVE  /\ tx'[u] \in Calls /\ tx'[u] = Fallen(tx[u])
             /\ status'[u] = "idle" /\ need'[u] = {}
  BY FallenTyped DEF Crash, TypeOK
<1>2. /\ met' \in [{"faults", "crashes", "external"} -> Nat]
      /\ met'.external = met.external
  BY DEF Crash, Meet, TypeOK
<1>3. TypeOK'
  <2>1. tx' \in [Tx -> Calls]
    BY <1>1 DEF Crash
  <2>. QED BY <1>2, <2>1 DEF Crash, TypeOK
<1>4. Exclusive'
  BY <1>1 DEF Exclusive
<1>5. ASSUME NEW u \in Tx
      PROVE  Phase(u)'
  <2>. Phase(u) /\ tx[u] \in Calls /\ (Undisturbed' <=> Undisturbed)
    BY <1>2 DEF IInv, TypeOK, Undisturbed
  <2>1. CASE tx[u].pc \notin InFlight
    <3>1. tx'[u] = tx[u] /\ tx[u].pc \in {"idle", "done", "crashed"}
      BY <1>1, <2>1 DEF Fallen, InFlight, Calls
    <3>. QED BY <1>1, <3>1 DEF Crash, Phase, Locked, Looping, Ending, Fresh, Guarded, Saved,
           Undisturbed, Holding, Pcs, Early, Late, Mutating
  <2>2. CASE tx[u].pc \in InFlight
    <3>1. /\ tx'[u].pc = "crashed"
          /\ tx'[u].batch = tx[u].batch /\ tx'[u].copied = tx[u].copied
          /\ tx'[u].created = tx[u].created
          /\ tx'[u].fate = IF tx[u].fate # "none" THEN tx[u].fate
                           ELSE IF tx[u].pc \in Mutating THEN "interrupted" ELSE "undone"
      BY <1>1, <2>2, FallenTyped
    <3>2. Locked(u)' /\ Looping(u)' /\ Fresh(u)'
      BY <1>1, <3>1 DEF Locked, Looping, Fresh, Holding, Pcs, Early
    <3>3. Ending(u)'
      BY <2>2, <3>1 DEF Crash, Phase, Ending, Guarded, InFlight, Pcs, Early, Late, Mutating
    <3>4. Guarded(u)'
      BY <2>2, <3>1 DEF Crash, Phase, Ending, Guarded, Saved, InFlight, Pcs, Late, Mutating
    <3>. QED BY <3>2, <3>3, <3>4 DEF Phase
  <2>. QED BY <2>1, <2>2
<1>. QED BY <1>3, <1>4, <1>5 DEF IInv

(* Another program writes a file. *)
LEMMA ExternalStep ==
  ASSUME IInv, External
  PROVE  IInv'
<1>. TypeOK /\ Exclusive
  BY DEF IInv
<1>1. /\ met' \in [{"faults", "crashes", "external"} -> Nat]
      /\ met'.external = met.external + 1
      /\ met.external \in Nat
  BY TxAssumption DEF External, Meet, TypeOK
<1>2. TypeOK'
  <2>1. disk' \in Vault
    BY TxAssumption DEF External, TypeOK, Vault
  <2>. QED BY <1>1, <2>1 DEF External, TypeOK
<1>3. ~Undisturbed'
  BY <1>1, TxAssumption DEF Undisturbed, TypeOK
<1>4. ASSUME NEW u \in Tx
      PROVE  Phase(u)'
  <2>1. Phase(u)
    BY DEF IInv
  <2>. QED BY <1>3, <2>1 DEF External, Phase, Locked, Looping, Ending, Fresh, Guarded, Saved
<1>. QED BY <1>1, <1>2, <1>4, TxAssumption DEF External, Exclusive, IInv, TypeOK

LEMMA InitInv == Init => IInv
<1>. SUFFICES ASSUME Init PROVE IInv
  OBVIOUS
<1>. USE DEF Init, Locks!Init
<1>1. disk \in Vault
  BY TxAssumption
<1>2. Call0 \in Calls
  BY DEF Call0, Calls, Pcs, States, Fates, Results, Unread
<1>3. Journal0 \in Journals
  BY DEF Journal0, Journals, States, Vault, File
<1>4. TypeOK
  BY <1>1, <1>2, <1>3, TxAssumption DEF TypeOK
<1>5. ASSUME NEW t \in Tx PROVE Phase(t)
  BY DEF Call0, Journal0, Phase, Locked, Looping, Ending, Fresh, Guarded, Saved, Unread,
    Holding, Pcs, Early, Late, Mutating
<1>6. Exclusive
  BY DEF Exclusive
<1>. QED BY <1>4, <1>5, <1>6 DEF IInv

LEMMA NextInv == IInv /\ [Next]_vars => IInv'
<1>. SUFFICES ASSUME IInv, [Next]_vars PROVE IInv'
  OBVIOUS
<1>1. ASSUME NEW t \in Tx, Step(t) PROVE IInv'
  BY <1>1, PreflightStep, MakeDirStep, CopyStep, ManifestStep, ApplyStep,
    BeginRestoreStep, EndRestoreStep, RestoredStep, UncreateStep, UndoneStep, FlipStep,
    RemoveEntryStep, CloseStep DEF Step
<1>2. ASSUME NEW t \in Tx, Submit(t) \/ Begin(t) PROVE IInv'
  BY <1>2, SubmitStep, BeginStep
<1>3. CASE UNCHANGED vars
  BY <1>3 DEF vars, IInv, TypeOK, Exclusive, Phase, Locked, Looping, Ending, Fresh,
    Guarded, Saved, Undisturbed
<1>. QED BY <1>1, <1>2, <1>3, CrashStep, ExternalStep DEF Next

THEOREM TxInvariant == Spec => []IInv
  BY InitInv, NextInv, PTL DEF Spec

-----------------------------------------------------------------------------
(* The state of every transaction, journal and file is well typed: no      *)
(* operation makes anything of a file but a file, and what goes to .trash/ *)
(* is never the absence of a file (runTransaction, local-fs.ts).           *)
THEOREM TxTypeOK == Spec => []TypeOK
<1>1. IInv => TypeOK
  BY DEF IInv
<1>. QED BY <1>1, TxInvariant, PTL

(* The journal is complete before the first mutation and stays complete    *)
(* for as long as the batch can still be lost, a crash included: whatever  *)
(* number of transactions, faults, crashes and external writes.            *)
THEOREM TxJournalGuards == Spec => []JournalGuards
<1>1. IInv => JournalGuards
  BY DEF IInv, Phase, Guarded, Saved, JournalGuards
<1>. QED BY <1>1, TxInvariant, PTL

-----------------------------------------------------------------------------
(* What is left of the journal of a committed batch.  A batch is committed  *)
(* at Flip, which has told the journal unless it failed; the removal only   *)
(* takes the manifest away; and a call that is done has left a journal only *)
(* if its removal failed too.                                               *)

Told == \A t \in Tx : LeftoverSaysCommitted(t)

(* Failures are only counted up. *)
LEMMA FaultsGrow ==
  ASSUME TypeOK, Next
  PROVE  met.faults \in Nat /\ met'.faults \in Nat /\ met'.faults >= met.faults
<1>1. met.faults \in Nat /\ DOMAIN met = {"faults", "crashes", "external"}
  BY DEF TypeOK
<1>2. CASE UNCHANGED met
  BY <1>1, <1>2
<1>3. ASSUME NEW k \in {"faults", "crashes", "external"}, Meet(k)
      PROVE  met'.faults \in Nat /\ met'.faults >= met.faults
  BY <1>1, <1>3 DEF Meet
<1>4. ASSUME NEW t \in Tx, Submit(t) \/ Begin(t) \/ Step(t)
      PROVE  UNCHANGED met \/ Meet("faults")
  <2>1. CASE Submit(t) \/ Begin(t)
    BY <2>1 DEF Submit, Begin
  <2>2. CASE Preflight(t) \/ MakeDir(t)
    BY <2>2 DEF Preflight, MakeDir
  <2>3. CASE CopyPreImage(t) \/ WriteManifest(t) \/ Apply(t)
    BY <2>3 DEF CopyPreImage, WriteManifest, Apply
  <2>4. CASE BeginRestore(t) \/ EndRestore(t) \/ Restored(t) \/ Uncreate(t) \/ Undone(t)
    BY <2>4 DEF BeginRestore, EndRestore, Restored, Uncreate, Undone
  <2>5. CASE Flip(t) \/ RemoveEntry(t) \/ Close(t)
    BY <2>5 DEF Flip, RemoveEntry, Close
  <2>. QED BY <1>4, <2>1, <2>2, <2>3, <2>4, <2>5 DEF Step
<1>5. CASE Crash \/ External
  BY <1>3, <1>5, <1>1 DEF Crash, External
<1>. QED BY <1>1, <1>2, <1>3, <1>4, <1>5 DEF Next

(* A step of one call leaves the memory and the journal of the others. *)
LEMMA OthersUntouched ==
  ASSUME TypeOK, NEW t \in Tx, Submit(t) \/ Begin(t) \/ Step(t), NEW u \in Tx \ {t}
  PROVE  tx'[u] = tx[u] /\ journal'[u] = journal[u]
<1>. USE DEF TypeOK
<1>1. ASSUME NEW m, NEW pc, Go(t, m, pc) PROVE tx'[u] = tx[u]
  BY <1>1 DEF Go
<1>2. ASSUME NEW m, NEW fate, NEW result, Return(t, m, fate, result) PROVE tx'[u] = tx[u]
  BY <1>1, <1>2 DEF Return
<1>3. tx'[u] = tx[u]
  <2>1. CASE Submit(t) \/ Begin(t)
    BY <1>1, <2>1 DEF Submit, Begin
  <2>2. CASE Preflight(t) \/ MakeDir(t)
    BY <1>1, <1>2, <2>2 DEF Preflight, MakeDir, Throw
  <2>3. CASE CopyPreImage(t) \/ WriteManifest(t) \/ Apply(t)
    BY <1>1, <1>2, <2>3 DEF CopyPreImage, WriteManifest, Apply, Throw
  <2>4. CASE BeginRestore(t) \/ EndRestore(t) \/ Restored(t) \/ Uncreate(t) \/ Undone(t)
    BY <1>1, <1>2, <2>4 DEF BeginRestore, EndRestore, Restored, Uncreate, Undone, Stuck
  <2>5. CASE Flip(t) \/ RemoveEntry(t) \/ Close(t)
    BY <1>1, <1>2, <2>5 DEF Flip, RemoveEntry, Close
  <2>. QED BY <2>1, <2>2, <2>3, <2>4, <2>5 DEF Step
<1>4. journal'[u] = journal[u]
  <2>1. CASE Submit(t) \/ Begin(t)
    BY <2>1 DEF Submit, Begin
  <2>2. CASE Preflight(t) \/ MakeDir(t)
    BY <2>2 DEF Preflight, MakeDir
  <2>3. CASE CopyPreImage(t) \/ WriteManifest(t) \/ Apply(t)
    BY <2>3 DEF CopyPreImage, WriteManifest, Apply
  <2>4. CASE BeginRestore(t) \/ EndRestore(t) \/ Restored(t) \/ Uncreate(t) \/ Undone(t)
    BY <2>4 DEF BeginRestore, EndRestore, Restored, Uncreate, Undone
  <2>5. CASE Flip(t) \/ RemoveEntry(t) \/ Close(t)
    BY <2>5 DEF Flip, RemoveEntry, Close
  <2>. QED BY <2>1, <2>2, <2>3, <2>4, <2>5 DEF Step
<1>. QED BY <1>3, <1>4

(* Only Flip commits: every other step up to there goes on, with no fate,  *)
(* or returns with another one.                                            *)
LEMMA OnlyFlipCommits ==
  ASSUME IInv', TypeOK, NEW t \in Tx, Submit(t) \/ Begin(t) \/ Step(t),
         ~Flip(t), ~RemoveEntry(t), ~Close(t)
  PROVE  tx'[t].fate # "committed"
<1>. tx'[t] \in Calls /\ Ending(t)'
  BY DEF IInv, TypeOK, Phase
<1>1. ASSUME NEW m, NEW pc, Go(t, m, pc) PROVE tx'[t].pc = pc
  BY <1>1 DEF Go, TypeOK, Calls
<1>2. ASSUME NEW m, NEW fate, NEW result, Return(t, m, fate, result) PROVE tx'[t].fate = fate
  BY <1>2 DEF Return, Go, TypeOK, Calls
<1>3. tx'[t].pc \in Pcs \ Late \/ tx'[t].fate \in {"undone", "interrupted"}
  <2>. USE DEF Pcs, Late
  <2>1. CASE Submit(t) \/ Begin(t)
    BY <1>1, <2>1 DEF Submit, Begin
  <2>2. CASE Preflight(t)
    BY <1>1, <1>2, <2>2 DEF Preflight
  <2>3. CASE MakeDir(t) \/ CopyPreImage(t) \/ WriteManifest(t)
    BY <1>1, <1>2, <2>3 DEF MakeDir, CopyPreImage, WriteManifest, Throw
  <2>4. CASE Apply(t)
    BY <1>1, <2>4 DEF Apply
  <2>5. CASE BeginRestore(t) \/ EndRestore(t) \/ Restored(t) \/ Uncreate(t) \/ Undone(t)
    BY <1>1, <1>2, <2>5 DEF BeginRestore, EndRestore, Restored, Uncreate, Undone, Stuck
  <2>. QED BY <2>1, <2>2, <2>3, <2>4, <2>5 DEF Step
<1>. QED BY <1>3 DEF Ending

(* Every step keeps it. *)
LEMMA ToldStep ==
  ASSUME IInv, IInv', Told, [Next]_vars
  PROVE  Told'
<1>. TypeOK /\ TypeOK'
  BY DEF IInv
<1>1. CASE UNCHANGED vars
  BY <1>1 DEF vars, Told, LeftoverSaysCommitted
<1>2. CASE Next
  <2>1. met.faults \in Nat /\ met'.faults \in Nat /\ met'.faults >= met.faults
    BY <1>2, FaultsGrow
  <2>2. ASSUME NEW u \in Tx, tx'[u] = tx[u], journal'[u] = journal[u]
        PROVE  LeftoverSaysCommitted(u)'
    BY <2>1, <2>2 DEF Told, LeftoverSaysCommitted
  <2>3. ASSUME NEW t \in Tx, Submit(t) \/ Begin(t) \/ Step(t) PROVE Told'
    <3>1. LeftoverSaysCommitted(t)'
      <4>. tx[t] \in Calls /\ tx'[t] \in Calls /\ journal[t] \in Journals /\ Phase(t) /\ LeftoverSaysCommitted(t)
        BY DEF TypeOK, IInv, Told
      <4>1. CASE Flip(t)
        <5>1. tx'[t].fate = (IF tx[t].ending = "applied" THEN "committed" ELSE "undone") /\ tx'[t].pc = "remove"
          BY <4>1 DEF Flip, Go, TypeOK, Calls
        <5>2. \/ journal'[t].manifest = tx[t].ending
              \/ met'.faults = met.faults + 1
          BY <4>1 DEF Flip, Meet, TypeOK, Journals
        <5>. QED BY <2>1, <5>1, <5>2 DEF LeftoverSaysCommitted
      <4>2. CASE RemoveEntry(t)
        <5>1. tx'[t] = tx[t] /\ journal'[t].dir = journal[t].dir
              /\ journal'[t].manifest \in {journal[t].manifest, "none"}
          BY <4>2 DEF RemoveEntry, TypeOK, Journals
        <5>. QED BY <2>1, <5>1 DEF LeftoverSaysCommitted
      <4>3. CASE Close(t)
        <5>1. tx'[t].fate = tx[t].fate /\ tx'[t].pc = "done" /\ tx[t].pc = "remove"
          BY <4>3 DEF Close, At, Return, Go, TypeOK, Calls
        <5>2. \/ ~journal'[t].dir
              \/ journal'[t] = journal[t] /\ met'.faults = met.faults + 1
          BY <4>3 DEF Close, Meet, TypeOK, Journals
        <5>. QED BY <2>1, <5>1, <5>2 DEF LeftoverSaysCommitted
      <4>4. CASE ~Flip(t) /\ ~RemoveEntry(t) /\ ~Close(t)
        BY <2>3, <4>4, OnlyFlipCommits DEF LeftoverSaysCommitted
      <4>. QED BY <4>1, <4>2, <4>3, <4>4
    <3>. QED BY <2>2, <2>3, <3>1, OthersUntouched DEF Told
  <2>4. CASE Crash
    <3>. SUFFICES ASSUME NEW u \in Tx PROVE LeftoverSaysCommitted(u)'
      BY DEF Told
    <3>1. tx'[u] = Fallen(tx[u]) /\ journal'[u] = journal[u] /\ tx[u] \in Calls
          /\ Phase(u) /\ LeftoverSaysCommitted(u)
      BY <2>4 DEF Crash, TypeOK, IInv, Told
    <3>2. CASE tx[u].pc \notin InFlight
      BY <2>2, <3>1, <3>2 DEF Fallen
    <3>3. CASE tx[u].pc \in InFlight
      <4>1. tx'[u].pc = "crashed" /\ tx[u].pc # "done"
            /\ (tx'[u].fate = "committed" => tx[u].fate = "committed")
        BY <3>1, <3>3, FallenTyped DEF InFlight
      <4>. QED BY <2>1, <3>1, <4>1 DEF LeftoverSaysCommitted
    <3>. QED BY <3>2, <3>3
  <2>5. CASE External
    BY <2>2, <2>5 DEF External, Told
  <2>. QED BY <1>2, <2>3, <2>4, <2>5 DEF Next
<1>. QED BY <1>1, <1>2

(* What the boot scan makes of a journal is so, in both directions:         *)
(* classifyJournal says `applied` of committed batches only, `rolled-back`  *)
(* of undone ones only; and of a committed batch's journal nothing else, as *)
(* long as its manifest is there and not both of closeJournal's steps       *)
(* failed.                                                                  *)
THEOREM TxJournalTells == Spec => []JournalTells
<1>1. IInv /\ Told => JournalTells
  BY DEF IInv, Phase, Ending, NoUnderWarning, JournalTells, Told
<1>2. Init => Told
  BY DEF Init, Call0, Told, LeftoverSaysCommitted
<1>3. IInv /\ IInv' /\ Told /\ [Next]_vars => Told'
  BY ToldStep
<1>. QED BY <1>1, <1>2, <1>3, TxInvariant, PTL DEF Spec
=============================================================================
