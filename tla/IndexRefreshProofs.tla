------------------------- MODULE IndexRefreshProofs -------------------------
(***************************************************************************)
(* ToolWins for any set of notes, any number of refreshes in flight and    *)
(* any number of changes to the disk.  The argument: telling the index of  *)
(* a path raises the path's withdrawal count in the same step, so a read   *)
(* that may still be taken (its count is the current one) took its bytes   *)
(* after the index was last told; and what is taken without that check,    *)
(* by the fill, is taken before any tool has said anything.                *)
(*                                                                         *)
(* ReadyIsRight on top of that.  The argument: no event, tool or refresh   *)
(* concerns a path that has not changed since the watcher was attached, so *)
(* the first sweep alone brings its entry to what the disk holds.          *)
(***************************************************************************)
EXTENDS IndexRefresh, TLAPS

Entries == [stamp : Nat, content : Nat, asOf : Nat]
Answers == [at : {"idle", "begun", "seen", "read"}, path : Nat, withdrawn : Nat, stamp : Nat,
            content : Nat, asOf : Nat, err : {"none", "gone", "encoding", "io"}]
Sweeps == [at : {"rest", "list", "check", "confirm"}, todo : SUBSET Paths, seen : [Paths -> Nat],
           attached : Int, ready : BOOLEAN]
Calls == [at : {"idle", "wrote", "known", "trashed", "moved", "touching"}, path : Nat, to : Nat,
          change : Nat, stamp : Nat]

\* The part of the state the argument is about is well typed.
TypedIndex ==
  /\ disk \in [Paths -> Nat] /\ clock \in Nat
  /\ entries \in [Paths -> Entries] /\ withdrawals \in [Paths -> Nat] /\ told \in [Paths -> Nat]
TypedReads ==
  /\ reads \in [Callers -> Answers]
  /\ \A r \in Callers : reads[r].at # "idle" => reads[r].path \in Paths
TypedSweep == sweep \in Sweeps
TypedTool ==
  /\ tool \in Calls
  /\ tool.at # "idle" => tool.path \in Paths
  /\ tool.at = "moved" => tool.to \in Paths
Typed == TypedIndex /\ TypedReads /\ TypedSweep /\ TypedTool

\* What the index was told, and is about to be told, has happened.
Past == tool.change <= clock /\ \A p \in Paths : told[p] <= clock

\* A read in flight never saw more withdrawals than there were.
Counted ==
  \A r \in Callers : reads[r].at # "idle" => reads[r].withdrawn <= withdrawals[reads[r].path]

\* A read that may still be taken is no older than what a tool said.
Fresh ==
  \A r \in Callers :
    reads[r].at = "read" /\ reads[r].err = "none" /\ reads[r].withdrawn = withdrawals[reads[r].path]
      => reads[r].asOf >= told[reads[r].path]

\* No tool speaks before the fill is over.
FillFirst ==
  Filling => /\ sweep.at \in {"list", "check"} /\ ~sweep.ready
             /\ tool.at = "idle"
             /\ \A p \in Paths : told[p] = 0

IInv == Typed /\ Past /\ Counted /\ Fresh /\ FillFirst /\ ToolWins

LEMMA InitInv == Init => IInv
<1> SUFFICES ASSUME Init PROVE IInv
    OBVIOUS
<1> USE IndexAssumption
<1>1. NoEntry \in Entries
      BY DEF NoEntry, Entries
<1>2. Idle \in Answers /\ Idle.at = "idle"
      BY DEF Idle, Answers
<1>3. Resting \in Calls /\ Resting.at = "idle" /\ Resting.change = 0
      BY DEF Resting, Calls
<1>4. TypedIndex
  <2>1. disk \in [Paths -> Nat]
        BY DEF Init
  <2> QED BY <1>1, <2>1 DEF Init, TypedIndex
<1>5. TypedReads
      BY <1>2 DEF Init, TypedReads
<1>6. TypedSweep /\ sweep.attached = -1 /\ sweep.at = "list" /\ ~sweep.ready
      BY DEF Init, TypedSweep, Sweeps
<1>7. TypedTool
      BY <1>3 DEF Init, TypedTool
<1>8. Past /\ Counted /\ Fresh
      BY <1>2, <1>3 DEF Init, Past, Counted, Fresh
<1>9. FillFirst
      BY <1>3, <1>6 DEF Init, FillFirst
<1>10. ToolWins
      BY DEF Init, ToolWins, Held
<1> QED BY <1>4, <1>5, <1>6, <1>7, <1>8, <1>9, <1>10 DEF IInv, Typed

-----------------------------------------------------------------------------
(* Steps that only move a read forward. *)

LEMMA StatStep ==
  ASSUME IInv, NEW r \in Callers, Stat(r)
  PROVE  IInv'
<1> USE IndexAssumption DEF IInv, Typed
<1>1. PICK a \in Answers :
        /\ reads' = [reads EXCEPT ![r] = a]
        /\ a.path = reads[r].path /\ a.withdrawn = reads[r].withdrawn
        /\ a.at = "seen" \/ a.err = "gone"
  <2>1. Gone(r) \in Answers /\ Gone(r).path = reads[r].path /\ Gone(r).err = "gone"
        /\ Gone(r).withdrawn = reads[r].withdrawn
        BY DEF TypedReads, Answers, Gone
  <2>2. disk[reads[r].path] \in Nat
        BY DEF Stat, TypedReads, TypedIndex
  <2> DEFINE s == [reads[r] EXCEPT !.at = "seen", !.stamp = disk[reads[r].path]]
  <2>3. s \in Answers /\ s.path = reads[r].path /\ s.withdrawn = reads[r].withdrawn /\ s.at = "seen"
        BY <2>2 DEF TypedReads, Answers
  <2>4. reads' = [reads EXCEPT ![r] = Gone(r)] \/ reads' = [reads EXCEPT ![r] = s]
        BY DEF Stat
  <2> QED BY <2>1, <2>3, <2>4
<1>2. reads[r].at # "idle" /\ UNCHANGED <<disk, clock, entries, withdrawals, sweep, tool, told>>
      BY DEF Stat, index
<1>3. TypedReads'
      BY <1>1, <1>2 DEF TypedReads
<1>4. Counted' /\ Fresh'
      BY <1>1, <1>2 DEF TypedReads, Counted, Fresh
<1> QED BY <1>2, <1>3, <1>4 DEF TypedIndex, TypedSweep, TypedTool, Past, FillFirst, Filling, Watching, ToolWins, Held

LEMMA FetchStep ==
  ASSUME IInv, NEW r \in Callers, Fetch(r)
  PROVE  IInv'
<1> USE IndexAssumption DEF IInv, Typed
<1> DEFINE found == disk[reads[r].path]
           read == [reads[r] EXCEPT !.at = "read", !.content = found, !.asOf = clock]
           value == CASE found = 0 -> Gone(r)
                      [] found \in Garbled -> [read EXCEPT !.err = "encoding"]
                      [] OTHER -> read
<1>1. reads' = [reads EXCEPT ![r] = value]
      BY DEF Fetch
<1>2. Gone(r) \in Answers /\ Gone(r).path = reads[r].path /\ Gone(r).err = "gone"
      /\ Gone(r).withdrawn = reads[r].withdrawn
      BY DEF TypedReads, Answers, Gone
<1>3. /\ read \in Answers /\ read.path = reads[r].path /\ read.withdrawn = reads[r].withdrawn
      /\ read.asOf = clock
  <2>1. found \in Nat /\ clock \in Nat
        BY DEF Fetch, TypedReads, TypedIndex
  <2> QED BY <2>1 DEF TypedReads, Answers
<1>4. LET e == [read EXCEPT !.err = "encoding"] IN
      /\ e \in Answers /\ e.path = reads[r].path /\ e.withdrawn = reads[r].withdrawn
      /\ e.asOf = clock
      BY <1>3 DEF Answers
<1>5. value = Gone(r) \/ value = read \/ value = [read EXCEPT !.err = "encoding"]
  <2>1. CASE found = 0
    <3>1. found \notin Garbled
          BY <2>1
    <3> QED BY <2>1, <3>1, Zenon
  <2>2. CASE found # 0 /\ found \in Garbled
        BY <2>2, Zenon
  <2>3. CASE found # 0 /\ found \notin Garbled
        BY <2>3, Zenon
  <2> QED BY <2>1, <2>2, <2>3
<1> HIDE DEF read, value
<1>6. /\ value \in Answers /\ value.path = reads[r].path /\ value.withdrawn = reads[r].withdrawn
      /\ value.err = "gone" \/ value.asOf = clock
      BY <1>2, <1>3, <1>4, <1>5
<1>7. reads[r].at # "idle" /\ UNCHANGED <<disk, clock, entries, withdrawals, sweep, tool, told>>
      BY DEF Fetch, index
<1>8. TypedReads'
      BY <1>1, <1>6, <1>7 DEF TypedReads
<1>9. Counted' /\ Fresh'
  <2>1. reads[r].path \in Paths /\ told[reads[r].path] <= clock
        BY <1>7 DEF TypedReads, Past
  <2> QED BY <1>1, <1>6, <1>7, <2>1 DEF TypedReads, Counted, Fresh
<1> QED BY <1>7, <1>8, <1>9 DEF TypedIndex, TypedSweep, TypedTool, Past, FillFirst, Filling, Watching, ToolWins, Held

LEMMA FailReadStep ==
  ASSUME IInv, NEW r \in Callers, FailRead(r)
  PROVE  IInv'
<1> USE IndexAssumption DEF IInv, Typed
<1> DEFINE a == [reads[r] EXCEPT !.at = "read", !.err = "io"]
<1>1. /\ a \in Answers /\ a.err = "io" /\ a.path = reads[r].path /\ a.withdrawn = reads[r].withdrawn
      BY DEF TypedReads, Answers
<1>2. reads' = [reads EXCEPT ![r] = a]
      BY DEF FailRead, TypedReads, Answers
<1> HIDE DEF a
<1>3. reads[r].at # "idle" /\ UNCHANGED <<disk, clock, entries, withdrawals, sweep, tool, told>>
      BY DEF FailRead, index
<1>4. TypedReads'
      BY <1>1, <1>2, <1>3 DEF TypedReads
<1>5. Counted' /\ Fresh'
      BY <1>1, <1>2, <1>3 DEF TypedReads, Counted, Fresh
<1> QED BY <1>3, <1>4, <1>5 DEF TypedIndex, TypedSweep, TypedTool, Past, FillFirst, Filling, Watching, ToolWins, Held

-----------------------------------------------------------------------------
(* Steps that answer a read. *)

\* Withdrawing paths keeps the reads counted, and no read of them can be taken
\* any more: so the index may be told of these paths in the same step.
LEMMA WithdrawnKept ==
  ASSUME TypedReads, TypedIndex, Counted, Fresh,
         NEW ps \in SUBSET Paths, withdraw(ps), \A p \in Paths \ ps : told'[p] = told[p],
         reads' \in [Callers -> Answers],
         \A s \in Callers :
           \/ reads'[s] = reads[s]
           \/ reads'[s].at = "idle"
           \/ /\ reads'[s].at = "begun" /\ reads'[s].path \in Paths
              /\ reads'[s].withdrawn = withdrawals'[reads'[s].path]
  PROVE  /\ withdrawals' \in [Paths -> Nat]
         /\ TypedReads' /\ Counted' /\ Fresh'
<1>1. /\ withdrawals' \in [Paths -> Nat]
      /\ \A p \in Paths : withdrawals'[p] = IF p \in ps THEN withdrawals[p] + 1 ELSE withdrawals[p]
      BY DEF withdraw, TypedIndex
<1>2. \A p \in Paths : withdrawals[p] \in Nat /\ withdrawals'[p] \in Nat
      BY <1>1 DEF TypedIndex
<1>3. \A s \in Callers : reads[s].withdrawn \in Nat
      BY DEF TypedReads, Answers
<1>4. TypedReads'
      BY DEF TypedReads
<1>5. Counted'
  <2> SUFFICES ASSUME NEW s \in Callers, reads'[s].at # "idle"
               PROVE  reads'[s].withdrawn <= withdrawals'[reads'[s].path]
      BY DEF Counted
  <2>1. CASE reads'[s] = reads[s]
    <3> DEFINE q == reads[s].path
    <3>1. q \in Paths /\ reads[s].withdrawn <= withdrawals[q]
          BY <2>1 DEF TypedReads, Counted
    <3>2. withdrawals[q] <= withdrawals'[q]
          BY <1>1, <1>2, <3>1
    <3>3. reads[s].withdrawn <= withdrawals'[q]
          BY <1>2, <1>3, <3>1, <3>2
    <3> QED BY <2>1, <3>3
  <2>2. CASE /\ reads'[s].at = "begun" /\ reads'[s].path \in Paths
             /\ reads'[s].withdrawn = withdrawals'[reads'[s].path]
        BY <1>2, <2>2
  <2> QED BY <2>1, <2>2
<1>6. Fresh'
  <2> SUFFICES ASSUME NEW s \in Callers, reads'[s].at = "read", reads'[s].err = "none",
                      reads'[s].withdrawn = withdrawals'[reads'[s].path]
               PROVE  reads'[s].asOf >= told'[reads'[s].path]
      BY DEF Fresh
  <2>1. reads'[s] = reads[s]
        OBVIOUS
  <2> DEFINE q == reads[s].path
  <2>2. reads[s].at = "read" /\ reads[s].err = "none" /\ reads[s].withdrawn = withdrawals'[q]
        BY <2>1
  <2>3. q \in Paths /\ reads[s].withdrawn <= withdrawals[q]
        BY <2>2 DEF TypedReads, Counted
  <2>4. q \notin ps /\ withdrawals'[q] = withdrawals[q]
        BY <1>1, <1>2, <1>3, <2>2, <2>3
  <2>5. reads[s].asOf >= told[q]
        BY <2>2, <2>4 DEF Fresh
  <2> QED BY <2>1, <2>3, <2>4, <2>5
<1> QED BY <1>1, <1>4, <1>5, <1>6

\* The case of a read that is over and tells the index nothing a tool said.
LEMMA WithdrawnReads ==
  ASSUME TypedReads, TypedIndex, Counted, Fresh,
         NEW ps \in SUBSET Paths, withdraw(ps), UNCHANGED told,
         NEW r \in Callers, reads' = [reads EXCEPT ![r] = Idle]
  PROVE  /\ withdrawals' \in [Paths -> Nat]
         /\ TypedReads' /\ Counted' /\ Fresh'
<1>1. Idle \in Answers /\ Idle.at = "idle"
      BY DEF Idle, Answers
<1>2. reads' \in [Callers -> Answers] /\ \A s \in Callers : reads'[s] = reads[s] \/ reads'[s].at = "idle"
      BY <1>1 DEF TypedReads
<1> QED BY <1>2, WithdrawnKept

\* An answer handled by refreshPath keeps the index right by the tools.
LEMMA RefreshedIndex ==
  ASSUME TypedReads, TypedIndex, Counted, Fresh, ToolWins,
         NEW r \in Callers, reads[r].at = "read", Refreshed(reads[r]),
         reads' = [reads EXCEPT ![r] = Idle],
         UNCHANGED <<disk, clock, told>>
  PROVE  TypedIndex' /\ TypedReads' /\ Counted' /\ Fresh' /\ ToolWins'
<1> USE IndexAssumption
<1> DEFINE p == reads[r].path
<1>1. p \in Paths
      BY DEF TypedReads
<1>2. NoEntry \in Entries
      BY DEF NoEntry, Entries
<1>3. CASE reads[r].err = "none" /\ withdrawals[p] = reads[r].withdrawn
  <2>1. EntryRead(reads[r]) \in Entries /\ EntryRead(reads[r]).asOf = reads[r].asOf
        BY DEF EntryRead, Entries, TypedReads, Answers
  <2>2. entries' = [entries EXCEPT ![p] = EntryRead(reads[r])] /\ withdraw({})
        BY <1>3 DEF Refreshed, upsert, withdraw, TypedIndex
  <2>3. TypedIndex'
        BY <1>1, <2>1, <2>2, WithdrawnReads DEF TypedIndex
  <2>4. reads[r].asOf >= told[p]
        BY <1>3 DEF Fresh
  <2>5. ToolWins'
        BY <1>1, <2>1, <2>2, <2>4 DEF ToolWins, Held, TypedIndex
  <2> QED BY <2>2, <2>3, <2>5, WithdrawnReads
<1>4. CASE reads[r].err = "none" /\ withdrawals[p] # reads[r].withdrawn
  <2>1. UNCHANGED entries /\ withdraw({})
        BY <1>4 DEF Refreshed, index, withdraw, TypedIndex
  <2>2. TypedIndex' /\ ToolWins'
        BY <2>1, WithdrawnReads DEF TypedIndex, ToolWins, Held
  <2> QED BY <2>1, <2>2, WithdrawnReads
<1>5. CASE reads[r].err = "io"
  <2>1. UNCHANGED entries /\ withdraw({})
        BY <1>5 DEF Refreshed, withdraw, TypedIndex
  <2>2. TypedIndex' /\ ToolWins'
        BY <2>1, WithdrawnReads DEF TypedIndex, ToolWins, Held
  <2> QED BY <2>1, <2>2, WithdrawnReads
<1>6. CASE reads[r].err \in {"gone", "encoding"}
  <2>1. entries' = [entries EXCEPT ![p] = NoEntry] /\ withdraw({p})
        BY <1>6 DEF Refreshed, remove
  <2>2. TypedIndex'
        BY <1>1, <1>2, <2>1, WithdrawnReads DEF TypedIndex
  <2>3. ToolWins'
        BY <1>1, <2>1 DEF ToolWins, Held, TypedIndex
  <2> QED BY <1>1, <2>1, <2>2, <2>3, WithdrawnReads
<1>7. reads[r].err \in {"none", "gone", "encoding", "io"}
      BY DEF TypedReads, Answers
<1> QED BY <1>3, <1>4, <1>5, <1>6, <1>7

LEMMA FinishReadStep ==
  ASSUME IInv, NEW r \in Callers, FinishRead(r)
  PROVE  IInv'
<1> USE DEF IInv, Typed
<1>1. /\ reads[r].at = "read" /\ Refreshed(reads[r]) /\ reads' = [reads EXCEPT ![r] = Idle]
      /\ UNCHANGED <<disk, clock, told, sweep>> /\ (tool' = Resting \/ tool' = tool)
      BY DEF FinishRead
<1>2. TypedIndex' /\ TypedReads' /\ Counted' /\ Fresh' /\ ToolWins'
      BY <1>1, RefreshedIndex
<1>3. Resting \in Calls /\ Resting.at = "idle" /\ Resting.change = 0
      BY DEF Resting, Calls
<1>4. TypedTool' /\ Past'
      BY <1>1, <1>3 DEF TypedTool, Past, TypedIndex
<1>5. TypedSweep' /\ FillFirst'
      BY <1>1, <1>3 DEF TypedSweep, FillFirst, Filling, Watching
<1> QED BY <1>2, <1>4, <1>5

LEMMA FinishCheckedStep ==
  ASSUME IInv, FinishChecked
  PROVE  IInv'
<1> USE IndexAssumption DEF IInv, Typed
<1>1. /\ reads["sweep"].at = "read" /\ reads' = [reads EXCEPT !["sweep"] = Idle]
      /\ UNCHANGED <<disk, clock, told, sweep, tool>> /\ "sweep" \in Callers
      /\ IF Filling THEN Filled(reads["sweep"]) ELSE Refreshed(reads["sweep"])
      BY DEF FinishChecked, Callers
<1>2. TypedTool' /\ Past' /\ TypedSweep' /\ FillFirst'
      BY <1>1 DEF TypedTool, Past, TypedSweep, FillFirst, Filling, Watching
<1>3. CASE ~Filling
      BY <1>1, <1>2, <1>3, RefreshedIndex
<1>4. CASE Filling
  <2> DEFINE p == reads["sweep"].path
             e == EntryRead(reads["sweep"])
  <2>1. p \in Paths /\ e \in Entries
        BY <1>1 DEF TypedReads, EntryRead, Entries, Answers
  <2>2. UNCHANGED withdrawals
        BY <1>1, <1>4 DEF Filled
  <2>3. entries' = [entries EXCEPT ![p] = e] \/ UNCHANGED entries
    <3>1. CASE reads["sweep"].err = "none"
          BY <1>1, <1>4, <3>1 DEF Filled, upsert
    <3>2. CASE reads["sweep"].err # "none"
          BY <1>1, <1>4, <3>2 DEF Filled
    <3> QED BY <3>1, <3>2
  <2>4. withdraw({})
        BY <2>2 DEF withdraw, TypedIndex
  <2> HIDE DEF p, e
  <2>5. TypedIndex'
        BY <1>1, <2>1, <2>2, <2>3 DEF TypedIndex
  <2>6. TypedReads' /\ Counted' /\ Fresh'
        BY <1>1, <2>4, WithdrawnReads
  <2>7. ToolWins'
    <3>1. \A q \in Paths : told[q] = 0 /\ entries'[q] \in Entries
      <4>1. \A q \in Paths : told[q] = 0
            BY <1>4 DEF FillFirst
      <4>2. entries' \in [Paths -> Entries]
            BY <2>5 DEF TypedIndex
      <4> QED BY <4>1, <4>2
    <3>2. \A q \in Paths : entries'[q].asOf >= told[q]
          BY <3>1 DEF Entries
    <3> QED BY <1>1, <3>2 DEF ToolWins, Held
  <2> QED BY <1>2, <2>5, <2>6, <2>7
<1> QED BY <1>3, <1>4

-----------------------------------------------------------------------------
(* The sweep. *)

\* Starting a read of p: it counts as of now.
LEMMA StartedRead ==
  ASSUME TypedReads, TypedIndex, Counted, Fresh,
         NEW r \in Callers, NEW p \in Paths, reads' = [reads EXCEPT ![r] = Reading(p)],
         UNCHANGED <<withdrawals, told>>
  PROVE  TypedReads' /\ Counted' /\ Fresh'
<1> USE IndexAssumption
<1>1. /\ Reading(p) \in Answers /\ Reading(p).at = "begun" /\ Reading(p).path = p
      /\ Reading(p).withdrawn = withdrawals[p] /\ withdrawals[p] \in Nat
      BY DEF Reading, Idle, Answers, TypedIndex
<1>2. TypedReads'
      BY <1>1 DEF TypedReads
<1>3. Counted' /\ Fresh'
      BY <1>1 DEF TypedReads, Counted, Fresh
<1> QED BY <1>2, <1>3

\* Steps of the sweep that leave the index and the reads alone.
LEMMA SweepOnlyStep ==
  ASSUME IInv,
         StartSweep \/ FailListing \/ EndFill \/ EndChecking \/ EndSweep \/ \E p \in Paths : ListOne(p)
  PROVE  IInv'
<1> USE IndexAssumption DEF IInv, Typed
<1>1. UNCHANGED <<disk, clock, entries, withdrawals, reads, tool, told>>
      BY DEF StartSweep, FailListing, EndFill, EndChecking, EndSweep, ListOne, index
<1>2. TypedIndex' /\ TypedReads' /\ TypedTool' /\ Past' /\ Counted' /\ Fresh' /\ ToolWins'
      BY <1>1 DEF TypedIndex, TypedReads, TypedTool, Past, Counted, Fresh, ToolWins, Held
<1>3. sweep.at \in {"rest", "list", "check", "confirm"} /\ sweep.attached \in Int
      /\ sweep.todo \subseteq Paths /\ sweep.seen \in [Paths -> Nat] /\ clock \in Nat
      BY DEF TypedSweep, Sweeps, TypedIndex
<1>4. TypedSweep' /\ FillFirst'
  <2>1. CASE StartSweep
        BY <1>1, <1>3, <2>1 DEF StartSweep, TypedSweep, Sweeps, FillFirst, Filling, Watching
  <2>2. CASE FailListing
        BY <1>1, <1>3, <2>2 DEF FailListing, TypedSweep, Sweeps, FillFirst, Filling, Watching
  <2>3. CASE EndFill
    <3>1. clock \in Int /\ clock # -1
          BY <1>3
    <3>2. sweep' = [sweep EXCEPT !.at = "rest", !.attached = clock]
          BY <2>3 DEF EndFill
    <3>3. sweep' \in Sweeps /\ sweep'.attached # -1
          BY <3>1, <3>2 DEF TypedSweep, Sweeps
    <3> QED BY <3>3 DEF TypedSweep, FillFirst, Filling, Watching
  <2>4. CASE EndChecking
        BY <1>1, <1>3, <2>4 DEF EndChecking, ToConfirm, Held, TypedSweep, Sweeps, FillFirst, Filling, Watching
  <2>5. CASE EndSweep
        BY <1>1, <1>3, <2>5 DEF EndSweep, TypedSweep, Sweeps, FillFirst, Filling, Watching
  <2>6. CASE \E p \in Paths : ListOne(p)
    <3> PICK p \in Paths : ListOne(p)
        BY <2>6
    <3>1. disk[p] \in Nat
          BY DEF TypedIndex
    <3> QED BY <1>1, <1>3, <3>1 DEF ListOne, TypedSweep, Sweeps, FillFirst, Filling, Watching
  <2> QED BY <2>1, <2>2, <2>3, <2>4, <2>5, <2>6
<1> QED BY <1>2, <1>4

LEMMA EndListingStep ==
  ASSUME IInv, EndListing
  PROVE  IInv'
<1> USE IndexAssumption DEF IInv, Typed
<1>1. UNCHANGED <<disk, clock, withdrawals, reads, tool, told>>
      BY DEF EndListing
<1>2. TypedReads' /\ TypedTool' /\ Past' /\ Counted' /\ Fresh'
      BY <1>1 DEF TypedReads, TypedTool, Past, Counted, Fresh
<1> DEFINE e == [stamp |-> 1, content |-> 1, asOf |-> 1]
<1>3. e \in Entries
      BY DEF Entries
<1>4. entries' = [p \in Paths |-> IF p \in Hits THEN e ELSE entries[p]]
      BY DEF EndListing
<1> HIDE DEF e
<1>5. TypedIndex'
      BY <1>1, <1>3, <1>4 DEF TypedIndex
<1>6. TypedSweep' /\ FillFirst'
  <2>1. sweep' = [sweep EXCEPT !.at = "check", !.todo = Listed \ Hits] /\ Listed \ Hits \subseteq Paths
        BY DEF EndListing, Listed
  <2> QED BY <1>1, <2>1 DEF TypedSweep, Sweeps, FillFirst, Filling, Watching
<1>7. ToolWins'
  <2>1. CASE Filling
    <3>1. \A q \in Paths : told[q] = 0 /\ entries'[q] \in Entries
      <4>1. \A q \in Paths : told[q] = 0
            BY <2>1 DEF FillFirst
      <4>2. entries' \in [Paths -> Entries]
            BY <1>5 DEF TypedIndex
      <4> QED BY <4>1, <4>2
    <3>2. \A q \in Paths : entries'[q].asOf >= told[q]
          BY <3>1 DEF Entries
    <3> QED BY <1>1, <3>2 DEF ToolWins, Held
  <2>2. CASE ~Filling
    <3>1. UNCHANGED entries
          BY <1>4, <2>2 DEF Hits, TypedIndex
    <3> QED BY <1>1, <3>1 DEF ToolWins, Held
  <2> QED BY <2>1, <2>2
<1> QED BY <1>2, <1>5, <1>6, <1>7

LEMMA CheckOrConfirmStep ==
  ASSUME IInv, NEW p \in Paths, CheckOne(p) \/ ConfirmOne(p)
  PROVE  IInv'
<1> USE IndexAssumption DEF IInv, Typed
<1>1. /\ UNCHANGED <<disk, clock, entries, withdrawals, tool, told>> /\ "sweep" \in Callers
      /\ sweep' = [sweep EXCEPT !.todo = @ \ {p}]
      /\ UNCHANGED reads \/ reads' = [reads EXCEPT !["sweep"] = Reading(p)]
      BY DEF CheckOne, ConfirmOne, index, Callers
<1>2. TypedIndex' /\ TypedTool' /\ Past' /\ ToolWins'
      BY <1>1 DEF TypedIndex, TypedTool, Past, ToolWins, Held
<1>3. TypedSweep' /\ FillFirst'
      BY <1>1 DEF TypedSweep, Sweeps, FillFirst, Filling, Watching
<1>4. TypedReads' /\ Counted' /\ Fresh'
  <2>1. CASE UNCHANGED reads
        BY <1>1, <2>1 DEF TypedReads, Counted, Fresh
  <2>2. CASE reads' = [reads EXCEPT !["sweep"] = Reading(p)]
        BY <1>1, <2>2, StartedRead
  <2> QED BY <1>1, <2>1, <2>2
<1> QED BY <1>2, <1>3, <1>4

-----------------------------------------------------------------------------
(* The disk and the watcher. *)

LEMMA DiskStep ==
  ASSUME IInv, NEW p \in Paths, External(p) \/ Lose(p)
  PROVE  IInv'
<1> USE IndexAssumption DEF IInv, Typed
<1>1. /\ UNCHANGED <<entries, withdrawals, reads, sweep, tool, told>>
      /\ clock' \in Nat /\ clock <= clock' /\ disk' \in [Paths -> Nat]
  <2>1. CASE External(p)
    <3>1. clock \in Nat /\ clock' = clock + 1
          BY <2>1 DEF External, Tick, TypedIndex
    <3>2. disk' \in [Paths -> Nat]
          BY <2>1, <3>1 DEF External, TypedIndex
    <3> QED BY <2>1, <3>1, <3>2 DEF External, index
  <2>2. CASE Lose(p)
        BY <2>2 DEF Lose, index, TypedIndex
  <2> QED BY <2>1, <2>2
<1>2. TypedIndex' /\ TypedReads' /\ TypedSweep' /\ TypedTool'
      BY <1>1 DEF TypedIndex, TypedReads, TypedSweep, TypedTool
<1>3. Past'
  <2>1. tool.change \in Nat /\ clock \in Nat /\ \A q \in Paths : told[q] \in Nat
        BY DEF TypedTool, Calls, TypedIndex
  <2> QED BY <1>1, <2>1 DEF Past
<1>4. Counted' /\ Fresh' /\ FillFirst' /\ ToolWins'
      BY <1>1 DEF Counted, Fresh, FillFirst, Filling, Watching, ToolWins, Held
<1> QED BY <1>2, <1>3, <1>4

LEMMA DeliverStep ==
  ASSUME IInv, NEW p \in Paths, Deliver(p)
  PROVE  IInv'
<1> USE IndexAssumption DEF IInv, Typed
<1>1. UNCHANGED <<disk, clock, sweep, tool, told>>
      BY DEF Deliver
<1>2. TypedSweep' /\ TypedTool' /\ Past' /\ FillFirst'
      BY <1>1 DEF TypedSweep, TypedTool, Past, FillFirst, Filling, Watching
<1>3. CASE \E r \in Readers : reads' = [reads EXCEPT ![r] = Reading(p)] /\ UNCHANGED index
  <2> PICK r \in Readers : reads' = [reads EXCEPT ![r] = Reading(p)] /\ UNCHANGED index
      BY <1>3
  <2>1. r \in Callers /\ UNCHANGED <<entries, withdrawals>>
        BY DEF Callers, index
  <2>2. TypedReads' /\ Counted' /\ Fresh'
        BY <1>1, <2>1, StartedRead
  <2>3. TypedIndex' /\ ToolWins'
        BY <1>1, <2>1 DEF TypedIndex, ToolWins, Held
  <2> QED BY <1>2, <2>2, <2>3
<1>4. CASE remove(p) /\ UNCHANGED reads
  <2>1. withdraw({p}) /\ entries' = [entries EXCEPT ![p] = NoEntry]
        BY <1>4 DEF remove
  <2>2. TypedReads' /\ Counted' /\ Fresh' /\ withdrawals' \in [Paths -> Nat]
        BY <1>1, <1>4, <2>1, WithdrawnKept DEF TypedReads
  <2>3. TypedIndex'
    <3>1. NoEntry \in Entries
          BY DEF NoEntry, Entries
    <3> QED BY <1>1, <2>1, <2>2, <3>1 DEF TypedIndex
  <2>4. ToolWins'
        BY <1>1, <2>1 DEF ToolWins, Held, TypedIndex
  <2> QED BY <1>2, <2>2, <2>3, <2>4
<1> QED BY <1>3, <1>4 DEF Deliver

-----------------------------------------------------------------------------
(* The tools. *)

\* A tool changes the disk; it has told the index nothing yet.
LEMMA ToolCallStep ==
  ASSUME IInv, NEW p \in Paths, NEW to \in Paths, WriteFile(p) \/ TrashFile(p) \/ MoveFile(p, to)
  PROVE  IInv'
<1> USE IndexAssumption DEF IInv, Typed
<1>1. /\ UNCHANGED <<entries, withdrawals, reads, sweep, told>> /\ sweep.ready
      /\ clock \in Nat /\ clock' = clock + 1
      BY DEF WriteFile, TrashFile, MoveFile, Tick, index, TypedIndex
<1>2. disk' \in [Paths -> Nat]
  <2>1. disk[p] \in Nat /\ clock' \in Nat
        BY <1>1 DEF TypedIndex
  <2>2. CASE WriteFile(p)
        BY <2>1, <2>2 DEF WriteFile, TypedIndex
  <2>3. CASE TrashFile(p)
        BY <2>1, <2>3 DEF TrashFile, TypedIndex
  <2>4. CASE MoveFile(p, to)
        BY <2>1, <2>4 DEF MoveFile, TypedIndex
  <2> QED BY <2>2, <2>3, <2>4
<1>3. TypedTool' /\ tool'.change = clock'
  <2>1. Resting \in Calls /\ p \in Nat /\ to \in Nat /\ clock' \in Nat
        BY <1>1 DEF Resting, Calls
  <2>2. CASE WriteFile(p)
        BY <2>1, <2>2 DEF WriteFile, TypedTool, Calls
  <2>3. CASE TrashFile(p)
        BY <2>1, <2>3 DEF TrashFile, TypedTool, Calls
  <2>4. CASE MoveFile(p, to)
        BY <2>1, <2>4 DEF MoveFile, TypedTool, Calls
  <2> QED BY <2>2, <2>3, <2>4
<1>4. TypedIndex' /\ TypedReads' /\ TypedSweep'
      BY <1>1, <1>2 DEF TypedIndex, TypedReads, TypedSweep
<1>5. Past'
  <2>1. \A q \in Paths : told[q] \in Nat
        BY DEF TypedIndex
  <2> QED BY <1>1, <1>3, <2>1 DEF Past
<1>6. Counted' /\ Fresh' /\ FillFirst' /\ ToolWins'
      BY <1>1 DEF Counted, Fresh, FillFirst, Filling, Watching, ToolWins, Held
<1> QED BY <1>3, <1>4, <1>5, <1>6

LEMMA StatWrittenStep ==
  ASSUME IInv, StatWritten
  PROVE  IInv'
<1> USE IndexAssumption DEF IInv, Typed
<1>1. UNCHANGED <<disk, clock, entries, withdrawals, reads, sweep, told>> /\ tool.at = "wrote"
      BY DEF StatWritten, index
<1>2. TypedTool' /\ tool'.change <= clock
  <2>1. Resting \in Calls /\ Resting.at = "idle" /\ Resting.change = 0 /\ clock \in Nat
        BY DEF Resting, Calls, TypedIndex
  <2>2. tool.path \in Paths /\ disk[tool.path] \in Nat
        BY <1>1 DEF TypedTool, TypedIndex
  <2>3. CASE tool' = Resting
        BY <2>1, <2>3 DEF TypedTool
  <2>4. CASE tool' = [tool EXCEPT !.at = "known", !.stamp = disk[tool.path]]
        BY <2>2, <2>4 DEF TypedTool, Calls, Past
  <2> QED BY <2>3, <2>4 DEF StatWritten
<1>3. TypedIndex' /\ TypedReads' /\ TypedSweep' /\ Past'
      BY <1>1, <1>2 DEF TypedIndex, TypedReads, TypedSweep, Past
<1>4. Counted' /\ Fresh' /\ FillFirst' /\ ToolWins'
      BY <1>1 DEF Counted, Fresh, FillFirst, Filling, Watching, ToolWins, Held
<1> QED BY <1>2, <1>3, <1>4

\* vault_write and vault_delete tell the index: the path is withdrawn at once.
LEMMA TellStep ==
  ASSUME IInv, Apply \/ Forget
  PROVE  IInv'
<1> USE IndexAssumption DEF IInv, Typed
<1> DEFINE p == tool.path
           e == [stamp |-> tool.stamp, content |-> tool.change, asOf |-> tool.change]
<1>1. /\ p \in Paths /\ tool.change \in Nat /\ tool.stamp \in Nat /\ tool.change <= clock
      BY DEF Apply, Forget, TypedTool, Calls, Past
<1>2. /\ UNCHANGED <<disk, clock, reads, sweep>> /\ tool' = Resting
      /\ withdraw({p}) /\ told' = [told EXCEPT ![p] = tool.change]
      /\ entries' = [entries EXCEPT ![p] = e] \/ entries' = [entries EXCEPT ![p] = NoEntry]
      BY DEF Apply, Forget, applyNote, upsert, remove
<1>3. e \in Entries /\ e.asOf = tool.change /\ NoEntry \in Entries
      BY <1>1 DEF NoEntry, Entries
<1>4. Resting \in Calls /\ Resting.at = "idle" /\ Resting.change = 0
      BY DEF Resting, Calls
<1> HIDE DEF e
<1>5. ~Filling
      BY DEF FillFirst, Apply, Forget
<1>6. TypedReads' /\ Counted' /\ Fresh' /\ withdrawals' \in [Paths -> Nat]
      BY <1>1, <1>2, WithdrawnKept DEF TypedReads, TypedIndex
<1>7. TypedIndex'
  <2>1. entries' \in [Paths -> Entries]
        BY <1>1, <1>2, <1>3 DEF TypedIndex
  <2>2. told' \in [Paths -> Nat]
        BY <1>1, <1>2 DEF TypedIndex
  <2> QED BY <1>2, <1>6, <2>1, <2>2 DEF TypedIndex
<1>8. TypedTool' /\ Past'
      BY <1>1, <1>2, <1>4 DEF TypedTool, Past, TypedIndex
<1>9. TypedSweep' /\ FillFirst'
      BY <1>2, <1>5 DEF TypedSweep, FillFirst, Filling, Watching
<1>10. ToolWins'
      BY <1>1, <1>2, <1>3 DEF ToolWins, Held, TypedIndex
<1> QED BY <1>6, <1>7, <1>8, <1>9, <1>10

\* vault_move tells the index: both paths are withdrawn, and the note is read anew.
LEMMA RenameStep ==
  ASSUME IInv, RenameEntry
  PROVE  IInv'
<1> USE IndexAssumption DEF IInv, Typed
<1> DEFINE from == tool.path
           to == tool.to
           e == [entries[from] EXCEPT !.asOf = tool.change]
           a == [Idle EXCEPT !.at = "begun", !.path = to, !.withdrawn = withdrawals'[to]]
<1>1. /\ from \in Paths /\ to \in Paths /\ tool.change \in Nat /\ tool.change <= clock /\ clock \in Nat
      BY DEF RenameEntry, TypedTool, Calls, Past, TypedIndex
<1>2. /\ UNCHANGED <<disk, clock, sweep>> /\ tool' = [tool EXCEPT !.at = "touching"]
      /\ withdraw({from, to}) /\ reads' = [reads EXCEPT !["touch"] = a] /\ "touch" \in Callers
      /\ told' = [told EXCEPT ![from] = tool.change, ![to] = IF from \in Held THEN tool.change ELSE @]
      /\ entries' = IF from \notin Held THEN entries ELSE [entries EXCEPT ![from] = NoEntry, ![to] = e]
      BY DEF RenameEntry, rename, Callers
<1>3. e \in Entries /\ e.asOf = tool.change /\ NoEntry \in Entries
      BY <1>1 DEF NoEntry, Entries, TypedIndex
<1>4. withdrawals' \in [Paths -> Nat]
      BY <1>1, <1>2 DEF withdraw, TypedIndex
<1>5. a \in Answers /\ a.at = "begun" /\ a.path = to /\ a.withdrawn = withdrawals'[to]
      BY <1>1, <1>4 DEF Idle, Answers
<1> HIDE DEF e, a
<1>6. ~Filling
      BY DEF FillFirst, RenameEntry
<1>7. told' \in [Paths -> Nat]
      BY <1>1, <1>2 DEF TypedIndex
<1>8. TypedReads' /\ Counted' /\ Fresh'
  <2>1. \A q \in Paths \ {from, to} : told'[q] = told[q]
        BY <1>2 DEF TypedIndex
  <2>2. reads' \in [Callers -> Answers]
        BY <1>2, <1>5 DEF TypedReads
  <2>3. \A s \in Callers : reads'[s] = reads[s] \/ reads'[s] = a
        BY <1>2 DEF TypedReads
  <2> QED BY <1>1, <1>2, <1>5, <2>1, <2>2, <2>3, WithdrawnKept
<1>9. TypedIndex'
      BY <1>1, <1>2, <1>3, <1>4, <1>7 DEF TypedIndex
<1>10. TypedTool' /\ tool'.change = tool.change
      BY <1>1, <1>2 DEF TypedTool, Calls
<1>11. Past'
      BY <1>1, <1>2, <1>10 DEF Past, TypedIndex
<1>12. TypedSweep' /\ FillFirst'
      BY <1>2, <1>6 DEF TypedSweep, FillFirst, Filling, Watching
<1>13. ToolWins'
  <2>1. CASE from \in Held
    <3>1. entries' = [entries EXCEPT ![from] = NoEntry, ![to] = e]
          BY <1>2, <2>1
    <3>2. told' = [told EXCEPT ![from] = tool.change, ![to] = tool.change]
          BY <1>1, <1>2, <2>1 DEF TypedIndex
    <3> QED BY <1>1, <1>3, <3>1, <3>2 DEF ToolWins, Held, TypedIndex
  <2>2. CASE from \notin Held
    <3>1. UNCHANGED entries
          BY <1>2, <2>2
    <3>2. \A q \in Held : told'[q] = told[q]
          BY <1>1, <1>2, <2>2 DEF TypedIndex, Held
    <3> QED BY <3>1, <3>2 DEF ToolWins, Held
  <2> QED BY <2>1, <2>2
<1> QED BY <1>8, <1>9, <1>10, <1>11, <1>12, <1>13

-----------------------------------------------------------------------------
LEMMA StepInv == IInv /\ [Next]_vars => IInv'
<1> SUFFICES ASSUME IInv, [Next]_vars PROVE IInv'
    OBVIOUS
<1>1. CASE \E r \in Callers : ReadStep(r) \/ FailRead(r)
      BY <1>1, StatStep, FetchStep, FinishReadStep, FailReadStep DEF ReadStep
<1>2. CASE SweepStep \/ FailListing
      BY <1>2, SweepOnlyStep, EndListingStep, CheckOrConfirmStep, FinishCheckedStep DEF SweepStep
<1>3. CASE ToolStep
      BY <1>3, StatWrittenStep, TellStep, RenameStep DEF ToolStep
<1>4. CASE ToolCall
      BY <1>4, ToolCallStep DEF ToolCall
<1>5. CASE \E p \in Paths : External(p) \/ Lose(p) \/ Deliver(p)
      BY <1>5, DiskStep, DeliverStep
<1>6. CASE UNCHANGED vars
  <2>1. UNCHANGED <<disk, clock, entries, withdrawals, reads, sweep, tool, told>>
        BY <1>6 DEF vars, index
  <2> QED BY <2>1 DEF IInv, Typed, TypedIndex, TypedReads, TypedSweep, TypedTool, Past, Counted, Fresh,
                      FillFirst, Filling, Watching, ToolWins, Held
<1> QED BY <1>1, <1>2, <1>3, <1>4, <1>5, <1>6 DEF Next

\* The strengthening holds in every state of every behaviour.
THEOREM IndexInvariant == Spec => []IInv
<1>1. Init => IInv
      BY InitInv
<1>2. IInv /\ [Next]_vars => IInv'
      BY StepInv
<1> QED BY <1>1, <1>2, PTL DEF Spec

\* What a tool told the index is never replaced by an older read of the same
\* path (the withdrawals of FrontmatterIndex), for any notes, refreshes and changes.
THEOREM IndexToolWins == Spec => []ToolWins
<1>1. IInv => ToolWins
      BY DEF IInv
<1> QED BY <1>1, IndexInvariant, PTL
-----------------------------------------------------------------------------
(* The first sweep.  A path is still when it has not changed since the     *)
(* watcher was attached and the index has not been ready: no event, no     *)
(* tool and no refresh but the sweep's own then concerns it, and its stamp *)
(* tells its content.                                                      *)

Still(p) == ~sweep.ready /\ (Filling \/ touched[p] <= sweep.attached)
SweepRead == reads["sweep"]
Looking(p) == SweepRead.at # "idle" /\ SweepRead.path = p
Known(p) == Agrees(p) \/ p \in unreadable

\* A note as it was read of p: the stamp is not younger than the content.
Plausible(note, p) ==
  0 < note.stamp /\ note.stamp <= note.content /\ note.content <= touched[p] /\ note.content \notin Garbled

Dates ==
  /\ touched \in [Paths -> Nat] /\ unindexable \in [Paths -> Nat] /\ DOMAIN queue = Paths
  /\ \A p \in Paths : touched[p] <= clock

Quiet ==
  ~sweep.ready => /\ tool.at = "idle" /\ sweep.attached <= clock
                  /\ sweep.at \in {"rest", "list"} => Free

\* A read under way has not failed.
Clean == SweepRead.at \in {"begun", "seen"} => SweepRead.err = "none"

Alone(p) ==
  queue[p] = <<>> /\ \A r \in Callers \ {"sweep"} : reads[r].at = "idle" \/ reads[r].path # p

Dated(p) ==
  /\ disk[p] \in {0, touched[p]} /\ 0 < touched[p]
  /\ entries[p] = NoEntry \/ Plausible(entries[p], p)
  /\ Looking(p) =>
       /\ SweepRead.at = "seen" => 0 < SweepRead.stamp /\ SweepRead.stamp <= touched[p]
       /\ SweepRead.at = "read" /\ SweepRead.err = "none" => Plausible(SweepRead, p)

\* What the sweep is reading of a still path is what the disk has.
Current(p) ==
  Watching /\ Looking(p) =>
    /\ SweepRead.withdrawn = withdrawals[p]
    /\ SweepRead.at = "seen" => SweepRead.stamp = disk[p]
    /\ SweepRead.at = "read" =>
         /\ SweepRead.err = "none" => SweepRead.content = disk[p]
         /\ SweepRead.err = "gone" => disk[p] = 0
         /\ SweepRead.err = "encoding" => disk[p] \in Garbled

\* Where the sweep is past a still path, the index has it as it is.
Passed(p) ==
  /\ Filling \/ sweep.at \in {"rest", "list"} => unindexable[p] = 0
  /\ Watching /\ sweep.at = "list" => p \in sweep.todo \/ sweep.seen[p] = disk[p]
  /\ Watching /\ sweep.at = "check" =>
       /\ sweep.seen[p] = disk[p]
       /\ p \in sweep.todo => disk[p] # 0 /\ unindexable[p] = 0 /\ ~Looking(p)
       /\ p \notin sweep.todo => disk[p] = 0 \/ Looking(p) \/ Known(p)
  /\ Watching /\ sweep.at = "confirm" =>
       /\ sweep.seen[p] = disk[p]
       /\ p \in sweep.todo => ~Looking(p)
       /\ p \notin sweep.todo => Looking(p) \/ Known(p)

Settled(p) == Alone(p) /\ Dated(p) /\ Current(p) /\ Passed(p)
RInv == Dates /\ Quiet /\ Clean /\ \A p \in Paths : Still(p) => Settled(p)

LEMMA InitSettled == Init => RInv
<1> SUFFICES ASSUME Init PROVE RInv
    OBVIOUS
<1>1. "sweep" \in Callers /\ \A r \in Callers : reads[r].at = "idle"
      BY DEF Init, Callers, Idle
<1>2. Dates
      BY DEF Init, Dates
<1>3. sweep.attached = -1 /\ sweep.at = "list" /\ tool.at = "idle" /\ clock = 1
      BY DEF Init, Resting
<1>4. Quiet /\ Clean
      BY <1>1, <1>3 DEF Quiet, Clean, SweepRead, Free
<1>5. ASSUME NEW p \in Paths PROVE Settled(p)
  <2>1. disk[p] \in {0, 1} /\ touched[p] = 1 /\ entries[p] = NoEntry /\ queue[p] = <<>> /\ unindexable[p] = 0
        BY DEF Init
  <2>2. ~Looking(p) /\ ~Watching
        BY <1>1, <1>3 DEF Looking, SweepRead, Watching
  <2> QED BY <1>1, <2>1, <2>2 DEF Settled, Alone, Dated, Current, Passed, Looking
<1> QED BY <1>2, <1>4, <1>5 DEF RInv

\* Nothing of p, and nothing of the sweep, changes.
Same(p) ==
  /\ sweep' = sweep /\ reads'["sweep"] = reads["sweep"]
  /\ disk'[p] = disk[p] /\ touched'[p] = touched[p] /\ queue'[p] = queue[p]
  /\ entries'[p] = entries[p] /\ withdrawals'[p] = withdrawals[p]
  /\ (p \in unreadable') = (p \in unreadable) /\ unindexable'[p] = unindexable[p]
  /\ \A r \in Callers \ {"sweep"} :
       \/ reads'[r].at = "idle" \/ reads'[r].path # p
       \/ reads[r].at # "idle" /\ reads'[r].path = reads[r].path

LEMMA SameSettled ==
  ASSUME NEW p \in Paths, Settled(p), Same(p)
  PROVE  Settled(p)'
<1>1. Looking(p)' = Looking(p) /\ SweepRead' = SweepRead /\ Watching' = Watching
      BY DEF Same, Looking, SweepRead, Watching
<1>2. Plausible(entries[p], p)' = Plausible(entries[p], p) /\ Plausible(SweepRead, p)' = Plausible(SweepRead, p)
      BY <1>1 DEF Same, Plausible
<1>3. Alone(p)'
      BY DEF Settled, Alone, Same
<1>4. Dated(p)'
      BY <1>1, <1>2 DEF Settled, Dated, Same
<1>5. Current(p)'
      BY <1>1 DEF Settled, Current, Same
<1>6. Known(p)' = Known(p)
      BY DEF Known, Agrees, Held, Same
<1>7. Passed(p)'
      BY <1>1, <1>6 DEF Settled, Passed, Same, Filling
<1> QED BY <1>3, <1>4, <1>5, <1>7 DEF Settled

\* A path that is still was still before, whatever the step.
LEMMA StillKept ==
  ASSUME IInv, RInv, NEW p \in Paths, Still(p)',
         ~sweep'.ready => ~sweep.ready,
         Filling \/ sweep'.attached = sweep.attached,
         touched[p] <= touched'[p], touched'[p] \in Nat
  PROVE  Still(p) /\ Settled(p)
<1>1. touched[p] \in Nat /\ sweep.attached \in Int
      BY DEF IInv, Typed, TypedSweep, Sweeps, RInv, Dates
<1>2. Still(p)
      BY <1>1 DEF Still, Filling, Watching
<1> QED BY <1>2 DEF RInv

\* A step that concerns no still path but q keeps them settled if it keeps q.
LEMMA OthersSettled ==
  ASSUME IInv, RInv, Dates', Quiet', Clean', NEW q \in Paths,
         UNCHANGED sweep, \A p \in Paths : touched[p] <= touched'[p],
         \A p \in Paths \ {q} : Still(p) => Same(p),
         Still(q) /\ Settled(q) /\ Still(q)' => Settled(q)'
  PROVE  RInv'
<1> SUFFICES ASSUME NEW p \in Paths, Still(p)' PROVE Settled(p)'
    BY DEF RInv
<1>1. Still(p) /\ Settled(p)
      BY StillKept DEF Dates
<1>2. CASE p = q
      BY <1>1, <1>2
<1>3. CASE p # q
      BY <1>1, <1>3, SameSettled
<1> QED BY <1>2, <1>3

LEMMA AllSettled ==
  ASSUME IInv, RInv, Dates', Quiet', Clean', UNCHANGED <<sweep, touched>>,
         \A p \in Paths : Still(p) => Same(p)
  PROVE  RInv'
<1> SUFFICES ASSUME NEW p \in Paths, Still(p)' PROVE Settled(p)'
    BY DEF RInv
<1>1. touched[p] <= touched'[p]
      BY DEF RInv, Dates
<1>2. Still(p) /\ Settled(p)
      BY <1>1, StillKept DEF Dates
<1> QED BY <1>2, SameSettled

-----------------------------------------------------------------------------
(* The reads of others. *)

LEMMA OtherReadMoves ==
  ASSUME IInv, RInv, NEW r \in Callers \ {"sweep"}, Stat(r) \/ Fetch(r) \/ FailRead(r)
  PROVE  RInv'
<1>1. /\ reads[r].at # "idle"
      /\ UNCHANGED <<disk, clock, queue, entries, withdrawals, unreadable, unindexable, sweep, tool, touched>>
      /\ \A s \in Callers \ {r} : reads'[s] = reads[s]
      /\ DOMAIN reads = Callers /\ "sweep" \in Callers
      BY DEF Stat, Fetch, FailRead, index, IInv, Typed, TypedReads, Callers
<1>2. reads'[r].path = reads[r].path
  <2>1. Gone(r).path = reads[r].path
        BY <1>1 DEF Gone, IInv, Typed, TypedReads, Answers
  <2>2. CASE Stat(r)
        BY <1>1, <2>1, <2>2 DEF Stat, IInv, Typed, TypedReads, Answers
  <2>3. CASE FailRead(r)
        BY <1>1, <2>3 DEF FailRead, IInv, Typed, TypedReads, Answers
  <2>4. CASE Fetch(r)
    <3> DEFINE found == disk[reads[r].path]
               read == [reads[r] EXCEPT !.at = "read", !.content = found, !.asOf = clock]
               bad == [read EXCEPT !.err = "encoding"]
    <3>1. reads[r] \in Answers
          BY DEF IInv, Typed, TypedReads
    <3>2. read.path = reads[r].path /\ bad.path = reads[r].path
          BY <3>1 DEF Answers
    <3>3. reads'[r] = CASE found = 0 -> Gone(r) [] found \in Garbled -> bad [] OTHER -> read
          BY <1>1, <2>4 DEF Fetch
    <3>4. 0 \notin Garbled
          BY IndexAssumption
    <3> HIDE DEF found, read, bad
    <3>5. reads'[r] = Gone(r) \/ reads'[r] = bad \/ reads'[r] = read
      <4>1. CASE found = 0
            BY <3>3, <3>4, <4>1, Zenon
      <4>2. CASE found # 0 /\ found \in Garbled
            BY <3>3, <4>2, Zenon
      <4>3. CASE found # 0 /\ found \notin Garbled
            BY <3>3, <4>3, Zenon
      <4> QED BY <4>1, <4>2, <4>3
    <3> QED BY <2>1, <3>2, <3>5
  <2> QED BY <2>2, <2>3, <2>4
<1>3. Dates' /\ Quiet' /\ Clean'
      BY <1>1 DEF RInv, Dates, Quiet, Clean, SweepRead, Free
<1>4. ASSUME NEW p \in Paths PROVE Same(p)
      BY <1>1, <1>2 DEF Same
<1> QED BY <1>1, <1>3, <1>4, AllSettled

\* The paths an answer of a refresh does not concern keep their index.
LEMMA RefreshedElsewhere ==
  ASSUME IInv, NEW r \in Callers, Refreshed(reads[r]), NEW p \in Paths, p # reads[r].path
  PROVE  entries'[p] = entries[p] /\ withdrawals'[p] = withdrawals[p] /\ (p \in unreadable') = (p \in unreadable)
BY DEF Refreshed, remove, upsert, withdraw, index, IInv, Typed, TypedIndex

LEMMA OtherReadEnds ==
  ASSUME IInv, RInv, NEW r \in Callers, FinishRead(r)
  PROVE  RInv'
<1>1. /\ r # "sweep" /\ reads[r].at # "idle" /\ Refreshed(reads[r]) /\ reads' = [reads EXCEPT ![r] = Idle]
      /\ UNCHANGED <<disk, clock, queue, unindexable, sweep, touched>> /\ (tool' = Resting \/ tool' = tool)
      /\ Idle.at = "idle" /\ Resting.at = "idle" /\ DOMAIN reads = Callers /\ "sweep" \in Callers
      BY DEF FinishRead, Idle, Resting, IInv, Typed, TypedReads, Callers
<1>2. Dates' /\ Quiet' /\ Clean'
      BY <1>1 DEF RInv, Dates, Quiet, Clean, SweepRead, Free
<1>3. ASSUME NEW p \in Paths, Still(p) PROVE Same(p)
  <2>1. reads[r].path # p
        BY <1>1, <1>3 DEF RInv, Settled, Alone
  <2>2. entries'[p] = entries[p] /\ withdrawals'[p] = withdrawals[p] /\ (p \in unreadable') = (p \in unreadable)
        BY <1>1, <2>1, RefreshedElsewhere
  <2> QED BY <1>1, <2>2 DEF Same
<1> QED BY <1>1, <1>2, <1>3, AllSettled

-----------------------------------------------------------------------------
(* The disk and the watcher. *)

LEMMA DiskSettled ==
  ASSUME IInv, RInv, NEW q \in Paths, External(q) \/ Lose(q) \/ Deliver(q)
  PROVE  RInv'
<1>1. /\ UNCHANGED <<sweep, unindexable>> /\ tool' = tool
      /\ DOMAIN queue = Paths /\ "sweep" \in Callers /\ "sweep" \notin Readers
      BY IndexAssumption DEF External, Lose, Deliver, RInv, Dates, Callers
<1>2. /\ \A p \in Paths : touched[p] \in Nat /\ touched[p] <= clock
      /\ clock \in Nat /\ sweep.attached \in Int
      /\ DOMAIN withdrawals = Paths /\ DOMAIN entries = Paths /\ DOMAIN disk = Paths /\ DOMAIN reads = Callers
      BY DEF RInv, Dates, IInv, Typed, TypedIndex, TypedReads, TypedSweep, Sweeps
<1>3. CASE External(q)
  <2>1. /\ clock' = clock + 1 /\ touched' = [touched EXCEPT ![q] = clock']
        /\ UNCHANGED <<entries, withdrawals, unreadable, reads>>
        /\ disk' = [disk EXCEPT ![q] = clock'] \/ disk' = [disk EXCEPT ![q] = 0]
        /\ \E kind : Noticed({q}, kind)
        BY <1>3 DEF External, Tick, index
  <2>2. Dates'
        BY <1>1, <1>2, <2>1 DEF RInv, Dates, Noticed
  <2>3. Quiet' /\ Clean'
        BY <1>1, <1>2, <2>1 DEF RInv, Quiet, Clean, SweepRead, Free
  <2>4. ASSUME NEW p \in Paths \ {q} PROVE Same(p)
    <3>1. queue'[p] = queue[p]
          BY <2>1 DEF Noticed
    <3> QED BY <1>1, <1>2, <2>1, <3>1 DEF Same
  <2>5. ASSUME Still(q), Settled(q), Still(q)' PROVE Settled(q)'
    <3>1. Filling /\ Filling' /\ touched'[q] = clock' /\ touched[q] <= clock /\ clock' \in Nat
          BY <1>1, <1>2, <2>1, <2>5 DEF RInv, Dates, Quiet, Still, Filling, Watching
    <3>2. /\ Looking(q)' = Looking(q) /\ SweepRead' = SweepRead
          /\ SweepRead.stamp \in Nat /\ SweepRead.content \in Nat
          /\ entries[q].stamp \in Nat /\ entries[q].content \in Nat
          BY <1>1, <2>1 DEF Looking, SweepRead, IInv, Typed, TypedReads, Answers, TypedIndex, Entries
    <3>3. queue'[q] = queue[q]
          BY <2>1, <3>1 DEF Noticed, Filling
    <3>4. Alone(q)'
          BY <2>1, <2>5, <3>3 DEF Settled, Alone
    <3>5. /\ Plausible(entries[q], q) => Plausible(entries[q], q)'
          /\ Plausible(SweepRead, q) => Plausible(SweepRead, q)'
          BY <1>2, <2>1, <3>1, <3>2 DEF Plausible
    <3>6. disk'[q] \in {0, touched'[q]}
          BY <1>2, <2>1, <3>1
    <3>7. Dated(q)'
      <4>1. entries'[q] = entries[q]
            BY <2>1
      <4>2. Looking(q) /\ SweepRead.at = "seen" => 0 < SweepRead.stamp /\ SweepRead.stamp <= touched'[q]
            BY <1>2, <2>1, <2>5, <3>1, <3>2 DEF Settled, Dated
      <4>3. 0 < touched'[q]
            BY <1>2, <2>1, <3>1
      <4> QED BY <2>5, <3>2, <3>5, <3>6, <4>1, <4>2, <4>3 DEF Settled, Dated
    <3>8. Current(q)' /\ Passed(q)'
          BY <1>1, <2>5, <3>1 DEF Settled, Current, Passed, Filling
    <3> QED BY <3>4, <3>7, <3>8 DEF Settled
  <2>6. \A p \in Paths : touched[p] <= touched'[p]
        BY <1>2, <2>1
  <2> QED BY <1>1, <2>2, <2>3, <2>4, <2>5, <2>6, OthersSettled
<1>4. CASE Lose(q) \/ Deliver(q)
  <2>1. /\ UNCHANGED <<disk, clock, touched>> /\ queue' = [queue EXCEPT ![q] = Tail(@)] /\ queue[q] # <<>>
        BY <1>4 DEF Lose, Deliver
  <2>2. /\ \A p \in Paths \ {q} : /\ entries'[p] = entries[p] /\ withdrawals'[p] = withdrawals[p]
                                  /\ (p \in unreadable') = (p \in unreadable)
        /\ \/ UNCHANGED reads
           \/ \E r \in Readers : reads[r].at = "idle" /\ reads' = [reads EXCEPT ![r] = Reading(q)]
    <3>1. CASE Lose(q)
          BY <3>1 DEF Lose, index
    <3>2. CASE Deliver(q) /\ remove(q) /\ UNCHANGED reads
          BY <1>2, <3>2 DEF remove, withdraw
    <3>3. CASE UNCHANGED index /\ \E r \in Readers : reads[r].at = "idle" /\ reads' = [reads EXCEPT ![r] = Reading(q)]
          BY <3>3 DEF index
    <3> QED BY <1>4, <3>1, <3>2, <3>3 DEF Deliver
  <2>3. Reading(q).path = q
        BY DEF Reading, Idle
  <2>4. Dates' /\ Quiet' /\ Clean'
        BY <1>1, <1>2, <2>1, <2>2 DEF RInv, Dates, Quiet, Clean, SweepRead, Free
  <2>5. ASSUME NEW p \in Paths, Still(p) PROVE Same(p)
    <3>1. p # q
          BY <2>1, <2>5 DEF RInv, Settled, Alone
    <3> QED BY <1>1, <1>2, <2>1, <2>2, <2>3, <3>1 DEF Same
  <2> QED BY <1>1, <2>1, <2>4, <2>5, AllSettled
<1> QED BY <1>3, <1>4

-----------------------------------------------------------------------------
(* The sweep's own read. *)

\* What the read is after a step, given the disk: it has its stamp, or its answer.
Moved(a) ==
  LET found == disk[SweepRead.path] IN
  /\ a \in Answers /\ a.path = SweepRead.path /\ a.withdrawn = SweepRead.withdrawn
  /\ a.at \in {"seen", "read"}
  /\ a.at = "seen" => a.err = "none" /\ a.stamp = found /\ found # 0
  /\ a.at = "read" =>
       /\ a.err = "none" => /\ SweepRead.at = "seen" /\ a.stamp = SweepRead.stamp
                            /\ a.content = found /\ found # 0 /\ found \notin Garbled
       /\ a.err = "gone" => found = 0
       /\ a.err = "encoding" => found \in Garbled

LEMMA MovedSettled ==
  ASSUME IInv, RInv, SweepRead.at # "idle", NEW a, Moved(a), reads' = [reads EXCEPT !["sweep"] = a],
         UNCHANGED <<disk, clock, queue, entries, withdrawals, unreadable, unindexable, sweep, tool, touched>>
  PROVE  RInv'
<1> DEFINE q == SweepRead.path
<1>1. /\ "sweep" \in Callers /\ DOMAIN reads = Callers /\ q \in Paths /\ SweepRead' = a
      /\ \A s \in Callers \ {"sweep"} : reads'[s] = reads[s]
      BY DEF IInv, Typed, TypedReads, SweepRead, Callers
<1>2. a.path = q /\ a.at # "idle" /\ a.at \in {"seen", "read"} /\ a.withdrawn = SweepRead.withdrawn
      /\ a.stamp \in Nat /\ a.content \in Nat
      BY DEF Moved, Answers
<1>3. ASSUME NEW p \in Paths PROVE Looking(p)' = Looking(p)
      BY <1>1, <1>2 DEF Looking
<1>4. Dates' /\ Quiet' /\ Clean'
  <2>1. Dates' /\ Quiet'
        BY <1>1, <1>2 DEF RInv, Dates, Quiet, Free, SweepRead
  <2>2. Clean'
        BY <1>1, <1>2 DEF Clean, Moved
  <2> QED BY <2>1, <2>2
<1>5. ASSUME NEW p \in Paths, Still(p)' PROVE Settled(p)'
  <2>1. Still(p) /\ Settled(p)
        BY <1>5 DEF Still, Filling, Watching, RInv
  <2>2. Alone(p)'
        BY <1>1, <2>1 DEF Settled, Alone
  <2>3. Passed(p)'
        BY <1>3, <2>1 DEF Settled, Passed, Known, Agrees, Held, Filling, Watching
  <2>4. CASE p # q
    <3>1. ~Looking(p) /\ ~Looking(p)'
          BY <1>3, <2>4 DEF Looking
    <3>2. Dated(p)' /\ Current(p)'
          BY <2>1, <3>1 DEF Settled, Dated, Current, Plausible
    <3> QED BY <2>2, <2>3, <3>2 DEF Settled
  <2>5. CASE p = q
    <3>1. Looking(q) /\ disk[q] \in {0, touched[q]} /\ 0 < touched[q] /\ touched[q] \in Nat
          BY <2>1, <2>5 DEF Looking, Settled, Dated, RInv, Dates
    <3>2. a.at = "seen" => a.err = "none" /\ a.stamp = disk[q] /\ disk[q] = touched[q]
          BY <3>1 DEF Moved
    <3>3. a.at = "read" /\ a.err = "none" =>
            /\ 0 < a.stamp /\ a.stamp <= a.content
            /\ a.content = touched[q] /\ a.content = disk[q] /\ a.content \notin Garbled
          BY <2>1, <2>5, <3>1 DEF Moved, Settled, Dated
    <3>4. Dated(p)'
      <4>1. entries[p] = NoEntry \/ Plausible(entries[p], p)'
            BY <2>1, <2>5 DEF Settled, Dated, Plausible
      <4>2. a.at = "read" /\ a.err = "none" => Plausible(SweepRead, p)'
            BY <1>1, <1>2, <2>5, <3>1, <3>3 DEF Plausible
      <4> QED BY <1>1, <1>2, <2>5, <3>1, <3>2, <4>1, <4>2 DEF Dated
    <3>5. Current(p)'
      <4>1. Watching => a.withdrawn = withdrawals[q]
            BY <1>2, <2>1, <2>5, <3>1 DEF Settled, Current
      <4>2. a.at = "read" => /\ a.err = "gone" => disk[q] = 0
                             /\ a.err = "encoding" => disk[q] \in Garbled
            BY DEF Moved
      <4> QED BY <1>1, <1>2, <2>5, <3>2, <3>3, <4>1, <4>2 DEF Current, Watching
    <3> QED BY <2>2, <2>3, <3>4, <3>5 DEF Settled
  <2> QED BY <2>4, <2>5
<1> QED BY <1>4, <1>5 DEF RInv

LEMMA OwnReadMoves ==
  ASSUME IInv, RInv, Stat("sweep") \/ Fetch("sweep") \/ FailRead("sweep")
  PROVE  RInv'
<1> DEFINE q == SweepRead.path
           found == disk[q]
           gone == [SweepRead EXCEPT !.at = "read", !.err = "gone"]
           seen == [SweepRead EXCEPT !.at = "seen", !.stamp = found]
           read == [SweepRead EXCEPT !.at = "read", !.content = found, !.asOf = clock]
           bad == [read EXCEPT !.err = "encoding"]
           failed == [SweepRead EXCEPT !.at = "read", !.err = "io"]
<1>1. /\ SweepRead \in Answers /\ SweepRead.at # "idle" /\ q \in Paths /\ found \in Nat /\ clock \in Nat
      /\ DOMAIN reads = Callers /\ "sweep" \in Callers
      BY DEF IInv, Typed, TypedReads, TypedIndex, SweepRead, Callers, Stat, Fetch, FailRead
<1>2. UNCHANGED <<disk, clock, queue, entries, withdrawals, unreadable, unindexable, sweep, tool, touched>>
      BY DEF Stat, Fetch, FailRead, index
<1>3. 0 \notin Garbled
      BY IndexAssumption
<1>4. \E a : Moved(a) /\ reads' = [reads EXCEPT !["sweep"] = a]
  <2>1. CASE Stat("sweep")
    <3>1. reads' = [reads EXCEPT !["sweep"] = IF found = 0 THEN gone ELSE seen] /\ SweepRead.at = "begun"
          BY <2>1 DEF Stat, Gone, SweepRead
    <3>2. found = 0 => Moved(gone)
          BY <1>1 DEF Moved, Answers
    <3>3. found # 0 => Moved(seen)
          BY <1>1, <3>1 DEF Moved, Answers, RInv, Clean
    <3> QED BY <3>1, <3>2, <3>3
  <2>2. CASE Fetch("sweep")
    <3>1. /\ SweepRead.at = "seen"
          /\ reads' = [reads EXCEPT !["sweep"] = CASE found = 0 -> gone [] found \in Garbled -> bad [] OTHER -> read]
          BY <2>2 DEF Fetch, Gone, SweepRead
    <3>2. found = 0 => Moved(gone)
          BY <1>1 DEF Moved, Answers
    <3> DEFINE a == CASE found = 0 -> gone [] found \in Garbled -> bad [] OTHER -> read
    <3>3. found \in Garbled => Moved(bad)
          BY <1>1, <1>3 DEF Moved, Answers
    <3>4. found # 0 /\ found \notin Garbled => Moved(read)
          BY <1>1, <3>1 DEF Moved, Answers, RInv, Clean
    <3> HIDE DEF found, gone, bad, read
    <3>5. Moved(a)
      <4>1. CASE found = 0
            BY <1>3, <3>2, <4>1, Zenon
      <4>2. CASE found # 0 /\ found \in Garbled
            BY <3>3, <4>2, Zenon
      <4>3. CASE found # 0 /\ found \notin Garbled
            BY <3>4, <4>3, Zenon
      <4> QED BY <4>1, <4>2, <4>3
    <3> QED BY <3>1, <3>5
  <2>3. CASE FailRead("sweep")
    <3>1. reads' = [reads EXCEPT !["sweep"] = failed]
          BY <1>1, <2>3 DEF FailRead, SweepRead
    <3>2. Moved(failed)
          BY <1>1 DEF Moved, Answers
    <3> QED BY <3>1, <3>2
  <2> QED BY <2>1, <2>2, <2>3
<1> QED BY <1>1, <1>2, <1>4, MovedSettled

\* The read of a checked or confirmed path starts.
LEMMA CheckSettled ==
  ASSUME IInv, RInv, NEW q \in Paths, CheckOne(q) \/ ConfirmOne(q)
  PROVE  RInv'
<1>1. /\ UNCHANGED <<disk, clock, queue, entries, withdrawals, unreadable, unindexable, tool, touched>>
      /\ sweep' = [sweep EXCEPT !.todo = @ \ {q}] /\ q \in sweep.todo /\ Free
      /\ \/ UNCHANGED reads /\ sweep.at = "check" /\ ~Filling /\ UpToDate(q)
         \/ reads' = [reads EXCEPT !["sweep"] = Reading(q)]
      /\ sweep.at \in {"check", "confirm"}
      BY DEF CheckOne, ConfirmOne, index, Leading
<1>2. /\ sweep'.ready = sweep.ready /\ sweep'.attached = sweep.attached /\ sweep'.at = sweep.at
      /\ sweep'.seen = sweep.seen /\ sweep'.todo = sweep.todo \ {q}
      /\ "sweep" \in Callers /\ DOMAIN reads = Callers
      BY <1>1 DEF IInv, Typed, TypedSweep, Sweeps, TypedReads, Callers
<1>3. /\ Reading(q).at = "begun" /\ Reading(q).path = q
      /\ Reading(q).withdrawn = withdrawals[q] /\ Reading(q).err = "none"
      BY DEF Reading, Idle
<1>4. Dates' /\ Quiet' /\ Clean'
      BY <1>1, <1>2, <1>3 DEF RInv, Dates, Quiet, Clean, SweepRead, Free
<1>5. ASSUME NEW p \in Paths, Still(p)' PROVE Settled(p)'
  <2>1. Still(p) /\ Settled(p)
        BY <1>1, <1>2, <1>5 DEF Still, Filling, Watching, RInv
  <2>2. Alone(p)'
        BY <1>1, <1>2, <2>1 DEF Settled, Alone
  <2>3. ~Looking(p) /\ Known(p)' = Known(p) /\ Watching' = Watching
        BY <1>1, <1>2 DEF Looking, SweepRead, Free, Known, Agrees, Held, Watching
  <2>4. Looking(p)' => p = q /\ SweepRead' = Reading(q)
        BY <1>1, <1>2, <1>3, <2>3 DEF Looking, SweepRead
  <2>5. Dated(p)' /\ Current(p)'
        BY <1>1, <1>3, <2>1, <2>4 DEF Settled, Dated, Current, Plausible
  <2>6. p = q /\ Watching /\ sweep.at = "check" /\ UNCHANGED reads => Known(p)
    <3> SUFFICES ASSUME p = q, Watching, sweep.at = "check", UNCHANGED reads, UpToDate(q)
                 PROVE  Agrees(p)
        BY <1>1, <1>2, <1>3, <2>3 DEF Known, Looking, SweepRead
    <3>1. sweep.seen[p] = disk[p] /\ disk[p] # 0 /\ unindexable[p] = 0
          BY <1>1, <2>1 DEF Settled, Passed
    <3>2. p \in Held /\ entries[p].stamp = disk[p]
          BY <3>1 DEF UpToDate
    <3>3. Plausible(entries[p], p) /\ disk[p] = touched[p]
          BY <2>1, <3>1, <3>2 DEF Settled, Dated, Held
    <3>4. entries[p].content \in Nat /\ entries[p].stamp \in Nat
          BY DEF IInv, Typed, TypedIndex, Entries
    <3> QED BY <3>1, <3>2, <3>3, <3>4 DEF Agrees, Plausible
  <2>7. Looking(p)' \/ p # q \/ (UNCHANGED reads /\ sweep.at = "check")
        BY <1>1, <1>2, <1>3 DEF Looking, SweepRead
  <2>8. Passed(p)'
    <3>1. CASE sweep.at = "check"
      <4>1. Watching /\ p \in sweep'.todo => disk[p] # 0 /\ unindexable[p] = 0 /\ ~Looking(p)'
            BY <1>2, <2>1, <2>4, <3>1 DEF Settled, Passed
      <4>2. Watching /\ p \notin sweep'.todo => disk[p] = 0 \/ Looking(p)' \/ Known(p)
            BY <1>2, <2>1, <2>3, <2>6, <2>7, <3>1 DEF Settled, Passed
      <4> QED BY <1>1, <1>2, <2>1, <2>3, <3>1, <4>1, <4>2 DEF Settled, Passed, Filling
    <3>2. CASE sweep.at = "confirm"
      <4>1. Watching /\ p \in sweep'.todo => ~Looking(p)'
            BY <1>2, <2>4
      <4>2. Watching /\ p \notin sweep'.todo => Looking(p)' \/ Known(p)
            BY <1>1, <1>2, <2>1, <2>3, <2>7, <3>2 DEF Settled, Passed
      <4> QED BY <1>1, <1>2, <2>1, <2>3, <3>2, <4>1, <4>2 DEF Settled, Passed, Filling
    <3> QED BY <1>1, <3>1, <3>2
  <2> QED BY <2>2, <2>5, <2>8 DEF Settled
<1> QED BY <1>4, <1>5 DEF RInv

\* An answer of the sweep taken while the vault is watched: the index has the
\* path as the disk, or knows that it could not be read.
LEMMA AnswerKnown ==
  ASSUME IInv, RInv, NEW p \in Paths, Settled(p), Watching, Looking(p), SweepRead.at = "read",
         Refreshed(SweepRead), disk' = disk
  PROVE  Known(p)'
<1>1. /\ SweepRead \in Answers /\ SweepRead.path = p /\ SweepRead.withdrawn = withdrawals[p]
      /\ disk[p] \in Nat /\ entries \in [Paths -> Entries]
      BY DEF IInv, Typed, TypedReads, TypedIndex, Callers, SweepRead, Settled, Current, Looking
<1>2. CASE SweepRead.err = "none"
  <2>1. Plausible(SweepRead, p) /\ SweepRead.content = disk[p]
        BY <1>2 DEF Settled, Dated, Current
  <2>2. entries'[p] = EntryRead(SweepRead)
        BY <1>1, <1>2 DEF Refreshed, upsert
  <2>3. EntryRead(SweepRead) # NoEntry /\ EntryRead(SweepRead).content = disk[p] /\ disk[p] # 0
        BY <1>1, <2>1 DEF EntryRead, NoEntry, Plausible, Answers
  <2> QED BY <2>1, <2>2, <2>3 DEF Known, Agrees, Held, Plausible
<1>3. CASE SweepRead.err \in {"gone", "encoding"}
  <2>1. entries'[p] = NoEntry
        BY <1>1, <1>3 DEF Refreshed, remove
  <2>2. disk[p] = 0 \/ disk[p] \in Garbled
        BY <1>3 DEF Settled, Current
  <2> QED BY <2>1, <2>2 DEF Known, Agrees, Held
<1>4. CASE SweepRead.err = "io"
      BY <1>1, <1>4 DEF Refreshed, Known
<1> QED BY <1>1, <1>2, <1>3, <1>4 DEF Answers

LEMMA FilledIndex ==
  ASSUME Filled(SweepRead)
  PROVE  /\ withdrawals' = withdrawals
         /\ \/ /\ SweepRead.err = "none"
               /\ entries' = [entries EXCEPT ![SweepRead.path] = EntryRead(SweepRead)]
               /\ unreadable' = unreadable \ {SweepRead.path}
            \/ entries' = entries /\ unreadable' = unreadable
            \/ entries' = entries /\ unreadable' = unreadable \union {SweepRead.path}
<1>1. CASE SweepRead.err = "none"
      BY <1>1 DEF Filled, upsert
<1>2. CASE SweepRead.err # "none"
      BY <1>2 DEF Filled
<1> QED BY <1>1, <1>2

\* The sweep's answer, taken: in the fill as it is, later as refreshPath does.
LEMMA FinishCheckedSettled ==
  ASSUME IInv, RInv, FinishChecked
  PROVE  RInv'
<1> DEFINE q == SweepRead.path
<1>1. /\ SweepRead.at = "read" /\ reads' = [reads EXCEPT !["sweep"] = Idle]
      /\ UNCHANGED <<disk, clock, queue, sweep, tool, touched>> /\ "sweep" \in Callers /\ DOMAIN reads = Callers
      /\ Filling => Filled(SweepRead) /\ unindexable' = unindexable
      /\ Watching => Refreshed(SweepRead)
      /\ sweep.at # "check" => unindexable' = unindexable
      BY DEF FinishChecked, Callers, IInv, Typed, TypedReads, SweepRead, Filling
<1>2. q \in Paths /\ SweepRead \in Answers /\ Idle.at = "idle" /\ sweep.seen \in [Paths -> Nat]
      /\ entries \in [Paths -> Entries]
      BY <1>1 DEF IInv, Typed, TypedReads, TypedIndex, TypedSweep, Sweeps, SweepRead, Idle
<1>3. unindexable' \in [Paths -> Nat] /\ \A p \in Paths \ {q} : unindexable'[p] = unindexable[p]
  <2>1. unindexable \in [Paths -> Nat]
        BY DEF RInv, Dates
  <2>2. \/ unindexable' = unindexable
        \/ unindexable' = [unindexable EXCEPT ![q] = 0]
        \/ unindexable' = [unindexable EXCEPT ![q] = sweep.seen[q]]
        BY DEF FinishChecked, SweepRead
  <2>3. sweep.seen[q] \in Nat
        BY <1>2
  <2> QED BY <1>2, <2>1, <2>2, <2>3
<1>4. Dates' /\ Quiet' /\ Clean'
      BY <1>1, <1>2, <1>3 DEF RInv, Dates, Quiet, Clean, SweepRead, Free
<1>5. ASSUME NEW p \in Paths \ {q}
      PROVE  entries'[p] = entries[p] /\ withdrawals'[p] = withdrawals[p] /\ (p \in unreadable') = (p \in unreadable)
  <2>1. CASE Filling
    <3>1. Filled(SweepRead)
          BY <1>1, <2>1
    <3> QED BY <1>2, <1>5, <3>1, FilledIndex
  <2>2. CASE Watching
        BY <1>1, <1>2, <1>5, <2>2, RefreshedElsewhere DEF SweepRead
  <2> QED BY <2>1, <2>2 DEF Filling
<1>6. ASSUME NEW p \in Paths, Still(p)' PROVE Settled(p)'
  <2>1. Still(p) /\ Settled(p)
        BY <1>1, <1>6 DEF Still, Filling, Watching, RInv
  <2>2. Alone(p)' /\ ~Looking(p)' /\ Watching' = Watching
        BY <1>1, <1>2, <2>1 DEF Settled, Alone, Looking, SweepRead, Watching
  <2>3. Current(p)'
        BY <2>2 DEF Current
  <2>4. CASE p # q
    <3>1. Known(p)' = Known(p) /\ ~Looking(p)
          BY <1>1, <1>5, <2>4 DEF Known, Agrees, Held, Looking
    <3>2. Dated(p)'
          BY <1>1, <1>5, <2>1, <2>2, <2>4 DEF Settled, Dated, Plausible
    <3>3. Passed(p)'
          BY <1>1, <1>3, <2>1, <2>2, <2>4, <3>1 DEF Settled, Passed, Filling
    <3> QED BY <2>2, <2>3, <3>2, <3>3 DEF Settled
  <2>5. CASE p = q
    <3>1. Looking(p)
          BY <1>1, <2>5 DEF Looking
    <3>2. entries'[p] = entries[p] \/ entries'[p] = NoEntry
          \/ (SweepRead.err = "none" /\ entries'[p] = EntryRead(SweepRead))
      <4>1. CASE Filling
        <5>1. Filled(SweepRead)
              BY <1>1, <4>1
        <5> QED BY <1>2, <2>5, <5>1, FilledIndex
      <4>2. CASE Watching
            BY <1>1, <1>2, <2>5, <4>2 DEF Refreshed, upsert, remove, index
      <4> QED BY <4>1, <4>2 DEF Filling
    <3>3. Plausible(entries[p], p)' \/ entries'[p] = NoEntry
      <4>1. SweepRead.err = "none" => Plausible(SweepRead, p)
            BY <1>1, <2>1, <3>1 DEF Settled, Dated
      <4>2. EntryRead(SweepRead).stamp = SweepRead.stamp /\ EntryRead(SweepRead).content = SweepRead.content
            BY DEF EntryRead
      <4> QED BY <1>1, <2>1, <3>2, <4>1, <4>2 DEF Settled, Dated, Plausible
    <3>4. Dated(p)'
          BY <1>1, <2>1, <2>2, <3>3 DEF Settled, Dated
    <3>5. Watching => Known(p)'
          BY <1>1, <2>1, <3>1, AnswerKnown
    <3>6. Passed(p)'
          BY <1>1, <2>1, <2>2, <3>1, <3>5 DEF Settled, Passed, Filling, RInv, Quiet, Still, Free
    <3> QED BY <2>2, <2>3, <3>4, <3>6 DEF Settled
  <2> QED BY <2>4, <2>5
<1> QED BY <1>4, <1>6 DEF RInv

-----------------------------------------------------------------------------
(* The sweep moves on while it reads nothing. *)

\* All but Passed is kept when nothing of the path changes but the sweep's place.
LEMMA PhaseSettled ==
  ASSUME IInv, RInv, NEW p \in Paths, Settled(p), Free,
         UNCHANGED <<disk, queue, reads, withdrawals, touched>>,
         entries'[p] = entries[p] \/ Plausible(entries[p], p)'
  PROVE  Alone(p)' /\ Dated(p)' /\ Current(p)' /\ ~Looking(p) /\ ~Looking(p)'
<1>1. ~Looking(p) /\ ~Looking(p)'
      BY DEF Looking, SweepRead, Free
<1>2. Alone(p)'
      BY DEF Settled, Alone
<1>3. Dated(p)'
      BY <1>1 DEF Settled, Dated, Plausible
<1> QED BY <1>1, <1>2, <1>3 DEF Current

LEMMA SweepPlace ==
  ASSUME IInv, StartSweep \/ FailListing \/ EndListing \/ EndFill \/ EndChecking \/ EndSweep
                 \/ \E q \in Paths : ListOne(q)
  PROVE  /\ UNCHANGED <<disk, clock, queue, reads, withdrawals, tool, touched>>
         /\ EndSweep \/ (sweep'.ready = sweep.ready /\ unindexable' = unindexable)
         /\ EndFill \/ sweep'.attached = sweep.attached
BY DEF StartSweep, FailListing, EndListing, EndFill, EndChecking, EndSweep, ListOne, index,
       IInv, Typed, TypedSweep, Sweeps

\* Its place changes at the start of a pass, in a listing, or when one fails.
LEMMA ListingSettled ==
  ASSUME IInv, RInv, StartSweep \/ FailListing \/ \E q \in Paths : ListOne(q)
  PROVE  RInv'
<1>1. /\ UNCHANGED <<disk, clock, queue, entries, withdrawals, unreadable, unindexable, reads, tool, touched>>
      /\ sweep'.ready = sweep.ready /\ sweep'.attached = sweep.attached /\ sweep.at \in {"rest", "list"}
  <2>1. UNCHANGED <<entries, withdrawals, unreadable, unindexable>> /\ sweep.at \in {"rest", "list"}
        BY DEF StartSweep, FailListing, ListOne, index
  <2>2. sweep'.ready = sweep.ready /\ sweep'.attached = sweep.attached
        BY DEF StartSweep, FailListing, ListOne, IInv, Typed, TypedSweep, Sweeps
  <2> QED BY <2>1, <2>2, SweepPlace
<1>2. /\ sweep'.at \in {"rest", "list"}
      /\ sweep'.at = "list" =>
           \A p \in Paths : \/ p \in sweep'.todo
                            \/ sweep'.seen[p] = disk[p]
                            \/ sweep.at = "list" /\ p \notin sweep.todo /\ sweep'.seen[p] = sweep.seen[p]
  <2>1. CASE StartSweep
        BY <2>1 DEF StartSweep, IInv, Typed, TypedSweep, Sweeps
  <2>2. CASE FailListing
        BY <2>2 DEF FailListing, IInv, Typed, TypedSweep, Sweeps
  <2>3. ASSUME NEW q \in Paths, ListOne(q)
        PROVE  /\ sweep'.at = "list" /\ sweep.at = "list" /\ sweep'.todo = sweep.todo \ {q}
               /\ sweep'.seen = [sweep.seen EXCEPT ![q] = disk[q]] /\ DOMAIN sweep.seen = Paths
        BY <2>3 DEF ListOne, IInv, Typed, TypedSweep, Sweeps
  <2> QED BY <2>1, <2>2, <2>3
<1>3. Dates' /\ Quiet' /\ Clean'
      BY <1>1, <1>2 DEF RInv, Dates, Quiet, Clean, SweepRead, Free
<1>4. ASSUME NEW p \in Paths, Still(p)' PROVE Settled(p)'
  <2>1. Still(p) /\ Settled(p) /\ Free
        BY <1>1, <1>4 DEF Still, Filling, Watching, RInv, Quiet
  <2>2. Alone(p)' /\ Dated(p)' /\ Current(p)'
        BY <1>1, <2>1, PhaseSettled
  <2>3. unindexable[p] = 0 /\ Watching' = Watching
        BY <1>1, <2>1 DEF Settled, Passed, Watching
  <2>4. Watching /\ sweep'.at = "list" => p \in sweep'.todo \/ sweep'.seen[p] = disk[p]
        BY <1>2, <2>1 DEF Settled, Passed
  <2>5. Passed(p)'
        BY <1>1, <1>2, <2>3, <2>4 DEF Passed
  <2> QED BY <2>2, <2>5 DEF Settled
<1> QED BY <1>3, <1>4 DEF RInv

LEMMA EndListingSettled ==
  ASSUME IInv, RInv, EndListing
  PROVE  RInv'
<1>1. /\ UNCHANGED <<disk, clock, queue, withdrawals, unreadable, unindexable, reads, tool, touched>>
      /\ sweep.at = "list" /\ sweep.todo = {} /\ sweep' = [sweep EXCEPT !.at = "check", !.todo = Listed \ Hits]
      /\ sweep'.ready = sweep.ready /\ sweep'.attached = sweep.attached /\ sweep'.at = "check"
      /\ sweep'.todo = Listed \ Hits /\ sweep'.seen = sweep.seen
      BY DEF EndListing, IInv, Typed, TypedSweep, Sweeps
<1>2. Dates' /\ Quiet' /\ Clean'
      BY <1>1 DEF RInv, Dates, Quiet, Clean, SweepRead, Free
<1>3. ASSUME NEW p \in Paths, Still(p)' PROVE Settled(p)'
  <2>1. Still(p) /\ Settled(p) /\ Free
        BY <1>1, <1>3 DEF Still, Filling, Watching, RInv, Quiet
  <2> DEFINE e == [stamp |-> 1, content |-> 1, asOf |-> 1]
  <2>2. entries'[p] = entries[p] \/ (p \in Hits /\ entries'[p] = e)
        BY DEF EndListing
  <2>3. p \in Hits => Filling /\ 1 \notin Garbled
        BY IndexAssumption DEF Hits
  <2>4. entries'[p] = entries[p] \/ Plausible(entries[p], p)'
    <3>1. 0 < touched[p] /\ touched[p] \in Nat
          BY <2>1 DEF Settled, Dated, RInv, Dates
    <3>2. e.stamp = 1 /\ e.content = 1
          OBVIOUS
    <3> HIDE DEF e
    <3> QED BY <1>1, <2>2, <2>3, <3>1, <3>2 DEF Plausible
  <2>5. Alone(p)' /\ Dated(p)' /\ Current(p)' /\ ~Looking(p)'
        BY <1>1, <2>1, <2>4, PhaseSettled
  <2>6. CASE Filling
        BY <1>1, <2>1, <2>5, <2>6 DEF Settled, Passed, Filling, Watching
  <2>7. CASE Watching
    <3>1. Hits = {} /\ sweep'.todo = Listed
          BY <1>1, <2>7 DEF Hits, Filling
    <3>2. sweep.seen[p] = disk[p] /\ unindexable[p] = 0
          BY <1>1, <2>1, <2>7 DEF Settled, Passed
    <3>3. p \in sweep'.todo <=> disk[p] # 0
          BY <3>1, <3>2 DEF Listed
    <3>4. Passed(p)'
          BY <1>1, <2>5, <2>7, <3>2, <3>3 DEF Passed, Filling, Watching
    <3> QED BY <2>5, <3>4 DEF Settled
  <2> QED BY <2>6, <2>7 DEF Filling
<1> QED BY <1>2, <1>3 DEF RInv

\* With the watcher attached every path is still: nothing has changed since.
LEMMA EndFillSettled ==
  ASSUME IInv, RInv, EndFill
  PROVE  RInv'
<1>1. /\ UNCHANGED <<disk, clock, queue, entries, withdrawals, unreadable, unindexable, reads, tool, touched>>
      /\ Filling /\ Free /\ sweep'.ready = sweep.ready /\ sweep'.attached = clock /\ sweep'.at = "rest"
      /\ clock \in Nat /\ ~sweep.ready
      BY DEF EndFill, index, IInv, Typed, TypedSweep, TypedIndex, Sweeps, FillFirst
<1>2. Dates' /\ Quiet' /\ Clean'
      BY <1>1 DEF RInv, Dates, Quiet, Clean, SweepRead, Free
<1>3. ASSUME NEW p \in Paths PROVE Settled(p)'
  <2>1. Settled(p)
        BY <1>1 DEF RInv, Still
  <2>2. Alone(p)' /\ Dated(p)' /\ Current(p)'
        BY <1>1, <2>1, PhaseSettled
  <2>3. Passed(p)'
        BY <1>1, <2>1 DEF Settled, Passed
  <2> QED BY <2>2, <2>3 DEF Settled
<1> QED BY <1>2, <1>3 DEF RInv

LEMMA EndCheckingSettled ==
  ASSUME IInv, RInv, EndChecking
  PROVE  RInv'
<1>1. /\ UNCHANGED <<disk, clock, queue, entries, withdrawals, unindexable, reads, tool, touched>>
      /\ unreadable' = unreadable \cap Listed /\ Watching /\ Free /\ sweep.at = "check" /\ sweep.todo = {}
      /\ sweep'.ready = sweep.ready /\ sweep'.attached = sweep.attached /\ sweep'.at = "confirm"
      /\ sweep'.seen = sweep.seen /\ sweep'.todo = Held \ Listed
      BY DEF EndChecking, Filling, ToConfirm, IInv, Typed, TypedSweep, Sweeps
<1>2. Dates' /\ Quiet' /\ Clean'
      BY <1>1 DEF RInv, Dates, Quiet, Clean, SweepRead, Free
<1>3. ASSUME NEW p \in Paths, Still(p)' PROVE Settled(p)'
  <2>1. Still(p) /\ Settled(p)
        BY <1>1, <1>3 DEF Still, Filling, Watching, RInv
  <2>2. Alone(p)' /\ Dated(p)' /\ Current(p)' /\ ~Looking(p) /\ ~Looking(p)'
        BY <1>1, <2>1, PhaseSettled
  <2>3. sweep.seen[p] = disk[p] /\ (disk[p] = 0 \/ Known(p))
        BY <1>1, <2>1, <2>2 DEF Settled, Passed
  <2>4. Agrees(p)' = Agrees(p)
        BY <1>1 DEF Agrees, Held
  <2>5. p \in sweep'.todo \/ Known(p)'
    <3>1. CASE disk[p] = 0
      <4>1. p \notin Listed
            BY <2>3, <3>1 DEF Listed
      <4>2. p \in Held \/ Agrees(p)
            BY <3>1 DEF Agrees
      <4> QED BY <1>1, <2>4, <4>1, <4>2 DEF Known
    <3>2. CASE disk[p] # 0
      <4>1. p \in Listed /\ Known(p)
            BY <2>3, <3>2 DEF Listed
      <4> QED BY <1>1, <2>4, <4>1 DEF Known
    <3> QED BY <3>1, <3>2
  <2>6. Passed(p)'
        BY <1>1, <2>2, <2>3, <2>5 DEF Passed, Filling, Watching
  <2> QED BY <2>2, <2>6 DEF Settled
<1> QED BY <1>2, <1>3 DEF RInv

\* The end of the sweep: every still path is known, and from here on none is still.
LEMMA EndSweepSettled ==
  ASSUME IInv, RInv, EndSweep
  PROVE  /\ RInv'
         /\ ~sweep.ready => \A p \in Paths : touched[p] <= sweep.attached => Known(p)
<1>1. /\ UNCHANGED <<disk, clock, queue, index, reads, tool, touched>> /\ Free
      /\ sweep.at = "confirm" /\ sweep.todo = {} /\ sweep'.ready
      /\ unindexable' = [p \in Paths |-> IF p \in Listed THEN unindexable[p] ELSE 0]
      BY DEF EndSweep, IInv, Typed, TypedSweep, Sweeps
<1>2. Dates' /\ Quiet' /\ Clean'
      BY <1>1 DEF RInv, Dates, Quiet, Clean, SweepRead
<1>3. RInv'
      BY <1>1, <1>2 DEF RInv, Still
<1>4. ASSUME ~sweep.ready, NEW p \in Paths, touched[p] <= sweep.attached PROVE Known(p)
  <2>1. Watching
        BY <1>1 DEF IInv, FillFirst, Filling
  <2>2. Settled(p) /\ ~Looking(p)
        BY <1>1, <1>4 DEF RInv, Still, Looking, SweepRead, Free
  <2> QED BY <1>1, <2>1, <2>2 DEF Settled, Passed
<1> QED BY <1>3, <1>4

-----------------------------------------------------------------------------
(* The tools, which start only when the index is ready. *)

LEMMA ToolSettled ==
  ASSUME IInv, RInv, ToolStep \/ ToolCall
  PROVE  RInv' /\ sweep' = sweep
<1>1. sweep.ready /\ UNCHANGED <<sweep, unindexable>>
  <2>1. CASE ToolCall
        BY <2>1 DEF ToolCall, WriteFile, TrashFile, MoveFile
  <2>2. CASE ToolStep
        BY <2>2 DEF ToolStep, StatWritten, Apply, Forget, RenameEntry, RInv, Quiet
  <2> QED BY <2>1, <2>2
<1>2. /\ clock \in Nat /\ clock' \in Nat /\ clock <= clock'
      /\ touched \in [Paths -> Nat] /\ \A p \in Paths : touched[p] <= clock
  <2>1. clock' = clock \/ clock' = clock + 1
    <3>1. CASE ToolStep
          BY <3>1 DEF ToolStep, StatWritten, Apply, Forget, RenameEntry
    <3>2. CASE ToolCall
          BY <3>2 DEF ToolCall, WriteFile, TrashFile, MoveFile, Tick
    <3> QED BY <3>1, <3>2
  <2>2. clock \in Nat
        BY DEF IInv, Typed, TypedIndex
  <2> QED BY <2>1, <2>2 DEF RInv, Dates
<1>3. Dates'
  <2>1. DOMAIN queue' = Paths
        BY DEF RInv, Dates, ToolStep, ToolCall, StatWritten, Apply, Forget, RenameEntry,
               WriteFile, TrashFile, MoveFile, Noticed
  <2>2. touched' = touched \/ \E p, q \in Paths : touched' = [touched EXCEPT ![p] = clock', ![q] = clock']
    <3>1. CASE ToolStep
          BY <3>1 DEF ToolStep, StatWritten, Apply, Forget, RenameEntry
    <3>2. ASSUME NEW p \in Paths, WriteFile(p) \/ TrashFile(p)
          PROVE  touched' = [touched EXCEPT ![p] = clock', ![p] = clock']
          BY <1>2, <3>2 DEF WriteFile, TrashFile
    <3>3. ASSUME NEW p \in Paths, NEW q \in Paths, MoveFile(p, q)
          PROVE  touched' = [touched EXCEPT ![p] = clock', ![q] = clock']
          BY <3>3 DEF MoveFile
    <3> QED BY <3>1, <3>2, <3>3 DEF ToolCall
  <2>3. touched' \in [Paths -> Nat] /\ \A p \in Paths : touched'[p] <= clock'
        BY <1>2, <2>2
  <2> QED BY <1>1, <2>1, <2>3 DEF RInv, Dates
<1>4. Clean'
  <2>1. "sweep" # "touch"
        OBVIOUS
  <2>2. reads'["sweep"] = reads["sweep"]
        BY <2>1 DEF ToolStep, ToolCall, StatWritten, Apply, Forget, RenameEntry, WriteFile, TrashFile, MoveFile,
                    IInv, Typed, TypedReads, Callers
  <2> QED BY <2>2 DEF RInv, Clean, SweepRead
<1> QED BY <1>1, <1>3, <1>4 DEF RInv, Quiet, Still

-----------------------------------------------------------------------------
LEMMA StepSettled == IInv /\ RInv /\ [Next]_vars => RInv'
<1> SUFFICES ASSUME IInv, RInv, [Next]_vars PROVE RInv'
    OBVIOUS
<1>1. CASE \E r \in Callers : ReadStep(r) \/ FailRead(r)
  <2> PICK r \in Callers : ReadStep(r) \/ FailRead(r)
      BY <1>1
  <2>1. CASE r = "sweep"
        BY <2>1, OwnReadMoves, OtherReadEnds DEF ReadStep
  <2>2. CASE r # "sweep"
        BY <2>2, OtherReadMoves, OtherReadEnds DEF ReadStep
  <2> QED BY <2>1, <2>2
<1>2. CASE SweepStep \/ FailListing
      BY <1>2, ListingSettled, EndListingSettled, CheckSettled, FinishCheckedSettled, EndFillSettled,
         EndCheckingSettled, EndSweepSettled DEF SweepStep
<1>3. CASE ToolStep \/ ToolCall
      BY <1>3, ToolSettled
<1>4. CASE \E p \in Paths : External(p) \/ Lose(p) \/ Deliver(p)
      BY <1>4, DiskSettled
<1>5. CASE UNCHANGED vars
  <2>1. UNCHANGED <<disk, clock, queue, entries, withdrawals, unreadable, unindexable, sweep, tool, touched, reads>>
        BY <1>5 DEF vars, index
  <2>2. Dates' /\ Quiet' /\ Clean'
        BY <2>1 DEF RInv, Dates, Quiet, Clean, SweepRead, Free
  <2>3. ASSUME NEW p \in Paths PROVE Same(p)
        BY <2>1 DEF Same
  <2> QED BY <2>1, <2>2, <2>3, AllSettled
<1> QED BY <1>1, <1>2, <1>3, <1>4, <1>5 DEF Next

\* Only the end of a sweep declares the index ready.
LEMMA OnlySweepReadies ==
  ASSUME IInv, RInv, [Next]_vars, ~sweep.ready, sweep'.ready
  PROVE  EndSweep
<1>1. CASE \E r \in Callers : ReadStep(r) \/ FailRead(r)
      BY <1>1 DEF ReadStep, Stat, Fetch, FinishRead, FailRead
<1>2. CASE SweepStep \/ FailListing
  <2>1. CASE \E p \in Paths : CheckOne(p) \/ ConfirmOne(p)
        BY <2>1 DEF CheckOne, ConfirmOne, IInv, Typed, TypedSweep, Sweeps
  <2>2. CASE FinishChecked
        BY <2>2 DEF FinishChecked
  <2> QED BY <1>2, <2>1, <2>2, SweepPlace DEF SweepStep
<1>3. CASE ToolStep \/ ToolCall
      BY <1>3, ToolSettled
<1>4. CASE \E p \in Paths : External(p) \/ Lose(p) \/ Deliver(p)
      BY <1>4 DEF External, Lose, Deliver
<1>5. CASE UNCHANGED vars
      BY <1>5 DEF vars
<1> QED BY <1>1, <1>2, <1>3, <1>4, <1>5 DEF Next

\* When the index is first declared ready, every note that did not change since
\* the watcher was attached is as the disk has it, or known to be unreadable
\* (the first pass of reconcile), for any notes, refreshes, failures and changes.
THEOREM IndexReadyIsRight == Spec => ReadyIsRight
<1>1. Init => RInv
      BY InitSettled
<1>2. IInv /\ RInv /\ [Next]_vars => RInv'
      BY StepSettled
<1>3. IInv /\ RInv /\ [Next]_vars =>
        [~sweep.ready /\ sweep'.ready =>
           \A p \in Paths : touched[p] <= sweep.attached => Agrees(p) \/ p \in unreadable]_vars
  <2> SUFFICES ASSUME IInv, RInv, [Next]_vars, ~sweep.ready, sweep'.ready
               PROVE  \A p \in Paths : touched[p] <= sweep.attached => Agrees(p) \/ p \in unreadable
      OBVIOUS
  <2>1. EndSweep
        BY OnlySweepReadies
  <2> QED BY <2>1, EndSweepSettled DEF Known
<1> QED BY <1>1, <1>2, <1>3, IndexInvariant, PTL DEF Spec, ReadyIsRight
=============================================================================
