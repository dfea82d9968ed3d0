---------------------------- MODULE IndexRefresh ----------------------------
(***************************************************************************)
(* The note index and everything that keeps it in step with the disk       *)
(* (vault/frontmatter-index.ts): the boot's fill, the watcher's refreshes, *)
(* the reconcile sweep, and the tools that write, delete or move a note    *)
(* and tell the index what they did.                                       *)
(*                                                                         *)
(* A file's content is the number of the change that produced it; its      *)
(* size and modification time (its stamp) are the same number, so a stamp  *)
(* identifies the content it was taken with.  A read takes the stamp       *)
(* first and the bytes later, and its answer is handled later still:       *)
(* between any two of these the disk and the index may change.             *)
(***************************************************************************)
EXTENDS Integers, Sequences, FiniteSets, SequencesExt

CONSTANTS
  Paths,       \* notes, in the order a listing walks them
  Readers,     \* refreshes the watcher can have in flight at once (a bound)
  MaxClock,    \* changes to the disk in a behaviour (a bound)
  MaxFaults,   \* reads or listings that fail for a moment (a bound)
  Garbled,     \* changes whose content is not UTF-8 text
  Cached,      \* notes whose first content the index cache of the last run holds
  Intrusive    \* whether other programs write between a tool's rename and stat

ASSUME IndexAssumption ==
  /\ Paths \subseteq Nat /\ IsFiniteSet(Paths)
  /\ MaxClock \in Nat \ {0} /\ MaxFaults \in Nat
  /\ Garbled \subseteq 1 .. MaxClock /\ Cached \subseteq Paths
  /\ Cached # {} => 1 \notin Garbled     \* the cache holds what was read as text
  /\ Intrusive \in BOOLEAN
  /\ Readers \cap {"sweep", "touch"} = {}

VARIABLES
  disk,         \* the content at each path, 0 when there is no file
  clock,        \* changes made so far
  faults,       \* failures so far
  queue,        \* what the watcher has yet to report of each path
  entries,      \* what the index holds of each path
  withdrawals,  \* how often a path was removed, renamed or applied by a tool
  unreadable,   \* paths whose last read failed (unreadablePaths)
  unindexable,  \* stamp a path had when a sweep found it could not be indexed
  reads,        \* refreshes in flight
  sweep,        \* the fill, then the reconcile passes, one at a time
  tool,         \* the tool call in progress
  told,         \* the change each path's index state was last told of by a tool
  touched       \* the last change at each path

index == <<entries, withdrawals, unreadable>>
vars == <<disk, clock, faults, queue, index, unindexable, reads, sweep, tool, told, touched>>

NoEntry == [stamp |-> 0, content |-> 0, asOf |-> 0]
Idle == [at |-> "idle", path |-> 0, withdrawn |-> 0, stamp |-> 0, content |-> 0, asOf |-> 0, err |-> "none"]
Resting == [at |-> "idle", path |-> 0, to |-> 0, change |-> 0, stamp |-> 0]
Callers == Readers \union {"sweep", "touch"}
Held == {p \in Paths : entries[p] # NoEntry}
Watching == sweep.attached # -1

Init ==
  /\ \E files \in SUBSET Paths : disk = [p \in Paths |-> IF p \in files THEN 1 ELSE 0]
  /\ clock = 1
  /\ faults = 0
  /\ queue = [p \in Paths |-> <<>>]
  /\ entries = [p \in Paths |-> NoEntry]
  /\ withdrawals = [p \in Paths |-> 0]
  /\ unreadable = {}
  /\ unindexable = [p \in Paths |-> 0]
  /\ reads = [r \in Callers |-> Idle]
  /\ sweep = [at |-> "list", todo |-> Paths, seen |-> [p \in Paths |-> 0],
              attached |-> -1, ready |-> FALSE]
  /\ tool = Resting
  /\ told = [p \in Paths |-> 0]
  /\ touched = [p \in Paths |-> 1]

-----------------------------------------------------------------------------
(* The index's own operations. *)

withdraw(ps) == withdrawals' = [p \in Paths |-> IF p \in ps THEN withdrawals[p] + 1 ELSE withdrawals[p]]

upsert(p, entry) ==
  /\ entries' = [entries EXCEPT ![p] = entry]
  /\ unreadable' = unreadable \ {p}

remove(p) ==
  /\ withdraw({p})
  /\ entries' = [entries EXCEPT ![p] = NoEntry]
  /\ unreadable' = unreadable \ {p}

rename(from, to, asOf) ==
  /\ withdraw({from, to})
  /\ unreadable' = IF from \in unreadable THEN (unreadable \ {from}) \union {to} ELSE unreadable
  /\ entries' = IF from \notin Held THEN entries
                ELSE [entries EXCEPT ![from] = NoEntry, ![to] = [entries[from] EXCEPT !.asOf = asOf]]

\* Mutant: a tool's note does not withdraw the reads still in flight.
applyNoteOnly(p, entry) == upsert(p, entry) /\ UNCHANGED withdrawals

applyNote(p, entry) == withdraw({p}) /\ upsert(p, entry)

-----------------------------------------------------------------------------
(* Reading a note: refreshPath, and the fill's batchRead.                  *)

Reading(p) == [Idle EXCEPT !.at = "begun", !.path = p, !.withdrawn = withdrawals[p]]

Gone(r) == [reads[r] EXCEPT !.at = "read", !.err = "gone"]

Stat(r) ==
  /\ reads[r].at = "begun"
  /\ LET found == disk[reads[r].path] IN
       reads' = [reads EXCEPT ![r] = IF found = 0 THEN Gone(r) ELSE [@ EXCEPT !.at = "seen", !.stamp = found]]
  /\ UNCHANGED <<disk, clock, faults, queue, index, unindexable, sweep, tool, told, touched>>

Fetch(r) ==
  /\ reads[r].at = "seen"
  /\ LET found == disk[reads[r].path]
         read == [reads[r] EXCEPT !.at = "read", !.content = found, !.asOf = clock]
     IN reads' = [reads EXCEPT ![r] = CASE found = 0 -> Gone(r)
                                        [] found \in Garbled -> [read EXCEPT !.err = "encoding"]
                                        [] OTHER -> read]
  /\ UNCHANGED <<disk, clock, faults, queue, index, unindexable, sweep, tool, told, touched>>

\* A file another program holds locked, or that cannot be opened for a moment.
FailRead(r) ==
  /\ faults < MaxFaults
  /\ reads[r].at \in {"begun", "seen"}
  /\ reads' = [reads EXCEPT ![r].at = "read", ![r].err = "io"]
  /\ faults' = faults + 1
  /\ UNCHANGED <<disk, clock, queue, index, unindexable, sweep, tool, told, touched>>

EntryRead(read) == [stamp |-> read.stamp, content |-> read.content, asOf |-> read.asOf]

\* What refreshPath does with the answer.  Only a note is checked against the
\* withdrawals: an absence is acted upon whatever happened since it was seen.
Refreshed(read) ==
  LET p == read.path IN
  \/ /\ read.err = "none"
     /\ IF withdrawals[p] # read.withdrawn THEN UNCHANGED index
        ELSE upsert(p, EntryRead(read)) /\ UNCHANGED withdrawals
  \/ /\ read.err = "gone"
     /\ remove(p)
  \/ /\ read.err = "encoding"
     /\ withdraw({p})
     /\ entries' = [entries EXCEPT ![p] = NoEntry]
     /\ unreadable' = unreadable \union {p}
  \/ /\ read.err = "io"
     /\ unreadable' = unreadable \union {p}
     /\ UNCHANGED <<entries, withdrawals>>

\* What the fill does with one answer of its batchRead.  Nothing else changes
\* the index before the fill ends, so taking a batch's notes one by one is
\* taking them together.
Filled(read) ==
  /\ CASE read.err = "none" -> upsert(read.path, EntryRead(read))
       [] read.err = "gone" -> UNCHANGED <<entries, unreadable>>
       [] OTHER -> unreadable' = unreadable \union {read.path} /\ UNCHANGED entries
  /\ UNCHANGED withdrawals

\* A refresh started by the watcher or by a move.
FinishRead(r) ==
  /\ r # "sweep" /\ reads[r].at = "read"
  /\ Refreshed(reads[r])
  /\ reads' = [reads EXCEPT ![r] = Idle]
  /\ tool' = IF r = "touch" THEN Resting ELSE tool
  /\ UNCHANGED <<disk, clock, faults, queue, unindexable, sweep, told, touched>>

-----------------------------------------------------------------------------
(* The fill and the reconcile pass. *)

Filling == ~Watching
Leading(p) == p \in sweep.todo /\ \A q \in sweep.todo : p =< q

Free == reads["sweep"].at = "idle"

StartSweep ==
  /\ sweep.at = "rest"
  /\ sweep' = [sweep EXCEPT !.at = "list", !.todo = Paths, !.seen = [p \in Paths |-> 0]]
  /\ UNCHANGED <<disk, clock, faults, queue, index, unindexable, reads, tool, told, touched>>

ListOne(p) ==
  /\ sweep.at = "list" /\ Leading(p)
  /\ sweep' = [sweep EXCEPT !.todo = @ \ {p}, !.seen[p] = disk[p]]
  /\ UNCHANGED <<disk, clock, faults, queue, index, unindexable, reads, tool, told, touched>>

FailListing ==
  /\ sweep.at = "list" /\ Watching /\ faults < MaxFaults
  /\ sweep' = [sweep EXCEPT !.at = "rest", !.todo = {}, !.seen = [p \in Paths |-> 0]]
  /\ faults' = faults + 1
  /\ UNCHANGED <<disk, clock, queue, index, unindexable, reads, tool, told, touched>>

Listed == {p \in Paths : sweep.seen[p] # 0}

\* The fill takes every cache entry whose stamp is the listed one at once.
Hits == IF Filling THEN {p \in Cached \cap Listed : sweep.seen[p] = 1} ELSE {}

EndListing ==
  /\ sweep.at = "list" /\ sweep.todo = {}
  /\ sweep' = [sweep EXCEPT !.at = "check", !.todo = Listed \ Hits]
  /\ entries' = [p \in Paths |-> IF p \in Hits THEN [stamp |-> 1, content |-> 1, asOf |-> 1] ELSE entries[p]]
  /\ UNCHANGED <<disk, clock, faults, queue, withdrawals, unreadable, unindexable, reads, tool, told, touched>>

\* Mutant: a note that has an entry is never read again.
UpToDateIfHeld(p) == p \in Held \/ unindexable[p] = sweep.seen[p]

UpToDate(p) ==
  \/ p \in Held /\ entries[p].stamp = sweep.seen[p]
  \/ p \notin Held /\ unindexable[p] = sweep.seen[p]

CheckOne(p) ==
  /\ sweep.at = "check" /\ Leading(p) /\ Free
  /\ sweep' = [sweep EXCEPT !.todo = @ \ {p}]
  /\ reads' = IF ~Filling /\ UpToDate(p) THEN reads ELSE [reads EXCEPT !["sweep"] = Reading(p)]
  /\ UNCHANGED <<disk, clock, faults, queue, index, unindexable, tool, told, touched>>

\* The sweep's own read is answered; only a checked note is marked unindexable.
FinishChecked ==
  /\ reads["sweep"].at = "read"
  /\ LET read == reads["sweep"]
         p == read.path
     IN /\ IF Filling THEN Filled(read) ELSE Refreshed(read)
        /\ unindexable' = IF Filling \/ sweep.at # "check" \/ read.err = "io" THEN unindexable
                          ELSE IF entries'[p] # NoEntry THEN [unindexable EXCEPT ![p] = 0]
                          ELSE IF p \in unreadable' THEN [unindexable EXCEPT ![p] = sweep.seen[p]] ELSE unindexable
  /\ reads' = [reads EXCEPT !["sweep"] = Idle]
  /\ UNCHANGED <<disk, clock, faults, queue, sweep, tool, told, touched>>

\* The fill is over: the watcher starts, and with it the first sweep is due.
EndFill ==
  /\ Filling /\ sweep.at = "check" /\ sweep.todo = {} /\ Free
  /\ sweep' = [sweep EXCEPT !.at = "rest", !.attached = clock]
  /\ UNCHANGED <<disk, clock, faults, queue, index, unindexable, reads, tool, told, touched>>

\* Mutant: whatever the listing does not show is confirmed already.
ToConfirmNone == {}

ToConfirm == Held \ Listed

EndChecking ==
  /\ ~Filling /\ sweep.at = "check" /\ sweep.todo = {} /\ Free
  /\ unreadable' = unreadable \cap Listed
  /\ sweep' = [sweep EXCEPT !.at = "confirm", !.todo = ToConfirm]
  /\ UNCHANGED <<disk, clock, faults, queue, entries, withdrawals, unindexable, reads, tool, told, touched>>

ConfirmOne(p) ==
  /\ sweep.at = "confirm" /\ Leading(p) /\ Free
  /\ sweep' = [sweep EXCEPT !.todo = @ \ {p}]
  /\ reads' = [reads EXCEPT !["sweep"] = Reading(p)]
  /\ UNCHANGED <<disk, clock, faults, queue, index, unindexable, tool, told, touched>>

EndSweep ==
  /\ sweep.at = "confirm" /\ sweep.todo = {} /\ Free
  /\ unindexable' = [p \in Paths |-> IF p \in Listed THEN unindexable[p] ELSE 0]
  /\ sweep' = [sweep EXCEPT !.at = "rest", !.seen = [p \in Paths |-> 0], !.ready = TRUE]
  /\ UNCHANGED <<disk, clock, faults, queue, index, reads, tool, told, touched>>

-----------------------------------------------------------------------------
(* The disk and the watcher. *)

\* The watcher notices a change of each path in ps; it reports it later, or never.
Noticed(ps, kind) ==
  queue' = [p \in Paths |-> IF p \in ps /\ Watching /\ (queue[p] = <<>> \/ Last(queue[p]) # kind)
                            THEN Append(queue[p], kind) ELSE queue[p]]

Tick == clock < MaxClock /\ clock' = clock + 1

External(p) ==
  /\ Tick
  /\ tool.at = "wrote" /\ tool.path = p => Intrusive
  /\ touched' = [touched EXCEPT ![p] = clock']
  /\ \/ disk' = [disk EXCEPT ![p] = clock'] /\ Noticed({p}, "update")
     \/ disk[p] # 0 /\ disk' = [disk EXCEPT ![p] = 0] /\ Noticed({p}, "delete")
  /\ UNCHANGED <<faults, index, unindexable, reads, sweep, tool, told>>

Lose(p) ==
  /\ queue[p] # <<>>
  /\ queue' = [queue EXCEPT ![p] = Tail(@)]
  /\ UNCHANGED <<disk, clock, faults, index, unindexable, reads, sweep, tool, told, touched>>

Deliver(p) ==
  /\ queue[p] # <<>>
  /\ queue' = [queue EXCEPT ![p] = Tail(@)]
  /\ \/ /\ Head(queue[p]) = "delete"
        /\ remove(p)
        /\ UNCHANGED reads
     \/ /\ Head(queue[p]) = "update"
        /\ \E r \in Readers : reads[r].at = "idle" /\ reads' = [reads EXCEPT ![r] = Reading(p)]
        /\ UNCHANGED index
  /\ UNCHANGED <<disk, clock, faults, unindexable, sweep, tool, told, touched>>

-----------------------------------------------------------------------------
(* The tools.  Each holds the write gate for its paths, and tells the      *)
(* index before it lets go of them.                                        *)

\* vault_write, vault_edit, vault_append...: the new file replaces the old one.
WriteFile(p) ==
  /\ sweep.ready /\ tool = Resting /\ Tick /\ clock' \notin Garbled
  /\ disk' = [disk EXCEPT ![p] = clock'] /\ Noticed({p}, "update")
  /\ touched' = [touched EXCEPT ![p] = clock']
  /\ tool' = [Resting EXCEPT !.at = "wrote", !.path = p, !.change = clock']
  /\ UNCHANGED <<faults, index, unindexable, reads, sweep, told>>

\* noteForWritten: the stamp is the file's at this moment, the content the tool's own.
StatWritten ==
  /\ tool.at = "wrote"
  /\ tool' = IF disk[tool.path] = 0 THEN Resting ELSE [tool EXCEPT !.at = "known", !.stamp = disk[tool.path]]
  /\ UNCHANGED <<disk, clock, faults, queue, index, unindexable, reads, sweep, told, touched>>

Apply ==
  /\ tool.at = "known"
  /\ applyNote(tool.path, [stamp |-> tool.stamp, content |-> tool.change, asOf |-> tool.change])
  /\ told' = [told EXCEPT ![tool.path] = tool.change]
  /\ tool' = Resting
  /\ UNCHANGED <<disk, clock, faults, queue, unindexable, reads, sweep, touched>>

\* vault_delete.
TrashFile(p) ==
  /\ sweep.ready /\ tool = Resting /\ disk[p] # 0 /\ Tick
  /\ disk' = [disk EXCEPT ![p] = 0] /\ Noticed({p}, "delete")
  /\ touched' = [touched EXCEPT ![p] = clock']
  /\ tool' = [Resting EXCEPT !.at = "trashed", !.path = p, !.change = clock']
  /\ UNCHANGED <<faults, index, unindexable, reads, sweep, told>>

Forget ==
  /\ tool.at = "trashed"
  /\ remove(tool.path)
  /\ told' = [told EXCEPT ![tool.path] = tool.change]
  /\ tool' = Resting
  /\ UNCHANGED <<disk, clock, faults, queue, unindexable, reads, sweep, touched>>

\* vault_move of a note: the file keeps its stamp.
MoveFile(from, to) ==
  /\ sweep.ready /\ tool = Resting /\ disk[from] # 0 /\ disk[to] = 0 /\ Tick
  /\ disk' = [disk EXCEPT ![from] = 0, ![to] = disk[from]]
  /\ queue' = [p \in Paths |-> IF p = from THEN Append(queue[p], "delete")
                               ELSE IF p = to THEN Append(queue[p], "update") ELSE queue[p]]
  /\ touched' = [touched EXCEPT ![from] = clock', ![to] = clock']
  /\ tool' = [Resting EXCEPT !.at = "moved", !.path = from, !.to = to, !.change = clock']
  /\ UNCHANGED <<faults, index, unindexable, reads, sweep, told>>

\* The index follows, and the note is read again at its new path.
RenameEntry ==
  /\ tool.at = "moved"
  /\ rename(tool.path, tool.to, tool.change)
  /\ told' = [told EXCEPT ![tool.path] = tool.change, ![tool.to] = IF tool.path \in Held THEN tool.change ELSE @]
  /\ reads' = [reads EXCEPT !["touch"] = [Idle EXCEPT !.at = "begun", !.path = tool.to,
                                                      !.withdrawn = withdrawals'[tool.to]]]
  /\ tool' = [tool EXCEPT !.at = "touching"]
  /\ UNCHANGED <<disk, clock, faults, queue, unindexable, sweep, touched>>

-----------------------------------------------------------------------------
ReadStep(r) == Stat(r) \/ Fetch(r) \/ FinishRead(r)
SweepStep ==
  \/ \E p \in Paths : ListOne(p) \/ CheckOne(p) \/ ConfirmOne(p)
  \/ StartSweep \/ EndListing \/ FinishChecked \/ EndFill \/ EndChecking \/ EndSweep
ToolStep == StatWritten \/ Apply \/ Forget \/ RenameEntry
ToolCall ==
  \/ \E p \in Paths : WriteFile(p) \/ TrashFile(p)
  \/ \E from, to \in Paths : MoveFile(from, to)

Next ==
  \/ \E r \in Callers : ReadStep(r) \/ FailRead(r)
  \/ SweepStep \/ FailListing \/ ToolStep \/ ToolCall
  \/ \E p \in Paths : External(p) \/ Lose(p) \/ Deliver(p)

\* Every answer arrives, every event is handled or lost, a tool call that
\* started goes on, and the timer keeps starting sweeps.
Fairness ==
  /\ \A r \in Callers : WF_vars(ReadStep(r))
  /\ WF_vars(SweepStep) /\ WF_vars(ToolStep)
  /\ \A p \in Paths : WF_vars(Deliver(p) \/ Lose(p))

Spec == Init /\ [][Next]_vars
FairSpec == Spec /\ Fairness

-----------------------------------------------------------------------------
(* What the index promises. *)

Agrees(p) ==
  IF disk[p] \in Garbled \/ disk[p] = 0 THEN p \notin Held
  ELSE p \in Held /\ entries[p].content = disk[p]

\* What a tool told the index is never replaced by an older read of the same
\* path, whichever refresh or sweep was in flight (refreshPath's withdrawals).
ToolWins == \A p \in Held : entries[p].asOf >= told[p]

\* When the index is declared ready, every note that did not change since the
\* watcher was attached is as the disk has it, or known to be unreadable
\* (the pass that "catches a note created, changed or removed while the fill ran").
ReadyIsRight ==
  [][~sweep.ready /\ sweep'.ready =>
       \A p \in Paths : touched[p] <= sweep.attached => Agrees(p) \/ p \in unreadable]_vars

\* "The in-memory index self-heals" (README.md:255): once nothing changes any
\* more the index comes to agree with the disk and stays so.
SelfHeals == <>[](\A p \in Paths : Agrees(p))

\* The same but for the notes a sweep has marked as not to be indexed while they
\* have their stamp, whatever events were lost, reads failed or answers came late.
HealsOrMarks == <>[](\A p \in Paths : Agrees(p) \/ (p \notin Held /\ unindexable[p] = disk[p]))
=============================================================================
