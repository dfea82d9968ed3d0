--------------------------- MODULE FileTokenStore ---------------------------
(***************************************************************************)
(* The authorization state of the HTTP server: one JSON file, kept in      *)
(* memory, read again when its stamp (mtime and size) has changed, and     *)
(* rewritten whole by every mutation (auth/store/file-store.ts).           *)
(*                                                                         *)
(* Mutations run one after the other through a promise queue; getters do   *)
(* not go through it.  An action is what happens between two waits, and a  *)
(* file operation is two of them: when the disk answers, and when the      *)
(* code goes on with the answer.                                           *)
(*                                                                         *)
(* A record is reduced to whether it is there and whether it is marked (a  *)
(* code used, a token rotated or revoked).  Every write of the file gets   *)
(* a stamp of its own.  Init is the state open() leaves; no other program  *)
(* writes between open()'s read and its stat.                              *)
(***************************************************************************)
EXTENDS Integers, FiniteSets, Sequences

CONSTANTS
  Calls,        \* calls of the store, each made at most once, in their order
  Kinds,        \* the methods they may call
  Pendings,     \* ids of pending authorizations, in the order of their expiry
  Codes,        \* ids of authorization codes
  Tokens,       \* ids of tokens, all of one family
  MaxPending,   \* MAX_PENDING
  Opened,       \* what the file may hold when the store is opened
  MaxRewrites,  \* how often another program changes the file (a bound)
  MaxFaults     \* how many file operations fail (a bound)

Methods == {"get", "put", "deletePending", "consumeCode", "mark", "revokeAll", "sweepExpired"}

ASSUME StoreAssumption ==
  /\ Kinds \subseteq Methods
  /\ Calls \subseteq Nat /\ Pendings \union Codes \union Tokens \subseteq Nat
  /\ Opened \subseteq [Pendings \union Codes \union Tokens -> {"none", "live", "used"}]
  /\ MaxPending \in Nat \ {0} /\ MaxRewrites \in Nat /\ MaxFaults \in Nat

Rows == Pendings \union Codes \union Tokens
Doc == [Rows -> {"none", "live", "used"}]
EMPTY == [r \in Rows |-> "none"]
File == [kind : {"doc", "corrupt", "absent"}, doc : Doc, ver : Nat]

VARIABLES
  disk,      \* the file: whether it is there and parses, what it holds, its stamp
  mem,       \* this.doc
  stamp,     \* this.stamp, 0 when the file was gone
  queue,     \* the mutations not over, the one running first
  pc,        \* how far each call has come
  op,        \* what each call asks
  saw,       \* what the disk has answered each call
  snapshot,  \* what the running mutation goes back to when it fails
  draft,     \* what it writes
  got,       \* whether a consumeCode found its code
  rewrites,  \* bound
  faults,    \* bound
  excused    \* history: a rewrite or a reload fell into a window of a mutation

file == <<disk, rewrites>>
vars == <<disk, mem, stamp, queue, pc, op, saw, snapshot, draft, got, rewrites, faults, excused>>

NoOp == [kind |-> "get", rows |-> {}]
Nothing == [kind |-> "absent", doc |-> EMPTY, ver |-> 0]

Init ==
  /\ \E d \in Opened : disk = [kind |-> "doc", doc |-> d, ver |-> 1] /\ mem = d
  /\ stamp = 1
  /\ queue = <<>>
  /\ pc = [c \in Calls |-> "idle"] /\ op = [c \in Calls |-> NoOp]
  /\ saw = [c \in Calls |-> Nothing]
  /\ snapshot = EMPTY /\ draft = EMPTY
  /\ got = [c \in Calls |-> FALSE]
  /\ rewrites = 0 /\ faults = 0 /\ excused = FALSE

-----------------------------------------------------------------------------
(* What each method makes of the document. *)

Present(d) == {p \in Pendings : d[p] # "none"}

\* The file was left by a store that keeps to the same limit.
ASSUME OpenedAssumption == \A d \in Opened : IsFiniteSet(Present(d)) /\ Cardinality(Present(d)) <= MaxPending

\* Mutant: the newest go.
TrimmedNewest(d) ==
  LET excess == Cardinality(Present(d)) - MaxPending
      new == {p \in Present(d) : Cardinality({q \in Present(d) : q > p}) < excess}
  IN  [r \in Rows |-> IF r \in new THEN "none" ELSE d[r]]

\* The oldest pending authorizations go when there are more than MaxPending.
Trimmed(d) ==
  LET excess == Cardinality(Present(d)) - MaxPending
      old == {p \in Present(d) : Cardinality({q \in Present(d) : q < p}) < excess}
  IN  [r \in Rows |-> IF r \in old THEN "none" ELSE d[r]]

With(d, S, v) == [r \in Rows |-> IF r \in S /\ d[r] # "none" THEN v ELSE d[r]]

\* Mutant: a used code is found again.
FoundAgain(o, d) == o.kind = "consumeCode" /\ \E k \in o.rows : d[k] # "none"

Found(o, d) == o.kind = "consumeCode" /\ \E k \in o.rows : d[k] = "live"

\* o.rows: the record put, deleted, consumed (none when it has expired) or
\* marked (updateToken, revokeFamily); for sweepExpired those that have expired.
Apply(o, d) ==
  CASE o.kind = "put" ->
         LET new == [r \in Rows |-> IF r \in o.rows THEN "live" ELSE d[r]]
         IN  IF o.rows \subseteq Pendings THEN Trimmed(new) ELSE new
    [] o.kind = "deletePending" -> With(d, o.rows, "none")
    [] o.kind \in {"consumeCode", "mark"} -> With(d, o.rows, "used")
    [] o.kind = "revokeAll" -> With(With(d, Tokens, "used"), Pendings \union Codes, "none")
    [] o.kind = "sweepExpired" ->
         With(d, o.rows \union {k \in Codes : d[k] = "used"}, "none")
    [] OTHER -> d

\* The names given so far: in the file when it was opened, or by a call that puts.
Named ==
  {r \in Rows : \E d \in Opened : d[r] # "none"}
    \union UNION {op[c].rows : c \in {x \in Calls : op[x].kind = "put"}}

\* Records have random names, so what a call puts is new; pending
\* authorizations are put as they are created.
Arguments(kind) ==
  CASE kind = "put" ->
         {{r} : r \in {x \in Rows \ Named :
                         /\ disk.doc[x] = "none"
                         /\ x \in Pendings => \A p \in Pendings \intersect Named : p < x}}
    [] kind = "deletePending" -> {{p} : p \in Pendings}
    [] kind = "consumeCode" -> {{k} : k \in Codes} \union {{}}
    [] kind = "mark" -> {{t} : t \in Tokens} \union {Tokens}
    [] kind = "sweepExpired" -> {{}, Rows}
    [] OTHER -> {{}}

-----------------------------------------------------------------------------
(* Calls, and the reload each starts with. *)

Mutates(c) == op[c].kind # "get"
Running(c) == pc[c] \notin {"idle", "queued", "done", "failed"}

\* The running mutation has changed memory and not yet stamped its write.
Writing == \E c \in Calls : pc[c] \in {"rename", "restat", "stamp"}

Invoke(c) ==
  /\ pc[c] = "idle" /\ \A b \in Calls : b < c => pc[b] # "idle"
  /\ \E k \in Kinds : \E S \in Arguments(k) : op' = [op EXCEPT ![c] = [kind |-> k, rows |-> S]]
  /\ IF op'[c].kind = "get"
       THEN pc' = [pc EXCEPT ![c] = "stat"] /\ UNCHANGED queue
       ELSE /\ queue' = Append(queue, c)
            /\ pc' = [pc EXCEPT ![c] = IF queue = <<>> THEN "stat" ELSE "queued"]
  /\ UNCHANGED <<disk, mem, stamp, saw, snapshot, draft, got, rewrites, faults, excused>>

\* Mutant: a mutation that fails stops the queue.
EndStuck(c, how) ==
  /\ queue' = IF Mutates(c) /\ how = "done" THEN Tail(queue) ELSE queue
  /\ pc' = [x \in Calls |-> IF x = c THEN how
                            ELSE IF Mutates(c) /\ how = "done" /\ queue' # <<>> /\ x = Head(queue')
                                   THEN "stat" ELSE pc[x]]
  /\ saw' = [saw EXCEPT ![c] = Nothing]

\* A call returns or throws; after a mutation the next one starts, either way.
End(c, how) ==
  /\ queue' = IF Mutates(c) THEN Tail(queue) ELSE queue
  /\ pc' = [x \in Calls |-> IF x = c THEN how
                            ELSE IF Mutates(c) /\ queue' # <<>> /\ x = Head(queue')
                                   THEN "stat" ELSE pc[x]]
  /\ saw' = [saw EXCEPT ![c] = Nothing]

Fault == faults < MaxFaults /\ faults' = faults + 1

\* fs.stat answers: the stamp, or that the file is gone.
ReloadStat(c) ==
  /\ pc[c] = "stat"
  /\ saw' = [saw EXCEPT ![c] = [kind |-> disk.kind, doc |-> EMPTY, ver |-> disk.ver]]
  /\ pc' = [pc EXCEPT ![c] = "compare"]
  /\ UNCHANGED <<disk, mem, stamp, queue, op, snapshot, draft, got, rewrites, faults, excused>>

\* The reload of c is over and memory holds d: a getter answers, a mutation
\* changes memory in place and serialises it.
GoOn(c, d) ==
  IF Mutates(c)
    THEN /\ snapshot' = d
         /\ mem' = Apply(op[c], d) /\ draft' = Apply(op[c], d)
         /\ got' = [got EXCEPT ![c] = Found(op[c], d)]
         /\ pc' = [pc EXCEPT ![c] = "rename"]
         /\ saw' = [saw EXCEPT ![c] = Nothing]
         /\ UNCHANGED queue
    ELSE /\ mem' = d
         /\ End(c, "done")
         /\ UNCHANGED <<snapshot, draft, got>>

\* A getter's reload that changes memory under a mutation takes its change out.
Crossed(c) == excused' = (excused \/ (~Mutates(c) /\ Writing))

\* fs.stat fails but not for want of the file: go on with what memory holds.
StatFails(c) ==
  /\ pc[c] = "stat" /\ Fault
  /\ GoOn(c, mem)
  /\ excused' = (excused \/ (Mutates(c) /\ stamp # disk.ver))
  /\ UNCHANGED <<disk, stamp, op, rewrites>>

\* Mutant: a file that is gone is taken for one that did not change.
GoneUnchanged(c) ==
  /\ pc[c] = "compare" /\ saw[c].kind = "absent"
  /\ GoOn(c, mem)
  /\ UNCHANGED <<disk, stamp, op, rewrites, faults, excused>>

\* The file is gone: so is what memory holds.
Gone(c) ==
  /\ pc[c] = "compare" /\ saw[c].kind = "absent"
  /\ stamp' = 0
  /\ GoOn(c, EMPTY)
  /\ Crossed(c)
  /\ UNCHANGED <<disk, op, rewrites, faults>>

Unchanged(c) ==
  /\ pc[c] = "compare" /\ saw[c].kind # "absent" /\ saw[c].ver = stamp
  /\ GoOn(c, mem)
  /\ UNCHANGED <<disk, stamp, op, rewrites, faults, excused>>

Changed(c) ==
  /\ pc[c] = "compare" /\ saw[c].kind # "absent" /\ saw[c].ver # stamp
  /\ pc' = [pc EXCEPT ![c] = "read"]
  /\ UNCHANGED <<disk, mem, stamp, queue, op, saw, snapshot, draft, got, rewrites, faults, excused>>

\* fs.readFile answers; the stamp stays the one stat gave.
Read(c) ==
  /\ pc[c] = "read"
  /\ saw' = [saw EXCEPT ![c] = [disk EXCEPT !.ver = saw[c].ver]]
  /\ pc' = [pc EXCEPT ![c] = "assign"]
  /\ UNCHANGED <<disk, mem, stamp, queue, op, snapshot, draft, got, rewrites, faults, excused>>

\* Mutant: a file that does not parse counts as empty.
AssignAnything(c) ==
  /\ pc[c] = "assign"
  /\ stamp' = saw[c].ver
  /\ GoOn(c, saw[c].doc)
  /\ Crossed(c)
  /\ UNCHANGED <<disk, op, rewrites, faults>>

Assign(c) ==
  /\ pc[c] = "assign" /\ saw[c].kind = "doc"
  /\ stamp' = saw[c].ver
  /\ GoOn(c, saw[c].doc)
  /\ Crossed(c)
  /\ UNCHANGED <<disk, op, rewrites, faults>>

\* The read fails, because the file has just gone or for want of luck, or what
\* it gives does not parse: the call throws before it has changed anything.
ReloadFails(c) ==
  /\ \/ pc[c] = "assign" /\ saw[c].kind # "doc" /\ UNCHANGED faults
     \/ pc[c] = "read" /\ Fault
  /\ End(c, "failed")
  /\ UNCHANGED <<disk, mem, stamp, op, snapshot, draft, got, rewrites, excused>>

-----------------------------------------------------------------------------
(* The rest of a mutation: writeAtomic, the stat of what it wrote. *)

Rename(c) ==
  /\ pc[c] = "rename"
  /\ disk' = [kind |-> "doc", doc |-> draft, ver |-> disk.ver + 1]
  /\ pc' = [pc EXCEPT ![c] = "restat"]
  /\ UNCHANGED <<mem, stamp, queue, op, saw, snapshot, draft, got, rewrites, faults, excused>>

Restat(c) ==
  /\ pc[c] = "restat" /\ disk.kind # "absent"
  /\ saw' = [saw EXCEPT ![c] = [kind |-> "doc", doc |-> EMPTY, ver |-> disk.ver]]
  /\ pc' = [pc EXCEPT ![c] = "stamp"]
  /\ UNCHANGED <<disk, mem, stamp, queue, op, snapshot, draft, got, rewrites, faults, excused>>

Restamp(c) ==
  /\ pc[c] = "stamp"
  /\ stamp' = saw[c].ver
  /\ End(c, "done")
  /\ snapshot' = EMPTY /\ draft' = EMPTY
  /\ UNCHANGED <<disk, mem, op, got, rewrites, faults, excused>>

\* Mutant: a failed mutation stays in memory.
Keeping == mem

RolledBack == snapshot

\* Mutant: the code is handed out although the store could not note its use.
AnswerAnyway(c) == UNCHANGED got

NoAnswer(c) == got' = [got EXCEPT ![c] = FALSE]

\* The write fails, or the stat after it, for want of the file or of luck.
WriteFails(c) ==
  /\ \/ pc[c] \in {"rename", "restat"} /\ Fault
     \/ pc[c] = "restat" /\ disk.kind = "absent" /\ UNCHANGED faults
  /\ mem' = RolledBack
  /\ snapshot' = EMPTY /\ draft' = EMPTY
  /\ NoAnswer(c)
  /\ End(c, "failed")
  /\ UNCHANGED <<disk, stamp, op, rewrites, excused>>

\* Another program (a sync client, the command line) changes a record, resets
\* the file, leaves one that does not parse, or removes it.
Rewritten == {[disk.doc EXCEPT ![r] = v] : r \in Rows, v \in {"none", "live", "used"}} \union {EMPTY}

Rewrite ==
  /\ rewrites < MaxRewrites /\ rewrites' = rewrites + 1
  /\ \/ \E d \in Rewritten : disk' = [kind |-> "doc", doc |-> d, ver |-> disk.ver + 1]
     \/ \E k \in {"corrupt", "absent"} : disk' = [kind |-> k, doc |-> EMPTY, ver |-> disk.ver + 1]
  /\ excused' = (excused \/ \E c \in Calls : Mutates(c) /\ pc[c] \in {"compare", "assign", "rename", "restat"})
  /\ UNCHANGED <<mem, stamp, queue, pc, op, saw, snapshot, draft, got, faults>>

Step(c) ==
  \/ ReloadStat(c) \/ StatFails(c) \/ Gone(c) \/ Unchanged(c) \/ Changed(c)
  \/ Read(c) \/ Assign(c) \/ ReloadFails(c)
  \/ Rename(c) \/ Restat(c) \/ Restamp(c) \/ WriteFails(c)

Next == Rewrite \/ \E c \in Calls : Invoke(c) \/ Step(c)

Spec == Init /\ [][Next]_vars

-----------------------------------------------------------------------------
\* What each variable holds; a call that threw has no answer, and no stamp is
\* ahead of the file.
TypeOK ==
  /\ disk \in File /\ mem \in Doc /\ stamp \in Nat
  /\ queue \in Seq(Calls)
  /\ pc \in [Calls -> {"idle", "queued", "stat", "compare", "read", "assign",
                       "rename", "restat", "stamp", "done", "failed"}]
  /\ op \in [Calls -> [kind : Methods, rows : SUBSET Rows]]
  /\ saw \in [Calls -> File]
  /\ snapshot \in Doc /\ draft \in Doc
  /\ got \in [Calls -> BOOLEAN]
  /\ \A c \in Calls : got[c] => pc[c] \in {"rename", "restat", "stamp", "done"}
  /\ stamp <= disk.ver /\ \A c \in Calls : saw[c].ver <= disk.ver
  /\ rewrites \in Nat /\ faults \in Nat /\ excused \in BOOLEAN

\* "Every mutation runs through a private promise queue so concurrent callers
\* never interleave writes, and every read re-stats the file so an external
\* rewrite is picked up instead of silently overwritten" (file-store.ts:97):
\* each write of the store is its operation applied to what the file holds.
EachWriteSerial ==
  [][\A c \in Calls : pc[c] = "rename" /\ pc'[c] = "restat" =>
       disk.kind # "corrupt" /\ disk'.doc = Apply(op[c], disk.doc)]_vars

\* The same as long as no rewrite, and no reload of a getter, has fallen into
\* the windows a mutation leaves open: calls that overlap otherwise, failed
\* writes, a file removed, reset or damaged between calls change nothing.
SerialWrites ==
  [][\A c \in Calls : pc[c] = "rename" /\ pc'[c] = "restat" /\ ~excused =>
       disk.kind # "corrupt" /\ disk'.doc = Apply(op[c], disk.doc)]_vars

\* Of the calls that consume one code, one finds it at most (consumeCode).
ConsumedOnce ==
  excused \/ rewrites > 0 \/
  \A c, d \in Calls : c # d /\ pc[c] = "done" /\ pc[d] = "done" /\ got[c] /\ got[d] =>
                        op[c].rows # op[d].rows

\* putPending keeps what it puts, at the limit too, until a newer one comes or
\* it is deleted, and never leaves more than MAX_PENDING (file-store.ts:197).
PendingsAtLimit ==
  excused \/ rewrites > 0 \/
  /\ Cardinality(Present(disk.doc)) <= MaxPending
  /\ \A c \in Calls : pc[c] = "done" /\ op[c].kind = "put" /\ op[c].rows \subseteq Pendings =>
       \/ op[c].rows \subseteq Present(disk.doc)
       \/ \E d \in Calls : \/ op[d].kind = "put" /\ \E p \in op[c].rows : \E q \in op[d].rows \intersect Pendings : q > p
                          \/ op[d].kind \in {"deletePending", "revokeAll", "sweepExpired"}

\* The queue never stops, whatever failed before, and never lets two mutations
\* run: the first of it is on its way, the others wait (mutate).
QueueMoves ==
  \A c \in Calls : Mutates(c) =>
    /\ Running(c) <=> queue # <<>> /\ c = Head(queue)
    /\ pc[c] = "queued" => \E i \in 2..Len(queue) : queue[i] = c
=============================================================================
