------------------------------ MODULE VaultTools ------------------------------
(***************************************************************************)
(* The tools that change notes, running side by side in one server         *)
(* (tools/write.ts, daily.ts, template.ts, canvas.ts, manage.ts, move.ts,  *)
(* vault/link-rewrite.ts over storage/local-fs.ts): what each reads before *)
(* it has its locks and what after, what it writes, what it tells the      *)
(* index, and how a move carries the links along.  Other programs write    *)
(* too, without any lock, and the watcher tells the index of it later.     *)
(*                                                                         *)
(* A note is the sequence of its pieces, and the offset of a link is its   *)
(* place.  A piece is a link, by name (<<name>>) or by path (<<folder,     *)
(* name>>), or a text (three fields, the last its author).  A note's hash  *)
(* is its content, and no note is empty.  The locks are those PathLocks    *)
(* promises.                                                               *)
(***************************************************************************)
EXTENDS Integers, Sequences, FiniteSets, SequencesExt

CONSTANTS
  Notes,     \* paths of notes, each <<folder, name>> (a folder has no name)
  Canvases,  \* paths of attachments, canvases among them
  Calls,     \* tool calls, each made once
  Jobs,      \* what a call may ask for
  Files,     \* what may be on the disk at first
  Meddling   \* a bound on writes by others and on faults

Paths == Notes \union Canvases

\* An attachment is no note.
ASSUME PathsAssumption ==
  /\ IsFiniteSet(Paths) /\ Notes \intersect Canvases = {}
  /\ \A p \in Paths : p = <<p[1], p[2]>>

Absent == <<>>
NoPath == <<>>

FolderTools == {"moveFolder", "deleteFolder"}

\* The tools on files name files, and what a folder holds has a path in another one.
ASSUME JobsAssumption ==
  \A job \in Jobs :
    /\ job.paths \subseteq Paths
    /\ job.tool \notin FolderTools => job.path \in Paths
    /\ job.tool = "move" => job.to \in Paths
    /\ job.tool \in {"move", "moveFolder"} => job.paths = {}
    /\ job.tool = "moveFolder" => \A p \in Paths : p[1] = job.path[1] => <<job.to[1], p[2]>> \in Paths

ASSUME CallsAssumption == "line" \notin Calls /\ Meddling \in Nat

VARIABLES
  disk,     \* the content at each path
  index,    \* what the index has of each note; of an attachment, that it is there
  status, need,  \* the locks
  call,     \* where each call is
  meddled,  \* history: paths written by other programs, by half, or taken along by a folder unlocked
  meddling  \* how often

vars == <<disk, index, status, need, call, meddled, meddling>>
locks == <<status, need>>

Locks == INSTANCE PathLocks WITH Path <- Paths, Caller <- Calls

Text(author) == [is |-> "text", to |-> <<author>>]
Wiki(target) == [is |-> "wiki", to |-> target]
Md(target) == [is |-> "md", to |-> target]
Node(path) == [is |-> "node", to |-> path]
IsLink(piece) == piece.is \in {"wiki", "md"}

Line == Text("line")    \* the line every unique append adds

\* A line that a client adds as unique is not yet there twice.
ASSUME FilesAssumption ==
  \A f \in Files :
    /\ f \in [Paths -> Seq(UNION {ToSet(f[p]) : p \in Paths})]
    /\ \A p \in Paths : \A i, j \in DOMAIN f[p] :
         /\ f[p][i] \in [is : {"text", "wiki", "md", "node"}, to : {f[p][i].to}]
         /\ f[p][i] = Line /\ f[p][j] = Line => i = j

\* What the index keeps of a file.
Entry(p, text) == IF p \in Notes \/ text = Absent THEN text ELSE <<Text("asset")>>

Unmade == [at |-> "new", job |-> <<>>, plan |-> <<>>, expect |-> Absent, on |-> NoPath, seen |-> Absent,
           out |-> Absent, todo |-> {}, written |-> <<>>, failed |-> {}, stale |-> {}, known |-> [n \in Paths |-> {}]]

Init ==
  /\ disk \in Files
  /\ index = [p \in Paths |-> Entry(p, disk[p])]
  /\ Locks!Init
  /\ call = [c \in Calls |-> Unmade]
  /\ meddled = {} /\ meddling = 0

\* f, and what g has beside.
f ++ g == [x \in DOMAIN f \union DOMAIN g |-> IF x \in DOMAIN f THEN f[x] ELSE g[x]]

Go(c, changes) == call' = [call EXCEPT ![c] = changes ++ @]

Inside(c, at) == status[c] = "inside" /\ call[c].at = at

-----------------------------------------------------------------------------
(* The graph of links, over what the index holds: VaultGraph.resolve.      *)

Indexed == {p \in Paths : index[p] # Absent}

\* A name resolves when exactly one file bears it, a path when the file is there;
\* one that goes up ("..") leads nowhere.
Resolve(target, paths) ==
  LET found == {p \in paths : IF Len(target) = 1 THEN p[2] = target[1] ELSE p = target}
  IN  IF Cardinality(found) = 1 THEN CHOOSE p \in found : TRUE ELSE NoPath

\* Where the notes that resolve to p say so: <<note, offset>>.
Backlinks(p) ==
  UNION {{<<s, i>> : i \in {j \in DOMAIN index[s] : IsLink(index[s][j]) /\ Resolve(index[s][j].to, Indexed) = p}} :
           s \in Notes \intersect Indexed}

-----------------------------------------------------------------------------
(* A call is made: a move is planned, before it has any lock. *)

\* What the index knows under a folder.
Under(folder) == {p \in Indexed : p[1] = folder[1]}

\* planMove: what is renamed, the links that lead there, and the canvases there are.
Plan(job) ==
  LET moved == CASE job.tool = "move" -> IF job.path \in Indexed THEN {<<job.path, job.to>>} ELSE {}
                 [] job.tool = "moveFolder" -> {<<p, <<job.to[1], p[2]>>>> : p \in Under(job.path)}
                 [] OTHER -> {}
      rewrites == IF job.links THEN UNION {{<<b[1], b[2], m[2]>> : b \in Backlinks(m[1])} : m \in moved} ELSE {}
  IN  [moved |-> moved, rewrites |-> rewrites, base |-> [s \in {r[1] : r \in rewrites} |-> index[s]],
       canvases |-> IF job.links /\ moved # {} THEN {k \in Canvases : disk[k] # Absent} ELSE {}]

MovedTo(plan, p) == IF \E m \in plan.moved : m[1] = p THEN (CHOOSE m \in plan.moved : m[1] = p)[2] ELSE p

Sources(plan) == {r[1] : r \in plan.rewrites}

Own(job) == ({job.path, job.to} \union job.paths) \intersect Paths

\* Mutant: a move does not lock the notes it rewrites.
LockPathsOwn(job, plan) == Own(job) \union {m[1] : m \in plan.moved} \union {m[2] : m \in plan.moved}

LockPaths(job, plan) ==
  UNION {Own(job), {m[1] : m \in plan.moved}, {m[2] : m \in plan.moved}, Sources(plan), plan.canvases,
         IF job.tool = "deleteFolder" THEN Under(job.path) ELSE {}}

\* The client gives the hash of what it last saw, or none.
Submit(c) ==
  /\ call[c].at = "new"
  /\ \E job \in Jobs :
       LET plan == Plan(job) IN
       /\ Go(c, [at |-> "begin", job |-> job, plan |-> plan, on |-> job.path,
                 expect |-> IF job.expect THEN disk[job.path] ELSE Absent,
                 todo |-> job.paths \union Sources(plan) \union plan.canvases])
       /\ Locks!Request(c, LockPaths(job, plan))
  /\ UNCHANGED <<disk, index, meddled, meddling>>

Enter(c) == Locks!Enter(c) /\ UNCHANGED <<disk, index, call, meddled, meddling>>

\* The body is over: "ok", or an error the client is told.
Return(c) ==
  /\ Inside(c, "ok") \/ Inside(c, "error")
  /\ Locks!Leave(c)
  /\ Go(c, [at |-> IF call[c].at = "ok" THEN "answered" ELSE "refused"])
  /\ UNCHANGED <<disk, index, meddled, meddling>>

Only(tools, c) == call[c].job.tool \in tools
Begin(tool, c) == Inside(c, "begin") /\ Only({tool}, c)

Text0(c) == disk[call[c].on]
Expected(c, p) == call[c].expect \in {Absent, disk[p]}

\* What a call has read and is about to write in its place; the hash may be compared once more.
Writing(c, at, out) == [at |-> at, seen |-> Text0(c), out |-> out]
Refused == [at |-> "error"]

Looks(c, next) == Go(c, next) /\ UNCHANGED <<disk, index, locks, meddled, meddling>>

-----------------------------------------------------------------------------
(* The tools that write files: what each looks at before it writes. *)

Added(c) == <<Text(c)>>

\* vault_write, vault_write_binary: whatever was there.
WriteNote(c) ==
  /\ Begin("write", c) /\ call[c].on \in Notes
  /\ Looks(c, IF Expected(c, call[c].on) THEN Writing(c, "put", Added(c)) ELSE Refused)

WriteBinary(c) ==
  /\ Begin("write", c) /\ call[c].on \in Canvases
  /\ Looks(c, IF Expected(c, call[c].on) THEN Writing(c, "put", Added(c)) ELSE Refused)

\* vault_edit: a change of what is there, or its preview.
EditNote(c) ==
  /\ Begin("edit", c)
  /\ Looks(c, IF Text0(c) # Absent /\ Expected(c, call[c].on)
              THEN Writing(c, "put", Added(c) \o Text0(c)) ELSE Refused)

\* vault_append: at the end, also of nothing; a unique line only once.
AppendNote(c) ==
  /\ Begin("append", c)
  /\ Looks(c, IF Expected(c, call[c].on) THEN Writing(c, "put", Text0(c) \o Added(c)) ELSE Refused)

\* Mutant: whatever is there.
AppendUniqueAlways(c) ==
  /\ Begin("unique", c)
  /\ Looks(c, IF Expected(c, call[c].on) THEN Writing(c, "put", Text0(c) \o <<Line>>) ELSE Refused)

AppendUnique(c) ==
  /\ Begin("unique", c)
  /\ Looks(c, CASE ~Expected(c, call[c].on) -> Refused
                [] Line \in ToSet(Text0(c)) /\ Expected(c, call[c].on) -> [at |-> "ok"]
                [] OTHER -> Writing(c, "put", Text0(c) \o <<Line>>))

\* vault_append under a heading: the note is read, and its hash compared again by the write.
InsertInSection(c) ==
  /\ Begin("insert", c)
  /\ Looks(c, IF Text0(c) # Absent THEN Writing(c, "check", <<Head(Text0(c))>> \o Added(c) \o Tail(Text0(c))) ELSE Refused)

\* vault_frontmatter_update reads the note first, then is a batch of one.
UpdateFrontmatter(c) ==
  /\ Begin("frontmatter", c)
  /\ Looks(c, IF Text0(c) # Absent /\ Expected(c, call[c].on) THEN [at |-> "batch"] ELSE Refused)

BatchUpdate(c) == Begin("batch", c) /\ Looks(c, [at |-> "batch"])

\* The next note of the batch: changed, or one more in "failed".
BatchItem(c, p) ==
  /\ Inside(c, "batch") /\ p \in call[c].todo
  /\ Looks(c, [todo |-> call[c].todo \ {p}]
       ++ IF disk[p] # Absent /\ Expected(c, p)
          THEN [at |-> "put", on |-> p, seen |-> disk[p], out |-> Added(c) \o disk[p]]
          ELSE [failed |-> call[c].failed \union {p}])

\* All are written: the index is told of them.
EndBatch(c) ==
  LET written == call[c].written IN
  /\ Inside(c, "batch") /\ call[c].todo = {}
  /\ index' = [p \in Paths |-> IF p \in DOMAIN written THEN Entry(p, written[p]) ELSE index[p]]
  /\ Go(c, [at |-> IF Only({"frontmatter"}, c) /\ written = <<>> THEN "error" ELSE "ok"])
  /\ UNCHANGED <<disk, locks, meddled, meddling>>

\* The canvas tools: read (a node may be added to nothing), then compare and write.
AddCanvasNode(c) == Begin("addNode", c) /\ Looks(c, Writing(c, "check", Text0(c) \o Added(c)))

ChangeCanvas(c) ==
  /\ Begin("canvas", c)
  /\ Looks(c, IF Text0(c) # Absent THEN Writing(c, "check", Added(c) \o Text0(c)) ELSE Refused)

\* vault_create_from_template: never over a file.
CreateFromTemplate(c) ==
  /\ Begin("create", c)
  /\ \E template \in call[c].job.paths :
       Looks(c, IF Text0(c) = Absent /\ disk[template] # Absent
                THEN Writing(c, "put", Added(c) \o disk[template]) ELSE Refused)

\* vault_daily_note_append: from the template first, if the note is not there.
AppendDaily(c) ==
  /\ Begin("daily", c)
  /\ Looks(c, IF Text0(c) = Absent THEN Writing(c, "template", <<Text("template")>>)
              ELSE Writing(c, "put", Text0(c) \o Added(c)))

\* The template is written (the index is not told), then read back.
PutTemplate(c) ==
  /\ Inside(c, "template")
  /\ disk' = [disk EXCEPT ![call[c].on] = call[c].out]
  /\ Go(c, [at |-> "put", seen |-> call[c].out, out |-> call[c].out \o Added(c)])
  /\ UNCHANGED <<index, locks, meddled, meddling>>

\* Where a call goes on when a write of it has ended.
After(c) == CASE Only({"move", "moveFolder"}, c) -> "rewriting"
              [] Only({"frontmatter", "batch"}, c) -> "batch"
              [] OTHER -> "ok"

\* Which write tells the index: not one of a batch, nor a move's of a canvas.
Tells(c) == After(c) = "ok" \/ (After(c) = "rewriting" /\ call[c].on \in Notes)

\* atomicWrite, noteForWritten and applyNote.  (Of any but a batch, "written" is history.)
Put(c) ==
  LET p == call[c].on IN
  /\ Inside(c, "put")
  /\ disk' = [disk EXCEPT ![p] = call[c].out]
  /\ index' = IF Tells(c) THEN [index EXCEPT ![p] = Entry(p, call[c].out)] ELSE index
  /\ Go(c, [at |-> After(c), written |-> [x \in {p} |-> call[c].out] ++ call[c].written])
  /\ UNCHANGED <<locks, meddled, meddling>>

\* A refused or failed write: an error, or one more in "failed".
Failed(c) == IF After(c) = "ok" THEN Refused ELSE [at |-> After(c), failed |-> call[c].failed \union {call[c].on}]

\* The write fails, before its rename or after.
FailPut(c) ==
  LET p == call[c].on IN
  /\ Inside(c, "put") /\ meddling < Meddling
  /\ meddling' = meddling + 1
  /\ UNCHANGED disk \/ disk' = [disk EXCEPT ![p] = call[c].out]
  /\ meddled' = meddled \union {p}
  /\ Go(c, Failed(c))
  /\ UNCHANGED <<index, locks>>

\* adapter.write compares the hashes once more; a move or a batch reports a conflict and goes on.
Check(c) ==
  /\ Inside(c, "check")
  /\ Looks(c, IF Expected(c, call[c].on) THEN [at |-> "put"] ELSE Failed(c))

\* softDelete: nothing to take, or not what the client saw (a folder has no hash).
Deletable(c, gone) ==
  (\E p \in gone : disk[p] # Absent) /\ (Only({"delete"}, c) => Expected(c, call[c].on))

\* vault_delete: to the trash, and out of the index, with all the index knows under a folder.
Delete(c) ==
  LET job == call[c].job
      gone == IF job.tool = "delete" THEN {job.path} ELSE {p \in Paths : p[1] = job.path[1]} IN
  /\ Inside(c, "begin") /\ Only({"delete", "deleteFolder"}, c)
  /\ IF Deletable(c, gone)
     THEN /\ disk' = [p \in Paths |-> IF p \in gone THEN Absent ELSE disk[p]]
          /\ index' = [p \in Paths |-> IF p \in gone THEN Absent ELSE index[p]]
          /\ meddled' = meddled \union {p \in gone \ need[c] : disk[p] # Absent}
          /\ Go(c, [at |-> "ok"])
     ELSE Go(c, Refused) /\ UNCHANGED <<disk, index, meddled>>
  /\ UNCHANGED <<locks, meddling>>

-----------------------------------------------------------------------------
(* vault_move. *)

\* The files a rename takes along: those there are, known to the index or not.
Renamed(job) ==
  IF job.tool = "move" THEN {<<job.path, job.to>>}
  ELSE {<<p, <<job.to[1], p[2]>>>> : p \in {m \in Paths : m[1] = job.path[1] /\ disk[m] # Absent}}

\* adapter.move, which refuses to overwrite.
MoveFile(c) ==
  LET files == Renamed(call[c].job)
      sound == files # {} /\ (\A m \in files : disk[m[1]] # Absent /\ disk[m[2]] = Absent)
  IN
  /\ Inside(c, "begin") /\ Only({"move", "moveFolder"}, c)
  /\ IF sound /\ (Only({"move"}, c) => Expected(c, call[c].on))
     THEN /\ disk' = [p \in Paths |-> IF \E m \in files : m[1] = p THEN Absent
                                   ELSE IF \E m \in files : m[2] = p THEN disk[(CHOOSE m \in files : m[2] = p)[1]]
                                   ELSE disk[p]]
          /\ meddled' = meddled \union UNION {{m[1], m[2]} : m \in files \ call[c].plan.moved}
          /\ Go(c, [at |-> "renamed"])
     ELSE Go(c, Refused) /\ UNCHANGED <<disk, meddled>>
  /\ UNCHANGED <<index, locks, meddling>>

\* Mutant: a moved note is not read again.
RenewedByIndex(c, new, old) == index[old]

\* index.rename takes the entry along, if the watcher has not removed it; then a
\* single note is read again at its new path.
Renewed(c, new, old) ==
  IF Only({"move"}, c) /\ new \in Notes THEN disk[new]
  ELSE IF index[old] # Absent THEN index[old] ELSE index[new]

RenameEntry(c) ==
  LET moved == call[c].plan.moved
      From(p) == (CHOOSE m \in moved : m[2] = p)[1]
  IN
  /\ Inside(c, "renamed")
  /\ index' = [p \in Paths |-> IF \E m \in moved : m[1] = p THEN Absent
                               ELSE IF \E m \in moved : m[2] = p THEN Renewed(c, p, From(p)) ELSE index[p]]
  /\ Go(c, [at |-> "rewriting"])
  /\ UNCHANGED <<disk, locks, meddled, meddling>>

\* Mutant: a name stays a name, whatever other file bears it.
NewTargetBare(link, new, from, paths) == IF Len(link.to) = 1 THEN <<new[2]>> ELSE new

\* newTargetText: a name stays a name while only one file bears it; a markdown
\* link gets the way from the folder it is in.
NewTarget(link, new, from, paths) ==
  CASE link.is = "md" -> IF from[1] = new[1] THEN <<new[2]>> ELSE <<"..", new[1], new[2]>>
    [] link.is = "wiki" /\ Len(link.to) = 1 /\ Resolve(<<new[2]>>, paths) # NoPath -> <<new[2]>>
    [] OTHER -> new

\* What rewriteLinks makes of the offsets planned, the links planned and the text it finds.
Rewritten(c, s, p, known) ==
  LET plan == call[c].plan
      text == disk[p]
      At(i) == CHOOSE r \in plan.rewrites : r[1] = s /\ r[2] = i
      offsets == {r[2] : r \in {q \in plan.rewrites : q[1] = s}}
      New(i) == [plan.base[s][i] EXCEPT !.to = NewTarget(plan.base[s][i], At(i)[3], p, known[At(i)[3]])]
      beyond == SetToSeq({i \in offsets : i > Len(text)})
  IN  [i \in 1 .. Len(text) |-> IF i \in offsets THEN New(i) ELSE text[i]] \o [i \in DOMAIN beyond |-> New(beyond[i])]

\* rewriteFileNodes: by content, whatever the offset.
RewrittenCanvas(c, text) ==
  [i \in 1 .. Len(text) |-> IF text[i].is = "node" THEN Node(MovedTo(call[c].plan, text[i].to)) ELSE text[i]]

\* Mutant: a source that moved along is looked for where it was.
ActualBefore(plan, s) == s

Actual(plan, s) == MovedTo(plan, s)

\* The next source or canvas: its hash in the index (of a canvas, on the disk), and its text.
ReadSource(c, s) ==
  LET plan == call[c].plan
      p == Actual(plan, s)
      used == {r[3] : r \in {q \in plan.rewrites : q[1] = s}}
      known == [n \in Paths |-> IF n \in used /\ call[c].known[n] = {} THEN Indexed ELSE call[c].known[n]]
      out == IF s \in Canvases THEN RewrittenCanvas(c, disk[p]) ELSE Rewritten(c, s, p, known)
      old == s \notin Canvases /\ disk[MovedTo(plan, s)] # plan.base[s]
      rest == [todo |-> call[c].todo \ {s}, known |-> known, stale |-> call[c].stale \union (IF old THEN {s} ELSE {})]
  IN
  /\ Inside(c, "rewriting") /\ s \in call[c].todo
  /\ s \in Canvases => call[c].todo \subseteq Canvases
  /\ Looks(c, CASE disk[p] = Absent -> [failed |-> call[c].failed \union {p}] ++ rest
                [] disk[p] # Absent /\ out = disk[p] -> rest
                [] OTHER -> [at |-> "check", on |-> p, seen |-> disk[p], out |-> out,
                             expect |-> IF s \in Canvases THEN disk[p] ELSE index[p]] ++ rest)

EndMove(c) == Inside(c, "rewriting") /\ call[c].todo = {} /\ Looks(c, [at |-> "ok"])

-----------------------------------------------------------------------------
(* Other programs, and the watcher. *)

Outside(p) ==
  /\ meddling < Meddling
  /\ meddling' = meddling + 1 /\ meddled' = meddled \union {p}
  /\ disk' = [disk EXCEPT ![p] = <<Text("other")>> \o disk[p]]
  /\ UNCHANGED <<index, locks, call>>

Refresh(p) ==
  /\ index[p] # Entry(p, disk[p])
  /\ index' = [index EXCEPT ![p] = Entry(p, disk[p])]
  /\ UNCHANGED <<disk, locks, call, meddled, meddling>>

Next ==
  \/ \E c \in Calls :
       \/ Submit(c) \/ Enter(c) \/ Return(c)
       \/ WriteNote(c) \/ WriteBinary(c) \/ EditNote(c) \/ AppendNote(c) \/ AppendUnique(c) \/ InsertInSection(c)
       \/ UpdateFrontmatter(c) \/ BatchUpdate(c) \/ (\E p \in Paths : BatchItem(c, p)) \/ EndBatch(c)
       \/ AddCanvasNode(c) \/ ChangeCanvas(c) \/ CreateFromTemplate(c) \/ AppendDaily(c) \/ PutTemplate(c)
       \/ Put(c) \/ FailPut(c) \/ Check(c) \/ Delete(c)
       \/ MoveFile(c) \/ RenameEntry(c) \/ (\E s \in Paths : ReadSource(c, s)) \/ EndMove(c)
  \/ \E p \in Paths : Outside(p) \/ Refresh(p)

Spec == Init /\ [][Next]_vars

-----------------------------------------------------------------------------
\* The shape of the state; a call that writes holds the path it writes.
TypeOK ==
  /\ \A p \in Paths : \A i \in DOMAIN disk[p] : disk[p][i].is \in {"text", "wiki", "md", "node"}
  /\ status \in [Calls -> {"idle", "waiting", "inside"}] /\ need \in [Calls -> SUBSET Paths]
  /\ meddling \in 0 .. Meddling
  /\ \A c \in Calls : status[c] = "inside" /\ call[c].at = "put" => call[c].on \in need[c]

\* No write of a tool undoes what another tool wrote since it looked: what it
\* replaces is what it has read (unless another program wrote in between).  A
\* line two calls append as unique is there once.
NoLostUpdate ==
  [][/\ \A c \in Calls : call[c].at = "put" /\ call'[c].at # "put" /\ call[c].on \notin meddled
          => disk[call[c].on] = call[c].seen
     /\ \A p \in Paths \ meddled' : Cardinality({i \in DOMAIN disk'[p] : disk'[p][i] = Line}) < 2]_vars

\* What a call has written, deleted or moved, as far as it holds the locks.
Changed(c) ==
  LET job == call[c].job
      gone == CASE job.tool = "delete" -> {job.path}
                [] job.tool = "move" -> {job.path, job.to}
                [] job.tool = "deleteFolder" -> {p \in Paths : p[1] = job.path[1]}
                [] OTHER -> {}
  IN  need[c] \intersect (DOMAIN call[c].written \union gone)

\* When a tool has answered, the index already has what it wrote, deleted or
\* moved: the client's next search finds it.  (Left to the watcher: what a move did
\* not know of when it was planned, a write that failed, what a folder takes along;
\* and of a move every canvas and attachment, both one it takes along, whose old
\* place the watcher may have taken out first, and one it rewrites, of which it does
\* not tell the index.)
AnswersAreIndexed ==
  [][\A c \in Calls : call[c].at = "ok" /\ call'[c].at = "answered"
        => \A p \in Changed(c) \ meddled :
             index[p] = Entry(p, disk[p]) \/ (Only({"move", "moveFolder"}, c) /\ p \in Canvases)]_vars

\* Where a link in the note p leads: by the server's rules, or from p's folder.
Leads(link, p, paths) ==
  IF link.is = "wiki" THEN Resolve(link.to, paths)
  ELSE IF Len(link.to) = 1 THEN <<p[1], link.to[1]>> ELSE Tail(link.to)

\* The offsets planned for s are of another text: the note changed since the
\* plan, or two of the notes planned have come to be one.
Displaced(c, s) ==
  LET plan == call[c].plan IN
  s \in call[c].stale \/ \E q \in Sources(plan) \ {s} : MovedTo(plan, q) = MovedTo(plan, s)

\* The server did not know of the new place when it chose how to name it: of an
\* attachment or what a folder takes along, whose old place the watcher had
\* already taken out, or of what another program has taken away.
Unknown(c, n) ==
  n \notin call[c].known[n] /\ (n \in Canvases \union meddled \/ Only({"moveFolder"}, c))

\* The links a move found are carried along: each leads to where its note now
\* is, by a name only if no other file the server knows bears it (unless the
\* rewrite was reported as failed or its file written by another program).  No
\* canvas it found shows the old path.
MoveKeepsLinks ==
  [][\A c \in Calls : call[c].at = "ok" /\ call'[c].at = "answered" =>
       LET plan == call[c].plan
           spoiled == call[c].failed \union meddled IN
       /\ \A r \in plan.rewrites :
            LET p == MovedTo(plan, r[1]) IN
            \/ p \in spoiled \/ Displaced(c, r[1]) \/ Unknown(c, r[3])
            \/ r[2] \in DOMAIN disk[p] /\ Leads(disk[p][r[2]], p, call[c].known[r[3]] \union {r[3]}) = r[3]
       /\ \A k \in plan.canvases, m \in plan.moved :
            MovedTo(plan, k) \in spoiled \/ Node(m[1]) \notin ToSet(disk[MovedTo(plan, k)])]_vars

\* "Everything outside a rewritten span is left byte-identical": a move takes
\* no text out of the notes it rewrites.
RewritesOnlyLinks ==
  [][\A c \in Calls : call[c].at = "put" /\ call'[c].at = "rewriting" =>
       \A piece \in ToSet(disk[call[c].on]) : IsLink(piece) \/ piece \in ToSet(disk'[call[c].on])]_vars
=============================================================================
