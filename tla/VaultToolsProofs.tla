--------------------------- MODULE VaultToolsProofs ---------------------------
(***************************************************************************)
(* Theorems of VaultTools, for every vault, any number of calls of any     *)
(* tools and any interference by other programs: a call writes only paths  *)
(* it has locked, what it replaces is what it has read, what it has        *)
(* written, deleted or moved is in the index when it answers, and a move   *)
(* carries the links it found along.                                       *)
(*                                                                         *)
(* The argument: a path that a call holds and nobody has meddled with is   *)
(* changed by no other call, so what the call knows of it stays true from  *)
(* its reading to its answer.  What a call knows at each point of its body *)
(* is CallInv; that it holds all it touches follows from its plan.         *)
(***************************************************************************)
EXTENDS VaultTools, TLAPS, FiniteSetTheorems

\* Where a piece may lead: what is there at first, a path, or what a rewrite makes of it.
Targets ==
  UNION {{<<a>> : a \in Calls \union {"line", "template", "other", "asset"}},
         Paths, {<<p[2]>> : p \in Paths}, {<<"..", p[1], p[2]>> : p \in Paths},
         UNION {UNION {{f[p][i].to : i \in DOMAIN f[p]} : p \in Paths} : f \in Files}}
Pieces == [is : {"text", "wiki", "md", "node"}, to : Targets]
Texts == Seq(Pieces)
OneLine(t) == \A i, j \in DOMAIN t : t[i] = Line /\ t[j] = Line => i = j
Good == {t \in Texts : OneLine(t)}

Fields == {"at", "job", "plan", "expect", "on", "seen", "out", "todo", "written", "failed", "stale", "known"}
Writes == {"put", "check", "template"}
Bodies == Writes \union {"batch", "renamed", "rewriting", "ok", "error"}
Held(c) == call[c].at \in Bodies \union {"begin"}

\* The locks and where a call is go together.
LockInv ==
  /\ status \in [Calls -> {"idle", "waiting", "inside"}] /\ need \in [Calls -> SUBSET Paths]
  /\ DOMAIN call = Calls
  /\ \A c \in Calls : /\ DOMAIN call[c] = Fields
                      /\ call[c].at \in Bodies \union {"new", "begin", "answered", "refused"}
                      /\ call[c].at = "begin" => status[c] \in {"waiting", "inside"}
                      /\ call[c].at \in Bodies => status[c] = "inside"
                      /\ status[c] = "inside" => Held(c)
                      /\ status[c] = "waiting" => call[c].at = "begin"
                      /\ call[c].at = "new" => call[c].written = <<>>
  /\ \A c, d \in Calls : c # d /\ status[c] = "inside" /\ status[d] = "inside" => need[c] \intersect need[d] = {}

DataInv ==
  /\ disk \in [Paths -> Good] /\ index \in [Paths -> Texts]
  /\ meddled \subseteq Paths /\ meddling \in 0 .. Meddling

\* What a call plans to move and to rewrite is there, and locked.
PlanInv(c) ==
  LET plan == call[c].plan
      job == call[c].job IN
  /\ job \in Jobs /\ Own(job) \subseteq need[c]
  /\ plan.moved \subseteq need[c] \X need[c]
  /\ job.tool = "move" => plan.moved \subseteq {<<job.path, job.to>>}
  /\ \A r \in plan.rewrites : /\ plan.base[r[1]] \in Texts /\ r[3] \in Paths
                              /\ r[2] \in DOMAIN plan.base[r[1]] /\ IsLink(plan.base[r[1]][r[2]])

\* What a call is about to write, and what it replaces.
WriteInv(c) ==
  call[c].at \in Writes =>
    /\ call[c].on \in need[c] /\ call[c].out \in Good
    /\ call[c].on \notin meddled => disk[call[c].on] = call[c].seen
    /\ ~Only({"delete", "deleteFolder"}, c)
    /\ After(c) = "ok" => call[c].written = <<>>

InIndex(c, p) == index[p] = Entry(p, disk[p]) \/ (Only({"move", "moveFolder"}, c) /\ p \in Canvases)

\* What a call has written, and whether the index has it.
WrittenInv(c) ==
  /\ DOMAIN call[c].written \subseteq need[c] /\ \A p \in DOMAIN call[c].written : call[c].written[p] \in Texts
  /\ After(c) = "batch" /\ call[c].at \in Writes \union {"batch"} =>
       \A p \in DOMAIN call[c].written \ meddled : disk[p] = call[c].written[p]
  /\ call[c].at = "ok" \/ (After(c) = "rewriting" /\ call[c].at \in Writes \union {"rewriting"}) =>
       \A p \in Changed(c) \ meddled : InIndex(c, p)

\* A call that has just begun, and a move that has just renamed.
PhaseInv(c) ==
  /\ call[c].at = "begin" => call[c].on = call[c].job.path /\ call[c].written = <<>>
  /\ call[c].at \in {"renamed", "rewriting"} => After(c) = "rewriting"
  /\ call[c].at = "template" => Only({"daily"}, c)
  /\ call[c].at = "batch" => After(c) = "batch"
  /\ call[c].at = "renamed" =>
       /\ call[c].written = <<>>
       /\ Only({"move"}, c) /\ ~({call[c].job.path, call[c].job.to} \subseteq meddled) =>
            call[c].plan.moved = {<<call[c].job.path, call[c].job.to>>}
       /\ Only({"move"}, c) /\ call[c].job.path \notin meddled => 
            disk[call[c].job.path] = Absent /\ call[c].job.path # call[c].job.to

CallInv(c) ==
  Held(c) => /\ PlanInv(c) /\ WriteInv(c) /\ WrittenInv(c) /\ PhaseInv(c)
             /\ call[c].todo \subseteq need[c]

IInv == LockInv /\ DataInv /\ \A c \in Calls : CallInv(c)

-----------------------------------------------------------------------------
(* Texts. *)

LEMMA GoodText == Absent \in Good /\ \A t \in Good : t \in Texts
BY DEF Good, Texts, OneLine, Absent

LEMMA PieceTypes ==
  /\ \A a \in Calls \union {"line", "template", "other", "asset"} : Text(a) \in Pieces
  /\ \A a \in Calls \union {"template", "other", "asset"} : Text(a) # Line
  /\ \A p \in Paths : Node(p) \in Pieces /\ Node(p) # Line
BY CallsAssumption DEF Text, Node, Line, Pieces, Targets

\* A text that has the line only where a good one has it is good.
LEMMA MappedGood ==
  ASSUME NEW t \in Good, NEW u \in Texts, \A i \in DOMAIN u : u[i] # Line \/ (i \in DOMAIN t /\ u[i] = t[i])
  PROVE  u \in Good
BY DEF Good, OneLine

LEMMA ConcatGood ==
  ASSUME NEW t \in Good, NEW x \in Pieces, x # Line \/ Line \notin ToSet(t)
  PROVE  <<x>> \in Good /\ <<x>> \o t \in Good /\ t \o <<x>> \in Good
<1>1. t \in Seq(Pieces) /\ <<x>> \in Seq(Pieces) /\ OneLine(t)
  BY DEF Good, Texts
<1>2. x # Line \/ \A i \in DOMAIN t : t[i] # Line
  BY DEF ToSet
<1>3. OneLine(<<x>>)
  BY DEF OneLine
<1>4. OneLine(<<x>> \o t)
  <2>1. \A i \in DOMAIN (<<x>> \o t) : /\ i \in Nat \ {0}
                                       /\ (<<x>> \o t)[i] = IF i = 1 THEN x ELSE t[i - 1]
                                       /\ i # 1 => i - 1 \in DOMAIN t
    BY <1>1
  <2> QED BY <1>1, <1>2, <2>1 DEF OneLine
<1>5. OneLine(t \o <<x>>)
  <2>1. \A i \in DOMAIN (t \o <<x>>) : /\ i \in Nat
                                       /\ (t \o <<x>>)[i] = IF i = Len(t) + 1 THEN x ELSE t[i]
                                       /\ i # Len(t) + 1 => i \in DOMAIN t
    BY <1>1
  <2> QED BY <1>1, <1>2, <2>1 DEF OneLine
<1> QED BY <1>1, <1>3, <1>4, <1>5 DEF Good, Texts

LEMMA InsertGood ==
  ASSUME NEW t \in Good, t # Absent, NEW x \in Pieces, x # Line
  PROVE  <<Head(t)>> \o <<x>> \o Tail(t) \in Good
<1> DEFINE u == <<Head(t)>> \o <<x>> \o Tail(t)
<1>1. t \in Seq(Pieces) /\ Len(t) > 0 /\ OneLine(t)
  BY DEF Good, Texts, Absent
<1>2. u \in Seq(Pieces) /\ Len(u) = Len(t) + 1
  BY <1>1
<1>3. \A i \in 1 .. Len(u) : u[i] = CASE i = 1 -> t[1] [] i = 2 -> x [] OTHER -> t[i - 1]
  BY <1>1
<1>4. OneLine(u)
  <2> HIDE DEF u
  <2> QED BY <1>1, <1>2, <1>3 DEF OneLine
<1> QED BY <1>2, <1>4 DEF Good, Texts

LEMMA EntryType == ASSUME NEW p, NEW t \in Texts PROVE Entry(p, t) \in Texts /\ Entry(p, Absent) = Absent
BY PieceTypes DEF Entry, Texts, Absent

-----------------------------------------------------------------------------
(* A step of one call, and those that look on. *)

\* What a step leaves alone outside of S, or corrects.
Stays(S) ==
  /\ meddled \subseteq meddled'
  /\ \A p \in Paths \ (S \union meddled') :
       disk'[p] = disk[p] /\ (index'[p] = index[p] \/ index'[p] = Entry(p, disk'[p]))

LEMMA Bystander ==
  ASSUME LockInv, NEW d \in Calls, CallInv(d), call'[d] = call[d], need'[d] = need[d],
         NEW S, call[d].at \in Bodies => S \intersect need[d] = {}, Stays(S)
  PROVE  CallInv(d)'
<1> SUFFICES ASSUME Held(d) PROVE CallInv(d)'
  BY DEF CallInv, Held
<1>1. /\ PlanInv(d) /\ WriteInv(d) /\ WrittenInv(d) /\ PhaseInv(d) /\ call[d].todo \subseteq need[d]
      /\ need[d] \subseteq Paths
  BY DEF CallInv, LockInv
<1>2. PlanInv(d)'
  BY <1>1 DEF PlanInv, Own
<1>3. call[d].at \in Bodies => \A p \in need[d] \ meddled' :
        disk'[p] = disk[p] /\ (index'[p] = index[p] \/ index'[p] = Entry(p, disk'[p])) /\ p \notin meddled
  BY <1>1 DEF Stays
<1>4. Only({"move", "moveFolder"}, d)' <=> Only({"move", "moveFolder"}, d)
  BY DEF Only
<1>5. After(d)' = After(d)
  BY DEF After, Only
<1>6. WriteInv(d)'
  BY <1>1, <1>3, <1>5 DEF WriteInv, Writes, Bodies, Only
<1>7. Changed(d)' = Changed(d) /\ Changed(d) \subseteq need[d]
  BY DEF Changed
<1>8. ASSUME NEW p \in Changed(d) \ meddled', call[d].at \in Bodies, InIndex(d, p) PROVE InIndex(d, p)'
  BY <1>3, <1>4, <1>7, <1>8 DEF InIndex, Entry
<1>9. WrittenInv(d)'
  <2>1. /\ (DOMAIN call[d].written \subseteq need[d])'
        /\ \A p \in DOMAIN call'[d].written : call'[d].written[p] \in Texts
    BY <1>1 DEF WrittenInv
  <2>2. ASSUME After(d) = "batch", call[d].at \in Writes \union {"batch"}, NEW p \in DOMAIN call[d].written \ meddled'
        PROVE  disk'[p] = call[d].written[p]
    <3>1. p \in need[d] \ meddled' /\ call[d].at \in Bodies
      BY <1>1, <2>2 DEF WrittenInv, Bodies
    <3> QED BY <1>1, <1>3, <2>2, <3>1 DEF WrittenInv
  <2>3. ASSUME call[d].at = "ok" \/ (After(d) = "rewriting" /\ call[d].at \in Writes \union {"rewriting"}),
               NEW p \in Changed(d) \ meddled'
        PROVE  InIndex(d, p)'
    <3>1. call[d].at \in Bodies /\ p \notin meddled
      BY <1>3, <1>7, <2>3 DEF Bodies
    <3>2. InIndex(d, p)
      BY <1>1, <2>3, <3>1 DEF WrittenInv
    <3> QED BY <1>8, <2>3, <3>1, <3>2
  <2> QED BY <1>5, <1>7, <2>1, <2>2, <2>3 DEF WrittenInv
<1>10. PhaseInv(d)'
  <2>1. call[d].at = "renamed" /\ Only({"move"}, d) => call[d].job.path \in need[d]
    <3>1. call[d].job \in Jobs /\ Own(call[d].job) \subseteq need[d]
      BY <1>1 DEF PlanInv
    <3> QED BY <3>1, JobsAssumption DEF Only, Own, FolderTools
  <2>2. call[d].at = "renamed" => call[d].at \in Bodies
    BY DEF Bodies
  <2>3. Only({"move"}, d)' <=> Only({"move"}, d)
    BY DEF Only
  <2>4. Only({"daily"}, d)' <=> Only({"daily"}, d)
    BY DEF Only
  <2> QED BY <1>1, <1>3, <1>5, <2>1, <2>2, <2>3, <2>4 DEF PhaseInv, Stays
<1> QED BY <1>1, <1>2, <1>6, <1>9, <1>10 DEF CallInv

LEMMA GoTo ==
  ASSUME LockInv, NEW c \in Calls, NEW changes, Go(c, changes), DOMAIN changes \subseteq Fields
  PROVE  /\ DOMAIN call' = Calls /\ \A d \in Calls \ {c} : call'[d] = call[d]
         /\ DOMAIN call'[c] = Fields
         /\ \A x \in Fields : call'[c][x] = IF x \in DOMAIN changes THEN changes[x] ELSE call[c][x]
<1>1. DOMAIN call = Calls /\ DOMAIN call[c] = Fields
  BY DEF LockInv
<1>2. call'[c] = changes ++ call[c] /\ DOMAIN call' = Calls /\ \A d \in Calls \ {c} : call'[d] = call[d]
  BY <1>1 DEF Go
<1> QED BY <1>1, <1>2 DEF ++

\* A step in the body of c.
LEMMA StepInv ==
  ASSUME IInv, NEW c \in Calls, status[c] = "inside", UNCHANGED locks,
         DOMAIN call' = Calls, \A d \in Calls \ {c} : call'[d] = call[d],
         DOMAIN call'[c] = Fields, call'[c].at \in Bodies,
         DataInv', Stays(need[c]), CallInv(c)'
  PROVE  IInv'
<1>1. UNCHANGED <<status, need>>
  BY DEF locks
<1>2. LockInv'
  BY <1>1 DEF IInv, LockInv, Held, Bodies, Writes
<1>3. ASSUME NEW d \in Calls \ {c} PROVE CallInv(d)'
  <2>1. call[d].at \in Bodies => need[c] \intersect need[d] = {}
    BY DEF IInv, LockInv
  <2> QED BY <1>1, <2>1, Bystander DEF IInv
<1> QED BY <1>2, <1>3 DEF IInv

\* A step that only looks.
LEMMA LookInv ==
  ASSUME IInv, NEW c \in Calls, status[c] = "inside", NEW changes, Looks(c, changes),
         DOMAIN changes \subseteq Fields, call'[c].at \in Bodies, CallInv(c)'
  PROVE  IInv'
<1>1. Go(c, changes) /\ UNCHANGED <<disk, index, locks, meddled, meddling>>
  BY DEF Looks
<1>2. DataInv' /\ Stays(need[c])
  BY <1>1 DEF IInv, DataInv, Stays
<1>3. (\A d \in Calls \ {c} : call'[d] = call[d]) /\ DOMAIN call' = Calls /\ DOMAIN call'[c] = Fields
  BY <1>1, GoTo DEF IInv
<1> QED BY <1>1, <1>2, <1>3, StepInv

\* What stays true of a call while its job, plan and locks are the same.
LEMMA PlanStays ==
  ASSUME NEW c \in Calls, PlanInv(c), call'[c].job = call[c].job, call'[c].plan = call[c].plan, need'[c] = need[c]
  PROVE  /\ PlanInv(c)' /\ After(c)' = After(c) /\ \A tools : Only(tools, c)' <=> Only(tools, c)
         /\ call'[c].written = call[c].written => Changed(c)' = Changed(c)
BY DEF PlanInv, Own, After, Only, Changed

LEMMA OwnPath ==
  ASSUME LockInv, NEW c \in Calls, PlanInv(c)
  PROVE  /\ need[c] \subseteq Paths
         /\ call[c].job.tool \notin FolderTools => call[c].job.path \in need[c]
         /\ call[c].job.paths \subseteq need[c]
         /\ call[c].job.tool = "move" => call[c].job.to \in need[c]
<1>1. call[c].job \in Jobs /\ Own(call[c].job) \subseteq need[c] /\ need[c] \subseteq Paths
  BY DEF PlanInv, LockInv
<1> QED BY <1>1, JobsAssumption DEF Own

\* c refuses.
LEMMA Refuses ==
  ASSUME IInv, NEW c \in Calls, status[c] = "inside", Looks(c, Refused)
  PROVE  IInv'
<1>1. Held(c) /\ CallInv(c) /\ LockInv
  BY DEF IInv, LockInv
<1>2. /\ Go(c, Refused) /\ UNCHANGED <<disk, index, meddled, meddling>> /\ UNCHANGED <<status, need>>
      /\ DOMAIN Refused \subseteq Fields
  BY DEF Looks, locks, Refused, Fields
<1>3. /\ call'[c].at = "error" /\ call'[c].job = call[c].job /\ call'[c].plan = call[c].plan
      /\ call'[c].todo = call[c].todo /\ call'[c].written = call[c].written
  BY <1>1, <1>2, GoTo DEF Refused, Fields
<1>4. PlanInv(c)' /\ After(c)' = After(c)
  BY <1>1, <1>2, <1>3, PlanStays DEF CallInv
<1>5. CallInv(c)'
  BY <1>1, <1>2, <1>3, <1>4 DEF CallInv, WriteInv, WrittenInv, PhaseInv, Writes
<1> QED BY <1>2, <1>3, <1>5, LookInv DEF Bodies

\* c goes on at another place of its body where it has nothing to write yet.
LEMMA GoesOn ==
  ASSUME IInv, NEW c \in Calls, status[c] = "inside", NEW at, Looks(c, [at |-> at]),
         \/ at = "ok" /\ \A p \in Changed(c) \ meddled : InIndex(c, p)
         \/ at = "batch" /\ call[c].at = "begin" /\ After(c) = "batch"
  PROVE  IInv'
<1>1. Held(c) /\ CallInv(c) /\ LockInv
  BY DEF IInv, LockInv
<1>2. /\ Go(c, [at |-> at]) /\ UNCHANGED <<disk, index, meddled, meddling>> /\ UNCHANGED <<status, need>>
      /\ DOMAIN [at |-> at] \subseteq Fields
  BY DEF Looks, locks, Fields
<1>3. /\ call'[c].at = at /\ call'[c].job = call[c].job /\ call'[c].plan = call[c].plan
      /\ call'[c].todo = call[c].todo /\ call'[c].written = call[c].written
  BY <1>1, <1>2, GoTo DEF Fields
<1>4. /\ PlanInv(c)' /\ After(c)' = After(c) /\ Changed(c)' = Changed(c)
      /\ \A tools : Only(tools, c)' <=> Only(tools, c)
  BY <1>1, <1>2, <1>3, PlanStays DEF CallInv
<1>5. \A p : InIndex(c, p)' <=> InIndex(c, p)
  BY <1>2, <1>4 DEF InIndex, Entry
<1>6. at = "batch" => call[c].written = <<>>
  BY <1>1 DEF CallInv, PhaseInv
<1>7. WrittenInv(c)'
  BY <1>1, <1>2, <1>3, <1>4, <1>5, <1>6 DEF CallInv, WrittenInv, Writes
<1>8. CallInv(c)'
  BY <1>1, <1>2, <1>3, <1>4, <1>7 DEF CallInv, WriteInv, PhaseInv, Writes
<1> QED BY <1>2, <1>3, <1>8, LookInv DEF Bodies

\* c has read the one file it changes, and is about to write.
LEMMA Prepares ==
  ASSUME IInv, NEW c \in Calls, Inside(c, "begin"), NEW at \in Writes, NEW out \in Good,
         Looks(c, Writing(c, at, out)),
         After(c) = "ok", call[c].job.tool \notin FolderTools \union {"delete"}, at = "template" => Only({"daily"}, c)
  PROVE  IInv'
<1>1. Held(c) /\ CallInv(c) /\ LockInv /\ PlanInv(c) /\ call[c].at = "begin" /\ status[c] = "inside"
  BY DEF IInv, LockInv, Inside, Held, CallInv
<1>2. /\ Go(c, Writing(c, at, out)) /\ UNCHANGED <<disk, index, meddled, meddling>> /\ UNCHANGED <<status, need>>
      /\ DOMAIN Writing(c, at, out) \subseteq Fields
  BY DEF Looks, locks, Fields, Writing
<1>3. /\ call'[c].at = at /\ call'[c].job = call[c].job /\ call'[c].plan = call[c].plan
      /\ call'[c].todo = call[c].todo /\ call'[c].written = call[c].written
      /\ call'[c].on = call[c].on /\ call'[c].out = out /\ call'[c].seen = disk[call[c].on]
  BY <1>1, <1>2, GoTo DEF Fields, Writing, Text0
<1>4. /\ PlanInv(c)' /\ After(c)' = After(c)
      /\ \A tools : Only(tools, c)' <=> Only(tools, c)
  BY <1>1, <1>2, <1>3, PlanStays DEF CallInv
<1>5. call[c].on = call[c].job.path /\ call[c].job.path \in need[c] /\ call[c].written = <<>>
  BY <1>1, OwnPath DEF CallInv, PhaseInv
<1>6. WriteInv(c)'
  BY <1>2, <1>3, <1>4, <1>5 DEF WriteInv, Only, FolderTools
<1>7. WrittenInv(c)'
  BY <1>1, <1>2, <1>3, <1>4, <1>5 DEF CallInv, WrittenInv, Writes
<1>8. CallInv(c)'
  BY <1>1, <1>2, <1>3, <1>4, <1>6, <1>7 DEF CallInv, PhaseInv, Writes
<1> QED BY <1>1, <1>2, <1>3, <1>8, LookInv DEF Bodies

-----------------------------------------------------------------------------
(* The tools that write files. *)

Singles == {"write", "edit", "append", "unique", "insert", "addNode", "canvas", "create", "daily"}

LEMMA AtBegin ==
  ASSUME IInv, NEW c \in Calls, Inside(c, "begin"), NEW tool \in Singles \union {"frontmatter", "batch"}, Only({tool}, c)
  PROVE  /\ Text0(c) \in Good /\ call[c].on \in Paths /\ status[c] = "inside" /\ call[c].at = "begin"
         /\ call[c].job.tool \notin FolderTools \union {"delete"}
         /\ tool \in Singles => After(c) = "ok"
         /\ tool \notin Singles => After(c) = "batch"
         /\ call[c].job.paths \subseteq Paths /\ disk \in [Paths -> Good]
<1>1. Held(c) /\ CallInv(c) /\ LockInv /\ PlanInv(c) /\ call[c].at = "begin" /\ status[c] = "inside"
      /\ disk \in [Paths -> Good] /\ call[c].job.tool = tool
  BY DEF IInv, DataInv, LockInv, Inside, Held, CallInv, Only
<1>2. call[c].on = call[c].job.path /\ call[c].job.path \in Paths /\ call[c].job.paths \subseteq Paths
  BY <1>1, OwnPath DEF CallInv, PhaseInv, FolderTools, Singles
<1> QED BY <1>1, <1>2 DEF Text0, After, Only, Singles, FolderTools

LEMMA AddedGood ==
  ASSUME NEW c \in Calls, NEW t \in Good
  PROVE  Added(c) \in Good /\ Added(c) \o t \in Good /\ t \o Added(c) \in Good
BY PieceTypes, ConcatGood DEF Added

LEMMA WriteSteps ==
  ASSUME IInv, NEW c \in Calls, WriteNote(c) \/ WriteBinary(c) \/ EditNote(c) \/ AppendNote(c)
  PROVE  IInv'
<1>1. CASE WriteNote(c) \/ WriteBinary(c)
  <2>1. Inside(c, "begin") /\ Only({"write"}, c) /\ (Looks(c, Writing(c, "put", Added(c))) \/ Looks(c, Refused))
    BY <1>1 DEF WriteNote, WriteBinary, Begin
  <2> QED BY <2>1, AtBegin, AddedGood, Refuses, Prepares DEF Singles, Writes
<1>2. CASE EditNote(c)
  <2>1. Inside(c, "begin") /\ Only({"edit"}, c) /\ (Looks(c, Writing(c, "put", Added(c) \o Text0(c))) \/ Looks(c, Refused))
    BY <1>2 DEF EditNote, Begin
  <2>2. Added(c) \o Text0(c) \in Good
    BY <2>1, AtBegin, AddedGood DEF Singles
  <2> QED BY <2>1, <2>2, AtBegin, Refuses, Prepares DEF Singles, Writes
<1>3. CASE AppendNote(c)
  <2>1. Inside(c, "begin") /\ Only({"append"}, c) /\ (Looks(c, Writing(c, "put", Text0(c) \o Added(c))) \/ Looks(c, Refused))
    BY <1>3 DEF AppendNote, Begin
  <2>2. Text0(c) \o Added(c) \in Good
    BY <2>1, AtBegin, AddedGood DEF Singles
  <2> QED BY <2>1, <2>2, AtBegin, Refuses, Prepares DEF Singles, Writes
<1> QED BY <1>1, <1>2, <1>3

\* A line that is there is not added; one that is not there is there once.
LEMMA UniqueSteps ==
  ASSUME IInv, NEW c \in Calls, AppendUnique(c) \/ InsertInSection(c)
  PROVE  IInv'
<1>1. CASE AppendUnique(c)
  <2>1. Inside(c, "begin") /\ Only({"unique"}, c)
    BY <1>1 DEF AppendUnique, Begin
  <2>2. Looks(c, Refused) \/ Looks(c, [at |-> "ok"]) \/ (Looks(c, Writing(c, "put", Text0(c) \o <<Line>>)) /\ Line \notin ToSet(Text0(c)))
    BY <1>1 DEF AppendUnique
  <2>3. Looks(c, Writing(c, "put", Text0(c) \o <<Line>>)) /\ Line \notin ToSet(Text0(c)) => IInv'
    <3>1. Line \in Pieces
      BY PieceTypes DEF Line
    <3>2. Line \notin ToSet(Text0(c)) => Text0(c) \o <<Line>> \in Good
      BY <2>1, <3>1, AtBegin, ConcatGood DEF Singles
    <3> QED BY <2>1, <3>2, AtBegin, Prepares DEF Singles, Writes
  <2>4. Changed(c) = {}
    <3>1. call[c].written = <<>>
      BY <2>1 DEF IInv, CallInv, Held, PhaseInv, Inside
    <3> QED BY <2>1, <3>1 DEF Changed, Only
  <2>5. status[c] = "inside"
    BY <2>1 DEF Inside
  <2> QED BY <2>2, <2>3, <2>4, <2>5, Refuses, GoesOn
<1>2. CASE InsertInSection(c)
  <2> DEFINE out == <<Head(Text0(c))>> \o Added(c) \o Tail(Text0(c))
  <2>1. Inside(c, "begin") /\ Only({"insert"}, c)
        /\ (Looks(c, Refused) \/ (Text0(c) # Absent /\ Looks(c, Writing(c, "check", out))))
    BY <1>2 DEF InsertInSection, Begin
  <2>2. Text0(c) # Absent => out \in Good
    BY <2>1, AtBegin, PieceTypes, InsertGood DEF Added, Singles
  <2> HIDE DEF out
  <2> QED BY <2>1, <2>2, AtBegin, Refuses, Prepares DEF Singles, Writes
<1> QED BY <1>1, <1>2

LEMMA CanvasSteps ==
  ASSUME IInv, NEW c \in Calls, AddCanvasNode(c) \/ ChangeCanvas(c)
  PROVE  IInv'
<1>1. CASE AddCanvasNode(c)
  <2>1. Inside(c, "begin") /\ Only({"addNode"}, c) /\ Looks(c, Writing(c, "check", Text0(c) \o Added(c)))
    BY <1>1 DEF AddCanvasNode, Begin
  <2>2. Text0(c) \o Added(c) \in Good
    BY <2>1, AtBegin, AddedGood DEF Singles
  <2> QED BY <2>1, <2>2, AtBegin, Prepares DEF Singles, Writes
<1>2. CASE ChangeCanvas(c)
  <2>1. Inside(c, "begin") /\ Only({"canvas"}, c) /\ (Looks(c, Writing(c, "check", Added(c) \o Text0(c))) \/ Looks(c, Refused))
    BY <1>2 DEF ChangeCanvas, Begin
  <2>2. Added(c) \o Text0(c) \in Good
    BY <2>1, AtBegin, AddedGood DEF Singles
  <2> QED BY <2>1, <2>2, AtBegin, Refuses, Prepares DEF Singles, Writes
<1> QED BY <1>1, <1>2

LEMMA TemplateSteps ==
  ASSUME IInv, NEW c \in Calls, CreateFromTemplate(c) \/ AppendDaily(c)
  PROVE  IInv'
<1>1. CASE CreateFromTemplate(c)
  <2>1. PICK template \in call[c].job.paths :
          Inside(c, "begin") /\ Only({"create"}, c) /\ (Looks(c, Writing(c, "put", Added(c) \o disk[template])) \/ Looks(c, Refused))
    BY <1>1 DEF CreateFromTemplate, Begin
  <2>2. disk[template] \in Good
    BY <2>1, AtBegin DEF Singles
  <2>3. Added(c) \o disk[template] \in Good
    BY <2>2, AddedGood
  <2> QED BY <2>1, <2>3, AtBegin, Refuses, Prepares DEF Singles, Writes
<1>2. CASE AppendDaily(c)
  <2>1. Inside(c, "begin") /\ Only({"daily"}, c)
        /\ (Looks(c, Writing(c, "template", <<Text("template")>>)) \/ Looks(c, Writing(c, "put", Text0(c) \o Added(c))))
    BY <1>2 DEF AppendDaily, Begin
  <2>2. Text0(c) \o Added(c) \in Good
    BY <2>1, AtBegin, AddedGood DEF Singles
  <2>3. <<Text("template")>> \in Good
    BY GoodText, PieceTypes, ConcatGood
  <2> QED BY <2>1, <2>2, <2>3, AtBegin, Prepares DEF Singles, Writes
<1> QED BY <1>1, <1>2

LEMMA BatchBegins ==
  ASSUME IInv, NEW c \in Calls, UpdateFrontmatter(c) \/ BatchUpdate(c)
  PROVE  IInv'
<1>1. CASE UpdateFrontmatter(c)
  <2>1. Inside(c, "begin") /\ Only({"frontmatter"}, c) /\ (Looks(c, [at |-> "batch"]) \/ Looks(c, Refused))
    BY <1>1 DEF UpdateFrontmatter, Begin
  <2> QED BY <2>1, AtBegin, Refuses, GoesOn DEF Singles
<1>2. CASE BatchUpdate(c)
  <2>1. Inside(c, "begin") /\ Only({"batch"}, c) /\ Looks(c, [at |-> "batch"])
    BY <1>2 DEF BatchUpdate, Begin
  <2> QED BY <2>1, AtBegin, GoesOn DEF Singles
<1> QED BY <1>1, <1>2

LEMMA BatchItemStep ==
  ASSUME IInv, NEW c \in Calls, NEW p \in Paths, BatchItem(c, p)
  PROVE  IInv'
<1> DEFINE more == IF disk[p] # Absent /\ Expected(c, p)
                   THEN [at |-> "put", on |-> p, seen |-> disk[p], out |-> Added(c) \o disk[p]]
                   ELSE [failed |-> call[c].failed \union {p}]
           changes == [todo |-> call[c].todo \ {p}] ++ more
<1>1. /\ status[c] = "inside" /\ call[c].at = "batch" /\ p \in call[c].todo /\ Looks(c, changes)
  BY DEF BatchItem, Inside
<1>2. /\ Held(c) /\ CallInv(c) /\ LockInv /\ PlanInv(c) /\ DataInv
      /\ After(c) = "batch" /\ p \in need[c] /\ call[c].todo \subseteq need[c]
  BY <1>1 DEF IInv, CallInv, Held, PhaseInv, Bodies
<1>3. /\ changes.todo = call[c].todo \ {p} /\ DOMAIN changes \subseteq Fields
      /\ DOMAIN changes \intersect {"job", "plan", "written"} = {}
      /\ \/ DOMAIN changes \intersect {"at", "on", "out", "seen"} = {}
         \/ /\ {"at", "on", "out", "seen"} \subseteq DOMAIN changes
            /\ changes.at = "put" /\ changes.on = p /\ changes.seen = disk[p] /\ changes.out = Added(c) \o disk[p]
      /\ "todo" \in DOMAIN changes
  <2>1. CASE disk[p] # Absent /\ Expected(c, p)
    BY <2>1 DEF ++, Fields
  <2>2. CASE ~(disk[p] # Absent /\ Expected(c, p))
    BY <2>2 DEF ++, Fields
  <2> QED BY <2>1, <2>2
<1> HIDE DEF changes
<1>4. Go(c, changes) /\ UNCHANGED <<disk, index, meddled, meddling>> /\ UNCHANGED <<status, need>>
  BY <1>1 DEF Looks, locks
<1>5. /\ call'[c].job = call[c].job /\ call'[c].plan = call[c].plan /\ call'[c].written = call[c].written
      /\ call'[c].todo = call[c].todo \ {p}
      /\ \/ call'[c].at = "batch"
         \/ /\ call'[c].at = "put" /\ call'[c].on = p /\ call'[c].seen = disk[p] /\ call'[c].out = Added(c) \o disk[p]
  BY <1>1, <1>2, <1>3, <1>4, GoTo DEF Fields
<1>6. PlanInv(c)' /\ After(c)' = After(c) /\ \A tools : Only(tools, c)' <=> Only(tools, c)
  BY <1>2, <1>4, <1>5, PlanStays
<1>7. Added(c) \o disk[p] \in Good
  BY <1>2, AddedGood DEF DataInv
<1>8. ~Only({"delete", "deleteFolder"}, c)
  BY <1>2 DEF After, Only
<1>9. WriteInv(c)'
  BY <1>2, <1>4, <1>5, <1>6, <1>7, <1>8 DEF WriteInv, Writes
<1>10. WrittenInv(c)'
  BY <1>1, <1>2, <1>4, <1>5, <1>6 DEF CallInv, WrittenInv
<1>11. CallInv(c)'
  BY <1>2, <1>4, <1>5, <1>6, <1>9, <1>10 DEF CallInv, PhaseInv
<1> QED BY <1>1, <1>3, <1>5, <1>11, LookInv DEF Bodies, Writes

LEMMA EndBatchStep ==
  ASSUME IInv, NEW c \in Calls, EndBatch(c)
  PROVE  IInv'
<1> DEFINE written == call[c].written
           at == IF Only({"frontmatter"}, c) /\ written = <<>> THEN "error" ELSE "ok"
<1>1. /\ status[c] = "inside" /\ call[c].at = "batch" /\ Go(c, [at |-> at])
      /\ index' = [p \in Paths |-> IF p \in DOMAIN written THEN Entry(p, written[p]) ELSE index[p]]
      /\ UNCHANGED <<disk, meddled, meddling>> /\ UNCHANGED <<status, need>> /\ UNCHANGED locks
  BY DEF EndBatch, Inside, locks
<1>2. /\ Held(c) /\ CallInv(c) /\ LockInv /\ PlanInv(c) /\ DataInv /\ After(c) = "batch" /\ WrittenInv(c)
      /\ need[c] \subseteq Paths
  BY <1>1 DEF IInv, CallInv, Held, PhaseInv, Bodies, LockInv
<1>3. at \in {"error", "ok"}
  OBVIOUS
<1> HIDE DEF at
<1>4. /\ call'[c].at = at /\ call'[c].job = call[c].job /\ call'[c].plan = call[c].plan
      /\ call'[c].todo = call[c].todo /\ call'[c].written = written
      /\ DOMAIN call' = Calls /\ DOMAIN call'[c] = Fields /\ \A d \in Calls \ {c} : call'[d] = call[d]
  BY <1>1, <1>2, GoTo DEF Fields
<1>5. /\ PlanInv(c)' /\ After(c)' = After(c) /\ Changed(c)' = Changed(c)
      /\ \A tools : Only(tools, c)' <=> Only(tools, c)
  BY <1>1, <1>2, <1>4, PlanStays
<1>6. /\ DOMAIN written \subseteq need[c] /\ \A p \in DOMAIN written : written[p] \in Texts
      /\ \A p \in DOMAIN written \ meddled : disk[p] = written[p]
  BY <1>1, <1>2 DEF WrittenInv
<1>7. Changed(c) = DOMAIN written
  BY <1>2, <1>6 DEF Changed, After, Only
<1>8. \A p \in Changed(c) \ meddled : index'[p] = Entry(p, disk'[p])
  BY <1>1, <1>2, <1>6, <1>7
<1>9. WrittenInv(c)'
  BY <1>1, <1>2, <1>3, <1>4, <1>5, <1>6, <1>8 DEF WrittenInv, InIndex, Entry, Writes
<1>10. CallInv(c)'
  BY <1>1, <1>2, <1>3, <1>4, <1>5, <1>9 DEF CallInv, WriteInv, PhaseInv, Writes
<1>11. DataInv'
  <2>1. index' \in [Paths -> Texts]
    BY <1>1, <1>2, <1>6, EntryType DEF DataInv
  <2> QED BY <1>1, <1>2, <2>1 DEF DataInv
<1>12. Stays(need[c])
  BY <1>1, <1>2, <1>6 DEF Stays
<1> QED BY <1>1, <1>3, <1>4, <1>10, <1>11, <1>12, StepInv DEF Bodies

LEMMA PutTemplateStep ==
  ASSUME IInv, NEW c \in Calls, PutTemplate(c)
  PROVE  IInv'
<1> DEFINE out == call[c].out
           p == call[c].on
           changes == [at |-> "put", seen |-> out, out |-> out \o Added(c)]
<1>1. /\ status[c] = "inside" /\ call[c].at = "template" /\ Go(c, changes) /\ disk' = [disk EXCEPT ![p] = out]
      /\ UNCHANGED <<index, meddled, meddling>> /\ UNCHANGED <<status, need>> /\ UNCHANGED locks
  BY DEF PutTemplate, Inside, locks
<1>2. /\ Held(c) /\ CallInv(c) /\ LockInv /\ PlanInv(c) /\ DataInv /\ WriteInv(c) /\ WrittenInv(c)
      /\ Only({"daily"}, c) /\ p \in need[c] /\ need[c] \subseteq Paths /\ out \in Good
  BY <1>1 DEF IInv, CallInv, Held, PhaseInv, Bodies, Writes, LockInv, WriteInv
<1>3. /\ call'[c].at = "put" /\ call'[c].job = call[c].job /\ call'[c].plan = call[c].plan
      /\ call'[c].todo = call[c].todo /\ call'[c].written = call[c].written
      /\ call'[c].on = p /\ call'[c].seen = out /\ call'[c].out = out \o Added(c)
      /\ DOMAIN call' = Calls /\ DOMAIN call'[c] = Fields /\ \A d \in Calls \ {c} : call'[d] = call[d]
  BY <1>1, <1>2, GoTo DEF Fields
<1>4. /\ PlanInv(c)' /\ After(c)' = After(c) /\ \A tools : Only(tools, c)' <=> Only(tools, c)
  BY <1>1, <1>2, <1>3, PlanStays
<1>5. After(c) = "ok" /\ call[c].written = <<>> /\ ~Only({"delete", "deleteFolder"}, c)
  BY <1>1, <1>2 DEF After, Only, WriteInv, Writes
<1>6. out \o Added(c) \in Good
  BY <1>2, AddedGood
<1>7. disk'[p] = out /\ (\A q \in Paths \ {p} : disk'[q] = disk[q]) /\ disk' \in [Paths -> Good]
  BY <1>1, <1>2 DEF DataInv
<1>8. WriteInv(c)'
  BY <1>1, <1>2, <1>3, <1>4, <1>5, <1>6, <1>7 DEF WriteInv
<1>9. WrittenInv(c)'
  BY <1>1, <1>2, <1>3, <1>4, <1>5 DEF WrittenInv
<1>10. CallInv(c)'
  BY <1>1, <1>2, <1>3, <1>4, <1>5, <1>8, <1>9 DEF CallInv, PhaseInv
<1>11. DataInv' /\ Stays(need[c])
  BY <1>1, <1>2, <1>7 DEF DataInv, Stays
<1> QED BY <1>1, <1>3, <1>10, <1>11, StepInv DEF Bodies, Writes

LEMMA PutStep ==
  ASSUME IInv, NEW c \in Calls, Put(c)
  PROVE  IInv'
<1> DEFINE out == call[c].out
           p == call[c].on
           w == [x \in {p} |-> out] ++ call[c].written
<1>1. /\ status[c] = "inside" /\ call[c].at = "put" /\ Go(c, [at |-> After(c), written |-> w])
      /\ disk' = [disk EXCEPT ![p] = out]
      /\ index' = IF Tells(c) THEN [index EXCEPT ![p] = Entry(p, out)] ELSE index
      /\ UNCHANGED <<meddled, meddling>> /\ UNCHANGED <<status, need>> /\ UNCHANGED locks
  BY DEF Put, Inside, locks
<1>2. /\ Held(c) /\ CallInv(c) /\ LockInv /\ PlanInv(c) /\ DataInv /\ WriteInv(c) /\ WrittenInv(c)
      /\ p \in need[c] /\ need[c] \subseteq Paths /\ out \in Good /\ out \in Texts
  BY <1>1, GoodText DEF IInv, CallInv, Held, PhaseInv, Bodies, Writes, LockInv, WriteInv
<1>3. /\ DOMAIN w = {p} \union DOMAIN call[c].written /\ w[p] = out
      /\ \A q \in DOMAIN call[c].written \ {p} : w[q] = call[c].written[q]
  BY DEF ++
<1> HIDE DEF w
<1>4. /\ call'[c].at = After(c) /\ call'[c].job = call[c].job /\ call'[c].plan = call[c].plan
      /\ call'[c].todo = call[c].todo /\ call'[c].written = w
      /\ DOMAIN call' = Calls /\ DOMAIN call'[c] = Fields /\ \A d \in Calls \ {c} : call'[d] = call[d]
  BY <1>1, <1>2, GoTo DEF Fields
<1>5. /\ PlanInv(c)' /\ After(c)' = After(c) /\ \A tools : Only(tools, c)' <=> Only(tools, c)
  BY <1>1, <1>2, <1>4, PlanStays
<1>6. After(c) \in {"rewriting", "batch", "ok"}
  BY DEF After
<1>7. /\ disk'[p] = out /\ (\A q \in Paths \ {p} : disk'[q] = disk[q]) /\ disk' \in [Paths -> Good]
      /\ \A q \in Paths \ {p} : index'[q] = index[q]
      /\ Tells(c) => index'[p] = Entry(p, out)
      /\ index' \in [Paths -> Texts]
  BY <1>1, <1>2, EntryType DEF DataInv
<1>8. DataInv' /\ Stays(need[c])
  BY <1>1, <1>2, <1>7 DEF DataInv, Stays
<1>9. DOMAIN w \subseteq need[c] /\ \A q \in DOMAIN w : w[q] \in Texts
  BY <1>2, <1>3 DEF WrittenInv
<1>10. After(c) = "batch" => \A q \in DOMAIN w \ meddled : disk'[q] = w[q]
  BY <1>1, <1>2, <1>3, <1>7 DEF WrittenInv, Writes
<1>11. Changed(c)' = Changed(c) \union {p}
  BY <1>1, <1>2, <1>3, <1>4 DEF Changed
<1>12. After(c) = "ok" => Changed(c)' = {p}
  <2>1. After(c) = "ok" => call[c].written = <<>>
    BY <1>1, <1>2 DEF WriteInv, Writes
  <2>2. After(c) = "ok" => Changed(c) = {}
    BY <1>1, <1>2, <2>1 DEF Changed, WriteInv, Writes, After, Only
  <2> QED BY <1>11, <2>2
<1>13. ASSUME NEW q, q = p, After(c) = "ok" PROVE InIndex(c, q)'
  BY <1>7, <1>13 DEF Tells, InIndex, Entry
<1>14. After(c) = "rewriting" => \A q \in Changed(c)' \ meddled : InIndex(c, q)'
  <2> SUFFICES ASSUME After(c) = "rewriting", NEW q \in Changed(c)' \ meddled PROVE InIndex(c, q)'
    OBVIOUS
  <2>1. CASE q = p
    <3>1. p \in Notes \/ (p \in Canvases /\ Only({"move", "moveFolder"}, c))
      BY <1>2 DEF Paths, After, Only
    <3> QED BY <1>5, <1>7, <2>1, <3>1 DEF Tells, InIndex, Entry
  <2>2. CASE q # p
    <3>1. q \in Changed(c) \ meddled /\ q \in Paths
      BY <1>2, <1>11, <2>2 DEF Changed
    <3>2. InIndex(c, q)
      BY <1>1, <1>2, <3>1 DEF WrittenInv, Writes
    <3> QED BY <1>5, <1>7, <2>2, <3>1, <3>2 DEF InIndex, Entry
  <2> QED BY <2>1, <2>2
<1>15. WrittenInv(c)'
  <2>1. After(c) = "ok" => \A q \in Changed(c)' \ meddled : InIndex(c, q)'
    BY <1>12, <1>13
  <2> HIDE DEF p, out
  <2> QED BY <1>1, <1>4, <1>5, <1>6, <1>9, <1>10, <1>14, <2>1 DEF WrittenInv, Writes
<1>16. CallInv(c)'
  BY <1>1, <1>2, <1>4, <1>5, <1>6, <1>15 DEF CallInv, WriteInv, PhaseInv, Writes
<1> QED BY <1>1, <1>4, <1>6, <1>8, <1>16, StepInv DEF Bodies

\* Where a call goes when a write of it is refused or has failed.
LEMMA FailedTo ==
  ASSUME LockInv, NEW c \in Calls, Go(c, Failed(c)), call[c].at \in Writes, need'[c] = need[c], PlanInv(c)
  PROVE  /\ call'[c].at = IF After(c) = "ok" THEN "error" ELSE After(c)
         /\ call'[c].job = call[c].job /\ call'[c].plan = call[c].plan
         /\ call'[c].todo = call[c].todo /\ call'[c].written = call[c].written
         /\ DOMAIN call' = Calls /\ DOMAIN call'[c] = Fields /\ \A d \in Calls \ {c} : call'[d] = call[d]
         /\ PlanInv(c)' /\ After(c)' = After(c) /\ \A tools : Only(tools, c)' <=> Only(tools, c)
         /\ Changed(c)' = Changed(c) /\ After(c) \in {"ok", "batch", "rewriting"}
<1>1. CASE After(c) = "ok"
  <2>1. Go(c, [at |-> "error"])
    BY <1>1 DEF Failed, Refused
  <2> QED BY <1>1, <2>1, GoTo, PlanStays DEF Fields
<1>2. CASE After(c) # "ok"
  <2>1. Go(c, [at |-> After(c), failed |-> call[c].failed \union {call[c].on}])
    BY <1>2 DEF Failed
  <2>2. After(c) \in {"batch", "rewriting"}
    BY <1>2 DEF After
  <2>3. /\ call'[c].at = After(c) /\ call'[c].job = call[c].job /\ call'[c].plan = call[c].plan
        /\ call'[c].todo = call[c].todo /\ call'[c].written = call[c].written
        /\ DOMAIN call' = Calls /\ DOMAIN call'[c] = Fields /\ \A d \in Calls \ {c} : call'[d] = call[d]
    BY <2>1, GoTo DEF Fields
  <2> QED BY <1>2, <2>2, <2>3, PlanStays
<1> QED BY <1>1, <1>2

LEMMA FailPutStep ==
  ASSUME IInv, NEW c \in Calls, FailPut(c)
  PROVE  IInv'
<1> DEFINE out == call[c].out
           p == call[c].on
<1>1. /\ status[c] = "inside" /\ call[c].at = "put" /\ Go(c, Failed(c)) /\ meddling < Meddling /\ meddling' = meddling + 1
      /\ UNCHANGED disk \/ disk' = [disk EXCEPT ![p] = out]
      /\ meddled' = meddled \union {p}
      /\ UNCHANGED index /\ UNCHANGED <<status, need>> /\ UNCHANGED locks
  BY DEF FailPut, Inside, locks
<1>2. /\ Held(c) /\ CallInv(c) /\ LockInv /\ PlanInv(c) /\ DataInv /\ WriteInv(c) /\ WrittenInv(c)
      /\ p \in need[c] /\ need[c] \subseteq Paths /\ out \in Good
  BY <1>1 DEF IInv, CallInv, Held, PhaseInv, Bodies, Writes, LockInv, WriteInv
<1>3. /\ call'[c].at = IF After(c) = "ok" THEN "error" ELSE After(c)
      /\ call'[c].job = call[c].job /\ call'[c].plan = call[c].plan
      /\ call'[c].todo = call[c].todo /\ call'[c].written = call[c].written
      /\ DOMAIN call' = Calls /\ DOMAIN call'[c] = Fields /\ \A d \in Calls \ {c} : call'[d] = call[d]
      /\ PlanInv(c)' /\ After(c)' = After(c) /\ \A tools : Only(tools, c)' <=> Only(tools, c)
      /\ Changed(c)' = Changed(c) /\ After(c) \in {"ok", "batch", "rewriting"}
  BY <1>1, <1>2, FailedTo DEF Writes
<1>4. (\A q \in Paths \ {p} : disk'[q] = disk[q]) /\ disk' \in [Paths -> Good]
  BY <1>1, <1>2 DEF DataInv
<1>5. DataInv' /\ Stays(need[c])
  <2>1. meddling' \in 0 .. Meddling
    BY <1>1, <1>2, CallsAssumption DEF DataInv
  <2> QED BY <1>1, <1>2, <1>4, <2>1 DEF DataInv, Stays
<1>6. ASSUME NEW q \in Changed(c) \ meddled', InIndex(c, q) PROVE InIndex(c, q)'
  <2>1. q \in Paths \ {p}
    BY <1>1, <1>2 DEF Changed
  <2> QED BY <1>1, <1>3, <1>4, <1>6, <2>1 DEF InIndex, Entry
<1> HIDE DEF p, out
<1>7. WrittenInv(c)'
  <2>1. DOMAIN call'[c].written \subseteq need'[c] /\ \A q \in DOMAIN call'[c].written : call'[c].written[q] \in Texts
    BY <1>1, <1>2, <1>3 DEF WrittenInv
  <2>2. After(c) = "batch" => \A q \in DOMAIN call[c].written \ meddled' : disk'[q] = call[c].written[q]
    BY <1>1, <1>2, <1>4 DEF WrittenInv, Writes
  <2>3. After(c) = "rewriting" => \A q \in Changed(c) \ meddled' : InIndex(c, q)'
    BY <1>1, <1>2, <1>6 DEF WrittenInv, Writes
  <2> QED BY <1>3, <2>1, <2>2, <2>3 DEF WrittenInv, Writes
<1>8. CallInv(c)'
  BY <1>1, <1>2, <1>3, <1>7 DEF CallInv, WriteInv, PhaseInv, Writes
<1> QED BY <1>1, <1>3, <1>5, <1>8, StepInv DEF Bodies

LEMMA CheckStep ==
  ASSUME IInv, NEW c \in Calls, Check(c)
  PROVE  IInv'
<1>1. /\ status[c] = "inside" /\ call[c].at = "check"
      /\ Looks(c, [at |-> "put"]) \/ Looks(c, Failed(c))
  BY DEF Check, Inside
<1>2. /\ Held(c) /\ CallInv(c) /\ LockInv /\ PlanInv(c) /\ WriteInv(c) /\ WrittenInv(c)
  BY <1>1 DEF IInv, CallInv, Held, PhaseInv, Bodies, Writes
<1>3. UNCHANGED <<disk, index, meddled, meddling>> /\ UNCHANGED <<status, need>>
  BY <1>1 DEF Looks, locks
<1>4. \A q : InIndex(c, q) /\ (\A tools : Only(tools, c)' <=> Only(tools, c)) => InIndex(c, q)'
  BY <1>3 DEF InIndex, Entry
<1>5. CASE Looks(c, [at |-> "put"])
  <2>1. Go(c, [at |-> "put"])
    BY <1>5 DEF Looks
  <2>2. /\ call'[c].at = "put" /\ call'[c].job = call[c].job /\ call'[c].plan = call[c].plan
        /\ call'[c].todo = call[c].todo /\ call'[c].written = call[c].written
        /\ call'[c].on = call[c].on /\ call'[c].out = call[c].out /\ call'[c].seen = call[c].seen
    BY <1>2, <2>1, GoTo DEF Fields
  <2>3. /\ PlanInv(c)' /\ After(c)' = After(c) /\ Changed(c)' = Changed(c)
        /\ \A tools : Only(tools, c)' <=> Only(tools, c)
    BY <1>2, <1>3, <2>2, PlanStays
  <2>4. WriteInv(c)'
    BY <1>1, <1>2, <1>3, <2>2, <2>3 DEF WriteInv, Writes
  <2>5. WrittenInv(c)'
    BY <1>1, <1>2, <1>3, <1>4, <2>2, <2>3 DEF WrittenInv, Writes
  <2>6. CallInv(c)'
    BY <1>2, <1>3, <2>2, <2>3, <2>4, <2>5 DEF CallInv, PhaseInv
  <2> QED BY <1>1, <1>5, <2>2, <2>6, LookInv DEF Fields, Bodies, Writes
<1>6. CASE Looks(c, Failed(c))
  <2>1. Go(c, Failed(c))
    BY <1>6 DEF Looks
  <2>2. /\ call'[c].at = IF After(c) = "ok" THEN "error" ELSE After(c)
        /\ call'[c].job = call[c].job /\ call'[c].plan = call[c].plan
        /\ call'[c].todo = call[c].todo /\ call'[c].written = call[c].written
        /\ PlanInv(c)' /\ After(c)' = After(c) /\ \A tools : Only(tools, c)' <=> Only(tools, c)
        /\ Changed(c)' = Changed(c) /\ After(c) \in {"ok", "batch", "rewriting"}
    BY <1>1, <1>2, <1>3, <2>1, FailedTo DEF Writes
  <2>3. WrittenInv(c)'
    BY <1>1, <1>2, <1>3, <1>4, <2>2 DEF WrittenInv, Writes
  <2>4. CallInv(c)'
    BY <1>1, <1>2, <1>3, <2>2, <2>3 DEF CallInv, WriteInv, PhaseInv, Writes
  <2>5. DOMAIN Failed(c) \subseteq Fields
    BY DEF Failed, Refused, Fields
  <2> QED BY <1>1, <1>6, <2>2, <2>4, <2>5, LookInv DEF Bodies
<1> QED BY <1>1, <1>5, <1>6

LEMMA DeleteStep ==
  ASSUME IInv, NEW c \in Calls, Delete(c)
  PROVE  IInv'
<1> DEFINE job == call[c].job
           gone == IF job.tool = "delete" THEN {job.path} ELSE {p \in Paths : p[1] = job.path[1]}
<1>1. /\ status[c] = "inside" /\ call[c].at = "begin" /\ job.tool \in {"delete", "deleteFolder"}
      /\ UNCHANGED <<status, need>> /\ UNCHANGED locks /\ UNCHANGED meddling
      /\ \/ Go(c, Refused) /\ UNCHANGED <<disk, index, meddled>>
         \/ /\ disk' = [p \in Paths |-> IF p \in gone THEN Absent ELSE disk[p]]
            /\ index' = [p \in Paths |-> IF p \in gone THEN Absent ELSE index[p]]
            /\ meddled' = meddled \union {p \in gone \ need[c] : disk[p] # Absent}
            /\ Go(c, [at |-> "ok"])
  BY DEF Delete, Inside, locks, Only
<1>2. /\ Held(c) /\ CallInv(c) /\ LockInv /\ PlanInv(c) /\ DataInv /\ WrittenInv(c)
      /\ call[c].written = <<>> /\ need[c] \subseteq Paths
  BY <1>1 DEF IInv, CallInv, Held, PhaseInv, Bodies, Writes, LockInv
<1>3. CASE Go(c, Refused) /\ UNCHANGED <<disk, index, meddled>>
  BY <1>1, <1>3, Refuses DEF Looks
<1>4. CASE /\ disk' = [p \in Paths |-> IF p \in gone THEN Absent ELSE disk[p]]
           /\ index' = [p \in Paths |-> IF p \in gone THEN Absent ELSE index[p]]
           /\ meddled' = meddled \union {p \in gone \ need[c] : disk[p] # Absent}
           /\ Go(c, [at |-> "ok"])
  <2>1. gone \subseteq Paths
    BY <1>1, <1>2, OwnPath DEF FolderTools
  <2>2. Changed(c) \subseteq gone
    BY <1>1, <1>2 DEF Changed
  <2> HIDE DEF gone
  <2>3. DataInv'
    BY <1>1, <1>2, <1>4, <2>1, GoodText DEF DataInv
  <2>4. Stays(need[c])
    BY <1>2, <1>4, EntryType, GoodText DEF Stays, DataInv
  <2>5. /\ call'[c].at = "ok" /\ call'[c].job = call[c].job /\ call'[c].plan = call[c].plan
        /\ call'[c].todo = call[c].todo /\ call'[c].written = call[c].written
        /\ DOMAIN call' = Calls /\ DOMAIN call'[c] = Fields /\ \A d \in Calls \ {c} : call'[d] = call[d]
    BY <1>2, <1>4, GoTo DEF Fields
  <2>6. /\ PlanInv(c)' /\ After(c)' = After(c) /\ Changed(c)' = Changed(c)
        /\ \A tools : Only(tools, c)' <=> Only(tools, c)
    BY <1>1, <1>2, <2>5, PlanStays
  <2>7. \A p \in Changed(c) : InIndex(c, p)'
    <3>1. \A p \in Changed(c) : disk'[p] = Absent /\ index'[p] = Absent
      BY <1>4, <2>1, <2>2
    <3> QED BY <3>1 DEF InIndex, Entry
  <2>8. WrittenInv(c)'
    BY <1>1, <1>2, <2>5, <2>6, <2>7 DEF WrittenInv, Writes
  <2>9. CallInv(c)'
    BY <1>1, <1>2, <2>5, <2>6, <2>8 DEF CallInv, WriteInv, PhaseInv, Writes
  <2> QED BY <1>1, <2>3, <2>4, <2>5, <2>9, StepInv DEF Bodies
<1> QED BY <1>1, <1>3, <1>4

-----------------------------------------------------------------------------
(* A move. *)

LEMMA SetToSeqType ==
  ASSUME NEW S, IsFiniteSet(S)
  PROVE  SetToSeq(S) \in [1 .. Cardinality(S) -> S] /\ Cardinality(S) \in Nat
<1>1. Cardinality(S) \in Nat /\ ExistsBijection(1 .. Cardinality(S), S)
  BY FS_CardinalityType
<1>2. \E f \in [1 .. Cardinality(S) -> S] : IsInjective(f)
  BY <1>1 DEF ExistsBijection, Bijection, Injection, IsInjective
<1> QED BY <1>1, <1>2 DEF SetToSeq

LEMMA NewTargetType ==
  ASSUME NEW link, NEW new \in Paths, NEW from, NEW paths
  PROVE  NewTarget(link, new, from, paths) \in Targets
BY DEF NewTarget, Targets

\* What a move makes of a note is good: it puts links in place of what is there,
\* each planned link with a new target at its offset.
Retargeted(c, s, i, p, known, text) ==
  LET plan == call[c].plan IN
  /\ i \in DOMAIN text /\ text[i].is = plan.base[s][i].is
  /\ \E q \in plan.rewrites : /\ q[1] = s /\ q[2] = i
                             /\ text[i].to = NewTarget(plan.base[s][i], q[3], p, known[q[3]])

LEMMA RewrittenText ==
  ASSUME NEW c \in Calls, PlanInv(c), NEW s, NEW p \in Paths, NEW known, disk[p] \in Good
  PROVE  /\ Rewritten(c, s, p, known) \in Good /\ Len(Rewritten(c, s, p, known)) >= Len(disk[p])
         /\ \A r \in call[c].plan.rewrites :
              r[1] = s /\ r[2] \in DOMAIN disk[p] => Retargeted(c, s, r[2], p, known, Rewritten(c, s, p, known))
<1> DEFINE plan == call[c].plan
           text == disk[p]
           At(i) == CHOOSE r \in plan.rewrites : r[1] = s /\ r[2] = i
           offsets == {r[2] : r \in {q \in plan.rewrites : q[1] = s}}
           Target(i) == NewTarget(plan.base[s][i], At(i)[3], p, known[At(i)[3]])
           New(i) == [plan.base[s][i] EXCEPT !.to = Target(i)]
           beyond == SetToSeq({i \in offsets : i > Len(text)})
           u == [i \in 1 .. Len(text) |-> IF i \in offsets THEN New(i) ELSE text[i]]
           v == [i \in DOMAIN beyond |-> New(beyond[i])]
<1>1. Rewritten(c, s, p, known) = u \o v
  BY DEF Rewritten
<1>2. ASSUME NEW i \in offsets
      PROVE  /\ plan.base[s] \in Texts /\ i \in DOMAIN plan.base[s]
             /\ New(i) \in Pieces /\ New(i) # Line
             /\ New(i).is = plan.base[s][i].is /\ New(i).to = Target(i)
             /\ At(i) \in plan.rewrites /\ At(i)[1] = s /\ At(i)[2] = i
  <2>1. PICK q \in plan.rewrites : q[1] = s /\ q[2] = i
    OBVIOUS
  <2>2. At(i) \in plan.rewrites /\ At(i)[1] = s /\ At(i)[2] = i
    BY <2>1
  <2> HIDE DEF At
  <2>3. /\ plan.base[s] \in Texts /\ At(i)[3] \in Paths /\ i \in DOMAIN plan.base[s] /\ IsLink(plan.base[s][i])
    BY <2>2 DEF PlanInv
  <2>4. Target(i) \in Targets
    BY <2>3, NewTargetType
  <2> HIDE DEF Target
  <2>5. plan.base[s][i] \in Pieces
    BY <2>3 DEF Texts
  <2> HIDE DEF plan
  <2>6. New(i) \in Pieces /\ New(i).is = plan.base[s][i].is /\ New(i).to = Target(i)
    BY <2>4, <2>5 DEF Pieces
  <2>7. New(i) # Line
    BY <2>3, <2>6 DEF IsLink, Line, Text
  <2> QED BY <2>2, <2>3, <2>6, <2>7
<1>3. text \in Seq(Pieces) /\ Len(text) \in Nat /\ DOMAIN text = 1 .. Len(text)
  BY DEF Good, Texts
<1>4. IsFiniteSet({i \in offsets : i > Len(text)})
  <2>1. CASE offsets = {}
    <3>1. {i \in offsets : i > Len(text)} = {}
      BY <2>1
    <3> QED BY <3>1, FS_EmptySet
  <2>2. CASE offsets # {}
    <3> HIDE DEF offsets, plan
    <3>1. plan.base[s] \in Seq(Pieces) /\ offsets \subseteq DOMAIN plan.base[s]
      BY <1>2, <2>2 DEF Texts
    <3>2. offsets \subseteq 1 .. Len(plan.base[s]) /\ Len(plan.base[s]) \in Nat
      BY <3>1
    <3>3. {i \in offsets : i > Len(text)} \subseteq 1 .. Len(plan.base[s])
      BY <3>2
    <3>4. IsFiniteSet(1 .. Len(plan.base[s]))
      BY <3>2, FS_Interval
    <3> QED BY <3>3, <3>4, FS_Subset
  <2> QED BY <2>1, <2>2
<1>5. /\ DOMAIN beyond = 1 .. Cardinality({i \in offsets : i > Len(text)})
      /\ Cardinality({i \in offsets : i > Len(text)}) \in Nat
      /\ \A i \in DOMAIN beyond : beyond[i] \in offsets
  BY <1>4, SetToSeqType
<1> HIDE DEF New, offsets, beyond, text
<1>6. /\ u \in Seq(Pieces) /\ Len(u) = Len(text) /\ \A i \in 1 .. Len(u) : u[i] # Line \/ u[i] = text[i]
      /\ \A i \in 1 .. Len(u) : i \in offsets => u[i] = New(i)
  <2>1. \A i \in 1 .. Len(text) : text[i] \in Pieces
    BY <1>3
  <2>2. u \in [1 .. Len(text) -> Pieces]
    BY <1>2, <2>1
  <2> QED BY <1>2, <1>3, <2>2
<1>7. v \in Seq(Pieces) /\ \A i \in 1 .. Len(v) : v[i] # Line
  <2>1. \A i \in DOMAIN beyond : New(beyond[i]) \in Pieces /\ New(beyond[i]) # Line
    BY <1>2, <1>5
  <2>2. PICK n \in Nat : DOMAIN beyond = 1 .. n
    BY <1>5
  <2>3. v \in [1 .. n -> Pieces] /\ \A i \in 1 .. n : v[i] # Line
    BY <2>1, <2>2
  <2> QED BY <2>3
<1> HIDE DEF u, v
<1>8. u \o v \in Seq(Pieces)
  BY <1>6, <1>7
<1>9. \A i \in DOMAIN (u \o v) : (u \o v)[i] # Line \/ (i \in DOMAIN text /\ (u \o v)[i] = text[i])
  <2>1. \A i \in DOMAIN (u \o v) : \/ i \in 1 .. Len(u) /\ (u \o v)[i] = u[i]
                                   \/ i - Len(u) \in 1 .. Len(v) /\ (u \o v)[i] = v[i - Len(u)]
    BY <1>6, <1>7
  <2> QED BY <1>3, <1>6, <1>7, <2>1
<1>10. text \in Good
  BY DEF text
<1>11. u \o v \in Good /\ Len(u \o v) >= Len(text) /\ \A i \in DOMAIN text : i \in DOMAIN (u \o v) /\ (u \o v)[i] = u[i]
  <2>1. u \o v \in Good
    BY <1>8, <1>9, <1>10, MappedGood DEF Texts
  <2> QED BY <1>3, <1>6, <1>7, <2>1
<1>12. ASSUME NEW r \in plan.rewrites, r[1] = s, r[2] \in DOMAIN text
       PROVE  Retargeted(c, s, r[2], p, known, u \o v)
  <2>1. r[2] \in offsets
    BY <1>12 DEF offsets
  <2>2. (u \o v)[r[2]] = New(r[2])
    BY <1>3, <1>6, <1>11, <1>12, <2>1
  <2>3. /\ New(r[2]).is = plan.base[s][r[2]].is /\ New(r[2]).to = Target(r[2])
        /\ At(r[2]) \in plan.rewrites /\ At(r[2])[1] = s /\ At(r[2])[2] = r[2]
    BY <1>2, <2>1
  <2> QED BY <1>11, <1>12, <2>2, <2>3 DEF Retargeted
<1> QED BY <1>1, <1>11, <1>12 DEF text

\* A canvas keeps its pieces but for the nodes.
LEMMA RewrittenCanvasText ==
  ASSUME LockInv, NEW c \in Calls, PlanInv(c), NEW text \in Good
  PROVE  /\ RewrittenCanvas(c, text) \in Good /\ Len(RewrittenCanvas(c, text)) = Len(text)
         /\ \A i \in DOMAIN text : RewrittenCanvas(c, text)[i] = text[i] \/ text[i].is = "node"
<1> DEFINE u == RewrittenCanvas(c, text)
           plan == call[c].plan
<1>1. text \in Seq(Pieces) /\ Len(text) \in Nat /\ DOMAIN text = 1 .. Len(text)
  BY DEF Good, Texts
<1>2. ASSUME NEW q \in Targets PROVE Node(MovedTo(plan, q)) \in Pieces /\ Node(MovedTo(plan, q)) # Line
  <2>1. MovedTo(plan, q) \in Targets
    <3>1. CASE \E m \in plan.moved : m[1] = q
      <4>1. PICK m \in plan.moved : MovedTo(plan, q) = m[2]
        BY <3>1 DEF MovedTo
      <4>2. m[2] \in Paths
        BY <4>1 DEF PlanInv, LockInv
      <4> QED BY <4>1, <4>2 DEF Targets
    <3>2. CASE ~\E m \in plan.moved : m[1] = q
      BY <3>2 DEF MovedTo
    <3> QED BY <3>1, <3>2
  <2> QED BY <2>1 DEF Node, Pieces, Line, Text
<1>3. \A i \in 1 .. Len(text) : text[i] \in Pieces /\ text[i].to \in Targets
  <2>1. \A x \in Pieces : x.to \in Targets
    BY DEF Pieces
  <2> QED BY <1>1, <2>1
<1>4. u = [i \in 1 .. Len(text) |-> IF text[i].is = "node" THEN Node(MovedTo(plan, text[i].to)) ELSE text[i]]
  BY DEF RewrittenCanvas
<1> HIDE DEF u, plan
<1>5. /\ u \in [1 .. Len(text) -> Pieces] /\ \A i \in 1 .. Len(text) : u[i] # Line \/ u[i] = text[i]
      /\ \A i \in 1 .. Len(text) : u[i] = text[i] \/ text[i].is = "node"
  BY <1>2, <1>3, <1>4
<1>6. u \in Texts /\ DOMAIN u = 1 .. Len(text) /\ Len(u) = Len(text)
  BY <1>1, <1>5 DEF Texts
<1>7. u \in Good
  BY <1>1, <1>5, <1>6, MappedGood
<1> QED BY <1>1, <1>5, <1>6, <1>7 DEF u

LEMMA MoveFileStep ==
  ASSUME IInv, NEW c \in Calls, MoveFile(c)
  PROVE  IInv'
<1> DEFINE job == call[c].job
           moved == call[c].plan.moved
           files == Renamed(job)
           From(p) == (CHOOSE m \in files : m[2] = p)[1]
<1>1. /\ status[c] = "inside" /\ call[c].at = "begin" /\ job.tool \in {"move", "moveFolder"}
      /\ UNCHANGED <<status, need>> /\ UNCHANGED locks /\ UNCHANGED meddling /\ UNCHANGED index
      /\ \/ Go(c, Refused) /\ UNCHANGED <<disk, meddled>>
         \/ /\ files # {} /\ \A m \in files : disk[m[1]] # Absent /\ disk[m[2]] = Absent
            /\ disk' = [p \in Paths |-> IF \E m \in files : m[1] = p THEN Absent
                                     ELSE IF \E m \in files : m[2] = p THEN disk[From(p)] ELSE disk[p]]
            /\ meddled' = meddled \union UNION {{m[1], m[2]} : m \in files \ moved}
            /\ Go(c, [at |-> "renamed"])
  BY DEF MoveFile, Inside, locks, Only
<1>2. /\ Held(c) /\ CallInv(c) /\ LockInv /\ PlanInv(c) /\ DataInv
      /\ call[c].written = <<>> /\ need[c] \subseteq Paths /\ job \in Jobs /\ moved \subseteq need[c] \X need[c]
  BY <1>1 DEF IInv, CallInv, Held, PhaseInv, Bodies, Writes, LockInv, PlanInv
<1>3. CASE Go(c, Refused) /\ UNCHANGED <<disk, meddled>>
  BY <1>1, <1>3, Refuses DEF Looks
<1>4. CASE /\ files # {} /\ \A m \in files : disk[m[1]] # Absent /\ disk[m[2]] = Absent
           /\ disk' = [p \in Paths |-> IF \E m \in files : m[1] = p THEN Absent
                                     ELSE IF \E m \in files : m[2] = p THEN disk[From(p)] ELSE disk[p]]
           /\ meddled' = meddled \union UNION {{m[1], m[2]} : m \in files \ moved}
           /\ Go(c, [at |-> "renamed"])
  <2>1. files \subseteq Paths \X Paths
    <3>1. CASE job.tool = "move"
      BY <1>2, <3>1, JobsAssumption DEF Renamed, FolderTools
    <3>2. CASE job.tool = "moveFolder"
      <4>1. \A p \in Paths : p[1] = job.path[1] => <<job.to[1], p[2]>> \in Paths
        BY <1>2, <3>2, JobsAssumption
      <4>2. files = {<<p, <<job.to[1], p[2]>>>> : p \in {m \in Paths : m[1] = job.path[1] /\ disk[m] # Absent}}
        BY <3>2 DEF Renamed
      <4> QED BY <4>1, <4>2
    <3> QED BY <1>1, <3>1, <3>2
  <2>2. \A p \in Paths : (\E m \in files : m[2] = p) => From(p) \in Paths
    BY <2>1
  <2>3. job.tool = "move" => files = {<<job.path, job.to>>} /\ moved \subseteq files
    BY <1>2 DEF Renamed, PlanInv
  <2>4. job.tool = "move" => disk'[job.path] = Absent /\ job.path # job.to
    BY <1>4, <2>1, <2>3
  <2>5. DataInv'
    <3>1. disk' \in [Paths -> Good]
      <4> HIDE DEF From, files
      <4> QED BY <1>2, <1>4, <2>2, GoodText DEF DataInv
    <3>2. meddled' \subseteq Paths
      BY <1>2, <1>4, <2>1 DEF DataInv
    <3> QED BY <1>1, <1>2, <3>1, <3>2 DEF DataInv
  <2>6. \A m \in files : m \in moved \/ {m[1], m[2]} \subseteq meddled'
    BY <1>4
  <2>7. Stays(need[c])
    <3>1. ASSUME NEW p \in Paths \ (need[c] \union meddled') PROVE \A m \in files : m[1] # p /\ m[2] # p
      BY <1>2, <2>6, <3>1
    <3> HIDE DEF From, files
    <3>2. \A p \in Paths \ (need[c] \union meddled') : disk'[p] = disk[p]
      BY <1>4, <3>1
    <3> QED BY <1>1, <1>4, <3>2 DEF Stays
  <2> HIDE DEF From, files
  <2>8. /\ call'[c].at = "renamed" /\ call'[c].job = call[c].job /\ call'[c].plan = call[c].plan
        /\ call'[c].todo = call[c].todo /\ call'[c].written = call[c].written
        /\ DOMAIN call' = Calls /\ DOMAIN call'[c] = Fields /\ \A d \in Calls \ {c} : call'[d] = call[d]
    BY <1>2, <1>4, GoTo DEF Fields
  <2>9. /\ PlanInv(c)' /\ After(c)' = After(c) /\ Changed(c)' = Changed(c)
        /\ \A tools : Only(tools, c)' <=> Only(tools, c)
    BY <1>1, <1>2, <2>8, PlanStays
  <2>10. job.tool = "move" /\ ~({job.path, job.to} \subseteq meddled') => moved = {<<job.path, job.to>>}
    BY <2>3, <2>6
  <2>11. WrittenInv(c)'
    BY <1>1, <1>2, <2>8, <2>9 DEF CallInv, WrittenInv, Writes
  <2>12. PhaseInv(c)'
    BY <1>1, <1>2, <2>4, <2>8, <2>9, <2>10 DEF PhaseInv, After, Only
  <2>13. CallInv(c)'
    BY <1>1, <1>2, <2>8, <2>9, <2>11, <2>12 DEF CallInv, WriteInv, Writes
  <2> QED BY <1>1, <2>5, <2>7, <2>8, <2>13, StepInv DEF Bodies
<1> QED BY <1>1, <1>3, <1>4

LEMMA RenameEntryStep ==
  ASSUME IInv, NEW c \in Calls, RenameEntry(c)
  PROVE  IInv'
<1> DEFINE job == call[c].job
           moved == call[c].plan.moved
           From(p) == (CHOOSE m \in moved : m[2] = p)[1]
<1>1. /\ status[c] = "inside" /\ call[c].at = "renamed"
      /\ index' = [p \in Paths |-> IF \E m \in moved : m[1] = p THEN Absent
                                     ELSE IF \E m \in moved : m[2] = p THEN Renewed(c, p, From(p)) ELSE index[p]]
      /\ Go(c, [at |-> "rewriting"])
      /\ UNCHANGED <<disk, meddled, meddling>> /\ UNCHANGED <<status, need>> /\ UNCHANGED locks
  BY DEF RenameEntry, Inside, locks
<1>2. /\ Held(c) /\ CallInv(c) /\ LockInv /\ PlanInv(c) /\ DataInv /\ PhaseInv(c) /\ call[c].written = <<>>
      /\ After(c) = "rewriting"
      /\ need[c] \subseteq Paths /\ moved \subseteq need[c] \X need[c]
  BY <1>1 DEF IInv, CallInv, Held, PhaseInv, Bodies, LockInv, PlanInv
<1>3. \A p \in Paths : (\E m \in moved : m[2] = p) => From(p) \in Paths
  BY <1>2
<1>4. /\ call'[c].at = "rewriting" /\ call'[c].job = call[c].job /\ call'[c].plan = call[c].plan
      /\ call'[c].todo = call[c].todo /\ call'[c].written = call[c].written
      /\ DOMAIN call' = Calls /\ DOMAIN call'[c] = Fields /\ \A d \in Calls \ {c} : call'[d] = call[d]
  BY <1>1, <1>2, GoTo DEF Fields
<1>5. /\ PlanInv(c)' /\ After(c)' = After(c) /\ Changed(c)' = Changed(c)
      /\ \A tools : Only(tools, c)' <=> Only(tools, c)
  BY <1>1, <1>2, <1>4, PlanStays
<1>6. ASSUME NEW p \in Changed(c) \ meddled PROVE InIndex(c, p)'
  <2>1. job.tool = "move" /\ p \in {job.path, job.to} /\ p \in Paths
    BY <1>2, <1>6 DEF Changed, After, Only
  <2>2. moved = {<<job.path, job.to>>}
    BY <1>1, <1>2, <1>6, <2>1 DEF PhaseInv, Only
  <2>3. CASE p = job.path
    <3>1. disk[p] = Absent
      BY <1>1, <1>2, <1>6, <2>1, <2>3 DEF PhaseInv, Only
    <3>2. index'[p] = Absent
      <4>1. \E m \in moved : m[1] = p
        BY <2>2, <2>3
      <4> HIDE DEF From, moved
      <4> QED BY <1>1, <2>1, <4>1
    <3> QED BY <1>1, <3>1, <3>2 DEF InIndex, Entry
  <2>4. CASE p # job.path
    <3>1. p = job.to /\ ~(\E m \in moved : m[1] = p) /\ \E m \in moved : m[2] = p
      BY <2>1, <2>2, <2>4
    <3>2. index'[p] = Renewed(c, p, From(p))
      BY <1>1, <2>1, <3>1
    <3>3. p \in Notes => index'[p] = disk[p]
      <4> HIDE DEF From
      <4> QED BY <2>1, <3>2 DEF Renewed, Only
    <3> QED BY <1>1, <1>5, <2>1, <3>3 DEF InIndex, Entry, Paths, Only
  <2> QED BY <2>3, <2>4
<1> HIDE DEF From, moved
<1>7. DataInv'
  <2>1. \A p, q \in Paths : Renewed(c, p, q) \in Texts
    BY <1>2, GoodText DEF Renewed, DataInv
  <2>2. index' \in [Paths -> Texts]
    BY <1>1, <1>2, <1>3, <2>1, GoodText DEF DataInv
  <2> QED BY <1>1, <1>2, <2>2 DEF DataInv
<1>8. Stays(need[c])
  <2>1. ASSUME NEW p \in Paths \ need[c] PROVE index'[p] = index[p]
    <3>1. \A m \in moved : m[1] # p /\ m[2] # p
      BY <1>2, <2>1
    <3> QED BY <1>1, <2>1, <3>1
  <2> QED BY <1>1, <2>1 DEF Stays
<1>9. WrittenInv(c)'
  BY <1>1, <1>2, <1>4, <1>5, <1>6 DEF CallInv, WrittenInv, Writes
<1>10. CallInv(c)'
  BY <1>1, <1>2, <1>4, <1>5, <1>9 DEF CallInv, WriteInv, PhaseInv, Writes
<1> QED BY <1>1, <1>4, <1>7, <1>8, <1>10, StepInv DEF Bodies

\* Where a planned source or canvas now is, is locked too.
LEMMA ActualHeld ==
  ASSUME NEW c \in Calls, PlanInv(c), NEW s \in need[c]
  PROVE  Actual(call[c].plan, s) \in need[c]
<1> DEFINE moved == call[c].plan.moved
<1>1. moved \subseteq need[c] \X need[c]
  BY DEF PlanInv
<1>2. CASE \E m \in moved : m[1] = s
  <2> DEFINE m0 == CHOOSE m \in moved : m[1] = s
  <2>1. m0 \in moved
    BY <1>2
  <2> HIDE DEF m0
  <2>2. m0[2] \in need[c]
    BY <1>1, <2>1
  <2> QED BY <1>2, <2>2 DEF Actual, MovedTo, m0
<1>3. CASE ~\E m \in moved : m[1] = s
  BY <1>3 DEF Actual, MovedTo
<1> QED BY <1>2, <1>3

LEMMA ReadSourceStep ==
  ASSUME IInv, NEW c \in Calls, NEW s \in Paths, ReadSource(c, s)
  PROVE  IInv'
<1> DEFINE plan == call[c].plan
           p == Actual(plan, s)
           used == {r[3] : r \in {q \in plan.rewrites : q[1] = s}}
           known == [n \in Paths |-> IF n \in used /\ call[c].known[n] = {} THEN Indexed ELSE call[c].known[n]]
           out == IF s \in Canvases THEN RewrittenCanvas(c, disk[p]) ELSE Rewritten(c, s, p, known)
           old == s \notin Canvases /\ disk[MovedTo(plan, s)] # plan.base[s]
           stale == call[c].stale \union (IF old THEN {s} ELSE {})
           expect == IF s \in Canvases THEN disk[p] ELSE index[p]
           rest == [todo |-> call[c].todo \ {s}, known |-> known, stale |-> stale]
           gone == [failed |-> call[c].failed \union {p}] ++ rest
           next == [at |-> "check", on |-> p, seen |-> disk[p], out |-> out, expect |-> expect] ++ rest
<1>1. /\ status[c] = "inside" /\ call[c].at = "rewriting" /\ s \in call[c].todo
      /\ Looks(c, gone) \/ Looks(c, rest) \/ Looks(c, next)
  <2>1. Inside(c, "rewriting") /\ s \in call[c].todo
        /\ Looks(c, CASE disk[p] = Absent -> gone
                      [] disk[p] # Absent /\ out = disk[p] -> rest
                      [] OTHER -> next)
    BY DEF ReadSource
  <2> HIDE DEF gone, rest, next, out, p
  <2> QED BY <2>1 DEF Inside
<1>2. /\ Held(c) /\ CallInv(c) /\ LockInv /\ PlanInv(c) /\ DataInv /\ WrittenInv(c) /\ After(c) = "rewriting"
      /\ s \in need[c] /\ need[c] \subseteq Paths /\ call[c].todo \subseteq need[c]
  BY <1>1 DEF IInv, CallInv, Held, PhaseInv, Bodies, LockInv
<1>3. p \in need[c] /\ p \in Paths
  BY <1>2, ActualHeld
<1>4. out \in Good
  <2> HIDE DEF known
  <2>1. disk[p] \in Good
    BY <1>2, <1>3 DEF DataInv
  <2> QED BY <1>2, <1>3, <2>1, RewrittenText, RewrittenCanvasText
<1> HIDE DEF p, out, known, stale, expect
<1>5. ASSUME NEW changes, changes \in {gone, rest, next}
      PROVE  /\ changes.todo = call[c].todo \ {s} /\ "todo" \in DOMAIN changes /\ DOMAIN changes \subseteq Fields
             /\ DOMAIN changes \intersect {"job", "plan", "written"} = {}
             /\ \/ DOMAIN changes \intersect {"at", "on", "out", "seen"} = {}
                \/ /\ {"at", "on", "out", "seen"} \subseteq DOMAIN changes
                   /\ changes.at = "check" /\ changes.on = p /\ changes.seen = disk[p] /\ changes.out = out
  <2>1. CASE changes = gone
    BY <2>1 DEF ++, Fields
  <2>2. CASE changes = rest
    BY <2>2 DEF Fields
  <2>3. CASE changes = next
    BY <2>3 DEF ++, Fields
  <2> QED BY <1>5, <2>1, <2>2, <2>3
<1> HIDE DEF gone, rest, next
<1>6. PICK changes \in {gone, rest, next} : Looks(c, changes)
  BY <1>1
<1>7. /\ changes.todo = call[c].todo \ {s} /\ "todo" \in DOMAIN changes /\ DOMAIN changes \subseteq Fields
      /\ DOMAIN changes \intersect {"job", "plan", "written"} = {}
      /\ \/ DOMAIN changes \intersect {"at", "on", "out", "seen"} = {}
         \/ /\ {"at", "on", "out", "seen"} \subseteq DOMAIN changes
            /\ changes.at = "check" /\ changes.on = p /\ changes.seen = disk[p] /\ changes.out = out
  BY <1>5
<1>8. Go(c, changes) /\ UNCHANGED <<disk, index, meddled, meddling>> /\ UNCHANGED <<status, need>>
  BY <1>6 DEF Looks, locks
<1>9. /\ call'[c].job = call[c].job /\ call'[c].plan = call[c].plan /\ call'[c].written = call[c].written
      /\ call'[c].todo = call[c].todo \ {s}
      /\ \/ call'[c].at = "rewriting"
         \/ call'[c].at = "check" /\ call'[c].on = p /\ call'[c].seen = disk[p] /\ call'[c].out = out
  BY <1>1, <1>2, <1>7, <1>8, GoTo DEF Fields
<1>10. /\ PlanInv(c)' /\ After(c)' = After(c) /\ Changed(c)' = Changed(c)
       /\ \A tools : Only(tools, c)' <=> Only(tools, c)
  BY <1>2, <1>8, <1>9, PlanStays
<1>11. ~Only({"delete", "deleteFolder"}, c)
  BY <1>2 DEF After, Only
<1>12. WriteInv(c)'
  BY <1>2, <1>3, <1>4, <1>8, <1>9, <1>10, <1>11 DEF WriteInv, Writes
<1>13. \A q : InIndex(c, q) => InIndex(c, q)'
  BY <1>8, <1>10 DEF InIndex, Entry
<1>14. WrittenInv(c)'
  BY <1>1, <1>2, <1>8, <1>9, <1>10, <1>13 DEF WrittenInv, Writes
<1>15. CallInv(c)'
  BY <1>2, <1>8, <1>9, <1>10, <1>12, <1>14 DEF CallInv, PhaseInv
<1> QED BY <1>1, <1>6, <1>7, <1>9, <1>15, LookInv DEF Bodies, Writes

LEMMA EndMoveStep ==
  ASSUME IInv, NEW c \in Calls, EndMove(c)
  PROVE  IInv'
<1>1. status[c] = "inside" /\ call[c].at = "rewriting" /\ Looks(c, [at |-> "ok"])
  BY DEF EndMove, Inside
<1>2. CallInv(c) /\ Held(c)
  BY <1>1 DEF IInv, Held, Bodies
<1>3. \A p \in Changed(c) \ meddled : InIndex(c, p)
  BY <1>1, <1>2 DEF CallInv, WrittenInv, PhaseInv
<1> QED BY <1>1, <1>3, GoesOn

-----------------------------------------------------------------------------
(* The coming and going of calls. *)

\* What is planned is there: notes and links the index has, paths and their new places.
LEMMA PlanType ==
  ASSUME DataInv, NEW job \in Jobs
  PROVE  /\ Plan(job).moved \subseteq Paths \X Paths
         /\ job.tool = "move" => Plan(job).moved \subseteq {<<job.path, job.to>>}
         /\ Sources(Plan(job)) \subseteq Paths /\ Plan(job).canvases \subseteq Canvases
         /\ \A r \in Plan(job).rewrites :
              /\ Plan(job).base[r[1]] \in Texts /\ r[3] \in Paths
              /\ r[2] \in DOMAIN Plan(job).base[r[1]] /\ IsLink(Plan(job).base[r[1]][r[2]])
<1> DEFINE moved == CASE job.tool = "move" -> IF job.path \in Indexed THEN {<<job.path, job.to>>} ELSE {}
                      [] job.tool = "moveFolder" -> {<<p, <<job.to[1], p[2]>>>> : p \in Under(job.path)}
                      [] OTHER -> {}
           rewrites == IF job.links THEN UNION {{<<b[1], b[2], m[2]>> : b \in Backlinks(m[1])} : m \in moved} ELSE {}
           base == [s \in {r[1] : r \in rewrites} |-> index[s]]
           canvases == IF job.links /\ moved # {} THEN {k \in Canvases : disk[k] # Absent} ELSE {}
<1>1. Plan(job) = [moved |-> moved, rewrites |-> rewrites, base |-> base, canvases |-> canvases]
  BY DEF Plan
<1>2. moved \subseteq Paths \X Paths /\ (job.tool = "move" => moved \subseteq {<<job.path, job.to>>})
  <2>1. CASE job.tool = "move"
    BY <2>1, JobsAssumption DEF FolderTools
  <2>2. CASE job.tool = "moveFolder"
    <3>1. \A p \in Under(job.path) : p \in Paths /\ p[1] = job.path[1]
      BY DEF Under, Indexed
    <3>2. \A p \in Paths : p[1] = job.path[1] => <<job.to[1], p[2]>> \in Paths
      BY <2>2, JobsAssumption
    <3> QED BY <2>2, <3>1, <3>2
  <2>3. CASE job.tool \notin {"move", "moveFolder"}
    BY <2>3
  <2> QED BY <2>1, <2>2, <2>3
<1> HIDE DEF moved
<1>3. ASSUME NEW r \in rewrites
      PROVE  r[1] \in Paths /\ r[2] \in DOMAIN index[r[1]] /\ IsLink(index[r[1]][r[2]]) /\ r[3] \in Paths
  <2>1. PICK m \in moved : r \in {<<b[1], b[2], m[2]>> : b \in Backlinks(m[1])}
    OBVIOUS
  <2>2. PICK b \in Backlinks(m[1]) : r = <<b[1], b[2], m[2]>>
    BY <2>1
  <2>3. b[1] \in Paths /\ b[2] \in DOMAIN index[b[1]] /\ IsLink(index[b[1]][b[2]])
    BY DEF Backlinks, Paths
  <2>4. m[2] \in Paths
    BY <1>2
  <2> QED BY <2>2, <2>3, <2>4
<1> HIDE DEF rewrites
<1>4. \A r \in rewrites : base[r[1]] = index[r[1]]
  OBVIOUS
<1> HIDE DEF base
<1>5. Sources(Plan(job)) \subseteq Paths
  BY <1>1, <1>3 DEF Sources
<1> QED BY <1>1, <1>2, <1>3, <1>4, <1>5 DEF DataInv

\* All that is planned is among the paths asked for.
LEMMA LockPathsHold ==
  ASSUME DataInv, NEW job \in Jobs, NEW P, P = LockPaths(job, Plan(job))
  PROVE  /\ P \subseteq Paths /\ Own(job) \subseteq P /\ Plan(job).moved \subseteq P \X P
         /\ job.paths \union Sources(Plan(job)) \union Plan(job).canvases \subseteq P
<1> DEFINE plan == Plan(job)
<1>1. plan.moved \subseteq Paths \X Paths /\ Sources(plan) \subseteq Paths /\ plan.canvases \subseteq Canvases
  BY PlanType
<1>2. Canvases \subseteq Paths /\ Own(job) \subseteq Paths /\ Under(job.path) \subseteq Paths
  BY DEF Paths, Own, Under, Indexed
<1>3. job.paths \subseteq Own(job)
  BY JobsAssumption DEF Own
<1> HIDE DEF plan
<1>4. P = UNION {Own(job), {m[1] : m \in plan.moved}, {m[2] : m \in plan.moved}, Sources(plan), plan.canvases,
                 IF job.tool = "deleteFolder" THEN Under(job.path) ELSE {}}
  BY DEF LockPaths, plan
<1>5. \A m \in plan.moved : m \in P \X P
  BY <1>1, <1>4
<1>6. P \subseteq Paths
  BY <1>1, <1>2, <1>4
<1>7. Own(job) \subseteq P /\ Sources(plan) \subseteq P /\ plan.canvases \subseteq P
  BY <1>4
<1> QED BY <1>3, <1>5, <1>6, <1>7 DEF plan

LEMMA SubmitStep ==
  ASSUME IInv, NEW c \in Calls, Submit(c)
  PROVE  IInv'
<1>1. /\ LockInv /\ DataInv /\ call[c].at = "new" /\ call[c].written = <<>> /\ status[c] = "idle"
      /\ UNCHANGED <<disk, index, meddled, meddling>>
  BY DEF Submit, IInv, LockInv, Locks!Request
<1>2. PICK job \in Jobs :
        /\ Go(c, [at |-> "begin", job |-> job, plan |-> Plan(job), on |-> job.path,
                  expect |-> IF job.expect THEN disk[job.path] ELSE Absent,
                  todo |-> job.paths \union Sources(Plan(job)) \union Plan(job).canvases])
        /\ Locks!Request(c, LockPaths(job, Plan(job)))
  BY DEF Submit
<1> DEFINE plan == Plan(job)
           P == LockPaths(job, plan)
           todo == job.paths \union Sources(plan) \union plan.canvases
           expect == IF job.expect THEN disk[job.path] ELSE Absent
<1>3. /\ status' = [status EXCEPT ![c] = "waiting"] /\ need' = [need EXCEPT ![c] = P]
      /\ Go(c, [at |-> "begin", job |-> job, plan |-> plan, on |-> job.path, expect |-> expect, todo |-> todo])
  BY <1>2 DEF Locks!Request
<1>4. /\ P \subseteq Paths /\ Own(job) \subseteq P /\ plan.moved \subseteq P \X P /\ todo \subseteq P
  BY <1>1, LockPathsHold
<1>5. /\ job.tool = "move" => plan.moved \subseteq {<<job.path, job.to>>}
      /\ \A r \in plan.rewrites : /\ plan.base[r[1]] \in Texts /\ r[3] \in Paths
                                  /\ r[2] \in DOMAIN plan.base[r[1]] /\ IsLink(plan.base[r[1]][r[2]])
  BY <1>1, PlanType
<1> HIDE DEF plan, P, todo, expect
<1>6. /\ call'[c].at = "begin" /\ call'[c].job = job /\ call'[c].plan = plan /\ call'[c].on = job.path
      /\ call'[c].todo = todo /\ call'[c].written = <<>>
      /\ DOMAIN call' = Calls /\ DOMAIN call'[c] = Fields /\ \A d \in Calls \ {c} : call'[d] = call[d]
  BY <1>1, <1>3, GoTo DEF Fields
<1>7. need'[c] = P /\ status'[c] = "waiting" /\ \A d \in Calls \ {c} : need'[d] = need[d] /\ status'[d] = status[d]
  BY <1>1, <1>3 DEF LockInv
<1>8. LockInv'
  <2>1. status' \in [Calls -> {"idle", "waiting", "inside"}] /\ need' \in [Calls -> SUBSET Paths]
    BY <1>1, <1>3, <1>4 DEF LockInv
  <2> QED BY <1>1, <1>6, <1>7, <2>1 DEF LockInv, Held, Bodies, Writes
<1>9. PlanInv(c)'
  BY <1>4, <1>5, <1>6, <1>7 DEF PlanInv, Own
<1>10. CallInv(c)'
  BY <1>4, <1>6, <1>7, <1>9 DEF CallInv, WriteInv, WrittenInv, PhaseInv, Writes
<1>11. \A d \in Calls \ {c} : CallInv(d)'
  <2>1. Stays({})
    BY <1>1 DEF Stays
  <2> QED BY <1>1, <1>6, <1>7, <2>1, Bystander DEF IInv
<1>12. DataInv'
  BY <1>1 DEF DataInv
<1> QED BY <1>8, <1>10, <1>11, <1>12 DEF IInv

LEMMA ReturnStep ==
  ASSUME IInv, NEW c \in Calls, Return(c)
  PROVE  IInv'
<1> DEFINE at == IF call[c].at = "ok" THEN "answered" ELSE "refused"
<1>1. /\ LockInv /\ DataInv /\ UNCHANGED <<disk, index, meddled, meddling>> /\ Go(c, [at |-> at])
      /\ status' = [status EXCEPT ![c] = "idle"] /\ need' = [need EXCEPT ![c] = {}]
  BY DEF Return, IInv, Locks!Leave
<1>2. at \in {"answered", "refused"}
  OBVIOUS
<1> HIDE DEF at
<1>3. /\ call'[c].at = at /\ DOMAIN call' = Calls /\ DOMAIN call'[c] = Fields /\ \A d \in Calls \ {c} : call'[d] = call[d]
  BY <1>1, GoTo DEF Fields
<1>4. need'[c] = {} /\ status'[c] = "idle" /\ \A d \in Calls \ {c} : need'[d] = need[d] /\ status'[d] = status[d]
  BY <1>1 DEF LockInv
<1>5. LockInv'
  <2>1. status' \in [Calls -> {"idle", "waiting", "inside"}] /\ need' \in [Calls -> SUBSET Paths]
    BY <1>1 DEF LockInv
  <2> QED BY <1>1, <1>2, <1>3, <1>4, <2>1 DEF LockInv, Held, Bodies, Writes
<1>6. CallInv(c)'
  BY <1>2, <1>3 DEF CallInv, Held, Bodies, Writes
<1>7. \A d \in Calls \ {c} : CallInv(d)'
  <2>1. Stays({})
    BY <1>1 DEF Stays
  <2> QED BY <1>1, <1>3, <1>4, <2>1, Bystander DEF IInv
<1>8. DataInv'
  BY <1>1 DEF DataInv
<1> QED BY <1>5, <1>6, <1>7, <1>8 DEF IInv

\* A step of no call.
LEMMA AsideInv ==
  ASSUME IInv, UNCHANGED <<call, need>>, LockInv', DataInv', Stays({})
  PROVE  IInv'
<1>1. ASSUME NEW d \in Calls PROVE CallInv(d)'
  BY Bystander DEF IInv
<1> QED BY <1>1 DEF IInv

LEMMA AsideSteps ==
  ASSUME IInv, \/ \E c \in Calls : Enter(c)
               \/ \E p \in Paths : Outside(p) \/ Refresh(p)
               \/ UNCHANGED vars
  PROVE  IInv'
<1>1. LockInv /\ DataInv
  BY DEF IInv
<1>2. CASE \E c \in Calls : Enter(c)
  <2>1. PICK c \in Calls : Enter(c)
    BY <1>2
  <2>2. /\ status[c] = "waiting" /\ \A d \in Calls : status[d] = "inside" => need[d] \intersect need[c] = {}
        /\ status' = [status EXCEPT ![c] = "inside"] /\ UNCHANGED need
        /\ UNCHANGED <<disk, index, call, meddled, meddling>>
    BY <2>1 DEF Enter, Locks!Enter
  <2>3. status'[c] = "inside" /\ (\A d \in Calls \ {c} : status'[d] = status[d])
        /\ status' \in [Calls -> {"idle", "waiting", "inside"}] /\ call[c].at = "begin"
    BY <1>1, <2>2 DEF LockInv
  <2>4. LockInv'
    BY <1>1, <2>2, <2>3 DEF LockInv, Held
  <2>5. DataInv' /\ Stays({})
    BY <1>1, <2>2 DEF DataInv, Stays
  <2> QED BY <2>2, <2>4, <2>5, AsideInv
<1>3. CASE \E p \in Paths : Outside(p)
  <2>1. PICK p \in Paths : Outside(p)
    BY <1>3
  <2>2. /\ meddling < Meddling /\ meddling' = meddling + 1 /\ meddled' = meddled \union {p}
        /\ disk' = [disk EXCEPT ![p] = <<Text("other")>> \o disk[p]]
        /\ UNCHANGED <<index, call>> /\ UNCHANGED <<status, need>>
    BY <2>1 DEF Outside, locks
  <2>3. LockInv'
    BY <1>1, <2>2 DEF LockInv, Held
  <2>4. <<Text("other")>> \o disk[p] \in Good
    BY <1>1, PieceTypes, ConcatGood DEF DataInv
  <2>5. meddling' \in 0 .. Meddling
    BY <1>1, <2>2, CallsAssumption DEF DataInv
  <2>6. DataInv' /\ Stays({})
    BY <1>1, <2>2, <2>4, <2>5 DEF DataInv, Stays
  <2> QED BY <2>2, <2>3, <2>6, AsideInv
<1>4. CASE \E p \in Paths : Refresh(p)
  <2>1. PICK p \in Paths : Refresh(p)
    BY <1>4
  <2>2. /\ index' = [index EXCEPT ![p] = Entry(p, disk[p])]
        /\ UNCHANGED <<disk, call, meddled, meddling>> /\ UNCHANGED <<status, need>>
    BY <2>1 DEF Refresh, locks
  <2>3. LockInv'
    BY <1>1, <2>2 DEF LockInv, Held
  <2>4. Entry(p, disk[p]) \in Texts
    BY <1>1, EntryType, GoodText DEF DataInv
  <2>5. DataInv' /\ Stays({})
    BY <1>1, <2>2, <2>4 DEF DataInv, Stays
  <2> QED BY <2>2, <2>3, <2>5, AsideInv
<1>5. CASE UNCHANGED vars
  <2>1. UNCHANGED <<disk, index, status, need, call, meddled, meddling>>
    BY <1>5 DEF vars
  <2>2. LockInv' /\ DataInv' /\ Stays({})
    BY <1>1, <2>1 DEF LockInv, Held, DataInv, Stays
  <2> QED BY <2>1, <2>2, AsideInv
<1> QED BY <1>2, <1>3, <1>4, <1>5

-----------------------------------------------------------------------------
(* The theorems. *)

LEMMA FilesGood == ASSUME NEW f \in Files PROVE f \in [Paths -> Good]
<1>1. f \in [Paths -> Seq(UNION {ToSet(f[p]) : p \in Paths})]
  BY FilesAssumption
<1>2. ASSUME NEW p \in Paths PROVE f[p] \in Good
  <2>1. /\ f[p] \in Seq(UNION {ToSet(f[q]) : q \in Paths})
        /\ \A i \in DOMAIN f[p] : f[p][i] \in [is : {"text", "wiki", "md", "node"}, to : {f[p][i].to}]
    BY <1>1, FilesAssumption
  <2>2. \A i \in DOMAIN f[p] : f[p][i].to \in Targets
    BY DEF Targets
  <2>3. \A i \in DOMAIN f[p] : f[p][i] \in Pieces
    <3> SUFFICES ASSUME NEW i \in DOMAIN f[p] PROVE f[p][i] \in Pieces
      OBVIOUS
    <3>1. f[p][i] \in [is : {"text", "wiki", "md", "node"}, to : {f[p][i].to}] /\ f[p][i].to \in Targets
      BY <2>1, <2>2
    <3> QED BY <3>1 DEF Pieces
  <2>4. f[p] \in Seq(Pieces)
    <3>1. f[p] \in [1 .. Len(f[p]) -> Pieces] /\ Len(f[p]) \in Nat
      BY <2>1, <2>3
    <3> QED BY <3>1
  <2>5. OneLine(f[p])
    <3>1. \A i, j \in DOMAIN f[p] : f[p][i] = Line /\ f[p][j] = Line => i = j
      BY FilesAssumption
    <3> QED BY <3>1 DEF OneLine
  <2> QED BY <2>4, <2>5 DEF Good, Texts
<1> QED BY <1>1, <1>2

LEMMA VaultInit == Init => IInv
<1> SUFFICES ASSUME Init PROVE IInv
  OBVIOUS
<1>1. /\ disk \in [Paths -> Good] /\ index = [p \in Paths |-> Entry(p, disk[p])]
      /\ status = [c \in Calls |-> "idle"] /\ need = [c \in Calls |-> {}]
      /\ call = [c \in Calls |-> Unmade] /\ meddled = {} /\ meddling = 0
  BY FilesGood DEF Init, Locks!Init
<1>2. DataInv
  <2>1. \A p \in Paths : Entry(p, disk[p]) \in Texts
    BY <1>1, EntryType, GoodText
  <2> QED BY <1>1, <2>1, CallsAssumption DEF DataInv
<1>3. \A c \in Calls : DOMAIN call[c] = Fields /\ call[c].at = "new" /\ call[c].written = <<>>
  BY <1>1 DEF Unmade, Fields
<1>4. LockInv
  BY <1>1, <1>3 DEF LockInv, Held, Bodies, Writes
<1>5. \A c \in Calls : CallInv(c)
  BY <1>3 DEF CallInv, Held, Bodies, Writes
<1> QED BY <1>2, <1>4, <1>5 DEF IInv

LEMMA VaultNext == IInv /\ [Next]_vars => IInv'
<1> SUFFICES ASSUME IInv, [Next]_vars PROVE IInv'
  OBVIOUS
<1>1. ASSUME NEW c \in Calls,
             \/ Submit(c) \/ Enter(c) \/ Return(c)
             \/ WriteNote(c) \/ WriteBinary(c) \/ EditNote(c) \/ AppendNote(c) \/ AppendUnique(c) \/ InsertInSection(c)
             \/ UpdateFrontmatter(c) \/ BatchUpdate(c) \/ (\E p \in Paths : BatchItem(c, p)) \/ EndBatch(c)
             \/ AddCanvasNode(c) \/ ChangeCanvas(c) \/ CreateFromTemplate(c) \/ AppendDaily(c) \/ PutTemplate(c)
             \/ Put(c) \/ FailPut(c) \/ Check(c) \/ Delete(c)
             \/ MoveFile(c) \/ RenameEntry(c) \/ (\E s \in Paths : ReadSource(c, s)) \/ EndMove(c)
      PROVE  IInv'
  BY <1>1, SubmitStep, AsideSteps, ReturnStep, WriteSteps, UniqueSteps, BatchBegins, BatchItemStep, EndBatchStep,
     CanvasSteps, TemplateSteps, PutTemplateStep, PutStep, FailPutStep, CheckStep, DeleteStep, MoveFileStep,
     RenameEntryStep, ReadSourceStep, EndMoveStep
<1>2. CASE Next
  <2>1. CASE \E p \in Paths : Outside(p) \/ Refresh(p)
    BY <2>1, AsideSteps
  <2> QED BY <1>1, <1>2, <2>1 DEF Next
<1>3. CASE UNCHANGED vars
  BY <1>3, AsideSteps
<1> QED BY <1>2, <1>3

\* What each call knows of what it holds stays true at every step of every call.
THEOREM VaultInvariant == Spec => []IInv
BY VaultInit, VaultNext, PTL DEF Spec

\* The state keeps its shape, and a call writes only a path it holds.
THEOREM VaultTypeOK == Spec => []TypeOK
<1>1. IInv => TypeOK
  <2> SUFFICES ASSUME IInv PROVE TypeOK
    OBVIOUS
  <2>1. ASSUME NEW p \in Paths, NEW i \in DOMAIN disk[p] PROVE disk[p][i].is \in {"text", "wiki", "md", "node"}
    <3>1. disk[p] \in Seq(Pieces)
      BY DEF IInv, DataInv, Good, Texts
    <3>2. disk[p][i] \in Pieces
      BY <3>1
    <3> QED BY <3>2 DEF Pieces
  <2>2. /\ status \in [Calls -> {"idle", "waiting", "inside"}] /\ need \in [Calls -> SUBSET Paths]
        /\ meddling \in 0 .. Meddling
    BY DEF IInv, LockInv, DataInv
  <2>3. ASSUME NEW c \in Calls, call[c].at = "put" PROVE call[c].on \in need[c]
    BY <2>3 DEF IInv, CallInv, Held, Bodies, Writes, WriteInv
  <2> QED BY <2>1, <2>2, <2>3 DEF TypeOK
<1> QED BY VaultInvariant, <1>1, PTL

\* What a write replaces is what its tool has read, and a line appended as unique is there once.
THEOREM VaultNoLostUpdate == Spec => NoLostUpdate
<1> DEFINE Keeps == \A c \in Calls : call[c].at = "put" /\ call'[c].at # "put" /\ call[c].on \notin meddled
                      => disk[call[c].on] = call[c].seen
           Once == \A p \in Paths \ meddled' : Cardinality({i \in DOMAIN disk'[p] : disk'[p][i] = Line}) < 2
<1>1. IInv => Keeps
  BY DEF IInv, CallInv, Held, Bodies, Writes, WriteInv
<1>2. IInv' => Once
  <2> SUFFICES ASSUME IInv', NEW p \in Paths
               PROVE  Cardinality({i \in DOMAIN disk'[p] : disk'[p][i] = Line}) < 2
    OBVIOUS
  <2> DEFINE S == {i \in DOMAIN disk'[p] : disk'[p][i] = Line}
  <2>1. \A i, j \in S : i = j
    BY DEF IInv, DataInv, Good, OneLine
  <2>2. CASE S = {}
    BY <2>2, FS_EmptySet
  <2>3. CASE S # {}
    <3>1. PICK i \in S : S = {i}
      BY <2>1, <2>3
    <3>2. Cardinality({i}) = 1
      BY FS_Singleton
    <3> QED BY <3>1, <3>2
  <2> QED BY <2>2, <2>3
<1>3. IInv /\ [Next]_vars => Keeps /\ Once
  BY <1>1, <1>2, VaultNext
<1>4. Spec => [][Keeps /\ Once]_vars
  <2> HIDE DEF Keeps, Once
  <2> QED BY VaultInvariant, <1>3, PTL DEF Spec
<1> QED BY <1>4, PTL DEF NoLostUpdate

\* When a tool answers, the index has what it has written, deleted or moved.
THEOREM VaultAnswersAreIndexed == Spec => AnswersAreIndexed
<1> DEFINE Told == \A c \in Calls : call[c].at = "ok" /\ call'[c].at = "answered"
                     => \A p \in Changed(c) \ meddled :
                          index[p] = Entry(p, disk[p]) \/ (Only({"move", "moveFolder"}, c) /\ p \in Canvases)
<1>1. IInv => Told
  BY DEF IInv, CallInv, Held, Bodies, Writes, WrittenInv, InIndex
<1>2. IInv /\ [Next]_vars => [Told]_vars
  BY <1>1
<1>3. Spec => [][Told]_vars
  BY VaultInvariant, <1>2, PTL DEF Spec
<1> QED BY <1>3 DEF AnswersAreIndexed

-----------------------------------------------------------------------------
(* The links of a move.  Of what it planned each part is still to do, or    *)
(* spoiled, or right in the text it is about to write or has written.       *)

Moving(c) == Only({"move", "moveFolder"}, c)

\* What a move plans: each link in one place, and each new place of one file.
PlanKeeping(job, plan) ==
  /\ Sources(plan) \subseteq Notes /\ plan.canvases \subseteq Canvases
  /\ job.tool \notin {"move", "moveFolder"} => plan.moved = {} /\ plan.rewrites = {} /\ plan.canvases = {}
  /\ \A r \in plan.rewrites : \E m \in plan.moved : m[2] = r[3]
  /\ \A r, q \in plan.rewrites : r[1] = q[1] /\ r[2] = q[2] => r[3] = q[3]
  /\ job.tool = "moveFolder" => \A m \in plan.moved : m[1] \in Paths /\ m[1][1] = job.path[1] /\ m[2] = <<job.to[1], m[1][2]>>

\* What a move has planned is locked, and what it has to do is of its plan.
MovePlan(c) ==
  LET plan == call[c].plan IN
  /\ PlanKeeping(call[c].job, plan)
  /\ Sources(plan) \union plan.canvases \subseteq need[c]
  /\ Moving(c) => call[c].todo \subseteq Sources(plan) \union plan.canvases
  /\ Moving(c) /\ call[c].at \in {"begin", "renamed"} =>
       call[c].todo = Sources(plan) \union plan.canvases /\ call[c].known = [n \in Paths |-> {}]

\* It has renamed: the new place is another, and it is not empty.
Renames(c) == Moving(c) /\ call[c].at \in Writes \union {"renamed", "rewriting", "ok"}
MovedOff(c) ==
  LET job == call[c].job IN
  Renames(c) =>
    /\ job.path[1] # job.to[1] \/ (job.tool = "move" /\ job.path # job.to)
    /\ job.tool = "move" /\ job.to \notin meddled => disk[job.to] # Absent
    /\ call[c].at \in Writes => call[c].out # Absent

\* The link leads to n whatever other files there are.
AlwaysLeads(link, p, n) == \A K \in SUBSET Paths : Leads(link, p, K \union {n}) = n

\* The link planned leads where it should: whatever is there, or by what the server knew.
Right(c, text, p, r) ==
  LET known == call[c].known[r[3]] IN
  /\ r[2] \in DOMAIN text /\ IsLink(text[r[2]])
  /\ \/ AlwaysLeads(text[r[2]], p, r[3])
     \/ known # {} /\ Leads(text[r[2]], p, known \union {r[3]}) = r[3]

\* What is at p when c has written what it is about to write.
TextAt(c, p) == IF call[c].at \in Writes /\ call[c].on = p THEN call[c].out ELSE disk[p]

Spoiled(c) == call[c].failed \union meddled
Rewrites(c) == Moving(c) /\ call[c].at \in Writes \union {"rewriting", "ok"}

KnownInv(c, r) ==
  /\ call[c].known[r[3]] \subseteq Paths
  /\ call[c].known[r[3]] = {} \/ r[3] \in call[c].known[r[3]] \/ Unknown(c, r[3])

LinkInv(c, r) ==
  LET p == MovedTo(call[c].plan, r[1]) IN
  \/ r[1] \in call[c].todo \/ p \in Spoiled(c) \/ Displaced(c, r[1])
  \/ call[c].known[r[3]] # {} /\ Unknown(c, r[3])
  \/ Right(c, TextAt(c, p), p, r)

LinksInv(c) ==
  Rewrites(c) => \A r \in call[c].plan.rewrites : KnownInv(c, r) /\ LinkInv(c, r)

NoOldNode(c, text) == \A m \in call[c].plan.moved : Node(m[1]) \notin ToSet(text)

NodeInv(c, k) ==
  LET p == MovedTo(call[c].plan, k) IN p \in Spoiled(c) \/ NoOldNode(c, TextAt(c, p))

\* The notes come before the canvases.
NodesInv(c) ==
  LET plan == call[c].plan IN
  Rewrites(c) =>
    /\ plan.canvases \subseteq call[c].todo \/ call[c].todo \subseteq Canvases
    /\ \A k \in plan.canvases \ call[c].todo : NodeInv(c, k)
    /\ call[c].at = "ok" => call[c].todo = {}

KeepInv(c) ==
  /\ call[c].at = "new" => call[c].known = [n \in Paths |-> {}]
  /\ Held(c) => MovePlan(c) /\ MovedOff(c) /\ LinksInv(c) /\ NodesInv(c)

KeepsAll == \A c \in Calls : KeepInv(c)

\* What a step with the locks of S leaves of the disk.
DiskStays(S) ==
  /\ meddled \subseteq meddled'
  /\ \A p \in Paths \ (S \union meddled') : disk'[p] = disk[p]

LEMMA KeepBystander ==
  ASSUME LockInv, NEW d \in Calls, CallInv(d), KeepInv(d), call'[d] = call[d], need'[d] = need[d],
         NEW S, call[d].at \in Bodies => S \intersect need[d] = {}, DiskStays(S)
  PROVE  KeepInv(d)'
<1> SUFFICES ASSUME Held(d) PROVE (MovePlan(d) /\ MovedOff(d) /\ LinksInv(d) /\ NodesInv(d))'
  BY DEF KeepInv, Held
<1>1. /\ MovePlan(d) /\ MovedOff(d) /\ LinksInv(d) /\ NodesInv(d) /\ PlanInv(d) /\ need[d] \subseteq Paths
  BY DEF KeepInv, CallInv, LockInv
<1>2. Moving(d)' <=> Moving(d)
  BY DEF Moving, Only
<1>3. MovePlan(d)'
  BY <1>1, <1>2 DEF MovePlan, PlanKeeping
<1>4. call[d].at \in Bodies => \A p \in need[d] \ meddled' : disk'[p] = disk[p] /\ p \notin meddled
  BY <1>1 DEF DiskStays
<1>5. MovedOff(d)'
  <2>1. Renames(d)' => Renames(d) /\ call[d].at \in Bodies
    BY <1>2 DEF Renames, Bodies
  <2>2. call[d].job.tool = "move" => call[d].job.to \in need[d]
    BY <1>1, OwnPath
  <2> QED BY <1>1, <1>4, <2>1, <2>2 DEF MovedOff
<1>6. Rewrites(d)' => Rewrites(d) /\ call[d].at \in Bodies
  BY <1>2 DEF Rewrites, Bodies
<1>7. Spoiled(d) \subseteq Spoiled(d)' /\ meddled' \subseteq Spoiled(d)'
  BY DEF Spoiled, DiskStays
<1>8. \A n : Unknown(d, n) => Unknown(d, n)'
  BY <1>2 DEF Unknown, DiskStays, Only
<1>9. \A p \in need[d] : call[d].at \in Bodies => p \in Spoiled(d)' \/ TextAt(d, p)' = TextAt(d, p)
  BY <1>4, <1>7 DEF TextAt
<1>10. \A s \in Sources(call[d].plan) \union call[d].plan.canvases : MovedTo(call[d].plan, s) \in need[d]
  BY <1>1, ActualHeld DEF Actual, MovePlan, PlanKeeping
<1>11. LinksInv(d)'
  <2> SUFFICES ASSUME Rewrites(d)', NEW r \in call[d].plan.rewrites PROVE KnownInv(d, r)' /\ LinkInv(d, r)'
    BY DEF LinksInv
  <2>1. KnownInv(d, r) /\ LinkInv(d, r)
    BY <1>1, <1>6 DEF LinksInv
  <2>2. KnownInv(d, r)'
    BY <1>8, <2>1 DEF KnownInv
  <2> DEFINE p == MovedTo(call[d].plan, r[1])
  <2>3. p \in need[d]
    BY <1>10 DEF Sources
  <2>4. Displaced(d, r[1])' <=> Displaced(d, r[1])
    BY DEF Displaced
  <2>5. p \in Spoiled(d)' \/ (Right(d, TextAt(d, p), p, r) => Right(d, TextAt(d, p), p, r)')
    BY <1>6, <1>9, <2>3 DEF Right
  <2> QED BY <1>7, <1>8, <2>1, <2>2, <2>4, <2>5 DEF LinkInv
<1>12. NodesInv(d)'
  <2> SUFFICES ASSUME Rewrites(d)' 
               PROVE /\ call[d].plan.canvases \subseteq call[d].todo \/ call[d].todo \subseteq Canvases
                     /\ \A k \in call[d].plan.canvases \ call[d].todo : NodeInv(d, k)'
                     /\ call[d].at = "ok" => call[d].todo = {}
    BY DEF NodesInv
  <2>1. ASSUME NEW k \in call[d].plan.canvases \ call[d].todo PROVE NodeInv(d, k)'
    <3>1. NodeInv(d, k)
      BY <1>1, <1>6 DEF NodesInv
    <3> QED BY <1>6, <1>7, <1>9, <1>10, <3>1 DEF NodeInv, NoOldNode
  <2> QED BY <1>1, <1>6, <2>1 DEF NodesInv
<1> QED BY <1>3, <1>5, <1>11, <1>12

\* A step of c that keeps its job, its plan and its locks.
Steers(c) ==
  /\ \A d \in Calls \ {c} : call'[d] = call[d]
  /\ call'[c].job = call[c].job /\ call'[c].plan = call[c].plan
  /\ UNCHANGED <<status, need>> /\ status[c] = "inside"
  /\ DiskStays(need[c])

Mild(changes) == DOMAIN changes \subseteq Fields \ {"job", "plan"}

LEMMA SteersBy ==
  ASSUME LockInv, NEW c \in Calls, NEW changes, Go(c, changes), Mild(changes)
  PROVE  /\ \A d \in Calls \ {c} : call'[d] = call[d]
         /\ call'[c].job = call[c].job /\ call'[c].plan = call[c].plan
<1>1. DOMAIN changes \subseteq Fields /\ "job" \notin DOMAIN changes /\ "plan" \notin DOMAIN changes
  BY DEF Mild
<1> QED BY <1>1, GoTo DEF Fields

LEMMA LooksSteers ==
  ASSUME LockInv, NEW c \in Calls, NEW changes, Looks(c, changes), Mild(changes), status[c] = "inside"
  PROVE  Steers(c)
<1>1. Go(c, changes) /\ UNCHANGED <<disk, meddled>> /\ UNCHANGED <<status, need>>
  BY DEF Looks, locks
<1> QED BY <1>1, SteersBy DEF Steers, DiskStays

\* The tools that write files, and the batches, are no moves.
Singly(c) ==
  \/ WriteNote(c) \/ WriteBinary(c) \/ EditNote(c) \/ AppendNote(c) \/ AppendUnique(c) \/ InsertInSection(c)
  \/ UpdateFrontmatter(c) \/ BatchUpdate(c) \/ AddCanvasNode(c) \/ ChangeCanvas(c) \/ CreateFromTemplate(c) \/ AppendDaily(c)

LEMMA MildChanges ==
  /\ \A c, at, out : Mild(Writing(c, at, out))
  /\ Mild(Refused)
  /\ \A at : Mild([at |-> at])
BY DEF Mild, Writing, Refused, Fields

LEMMA SinglySteers ==
  ASSUME IInv, NEW c \in Calls, Singly(c)
  PROVE  Steers(c) /\ ~Moving(c)
<1>1. LockInv
  BY DEF IInv
<1>2. PICK tool \in Singles \union {"frontmatter", "batch"} : Begin(tool, c)
  BY DEF Singly, Singles, WriteNote, WriteBinary, EditNote, AppendNote, AppendUnique, InsertInSection,
     UpdateFrontmatter, BatchUpdate, AddCanvasNode, ChangeCanvas, CreateFromTemplate, AppendDaily
<1>3. ~Moving(c) /\ status[c] = "inside"
  BY <1>2 DEF Begin, Moving, Only, Singles, Inside
<1>4. \/ Looks(c, Refused) \/ \E at : Looks(c, [at |-> at])
      \/ \E at, out : Looks(c, Writing(c, at, out))
  <2>1. CASE WriteNote(c) \/ WriteBinary(c) \/ EditNote(c) \/ AppendNote(c)
    BY <2>1 DEF WriteNote, WriteBinary, EditNote, AppendNote
  <2>2. CASE AppendUnique(c)
    BY <2>2 DEF AppendUnique
  <2>3. CASE InsertInSection(c) \/ UpdateFrontmatter(c) \/ BatchUpdate(c)
    BY <2>3 DEF InsertInSection, UpdateFrontmatter, BatchUpdate
  <2>4. CASE AddCanvasNode(c) \/ ChangeCanvas(c)
    BY <2>4 DEF AddCanvasNode, ChangeCanvas
  <2>5. CASE CreateFromTemplate(c) \/ AppendDaily(c)
    BY <2>5 DEF CreateFromTemplate, AppendDaily
  <2> QED BY <2>1, <2>2, <2>3, <2>4, <2>5 DEF Singly
<1> QED BY <1>1, <1>3, <1>4, MildChanges, LooksSteers

LEMMA BatchSteers ==
  ASSUME IInv, NEW c \in Calls, (\E p \in Paths : BatchItem(c, p)) \/ EndBatch(c)
  PROVE  Steers(c) /\ ~Moving(c)
<1>1. LockInv /\ status[c] = "inside" /\ call[c].at = "batch"
  BY DEF IInv, BatchItem, EndBatch, Inside
<1>2. ~Moving(c)
  BY <1>1 DEF IInv, CallInv, Held, Bodies, PhaseInv, After, Moving, Only
<1>3. ASSUME NEW p \in Paths, BatchItem(c, p) PROVE Steers(c)
  <2> DEFINE more == IF disk[p] # Absent /\ Expected(c, p)
                     THEN [at |-> "put", on |-> p, seen |-> disk[p], out |-> Added(c) \o disk[p]]
                     ELSE [failed |-> call[c].failed \union {p}]
             changes == [todo |-> call[c].todo \ {p}] ++ more
  <2>1. Looks(c, changes)
    BY <1>3 DEF BatchItem
  <2>2. Mild(changes)
    <3>1. Mild(more)
      BY DEF Mild, Fields
    <3> HIDE DEF more
    <3> QED BY <3>1 DEF Mild, Fields, ++
  <2> HIDE DEF changes
  <2> QED BY <1>1, <2>1, <2>2, LooksSteers
<1>4. ASSUME EndBatch(c) PROVE Steers(c)
  <2>1. PICK at : Go(c, [at |-> at])
    BY <1>4 DEF EndBatch
  <2>2. UNCHANGED <<disk, meddled>> /\ UNCHANGED <<status, need>>
    BY <1>4 DEF EndBatch, locks
  <2> QED BY <1>1, <2>1, <2>2, MildChanges, SteersBy DEF Steers, DiskStays
<1> QED BY <1>2, <1>3, <1>4

LEMMA PutSteers ==
  ASSUME IInv, NEW c \in Calls, Put(c) \/ FailPut(c) \/ PutTemplate(c)
  PROVE  Steers(c) /\ (PutTemplate(c) => ~Moving(c))
<1>1. LockInv /\ status[c] = "inside" /\ call[c].at \in Writes /\ (PutTemplate(c) => call[c].at = "template")
  BY DEF IInv, Put, FailPut, PutTemplate, Inside, Writes
<1>2. call[c].on \in need[c] /\ disk \in [Paths -> Good] /\ (call[c].at = "template" => ~Moving(c))
  BY <1>1 DEF IInv, CallInv, Held, Bodies, PhaseInv, WriteInv, Moving, Only, DataInv
<1>3. PICK changes : Go(c, changes) /\ Mild(changes)
  <2>1. CASE Put(c)
    <3>1. Go(c, [at |-> After(c), written |-> [x \in {call[c].on} |-> call[c].out] ++ call[c].written])
      BY <2>1 DEF Put
    <3> QED BY <3>1 DEF Mild, Fields
  <2>2. CASE FailPut(c)
    <3>1. Go(c, Failed(c)) /\ Mild(Failed(c))
      BY <2>2 DEF FailPut, Failed, Refused, Mild, Fields
    <3> QED BY <3>1
  <2>3. CASE PutTemplate(c)
    <3>1. Go(c, [at |-> "put", seen |-> call[c].out, out |-> call[c].out \o Added(c)])
      BY <2>3 DEF PutTemplate
    <3> QED BY <3>1 DEF Mild, Fields
  <2> QED BY <2>1, <2>2, <2>3
<1>4. UNCHANGED <<status, need>> /\ meddled \subseteq meddled' /\ (UNCHANGED disk \/ disk' = [disk EXCEPT ![call[c].on] = call[c].out])
  BY DEF Put, FailPut, PutTemplate, locks
<1> QED BY <1>1, <1>2, <1>3, <1>4, SteersBy DEF Steers, DiskStays

LEMMA CheckSteers ==
  ASSUME IInv, NEW c \in Calls, Check(c)
  PROVE  Steers(c)
<1>1. LockInv /\ status[c] = "inside" /\ (Looks(c, [at |-> "put"]) \/ Looks(c, Failed(c)))
  BY DEF IInv, Check, Inside
<1>2. Mild(Failed(c))
  BY DEF Failed, Refused, Mild, Fields
<1> QED BY <1>1, <1>2, MildChanges, LooksSteers

LEMMA DeleteSteers ==
  ASSUME IInv, NEW c \in Calls, Delete(c)
  PROVE  Steers(c) /\ ~Moving(c)
<1> DEFINE job == call[c].job
           gone == IF job.tool = "delete" THEN {job.path} ELSE {p \in Paths : p[1] = job.path[1]}
<1>1. /\ LockInv /\ status[c] = "inside" /\ UNCHANGED <<status, need>> /\ Only({"delete", "deleteFolder"}, c)
      /\ \/ Go(c, Refused) /\ UNCHANGED <<disk, meddled>>
         \/ /\ disk' = [p \in Paths |-> IF p \in gone THEN Absent ELSE disk[p]]
            /\ meddled' = meddled \union {p \in gone \ need[c] : disk[p] # Absent}
            /\ Go(c, [at |-> "ok"])
  BY DEF IInv, Delete, Inside, locks
<1> HIDE DEF gone
<1>2. DiskStays(need[c])
  BY <1>1 DEF DiskStays
<1>3. ~Moving(c)
  BY <1>1 DEF Moving, Only
<1> QED BY <1>1, <1>2, <1>3, MildChanges, SteersBy DEF Steers

LEMMA KeepStep ==
  ASSUME IInv, KeepsAll, NEW c \in Calls, Steers(c), KeepInv(c)'
  PROVE  KeepsAll'
<1> SUFFICES ASSUME NEW d \in Calls \ {c} PROVE KeepInv(d)'
  BY DEF KeepsAll
<1>1. /\ call'[d] = call[d] /\ need'[d] = need[d] /\ DiskStays(need[c]) /\ status[c] = "inside"
      /\ LockInv /\ CallInv(d) /\ KeepInv(d)
  BY DEF Steers, IInv, KeepsAll
<1>2. call[d].at \in Bodies => need[c] \intersect need[d] = {}
  BY <1>1 DEF LockInv
<1> QED BY <1>1, <1>2, KeepBystander

\* What of a plan stays, whatever else of the call changes.
LEMMA PlanKeeps ==
  ASSUME IInv', NEW c \in Calls, MovePlan(c), Steers(c), Moving(c) => call'[c].todo \subseteq call[c].todo,
         \/ call'[c].at \notin {"begin", "renamed"}
         \/ ~Moving(c)
         \/ call'[c].todo = call[c].todo /\ call'[c].known = call[c].known /\ call[c].at \in {"begin", "renamed"}
  PROVE  MovePlan(c)' /\ (Moving(c)' <=> Moving(c)) /\ call'[c].at # "new"
<1>1. call'[c].job = call[c].job /\ call'[c].plan = call[c].plan /\ need'[c] = need[c] /\ status'[c] = "inside"
  BY DEF Steers
<1>2. Moving(c)' <=> Moving(c)
  BY <1>1 DEF Moving, Only
<1>3. call'[c].at # "new"
  BY <1>1 DEF IInv, LockInv, Held, Bodies, Writes
<1>4. MovePlan(c)'
  BY <1>1, <1>2 DEF MovePlan, PlanKeeping
<1> QED BY <1>2, <1>3, <1>4

\* A tool that moves nothing has nothing to keep.
LEMMA KeepOther ==
  ASSUME IInv, IInv', NEW c \in Calls, KeepInv(c), Steers(c), ~Moving(c)
  PROVE  KeepInv(c)'
<1>1. MovePlan(c)
  BY DEF IInv, LockInv, Steers, KeepInv
<1>2. MovePlan(c)' /\ ~Moving(c)' /\ call'[c].at # "new"
  BY <1>1, PlanKeeps
<1> QED BY <1>2 DEF KeepInv, MovedOff, LinksInv, NodesInv, Renames, Rewrites

\* The write that a move has prepared: to be compared, written, or failed.
LEMMA KeepWrite ==
  ASSUME IInv, IInv', NEW c \in Calls, KeepInv(c), Moving(c), Check(c) \/ Put(c) \/ FailPut(c)
  PROVE  KeepInv(c)'
<1> DEFINE on == call[c].on
<1>1. /\ LockInv /\ Steers(c) /\ call[c].at \in {"check", "put"} /\ call[c].at \in Writes /\ Rewrites(c) /\ Renames(c)
      /\ MovePlan(c) /\ MovedOff(c) /\ LinksInv(c) /\ NodesInv(c) /\ After(c) = "rewriting" /\ on \in need[c]
      /\ need[c] \subseteq Paths /\ disk \in [Paths -> Good]
  <2>1. Steers(c) /\ call[c].at \in {"check", "put"}
    BY CheckSteers, PutSteers DEF Check, Put, FailPut, Inside
  <2>2. call[c].at \in Writes /\ Held(c) /\ Rewrites(c) /\ Renames(c) /\ After(c) = "rewriting"
    BY <2>1 DEF Writes, Held, Bodies, Rewrites, Renames, After, Moving, Only
  <2> QED BY <2>1, <2>2 DEF IInv, KeepInv, LockInv, CallInv, WriteInv, DataInv
<1>2. /\ call'[c].job = call[c].job /\ call'[c].plan = call[c].plan /\ call'[c].todo = call[c].todo
      /\ call'[c].known = call[c].known /\ call'[c].stale = call[c].stale
      /\ call[c].failed \subseteq call'[c].failed /\ meddled \subseteq meddled'
      /\ \/ /\ call'[c].at = "put" /\ call'[c].on = on /\ call'[c].out = call[c].out /\ disk' = disk
         \/ call'[c].at = "rewriting" /\ disk' = [disk EXCEPT ![on] = call[c].out]
         \/ call'[c].at = "rewriting" /\ on \in call'[c].failed \union meddled'
            /\ (disk' = disk \/ disk' = [disk EXCEPT ![on] = call[c].out])
  <2>1. CASE Check(c)
    <3>1. UNCHANGED <<disk, meddled>> /\ (Go(c, [at |-> "put"]) \/ Go(c, Failed(c)))
      BY <2>1 DEF Check, Looks
    <3>2. Failed(c) = [at |-> "rewriting", failed |-> call[c].failed \union {on}]
      BY <1>1 DEF Failed
    <3> HIDE DEF on
    <3>3. CASE Go(c, [at |-> "put"])
      BY <1>1, <3>1, <3>3, GoTo DEF Fields, on
    <3>4. CASE Go(c, [at |-> "rewriting", failed |-> call[c].failed \union {on}])
      BY <1>1, <3>1, <3>4, GoTo DEF Fields
    <3> QED BY <3>1, <3>2, <3>3, <3>4
  <2>2. CASE Put(c)
    <3>1. /\ UNCHANGED meddled /\ disk' = [disk EXCEPT ![on] = call[c].out]
          /\ Go(c, [at |-> "rewriting", written |-> [x \in {on} |-> call[c].out] ++ call[c].written])
      BY <1>1, <2>2 DEF Put
    <3> HIDE DEF on
    <3> QED BY <1>1, <3>1, GoTo DEF Fields
  <2>3. CASE FailPut(c)
    <3>1. /\ meddled' = meddled \union {on} /\ (disk' = disk \/ disk' = [disk EXCEPT ![on] = call[c].out])
          /\ Go(c, [at |-> "rewriting", failed |-> call[c].failed \union {on}])
      BY <1>1, <2>3 DEF FailPut, Failed
    <3> HIDE DEF on
    <3> QED BY <1>1, <3>1, GoTo DEF Fields
  <2> QED BY <2>1, <2>2, <2>3
<1> HIDE DEF on
<1>3. MovePlan(c)' /\ Moving(c)' /\ call'[c].at # "new"
  BY <1>1, <1>2, PlanKeeps
<1>4. \A p \in Paths : p \in Spoiled(c)' \/ TextAt(c, p)' = TextAt(c, p)
  BY <1>1, <1>2 DEF TextAt, Spoiled, Writes, on
<1>5. Spoiled(c) \subseteq Spoiled(c)'
  BY <1>2 DEF Spoiled
<1>6. MovedOff(c)'
  <2>1. call[c].job.tool = "move" => call[c].job.to \in Paths
    BY <1>1, OwnPath DEF IInv, CallInv, Rewrites, Held, Bodies
  <2>2. call[c].out # Absent
    BY <1>1 DEF MovedOff
  <2> QED BY <1>1, <1>2, <2>1, <2>2 DEF MovedOff, Writes
<1>7. \A n : Unknown(c, n) => Unknown(c, n)'
  BY <1>2 DEF Unknown, Only
<1>8. \A s \in Sources(call[c].plan) \union call[c].plan.canvases : MovedTo(call[c].plan, s) \in Paths
  BY <1>1, ActualHeld DEF Actual, MovePlan, PlanKeeping, IInv, CallInv, Held, Bodies
<1>9. LinksInv(c)'
  <2> SUFFICES ASSUME NEW r \in call[c].plan.rewrites PROVE KnownInv(c, r)' /\ LinkInv(c, r)'
    BY <1>2 DEF LinksInv
  <2>1. KnownInv(c, r) /\ LinkInv(c, r)
    BY <1>1 DEF LinksInv
  <2>2. KnownInv(c, r)'
    BY <1>2, <1>7, <2>1 DEF KnownInv
  <2>3. MovedTo(call[c].plan, r[1]) \in Paths
    BY <1>8 DEF Sources
  <2>4. Displaced(c, r[1])' <=> Displaced(c, r[1])
    BY <1>2 DEF Displaced
  <2>5. ASSUME NEW t, NEW p, Right(c, t, p, r) PROVE Right(c, t, p, r)'
    BY <1>2, <2>5 DEF Right
  <2> QED BY <1>2, <1>4, <1>5, <1>7, <2>1, <2>2, <2>3, <2>4, <2>5 DEF LinkInv
<1>10. NodesInv(c)'
  <2>1. ASSUME NEW k \in call[c].plan.canvases \ call[c].todo PROVE NodeInv(c, k)'
    <3>1. NodeInv(c, k)
      BY <1>1 DEF NodesInv
    <3> QED BY <1>2, <1>4, <1>5, <1>8, <3>1 DEF NodeInv, NoOldNode
  <2> QED BY <1>1, <1>2, <2>1 DEF NodesInv
<1> QED BY <1>3, <1>6, <1>9, <1>10 DEF KeepInv

\* A rename is to another place, which was empty.
LEMMA KeepMoveFile ==
  ASSUME IInv, IInv', NEW c \in Calls, KeepInv(c), MoveFile(c)
  PROVE  Steers(c) /\ KeepInv(c)'
<1> DEFINE job == call[c].job
           moved == call[c].plan.moved
           files == Renamed(job)
           From(p) == (CHOOSE m \in files : m[2] = p)[1]
<1>1. /\ status[c] = "inside" /\ call[c].at = "begin" /\ Moving(c) /\ UNCHANGED <<status, need>>
      /\ \/ Go(c, Refused) /\ UNCHANGED <<disk, meddled>>
         \/ /\ files # {} /\ \A m \in files : disk[m[1]] # Absent /\ disk[m[2]] = Absent
            /\ disk' = [p \in Paths |-> IF \E m \in files : m[1] = p THEN Absent
                                     ELSE IF \E m \in files : m[2] = p THEN disk[From(p)] ELSE disk[p]]
            /\ meddled' = meddled \union UNION {{m[1], m[2]} : m \in files \ moved}
            /\ Go(c, [at |-> "renamed"])
  BY DEF MoveFile, Inside, locks, Moving
<1>2. /\ Held(c) /\ CallInv(c) /\ LockInv /\ PlanInv(c) /\ DataInv /\ MovePlan(c)
      /\ need[c] \subseteq Paths /\ job \in Jobs /\ moved \subseteq need[c] \X need[c] /\ job.tool \in {"move", "moveFolder"}
  BY <1>1 DEF IInv, CallInv, Held, LockInv, PlanInv, KeepInv, Moving, Only
<1>3. CASE Go(c, Refused) /\ UNCHANGED <<disk, meddled>>
  <2>1. Steers(c)
    BY <1>1, <1>2, <1>3, MildChanges, SteersBy DEF Steers, DiskStays
  <2>2. call'[c].at = "error" /\ call'[c].todo = call[c].todo
    BY <1>2, <1>3, GoTo DEF Refused, Fields
  <2>3. MovePlan(c)'
    BY <1>2, <2>1, <2>2, PlanKeeps
  <2> QED BY <2>1, <2>2, <2>3 DEF KeepInv, MovedOff, LinksInv, NodesInv, Renames, Rewrites, Writes
<1>4. CASE /\ files # {} /\ \A m \in files : disk[m[1]] # Absent /\ disk[m[2]] = Absent
           /\ disk' = [p \in Paths |-> IF \E m \in files : m[1] = p THEN Absent
                                     ELSE IF \E m \in files : m[2] = p THEN disk[From(p)] ELSE disk[p]]
           /\ meddled' = meddled \union UNION {{m[1], m[2]} : m \in files \ moved}
           /\ Go(c, [at |-> "renamed"])
  <2>1. job.tool = "move" => files = {<<job.path, job.to>>} /\ job.path \in Paths /\ job.to \in Paths
    BY <1>2, JobsAssumption DEF Renamed, FolderTools
  <2>2. job.tool = "moveFolder" => \A m \in files : m[1] \in Paths /\ m[1][1] = job.path[1] /\ m[2] = <<job.to[1], m[1][2]>>
    BY DEF Renamed
  <2>3. job.tool = "moveFolder" => \A m \in files : m[2] \in Paths
    BY <1>2, <2>2, JobsAssumption
  <2>4. meddled \subseteq meddled' /\ \A m \in files : m \in moved \/ {m[1], m[2]} \subseteq meddled'
    BY <1>4
  <2>5. DiskStays(need[c])
    <3>1. ASSUME NEW p \in Paths \ (need[c] \union meddled') PROVE \A m \in files : m[1] # p /\ m[2] # p
      BY <1>2, <2>4, <3>1
    <3> HIDE DEF From, files
    <3> QED BY <1>4, <2>4, <3>1 DEF DiskStays
  <2>6. job.path[1] # job.to[1] \/ (job.tool = "move" /\ job.path # job.to)
    <3>1. CASE job.tool = "move"
      BY <1>4, <2>1, <3>1
    <3>2. CASE job.tool = "moveFolder"
      <4>1. PICK m \in files : disk[m[1]] # Absent /\ disk[m[2]] = Absent
        BY <1>4
      <4>2. m[1] \in Paths /\ m[1][1] = job.path[1] /\ m[2] = <<job.to[1], m[1][2]>> /\ m[1] # m[2]
        BY <2>2, <3>2, <4>1
      <4>3. m[1] = <<m[1][1], m[1][2]>>
        BY <4>2, PathsAssumption
      <4> QED BY <4>2, <4>3
    <3> QED BY <1>2, <3>1, <3>2
  <2>7. job.tool = "move" => disk'[job.to] # Absent
    <3> SUFFICES ASSUME job.tool = "move" PROVE disk'[job.to] # Absent
      OBVIOUS
    <3>1. job.path # job.to /\ disk[job.path] # Absent
      BY <1>4, <2>1
    <3>2. ~(\E m \in files : m[1] = job.to) /\ (\E m \in files : m[2] = job.to)
      <4>1. files = {<<job.path, job.to>>}
        BY <2>1
      <4> HIDE DEF files, job, From
      <4>2. <<job.path, job.to>>[1] = job.path /\ <<job.path, job.to>>[2] = job.to
        OBVIOUS
      <4> QED BY <3>1, <4>1, <4>2, Zenon
    <3>3. (CHOOSE m \in files : m[2] = job.to) \in files
      BY <3>2
    <3>4. From(job.to) = job.path
      BY <2>1, <3>3
    <3> HIDE DEF From, files
    <3> QED BY <1>4, <2>1, <3>1, <3>2, <3>4
  <2> HIDE DEF From, files
  <2>8. call'[c].at = "renamed" /\ call'[c].todo = call[c].todo /\ call'[c].known = call[c].known
    BY <1>2, <1>4, GoTo DEF Fields
  <2>9. Steers(c)
    BY <1>1, <1>2, <1>4, <2>5, MildChanges, SteersBy DEF Steers
  <2>10. MovePlan(c)'
    BY <1>1, <1>2, <2>8, <2>9, PlanKeeps
  <2>11. MovedOff(c)'
    BY <2>6, <2>7, <2>8, <2>9 DEF MovedOff, Steers, Writes
  <2> QED BY <2>8, <2>9, <2>10, <2>11 DEF KeepInv, LinksInv, NodesInv, Rewrites, Writes
<1> QED BY <1>1, <1>3, <1>4

LEMMA KeepRenameEntry ==
  ASSUME IInv, IInv', NEW c \in Calls, KeepInv(c), RenameEntry(c)
  PROVE  Steers(c) /\ KeepInv(c)'
<1>1. /\ status[c] = "inside" /\ call[c].at = "renamed" /\ Go(c, [at |-> "rewriting"]) /\ UNCHANGED <<disk, meddled>>
      /\ UNCHANGED <<status, need>>
  BY DEF RenameEntry, Inside, locks
<1>2. LockInv /\ Held(c) /\ MovePlan(c) /\ MovedOff(c) /\ Moving(c) /\ Renames(c)
  BY <1>1 DEF IInv, KeepInv, Held, Bodies, CallInv, PhaseInv, After, Moving, Only, Renames
<1>3. Steers(c)
  BY <1>1, <1>2, MildChanges, SteersBy DEF Steers, DiskStays
<1>4. /\ call'[c].at = "rewriting" /\ call'[c].todo = call[c].todo /\ call'[c].known = call[c].known
      /\ call'[c].job = call[c].job /\ call'[c].plan = call[c].plan
  BY <1>1, <1>2, GoTo DEF Fields
<1>5. MovePlan(c)'
  BY <1>2, <1>3, <1>4, PlanKeeps
<1>6. MovedOff(c)'
  BY <1>1, <1>2, <1>4 DEF MovedOff, Writes
<1>7. call[c].todo = Sources(call[c].plan) \union call[c].plan.canvases /\ call[c].known = [n \in Paths |-> {}]
  BY <1>1, <1>2 DEF MovePlan, PlanKeeping
<1>8. LinksInv(c)'
  <2> SUFFICES ASSUME NEW r \in call[c].plan.rewrites PROVE KnownInv(c, r)' /\ LinkInv(c, r)'
    BY <1>4 DEF LinksInv
  <2>1. r[1] \in call'[c].todo
    BY <1>4, <1>7 DEF Sources
  <2>2. r[3] \in Paths
    BY <1>2 DEF IInv, CallInv, PlanInv
  <2> QED BY <1>4, <1>7, <2>1, <2>2 DEF KnownInv, LinkInv
<1>9. NodesInv(c)'
  BY <1>4, <1>7 DEF NodesInv
<1> QED BY <1>3, <1>4, <1>5, <1>6, <1>8, <1>9 DEF KeepInv

LEMMA KeepEndMove ==
  ASSUME IInv, IInv', NEW c \in Calls, KeepInv(c), EndMove(c)
  PROVE  Steers(c) /\ KeepInv(c)'
<1>1. /\ status[c] = "inside" /\ call[c].at = "rewriting" /\ call[c].todo = {} /\ Looks(c, [at |-> "ok"])
      /\ Go(c, [at |-> "ok"]) /\ UNCHANGED <<disk, meddled>>
  BY DEF EndMove, Inside, Looks
<1>2. LockInv /\ Held(c) /\ MovePlan(c) /\ MovedOff(c) /\ LinksInv(c) /\ NodesInv(c) /\ Moving(c) /\ Renames(c) /\ Rewrites(c)
  BY <1>1 DEF IInv, KeepInv, Held, Bodies, CallInv, PhaseInv, After, Moving, Only, Renames, Rewrites
<1>3. Steers(c)
  BY <1>1, <1>2, MildChanges, LooksSteers
<1>4. /\ call'[c].at = "ok" /\ call'[c].todo = call[c].todo /\ call'[c].known = call[c].known
      /\ call'[c].job = call[c].job /\ call'[c].plan = call[c].plan /\ call'[c].failed = call[c].failed
      /\ call'[c].stale = call[c].stale
  BY <1>1, <1>2, GoTo DEF Fields
<1>5. MovePlan(c)'
  BY <1>2, <1>3, <1>4, PlanKeeps
<1>6. MovedOff(c)'
  BY <1>1, <1>2, <1>4 DEF MovedOff, Writes
<1>7. \A p : TextAt(c, p)' = TextAt(c, p)
  BY <1>1, <1>4 DEF TextAt, Writes
<1>8. (\A n : Unknown(c, n)' <=> Unknown(c, n)) /\ (\A s : Displaced(c, s)' <=> Displaced(c, s))
      /\ Spoiled(c)' = Spoiled(c)
  BY <1>1, <1>4 DEF Unknown, Displaced, Spoiled, Only
<1>9. \A t, p, r : Right(c, t, p, r) => Right(c, t, p, r)'
  BY <1>4 DEF Right
<1>10. LinksInv(c)'
  BY <1>2, <1>4, <1>7, <1>8, <1>9 DEF LinksInv, KnownInv, LinkInv
<1>11. NodesInv(c)'
  BY <1>1, <1>2, <1>4, <1>7, <1>8 DEF NodesInv, NodeInv, NoOldNode
<1> QED BY <1>3, <1>4, <1>5, <1>6, <1>10, <1>11 DEF KeepInv

\* A path leads to the file that is there, and a name to the one file that bears it.
LEMMA ResolveRight ==
  ASSUME NEW S \in SUBSET Paths, NEW new \in S
  PROVE  /\ Resolve(new, S) = new
         /\ Resolve(<<new[2]>>, S) # NoPath => Resolve(<<new[2]>>, S) = new
<1>1. new = <<new[1], new[2]>> /\ Len(new) = 2
  <2>1. new = <<new[1], new[2]>>
    BY PathsAssumption
  <2>2. Len(<<new[1], new[2]>>) = 2
    OBVIOUS
  <2> QED BY <2>1, <2>2
<1>2. Resolve(new, S) = new
  <2> DEFINE found == {p \in S : IF Len(new) = 1 THEN p[2] = new[1] ELSE p = new}
  <2>1. found = {new}
    BY <1>1
  <2>2. Cardinality(found) = 1
    BY <2>1, FS_Singleton
  <2>3. (CHOOSE p \in found : TRUE) = new
    BY <2>1
  <2> QED BY <2>2, <2>3 DEF Resolve
<1>3. ASSUME Resolve(<<new[2]>>, S) # NoPath PROVE Resolve(<<new[2]>>, S) = new
  <2> DEFINE found == {p \in S : IF Len(<<new[2]>>) = 1 THEN p[2] = <<new[2]>>[1] ELSE p = <<new[2]>>}
  <2>1. Cardinality(found) = 1 /\ Resolve(<<new[2]>>, S) = CHOOSE p \in found : TRUE
    BY <1>3 DEF Resolve
  <2>2. new \in found
    OBVIOUS
  <2>3. IsFiniteSet(found)
    BY PathsAssumption, FS_Subset
  <2> HIDE DEF found
  <2>4. found = {new}
    BY <2>1, <2>2, <2>3, FS_Singleton
  <2> QED BY <2>1, <2>4
<1> QED BY <1>2, <1>3

\* The new text of a link leads to the new place: whatever files there are, or by
\* its name among the files the server knew.
LEMMA NewTargetLeads ==
  ASSUME NEW new \in Paths, NEW link, IsLink(link), NEW from, NEW S \in SUBSET Paths,
         NEW l, l.is = link.is, l.to = NewTarget(link, new, from, S)
  PROVE  \/ AlwaysLeads(l, from, new)
         \/ S # {} /\ (new \in S => Leads(l, from, S \union {new}) = new)
<1>1. new = <<new[1], new[2]>> /\ Len(new) = 2
  <2>1. new = <<new[1], new[2]>>
    BY PathsAssumption
  <2>2. Len(<<new[1], new[2]>>) = 2
    OBVIOUS
  <2> QED BY <2>1, <2>2
<1>2. CASE link.is = "md" /\ from[1] = new[1]
  <2>1. l.is = "md" /\ l.to = <<new[2]>>
    BY <1>2 DEF NewTarget
  <2>2. Len(l.to) = 1 /\ l.to[1] = new[2]
    BY <2>1
  <2> QED BY <1>1, <1>2, <2>1, <2>2 DEF Leads, AlwaysLeads
<1>3. CASE link.is = "md" /\ from[1] # new[1]
  <2>1. l.is = "md" /\ l.to = <<"..", new[1], new[2]>>
    BY <1>3 DEF NewTarget
  <2>2. Len(l.to) = 3 /\ Tail(l.to) = <<new[1], new[2]>>
    BY <2>1
  <2> QED BY <1>1, <1>3, <2>1, <2>2 DEF Leads, AlwaysLeads
<1>4. CASE link.is = "wiki" /\ Len(link.to) = 1 /\ Resolve(<<new[2]>>, S) # NoPath
  <2>1. l.is = "wiki" /\ l.to = <<new[2]>>
    BY <1>4 DEF NewTarget
  <2>2. S # {}
    <3>1. ASSUME S = {} PROVE FALSE
      <4> DEFINE found == {p \in S : IF Len(<<new[2]>>) = 1 THEN p[2] = <<new[2]>>[1] ELSE p = <<new[2]>>}
      <4>1. found = {}
        BY <3>1
      <4>2. Cardinality(found) = 0
        BY <4>1, FS_EmptySet
      <4> QED BY <1>4, <4>2 DEF Resolve
    <3> QED BY <3>1
  <2>3. ASSUME new \in S PROVE Leads(l, from, S \union {new}) = new
    <3>1. S \union {new} = S
      BY <2>3
    <3>2. Resolve(<<new[2]>>, S) = new
      BY <1>4, <2>3, ResolveRight
    <3> QED BY <1>4, <2>1, <3>1, <3>2 DEF Leads
  <2> QED BY <2>2, <2>3
<1>5. CASE link.is = "wiki" /\ ~(Len(link.to) = 1 /\ Resolve(<<new[2]>>, S) # NoPath)
  <2>1. l.is = "wiki" /\ l.to = new
    BY <1>5 DEF NewTarget
  <2> QED BY <2>1, ResolveRight DEF Leads, AlwaysLeads
<1> QED BY <1>2, <1>3, <1>4, <1>5 DEF IsLink

\* No place that something moves to is one that something moves from.
LEMMA NoWayBack ==
  ASSUME IInv, NEW c \in Calls, PlanInv(c), MovePlan(c), MovedOff(c), Renames(c)
  PROVE  \A m, n \in call[c].plan.moved : m[2] # n[1]
<1> DEFINE job == call[c].job
<1>1. job.path[1] # job.to[1] \/ (job.tool = "move" /\ job.path # job.to)
  BY DEF MovedOff
<1>2. CASE job.tool = "move"
  <2>1. \A m \in call[c].plan.moved : m[1] = job.path /\ m[2] = job.to
    BY <1>2 DEF PlanInv
  <2> QED BY <1>1, <2>1
<1>3. CASE job.tool = "moveFolder"
  <2>1. \A m \in call[c].plan.moved : m[1][1] = job.path[1] /\ m[2] = <<job.to[1], m[1][2]>>
    BY <1>3 DEF MovePlan, PlanKeeping
  <2>2. job.path[1] # job.to[1]
    BY <1>1, <1>3
  <2>3. \A m \in call[c].plan.moved : m[2][1] = job.to[1]
    BY <2>1
  <2> QED BY <2>1, <2>2, <2>3
<1> QED BY <1>2, <1>3 DEF Renames, Moving, Only

LEMMA NodesMoved ==
  ASSUME IInv, NEW c \in Calls, PlanInv(c), MovePlan(c), MovedOff(c), Renames(c), NEW text \in Good
  PROVE  NoOldNode(c, RewrittenCanvas(c, text))
<1> DEFINE plan == call[c].plan
           u == RewrittenCanvas(c, text)
<1>1. u = [i \in 1 .. Len(text) |-> IF text[i].is = "node" THEN Node(MovedTo(plan, text[i].to)) ELSE text[i]]
  BY DEF RewrittenCanvas
<1>2. ASSUME NEW q, NEW n \in plan.moved PROVE MovedTo(plan, q) # n[1]
  <2>1. CASE \E m \in plan.moved : m[1] = q
    <3>1. PICK m \in plan.moved : MovedTo(plan, q) = m[2]
      BY <2>1 DEF MovedTo
    <3> QED BY <3>1, NoWayBack
  <2>2. CASE ~\E m \in plan.moved : m[1] = q
    BY <2>2 DEF MovedTo
  <2> QED BY <2>1, <2>2
<1> HIDE DEF u
<1>3. ASSUME NEW n \in plan.moved, NEW i \in 1 .. Len(text) PROVE u[i] # Node(n[1])
  <2>1. \A q : MovedTo(plan, q) # n[1]
    BY <1>2
  <2> QED BY <1>1, <2>1 DEF Node
<1>4. DOMAIN u = 1 .. Len(text)
  BY <1>1
<1> QED BY <1>3, <1>4 DEF NoOldNode, ToSet, u

\* What a link is given as its new target leads to it, if the server knew S.
Leading(text, p, r, S) ==
  /\ r[2] \in DOMAIN text /\ IsLink(text[r[2]])
  /\ \/ AlwaysLeads(text[r[2]], p, r[3])
     \/ S # {} /\ (r[3] \in S => Leads(text[r[2]], p, S \union {r[3]}) = r[3])

LEMMA LinkRight ==
  ASSUME NEW c \in Calls, PlanInv(c), MovePlan(c), NEW r \in call[c].plan.rewrites, NEW p \in Paths,
         NEW known, known[r[3]] \subseteq Paths, disk[p] = call[c].plan.base[r[1]], disk[p] \in Good
  PROVE  Leading(Rewritten(c, r[1], p, known), p, r, known[r[3]])
<1> DEFINE plan == call[c].plan
           out == Rewritten(c, r[1], p, known)
           link == plan.base[r[1]][r[2]]
<1>1. r[3] \in Paths /\ r[2] \in DOMAIN disk[p] /\ IsLink(link)
  BY DEF PlanInv
<1>2. PICK q \in plan.rewrites : /\ q[1] = r[1] /\ q[2] = r[2] /\ r[2] \in DOMAIN out /\ out[r[2]].is = link.is
                                 /\ out[r[2]].to = NewTarget(link, q[3], p, known[q[3]])
  <2>1. Retargeted(c, r[1], r[2], p, known, out)
    BY <1>1, RewrittenText
  <2> QED BY <2>1 DEF Retargeted
<1>3. q[3] = r[3]
  BY <1>2 DEF MovePlan, PlanKeeping
<1>4. IsLink(out[r[2]])
  BY <1>1, <1>2 DEF IsLink
<1> DEFINE S == known[r[3]]
           new == r[3]
           l == out[r[2]]
<1>5. new \in Paths /\ S \in SUBSET Paths /\ IsLink(link) /\ l.is = link.is /\ l.to = NewTarget(link, new, p, S)
  BY <1>1, <1>2, <1>3
<1>6. \/ AlwaysLeads(l, p, new)
      \/ S # {} /\ (new \in S => Leads(l, p, S \union {new}) = new)
  <2> HIDE DEF link, S, new, l
  <2> QED BY <1>5, NewTargetLeads
<1> QED BY <1>2, <1>4, <1>6 DEF Leading

\* The next source, or the next canvas.
LEMMA KeepReadSource ==
  ASSUME IInv, IInv', NEW c \in Calls, KeepInv(c), NEW s \in Paths, ReadSource(c, s)
  PROVE  Steers(c) /\ KeepInv(c)'
<1> DEFINE plan == call[c].plan
           p == Actual(plan, s)
           used == {r[3] : r \in {q \in plan.rewrites : q[1] = s}}
           known == [n \in Paths |-> IF n \in used /\ call[c].known[n] = {} THEN Indexed ELSE call[c].known[n]]
           out == IF s \in Canvases THEN RewrittenCanvas(c, disk[p]) ELSE Rewritten(c, s, p, known)
           old == s \notin Canvases /\ disk[MovedTo(plan, s)] # plan.base[s]
           stale == call[c].stale \union (IF old THEN {s} ELSE {})
           expect == IF s \in Canvases THEN disk[p] ELSE index[p]
           rest == [todo |-> call[c].todo \ {s}, known |-> known, stale |-> stale]
           gone == [failed |-> call[c].failed \union {p}] ++ rest
           next == [at |-> "check", on |-> p, seen |-> disk[p], out |-> out, expect |-> expect] ++ rest
<1>1. /\ status[c] = "inside" /\ call[c].at = "rewriting" /\ s \in call[c].todo /\ (s \in Canvases => call[c].todo \subseteq Canvases)
      /\ \/ Looks(c, gone) /\ disk[p] = Absent
         \/ Looks(c, rest) /\ disk[p] # Absent /\ out = disk[p]
         \/ Looks(c, next) /\ disk[p] # Absent
  <2>1. /\ Inside(c, "rewriting") /\ s \in call[c].todo /\ (s \in Canvases => call[c].todo \subseteq Canvases)
        /\ Looks(c, CASE disk[p] = Absent -> gone
                      [] disk[p] # Absent /\ out = disk[p] -> rest
                      [] OTHER -> next)
    BY DEF ReadSource
  <2> HIDE DEF gone, rest, next, out, p
  <2> QED BY <2>1 DEF Inside
<1>2. /\ LockInv /\ DataInv /\ PlanInv(c) /\ WrittenInv(c) /\ MovePlan(c) /\ MovedOff(c) /\ LinksInv(c) /\ NodesInv(c)
      /\ Moving(c) /\ Renames(c) /\ Rewrites(c) /\ After(c) = "rewriting" /\ need[c] \subseteq Paths
  <2>1. Held(c) /\ After(c) = "rewriting"
    BY <1>1 DEF Held, Bodies, IInv, CallInv, PhaseInv
  <2>2. Moving(c)
    BY <2>1 DEF After, Moving, Only
  <2> QED BY <1>1, <2>1, <2>2 DEF IInv, CallInv, KeepInv, LockInv, Renames, Rewrites
<1>3. p = MovedTo(plan, s) /\ p \in Paths /\ s \in Sources(plan) \union plan.canvases
  <2>1. s \in Sources(plan) \union plan.canvases /\ s \in need[c]
    BY <1>1, <1>2 DEF MovePlan, PlanKeeping
  <2> QED BY <1>2, <2>1, ActualHeld DEF Actual
<1>4. disk[p] \in Good
  BY <1>2, <1>3 DEF DataInv
<1>5. s \in Notes => s \in Sources(plan) /\ s \notin Canvases
  BY <1>2, <1>3, PathsAssumption DEF MovePlan, PlanKeeping
<1>6. s \in Canvases \/ s \in Notes
  BY DEF Paths
<1>7. \A n \in Paths : known[n] = IF n \in used /\ call[c].known[n] = {} THEN Indexed ELSE call[c].known[n]
  OBVIOUS
<1>8. out \in Good /\ (disk[p] # Absent => out # Absent)
  <2> HIDE DEF known
  <2>1. out \in Good /\ Len(out) >= Len(disk[p])
    <3>1. CASE s \in Canvases
      BY <1>2, <1>4, <3>1, RewrittenCanvasText DEF Good, Texts
    <3>2. CASE s \notin Canvases
      BY <1>2, <1>3, <1>4, <3>2, RewrittenText
    <3> QED BY <3>1, <3>2
  <2> HIDE DEF out, p
  <2> QED BY <1>4, <2>1 DEF Good, Texts, Absent
<1>9. s \in Canvases => out = RewrittenCanvas(c, disk[p])
  OBVIOUS
<1>10. s \in Notes => out = Rewritten(c, s, p, known)
  BY <1>5
<1>11. /\ stale = call[c].stale \union {s} \/ stale = call[c].stale
       /\ (s \in Notes /\ s \notin stale => disk[p] = plan.base[s])
  BY <1>3, <1>5
<1>12. DOMAIN known = Paths
  OBVIOUS
<1> HIDE DEF p, out, known, stale, expect, used
<1>13. /\ Mild(gone) /\ Mild(rest) /\ Mild(next)
  BY DEF Mild, Fields, ++
<1>14. Steers(c)
  <2> HIDE DEF gone, rest, next
  <2> QED BY <1>1, <1>2, <1>13, LooksSteers
<1>15. /\ call'[c].job = call[c].job /\ call'[c].plan = plan /\ UNCHANGED <<disk, index, meddled>>
       /\ call'[c].todo = call[c].todo \ {s} /\ call'[c].known = known /\ call'[c].stale = stale
       /\ call[c].failed \subseteq call'[c].failed
       /\ \/ call'[c].at = "rewriting" /\ p \in call'[c].failed
          \/ call'[c].at = "rewriting" /\ disk[p] = out
          \/ call'[c].at = "check" /\ call'[c].on = p /\ call'[c].out = out /\ out # Absent
  <2>1. /\ DOMAIN rest = {"todo", "known", "stale"}
        /\ rest.todo = call[c].todo \ {s} /\ rest.known = known /\ rest.stale = stale
    OBVIOUS
  <2>2. /\ DOMAIN gone = {"failed", "todo", "known", "stale"} /\ gone.failed = call[c].failed \union {p}
        /\ gone.todo = call[c].todo \ {s} /\ gone.known = known /\ gone.stale = stale
    BY DEF ++
  <2>3. /\ DOMAIN next = {"at", "on", "seen", "out", "expect", "todo", "known", "stale"}
        /\ next.at = "check" /\ next.on = p /\ next.out = out
        /\ next.todo = call[c].todo \ {s} /\ next.known = known /\ next.stale = stale
    BY DEF ++
  <2> HIDE DEF rest, gone, next
  <2>4. CASE Looks(c, gone)
    <3>1. Go(c, gone) /\ UNCHANGED <<disk, index, meddled>>
      BY <2>4 DEF Looks
    <3> QED BY <1>1, <1>2, <2>2, <3>1, GoTo DEF Fields
  <2>5. CASE Looks(c, rest) /\ out = disk[p]
    <3>1. Go(c, rest) /\ UNCHANGED <<disk, index, meddled>>
      BY <2>5 DEF Looks
    <3> QED BY <1>1, <1>2, <2>1, <2>5, <3>1, GoTo DEF Fields
  <2>6. CASE Looks(c, next) /\ disk[p] # Absent
    <3>1. Go(c, next) /\ UNCHANGED <<disk, index, meddled>>
      BY <2>6 DEF Looks
    <3> QED BY <1>2, <1>8, <2>3, <2>6, <3>1, GoTo DEF Fields
  <2> QED BY <1>1, <2>4, <2>5, <2>6
<1> HIDE DEF gone, rest, next
<1>16. MovePlan(c)' /\ Moving(c)' /\ call'[c].at # "new"
  BY <1>2, <1>14, <1>15, PlanKeeps
<1>17. MovedOff(c)'
  BY <1>2, <1>15 DEF MovedOff, Writes
<1>18. Spoiled(c) \subseteq Spoiled(c)' /\ call'[c].failed \subseteq Spoiled(c)'
  BY <1>15 DEF Spoiled
<1>19. \A q \in Paths : IF q = p THEN p \in Spoiled(c)' \/ TextAt(c, q)' = out ELSE TextAt(c, q)' = TextAt(c, q)
  BY <1>1, <1>15, <1>18 DEF TextAt, Writes
<1>20. \A q \in Paths : TextAt(c, q) = disk[q]
  BY <1>1 DEF TextAt, Writes
<1>21. \A t \in Sources(plan) \union plan.canvases : MovedTo(plan, t) \in Paths
  BY <1>2, ActualHeld DEF Actual, MovePlan, PlanKeeping
<1>22. NodesInv(c)'
  <2>1. plan.canvases \subseteq call'[c].todo \/ call'[c].todo \subseteq Canvases
    BY <1>1, <1>2, <1>5, <1>6, <1>15 DEF NodesInv, MovePlan, PlanKeeping
  <2>2. ASSUME NEW k \in plan.canvases \ call'[c].todo PROVE NodeInv(c, k)'
    <3> PICK q \in Paths : q = MovedTo(plan, k)
      BY <1>21
    <3>1. s \in Canvases
      BY <1>1, <1>2, <1>5, <1>6, <1>15, <2>2 DEF NodesInv, MovePlan, PlanKeeping
    <3>2. NoOldNode(c, out)
      BY <1>2, <1>4, <1>9, <3>1, NodesMoved
    <3>3. q = p \/ (k # s /\ q \in Spoiled(c)) \/ (k # s /\ q # p /\ NoOldNode(c, disk[q]))
      <4>1. CASE k = s
        BY <1>3, <4>1
      <4>2. CASE k # s
        BY <1>2, <1>15, <1>20, <1>21, <2>2, <4>2 DEF NodesInv, NodeInv
      <4> QED BY <4>1, <4>2
    <3>4. q \in Spoiled(c)' \/ NoOldNode(c, TextAt(c, q)')
      BY <1>18, <1>19, <1>20, <1>21, <3>2, <3>3
    <3> QED BY <1>15, <3>4 DEF NodeInv, NoOldNode
  <2> QED BY <1>15, <2>1, <2>2 DEF NodesInv
<1>23. \A n : call'[c].known[n] = call[c].known[n] /\ Unknown(c, n) => Unknown(c, n)'
  BY <1>15 DEF Unknown, Only
<1>24. ASSUME NEW r \in plan.rewrites PROVE KnownInv(c, r)'
  <2>1. KnownInv(c, r) /\ r[3] \in Paths
    BY <1>2 DEF LinksInv, PlanInv
  <2>2. CASE known[r[3]] = call[c].known[r[3]]
    BY <1>15, <1>23, <2>1, <2>2 DEF KnownInv
  <2>3. CASE known[r[3]] = Indexed
    <3>1. Indexed \subseteq Paths
      BY DEF Indexed
    <3>2. CASE r[3] \in Indexed
      BY <1>15, <2>3, <3>1, <3>2 DEF KnownInv
    <3>3. CASE r[3] \notin Indexed
      <4>1. ASSUME r[3] \notin Canvases \union meddled, ~Only({"moveFolder"}, c) PROVE FALSE
        <5>1. call[c].job.tool = "move" /\ r[3] = call[c].job.to /\ r[3] \in Notes
          <6>1. call[c].job.tool = "move"
            BY <1>2, <4>1 DEF Moving, Only
          <6>2. \E m \in plan.moved : m[2] = r[3]
            BY <1>2 DEF MovePlan, PlanKeeping
          <6>3. r[3] = call[c].job.to
            BY <1>2, <6>1, <6>2 DEF PlanInv
          <6> QED BY <2>1, <4>1, <6>1, <6>3 DEF Paths
        <5>2. disk[r[3]] # Absent
          BY <1>2, <4>1, <5>1 DEF MovedOff
        <5>3. r[3] \in Changed(c) \ meddled
          BY <1>2, <4>1, <5>1, OwnPath DEF Changed
        <5>4. InIndex(c, r[3])
          BY <1>1, <1>2, <5>3 DEF WrittenInv
        <5>5. index[r[3]] = disk[r[3]]
          BY <4>1, <5>1, <5>4 DEF InIndex, Entry
        <5> QED BY <2>1, <3>3, <5>2, <5>5 DEF Indexed
      <4>2. Unknown(c, r[3])'
        BY <1>15, <2>3, <3>3, <4>1 DEF Unknown, Only
      <4> QED BY <1>15, <2>3, <3>1, <4>2 DEF KnownInv
    <3> QED BY <3>2, <3>3
  <2> QED BY <1>7, <2>1, <2>2, <2>3
<1>25. ASSUME NEW r \in plan.rewrites PROVE LinkInv(c, r)'
  <2> PICK q \in Paths : q = MovedTo(plan, r[1])
    BY <1>21 DEF Sources
  <2> PICK text : text = out
    OBVIOUS
  <2>1. KnownInv(c, r)' /\ r[3] \in Paths /\ r[1] \in Notes /\ r[1] \in Sources(plan)
    BY <1>2, <1>21, <1>24 DEF PlanInv, Sources, MovePlan, PlanKeeping
  <2>2. call[c].known[r[3]] # {} => call'[c].known[r[3]] = call[c].known[r[3]]
    BY <1>7, <1>15, <2>1
  <2>3. CASE r[1] \in call'[c].todo \/ q \in Spoiled(c)' \/ Displaced(c, r[1])'
    BY <1>15, <2>3 DEF LinkInv
  <2>4. CASE /\ r[1] \notin call'[c].todo /\ q \notin Spoiled(c)' /\ ~Displaced(c, r[1])'
             /\ r[1] = s
    <3>1. s \notin stale /\ q = p /\ s \in Notes
      BY <1>3, <1>15, <2>1, <2>4 DEF Displaced
    <3>2. disk[q] = plan.base[r[1]] /\ disk[q] \in Good /\ text = Rewritten(c, r[1], q, known) /\ TextAt(c, q)' = text
      BY <1>4, <1>10, <1>11, <1>19, <2>1, <2>4, <3>1
    <3>3. known[r[3]] \subseteq Paths
      BY <1>15, <2>1 DEF KnownInv
    <3>4. Leading(text, q, r, known[r[3]])
      BY <1>2, <3>2, <3>3, LinkRight
    <3>5. r[3] \in known[r[3]] \/ known[r[3]] = {} \/ Unknown(c, r[3])'
      BY <1>15, <2>1 DEF KnownInv
    <3>6. (known[r[3]] # {} /\ Unknown(c, r[3])') \/ Right(c, text, q, r)'
      BY <1>15, <3>4, <3>5 DEF Right, Leading
    <3> QED BY <1>15, <3>2, <3>6 DEF LinkInv
  <2>5. CASE /\ r[1] \notin call'[c].todo /\ q \notin Spoiled(c)' /\ ~Displaced(c, r[1])'
             /\ r[1] # s
    <3>1. r[1] \notin call[c].todo /\ q \notin Spoiled(c)
      BY <1>15, <1>18, <2>5
    <3>2. ~Displaced(c, r[1])
      BY <1>11, <1>15, <2>5 DEF Displaced
    <3>3. (call[c].known[r[3]] # {} /\ Unknown(c, r[3])) \/ Right(c, disk[q], q, r)
      BY <1>2, <1>20, <2>1, <3>1, <3>2 DEF LinksInv, LinkInv
    <3>4. CASE call[c].known[r[3]] # {} /\ Unknown(c, r[3])
      BY <1>15, <1>23, <2>2, <3>4 DEF LinkInv
    <3>5. CASE Right(c, disk[q], q, r)
      <4>1. Right(c, disk[q], q, r)'
        BY <1>15, <2>2, <3>5 DEF Right
      <4>2. TextAt(c, q)' = disk[q] \/ q = p
        BY <1>19, <1>20
      <4>3. CASE q = p
        <5>1. s \in Canvases
          BY <1>3, <1>5, <1>6, <1>15, <2>5, <4>3 DEF Displaced
        <5>2. text[r[2]] = disk[q][r[2]] /\ r[2] \in DOMAIN text
          <6>1. r[2] \in DOMAIN disk[q] /\ IsLink(disk[q][r[2]])
            BY <3>5 DEF Right
          <6>2. disk[q][r[2]].is # "node"
            BY <6>1 DEF IsLink
          <6>3. text = RewrittenCanvas(c, disk[q]) /\ disk[q] \in Good
            BY <1>4, <1>9, <4>3, <5>1
          <6>4. text[r[2]] = disk[q][r[2]] /\ Len(text) = Len(disk[q]) /\ text \in Good
            BY <1>2, <6>1, <6>2, <6>3, RewrittenCanvasText
          <6> QED BY <6>1, <6>3, <6>4 DEF Good, Texts
        <5>3. TextAt(c, q)' = text
          BY <1>19, <2>5, <4>3
        <5>4. Right(c, text, q, r)'
          BY <1>15, <4>1, <5>2 DEF Right
        <5> QED BY <1>15, <5>3, <5>4 DEF LinkInv
      <4>4. CASE TextAt(c, q)' = disk[q]
        BY <1>15, <4>1, <4>4 DEF LinkInv
      <4> QED BY <4>2, <4>3, <4>4
    <3> QED BY <3>3, <3>4, <3>5
  <2> QED BY <2>3, <2>4, <2>5
<1>26. LinksInv(c)'
  BY <1>15, <1>24, <1>25 DEF LinksInv
<1> QED BY <1>14, <1>16, <1>17, <1>22, <1>26 DEF KeepInv

LEMMA PlanKept ==
  ASSUME DataInv, NEW job \in Jobs
  PROVE  PlanKeeping(job, Plan(job))
<1> DEFINE moved == CASE job.tool = "move" -> IF job.path \in Indexed THEN {<<job.path, job.to>>} ELSE {}
                      [] job.tool = "moveFolder" -> {<<p, <<job.to[1], p[2]>>>> : p \in Under(job.path)}
                      [] OTHER -> {}
           rewrites == IF job.links THEN UNION {{<<b[1], b[2], m[2]>> : b \in Backlinks(m[1])} : m \in moved} ELSE {}
           base == [s \in {r[1] : r \in rewrites} |-> index[s]]
           canvases == IF job.links /\ moved # {} THEN {k \in Canvases : disk[k] # Absent} ELSE {}
<1>1. Plan(job) = [moved |-> moved, rewrites |-> rewrites, base |-> base, canvases |-> canvases]
  BY DEF Plan
<1>2. /\ job.tool = "move" => moved \subseteq {<<job.path, job.to>>}
      /\ job.tool = "moveFolder" => \A m \in moved : m[1] \in Paths /\ m[1][1] = job.path[1] /\ m[2] = <<job.to[1], m[1][2]>>
      /\ job.tool \notin {"move", "moveFolder"} => moved = {}
  <2>1. CASE job.tool = "move"
    BY <2>1
  <2>2. CASE job.tool = "moveFolder"
    <3>1. \A p \in Under(job.path) : p \in Paths /\ p[1] = job.path[1]
      BY DEF Under, Indexed
    <3> QED BY <2>2, <3>1
  <2>3. CASE job.tool \notin {"move", "moveFolder"}
    BY <2>3
  <2> QED BY <2>1, <2>2, <2>3
<1>3. \A m, n \in moved : m[1] = n[1] => m[2] = n[2]
  <2> HIDE DEF moved
  <2>1. CASE job.tool = "move"
    BY <1>2, <2>1
  <2>2. CASE job.tool = "moveFolder"
    BY <1>2, <2>2
  <2> QED BY <1>2, <2>1, <2>2
<1>4. moved = {} => canvases = {} /\ rewrites = {}
  <2> HIDE DEF moved
  <2> QED OBVIOUS
<1> HIDE DEF moved
<1>5. canvases \subseteq Canvases
  OBVIOUS
<1>6. ASSUME NEW r \in rewrites
      PROVE  \E m \in moved : /\ m[2] = r[3] /\ r[1] \in Notes
                              /\ Resolve(index[r[1]][r[2]].to, Indexed) = m[1]
  <2>1. PICK m \in moved : r \in {<<b[1], b[2], m[2]>> : b \in Backlinks(m[1])}
    OBVIOUS
  <2>2. PICK b \in Backlinks(m[1]) : r = <<b[1], b[2], m[2]>>
    BY <2>1
  <2>3. PICK s \in Notes \intersect Indexed :
          b \in {<<s, i>> : i \in {j \in DOMAIN index[s] : IsLink(index[s][j]) /\ Resolve(index[s][j].to, Indexed) = m[1]}}
    BY DEF Backlinks
  <2>4. b[1] = s /\ Resolve(index[s][b[2]].to, Indexed) = m[1]
    BY <2>3
  <2> QED BY <2>2, <2>4
<1> HIDE DEF rewrites, canvases, base
<1>7. ASSUME NEW r \in rewrites, NEW q \in rewrites, r[1] = q[1], r[2] = q[2] PROVE r[3] = q[3]
  <2>1. PICK m \in moved : m[2] = r[3] /\ Resolve(index[r[1]][r[2]].to, Indexed) = m[1]
    BY <1>6
  <2>2. PICK n \in moved : n[2] = q[3] /\ Resolve(index[q[1]][q[2]].to, Indexed) = n[1]
    BY <1>6
  <2> QED BY <1>3, <1>7, <2>1, <2>2
<1>8. Sources(Plan(job)) \subseteq Notes
  BY <1>1, <1>6 DEF Sources
<1> QED BY <1>1, <1>2, <1>4, <1>5, <1>6, <1>7, <1>8 DEF PlanKeeping

LEMMA KeepSubmit ==
  ASSUME IInv, KeepsAll, NEW c \in Calls, Submit(c)
  PROVE  KeepsAll'
<1>1. /\ LockInv /\ DataInv /\ call[c].at = "new" /\ call[c].known = [n \in Paths |-> {}]
      /\ UNCHANGED <<disk, index, meddled, meddling>>
  BY DEF Submit, IInv, KeepsAll, KeepInv
<1>2. PICK job \in Jobs :
        /\ Go(c, [at |-> "begin", job |-> job, plan |-> Plan(job), on |-> job.path,
                  expect |-> IF job.expect THEN disk[job.path] ELSE Absent,
                  todo |-> job.paths \union Sources(Plan(job)) \union Plan(job).canvases])
        /\ Locks!Request(c, LockPaths(job, Plan(job)))
  BY DEF Submit
<1> DEFINE plan == Plan(job)
           P == LockPaths(job, plan)
           todo == job.paths \union Sources(plan) \union plan.canvases
           expect == IF job.expect THEN disk[job.path] ELSE Absent
<1>3. /\ need' = [need EXCEPT ![c] = P]
      /\ Go(c, [at |-> "begin", job |-> job, plan |-> plan, on |-> job.path, expect |-> expect, todo |-> todo])
  BY <1>2 DEF Locks!Request
<1>4. todo \subseteq P
  BY <1>1, LockPathsHold
<1>5. PlanKeeping(job, plan)
  BY <1>1, PlanKept
<1>6. job.tool \in {"move", "moveFolder"} => job.paths = {}
  BY JobsAssumption
<1>7. todo = job.paths \union Sources(plan) \union plan.canvases
  OBVIOUS
<1> HIDE DEF plan, P, todo, expect
<1>8. /\ call'[c].at = "begin" /\ call'[c].job = job /\ call'[c].plan = plan /\ call'[c].todo = todo
      /\ call'[c].known = [n \in Paths |-> {}] /\ \A d \in Calls \ {c} : call'[d] = call[d]
  BY <1>1, <1>3, GoTo DEF Fields
<1>9. need'[c] = P /\ \A d \in Calls \ {c} : need'[d] = need[d]
  BY <1>1, <1>3 DEF LockInv
<1>10. MovePlan(c)'
  BY <1>4, <1>5, <1>6, <1>7, <1>8, <1>9 DEF MovePlan, PlanKeeping, Moving, Only
<1>11. KeepInv(c)'
  BY <1>8, <1>10 DEF KeepInv, MovedOff, LinksInv, NodesInv, Renames, Rewrites, Writes
<1>12. \A d \in Calls \ {c} : KeepInv(d)'
  <2>1. DiskStays({})
    BY <1>1 DEF DiskStays
  <2> QED BY <1>1, <1>8, <1>9, <2>1, KeepBystander DEF IInv, KeepsAll
<1> QED BY <1>11, <1>12 DEF KeepsAll

LEMMA KeepReturn ==
  ASSUME IInv, KeepsAll, NEW c \in Calls, Return(c)
  PROVE  KeepsAll'
<1> DEFINE at == IF call[c].at = "ok" THEN "answered" ELSE "refused"
<1>1. LockInv /\ UNCHANGED <<disk, meddled>> /\ Go(c, [at |-> at]) /\ need' = [need EXCEPT ![c] = {}]
  BY DEF Return, IInv, Locks!Leave
<1>2. at \in {"answered", "refused"}
  OBVIOUS
<1> HIDE DEF at
<1>3. call'[c].at = at /\ \A d \in Calls \ {c} : call'[d] = call[d]
  BY <1>1, GoTo DEF Fields
<1>4. \A d \in Calls \ {c} : need'[d] = need[d]
  BY <1>1 DEF LockInv
<1>5. KeepInv(c)'
  BY <1>2, <1>3 DEF KeepInv, Held, Bodies, Writes
<1>6. \A d \in Calls \ {c} : KeepInv(d)'
  <2>1. DiskStays({})
    BY <1>1 DEF DiskStays
  <2> QED BY <1>1, <1>3, <1>4, <2>1, KeepBystander DEF IInv, KeepsAll
<1> QED BY <1>5, <1>6 DEF KeepsAll

LEMMA KeepAside ==
  ASSUME IInv, KeepsAll, \/ \E c \in Calls : Enter(c)
                         \/ \E p \in Paths : Outside(p) \/ Refresh(p)
                         \/ UNCHANGED vars
  PROVE  KeepsAll'
<1>1. UNCHANGED <<call, need>> /\ DiskStays({})
  <2>1. CASE \E c \in Calls : Enter(c)
    BY <2>1 DEF Enter, Locks!Enter, DiskStays
  <2>2. CASE \E p \in Paths : Outside(p)
    BY <2>2 DEF Outside, locks, DiskStays, IInv, DataInv
  <2>3. CASE \E p \in Paths : Refresh(p)
    BY <2>3 DEF Refresh, locks, DiskStays
  <2>4. CASE UNCHANGED vars
    BY <2>4 DEF vars, DiskStays
  <2> QED BY <2>1, <2>2, <2>3, <2>4
<1>2. ASSUME NEW d \in Calls PROVE KeepInv(d)'
  BY <1>1, KeepBystander DEF IInv, KeepsAll
<1> QED BY <1>2 DEF KeepsAll

LEMMA KeepInit == Init => KeepsAll
<1> SUFFICES ASSUME Init, NEW c \in Calls PROVE KeepInv(c)
  BY DEF KeepsAll
<1>1. call[c].at = "new" /\ call[c].known = [n \in Paths |-> {}]
  BY DEF Init, Unmade
<1> QED BY <1>1 DEF KeepInv, Held, Bodies, Writes

LEMMA KeepNext == IInv /\ KeepsAll /\ [Next]_vars => KeepsAll'
<1> SUFFICES ASSUME IInv, KeepsAll, [Next]_vars PROVE KeepsAll'
  OBVIOUS
<1>1. IInv'
  BY VaultNext
<1>2. ASSUME NEW c \in Calls,
             \/ Singly(c) \/ (\E p \in Paths : BatchItem(c, p)) \/ EndBatch(c) \/ PutTemplate(c)
             \/ Put(c) \/ FailPut(c) \/ Check(c) \/ Delete(c)
             \/ MoveFile(c) \/ RenameEntry(c) \/ (\E s \in Paths : ReadSource(c, s)) \/ EndMove(c)
      PROVE  KeepsAll'
  <2>1. KeepInv(c)
    BY DEF KeepsAll
  <2>2. Steers(c) /\ KeepInv(c)'
    <3>1. CASE Singly(c) \/ (\E p \in Paths : BatchItem(c, p)) \/ EndBatch(c) \/ PutTemplate(c) \/ Delete(c)
      BY <1>1, <2>1, <3>1, SinglySteers, BatchSteers, PutSteers, DeleteSteers, KeepOther
    <3>2. CASE Check(c) \/ Put(c) \/ FailPut(c)
      BY <1>1, <2>1, <3>2, CheckSteers, PutSteers, KeepOther, KeepWrite
    <3>3. CASE MoveFile(c) \/ RenameEntry(c) \/ (\E s \in Paths : ReadSource(c, s)) \/ EndMove(c)
      BY <1>1, <2>1, <3>3, KeepMoveFile, KeepRenameEntry, KeepReadSource, KeepEndMove
    <3> QED BY <1>2, <3>1, <3>2, <3>3
  <2> QED BY <2>2, KeepStep
<1>3. CASE Next
  <2>1. CASE \E p \in Paths : Outside(p) \/ Refresh(p)
    BY <2>1, KeepAside
  <2>2. CASE \E c \in Calls : Submit(c) \/ Enter(c) \/ Return(c)
    BY <2>2, KeepSubmit, KeepReturn, KeepAside
  <2>3. ASSUME NEW c \in Calls,
             \/ Submit(c) \/ Enter(c) \/ Return(c)
             \/ WriteNote(c) \/ WriteBinary(c) \/ EditNote(c) \/ AppendNote(c) \/ AppendUnique(c) \/ InsertInSection(c)
             \/ UpdateFrontmatter(c) \/ BatchUpdate(c) \/ (\E p \in Paths : BatchItem(c, p)) \/ EndBatch(c)
             \/ AddCanvasNode(c) \/ ChangeCanvas(c) \/ CreateFromTemplate(c) \/ AppendDaily(c) \/ PutTemplate(c)
             \/ Put(c) \/ FailPut(c) \/ Check(c) \/ Delete(c)
             \/ MoveFile(c) \/ RenameEntry(c) \/ (\E s \in Paths : ReadSource(c, s)) \/ EndMove(c)
        PROVE KeepsAll'
    BY <1>2, <2>2, <2>3 DEF Singly
  <2> QED BY <1>3, <2>1, <2>3 DEF Next
<1>4. CASE UNCHANGED vars
  BY <1>4, KeepAside
<1> QED BY <1>3, <1>4

\* When a move answers, the links it found are carried along: each leads to where
\* its note now is, and no canvas shows the old path.
THEOREM VaultMoveKeepsLinks == Spec => MoveKeepsLinks
<1> DEFINE Carried(c) ==
             LET plan == call[c].plan
                 spoiled == call[c].failed \union meddled IN
             /\ \A r \in plan.rewrites :
                  LET p == MovedTo(plan, r[1]) IN
                  \/ p \in spoiled \/ Displaced(c, r[1]) \/ Unknown(c, r[3])
                  \/ r[2] \in DOMAIN disk[p] /\ Leads(disk[p][r[2]], p, call[c].known[r[3]] \union {r[3]}) = r[3]
             /\ \A k \in plan.canvases, m \in plan.moved :
                  MovedTo(plan, k) \in spoiled \/ Node(m[1]) \notin ToSet(disk[MovedTo(plan, k)])
           Carries == \A c \in Calls : call[c].at = "ok" /\ call'[c].at = "answered" => Carried(c)
<1>1. ASSUME IInv, KeepsAll, NEW c \in Calls, call[c].at = "ok" PROVE Carried(c)
  <2>1. Held(c) /\ MovePlan(c)
    BY <1>1 DEF Held, Bodies, KeepsAll, KeepInv
  <2>2. CASE ~Moving(c)
    BY <2>1, <2>2 DEF MovePlan, PlanKeeping, Moving, Only
  <2>3. CASE Moving(c)
    <3>1. LinksInv(c) /\ NodesInv(c) /\ Rewrites(c) /\ call[c].todo = {} /\ \A p : TextAt(c, p) = disk[p]
      BY <1>1, <2>1, <2>3 DEF KeepsAll, KeepInv, Rewrites, NodesInv, TextAt, Writes
    <3>2. ASSUME NEW r \in call[c].plan.rewrites, NEW p, p = MovedTo(call[c].plan, r[1])
          PROVE  \/ p \in call[c].failed \union meddled \/ Displaced(c, r[1]) \/ Unknown(c, r[3])
                 \/ r[2] \in DOMAIN disk[p] /\ Leads(disk[p][r[2]], p, call[c].known[r[3]] \union {r[3]}) = r[3]
      <4>1. KnownInv(c, r) /\ LinkInv(c, r)
        BY <3>1 DEF LinksInv
      <4>2. Right(c, disk[p], p, r) => Leads(disk[p][r[2]], p, call[c].known[r[3]] \union {r[3]}) = r[3]
        BY <4>1 DEF Right, AlwaysLeads, KnownInv
      <4> QED BY <3>1, <3>2, <4>1, <4>2 DEF LinkInv, Spoiled, Right
    <3>3. ASSUME NEW k \in call[c].plan.canvases, NEW m \in call[c].plan.moved
          PROVE  \/ MovedTo(call[c].plan, k) \in call[c].failed \union meddled
                 \/ Node(m[1]) \notin ToSet(disk[MovedTo(call[c].plan, k)])
      BY <3>1 DEF NodesInv, NodeInv, NoOldNode, Spoiled
    <3> QED BY <3>2, <3>3
  <2> QED BY <2>2, <2>3
<1>2. IInv /\ KeepsAll => Carries
  <2> HIDE DEF Carried
  <2> QED BY <1>1
<1>3. IInv /\ KeepsAll /\ [Next]_vars => [Carries]_vars
  BY <1>2
<1>4. Spec => [][Carries]_vars
  <2> HIDE DEF Carries
  <2> QED BY VaultInvariant, KeepInit, KeepNext, <1>3, PTL DEF Spec
<1> QED BY <1>4 DEF MoveKeepsLinks
=============================================================================
