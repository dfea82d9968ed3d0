------------------------ MODULE FileTokenStoreProofs ------------------------
(***************************************************************************)
(* For any number of calls, rewrites and faults: the queue moves and lets  *)
(* one mutation run at a time, and every write of the store is its         *)
(* operation applied to what the file holds, unless something has fallen   *)
(* into one of the windows FileTokenStore names.                           *)
(***************************************************************************)
EXTENDS FileTokenStore, FiniteSetTheorems, WellFoundedInduction, TLAPS

Phases == {"idle", "queued", "stat", "compare", "read", "assign", "rename", "restat", "stamp", "done", "failed"}

\* The queue holds each mutation under way once, the running one first.
QInv ==
  /\ \A c \in Calls : /\ pc[c] = "idle" => op[c] = NoOp
                      /\ pc[c] \in {"queued", "rename", "restat", "stamp"} => Mutates(c)
  /\ \A i \in 1..Len(queue) : /\ Mutates(queue[i])
                              /\ i = 1 => Running(queue[i])
                              /\ i > 1 => pc[queue[i]] = "queued"
  /\ \A i, j \in 1..Len(queue) : queue[i] = queue[j] => i = j
  /\ \A c \in Calls : Mutates(c) /\ (Running(c) \/ pc[c] = "queued") =>
                        \E i \in 1..Len(queue) : queue[i] = c

\* What a stamp that is the file's says of what was read with it.
VInv ==
  /\ disk.ver > 0
  /\ disk.kind = "absent" => disk.doc = EMPTY
  /\ \A c \in Calls : pc[c] = "assign" /\ saw[c].ver = disk.ver =>
                        saw[c].kind = disk.kind /\ saw[c].doc = disk.doc

\* Where the running mutation stands between the file and memory.
Phase(c) ==
  /\ pc[c] = "compare" => saw[c].ver = disk.ver /\ saw[c].kind = disk.kind
  /\ pc[c] = "assign" => saw[c].kind = disk.kind /\ saw[c].doc = disk.doc
  /\ pc[c] = "rename" => /\ disk.kind # "corrupt" /\ mem = draft
                         /\ draft = Apply(op[c], disk.doc)
                         /\ stamp = disk.ver => disk.kind = "doc" /\ snapshot = disk.doc
  /\ pc[c] = "restat" => stamp # disk.ver /\ disk.kind = "doc" /\ mem = disk.doc
  /\ pc[c] = "stamp" /\ saw[c].ver = disk.ver => disk.kind = "doc" /\ mem = disk.doc

\* Memory is the file whenever its stamp is, but for a mutation that writes.
InStep == ~Writing /\ stamp = disk.ver => disk.kind = "doc" /\ mem = disk.doc

SInv == ~excused => InStep /\ \A c \in Calls : Mutates(c) => Phase(c)

IInv == TypeOK /\ QInv /\ VInv /\ SInv

-----------------------------------------------------------------------------
LEMMA EmptyIsDoc == EMPTY \in Doc /\ Nothing \in File
BY DEF EMPTY, Doc, Nothing, File

\* What a method makes of a document is a document.
LEMMA ApplyType ==
  ASSUME NEW o, NEW d \in Doc
  PROVE  Apply(o, d) \in Doc
<1>1. ASSUME NEW S, NEW v \in {"none", "live", "used"}, NEW e \in Doc
      PROVE  With(e, S, v) \in Doc
  BY <1>1 DEF With, Doc
<1>2. ASSUME NEW e \in Doc PROVE Trimmed(e) \in Doc
  <2> DEFINE old == {p \in Present(e) : Cardinality({q \in Present(e) : q < p}) < Cardinality(Present(e)) - MaxPending}
  <2>1. Trimmed(e) = [r \in Rows |-> IF r \in old THEN "none" ELSE e[r]]
    BY DEF Trimmed
  <2> HIDE DEF old
  <2> QED BY <1>2, <2>1 DEF Doc
<1> DEFINE new == [r \in Rows |-> IF r \in o.rows THEN "live" ELSE d[r]]
<1>3. new \in Doc
  BY DEF Doc
<1>4. Trimmed(new) \in Doc
  BY <1>2, <1>3
<1>5. With(With(d, Tokens, "used"), Pendings \union Codes, "none") \in Doc
  BY <1>1
<1>6. /\ With(d, o.rows, "none") \in Doc /\ With(d, o.rows, "used") \in Doc
      /\ With(d, o.rows \union {k \in Codes : d[k] = "used"}, "none") \in Doc
  BY <1>1
<1> HIDE DEF new
<1>7. (IF o.rows \subseteq Pendings THEN Trimmed(new) ELSE new) \in Doc
  BY <1>3, <1>4
<1> QED BY <1>5, <1>6, <1>7 DEF Apply, new

LEMMA ArgumentsType ==
  ASSUME NEW k \in Methods, NEW S \in Arguments(k)
  PROVE  S \subseteq Rows
BY DEF Arguments, Rows, Methods

LEMMA FoundType == \A o, d : Found(o, d) \in BOOLEAN
BY DEF Found

\* One mutation runs at a time.
LEMMA OneRuns ==
  ASSUME TypeOK, QInv, NEW c \in Calls, NEW d \in Calls,
         Mutates(c), Mutates(d), Running(c), Running(d)
  PROVE  c = d
<1>1. PICK i \in 1..Len(queue) : queue[i] = c
  BY DEF QInv
<1>2. PICK j \in 1..Len(queue) : queue[j] = d
  BY DEF QInv
<1>3. i = 1 /\ j = 1
  BY <1>1, <1>2 DEF QInv, Running, TypeOK
<1> QED BY <1>1, <1>2, <1>3

LEMMA WritingIsRunning ==
  ASSUME TypeOK, QInv, NEW c \in Calls, Mutates(c), Running(c), Writing
  PROVE  pc[c] \in {"rename", "restat", "stamp"}
<1>1. PICK d \in Calls : pc[d] \in {"rename", "restat", "stamp"}
  BY DEF Writing
<1>2. Mutates(d) /\ Running(d)
  BY <1>1 DEF QInv, Running
<1> QED BY <1>1, <1>2, OneRuns

LEMMA QueueMovesFrom == TypeOK /\ QInv => QueueMoves
<1> SUFFICES ASSUME TypeOK, QInv, NEW c \in Calls, Mutates(c)
             PROVE  /\ Running(c) <=> queue # <<>> /\ c = Head(queue)
                    /\ pc[c] = "queued" => \E i \in 2..Len(queue) : queue[i] = c
  BY DEF QueueMoves
<1>0. queue \in Seq(Calls)
  BY DEF TypeOK
<1>1. ASSUME Running(c) PROVE queue # <<>> /\ c = Head(queue)
  <2>1. PICK i \in 1..Len(queue) : queue[i] = c
    BY <1>1 DEF QInv
  <2>2. i = 1
    BY <1>1, <2>1, <1>0 DEF QInv, Running
  <2> QED BY <2>1, <2>2, <1>0
<1>2. ASSUME queue # <<>>, c = Head(queue) PROVE Running(c)
  <2>1. 1 \in 1..Len(queue) /\ queue[1] = c
    BY <1>0, <1>2
  <2> QED BY <2>1 DEF QInv
<1>3. ASSUME pc[c] = "queued" PROVE \E i \in 2..Len(queue) : queue[i] = c
  <2>1. PICK i \in 1..Len(queue) : queue[i] = c
    BY <1>3 DEF QInv
  <2>2. i # 1
    BY <1>3, <2>1 DEF QInv, Running
  <2> QED BY <2>1, <2>2, <1>0
<1> QED BY <1>1, <1>2, <1>3
-----------------------------------------------------------------------------
\* The end of a call: the queue stays in order, and only a waiting call moves.
LEMMA EndKeeps ==
  ASSUME TypeOK, QInv, NEW c \in Calls, Running(c), NEW how \in {"done", "failed"},
         End(c, how), UNCHANGED op
  PROVE  /\ QInv'
         /\ queue' \in Seq(Calls) /\ pc' \in [Calls -> Phases] /\ saw' \in [Calls -> File]
         /\ pc'[c] = how
         /\ \A x \in Calls \ {c} : /\ pc'[x] = pc[x] \/ (pc[x] = "queued" /\ pc'[x] = "stat")
                                   /\ saw'[x] = saw[x]
         /\ saw'[c].ver = 0
<1>0. queue \in Seq(Calls) /\ pc \in [Calls -> Phases]
  BY DEF TypeOK, Phases
<1>s. saw' \in [Calls -> File] /\ (\A x \in Calls \ {c} : saw'[x] = saw[x]) /\ saw'[c].ver = 0
  BY EmptyIsDoc DEF End, TypeOK, Nothing
<1>o. \A x : Mutates(x)' <=> Mutates(x)
  BY DEF Mutates
<1>1. CASE ~Mutates(c)
  <2>1. queue' = queue /\ pc' = [pc EXCEPT ![c] = how]
    BY <1>1, <1>0 DEF End
  <2>2. \A i \in 1..Len(queue) : queue[i] # c
    BY <1>1 DEF QInv
  <2>3. QInv'
    BY <1>1, <1>0, <1>o, <2>1, <2>2 DEF QInv, Running
  <2> QED BY <1>0, <1>s, <2>1, <2>3 DEF Phases
<1>2. CASE Mutates(c)
  <2>1. Running(c) <=> queue # <<>> /\ c = Head(queue)
    BY <1>2, QueueMovesFrom DEF QueueMoves
  <2>2. queue # <<>> /\ queue[1] = c /\ Len(queue) > 0
    BY <2>1, <1>0
  <2>3. queue' = Tail(queue)
    BY <1>2 DEF End
  <2>4. queue' \in Seq(Calls) /\ Len(queue') = Len(queue) - 1
        /\ \A i \in 1..Len(queue') : queue'[i] = queue[i + 1]
    BY <2>2, <2>3, <1>0
  <2>5. \A i \in 1..Len(queue') : /\ queue'[i] # c /\ queue'[i] \in Calls
                                  /\ pc[queue'[i]] = "queued" /\ Mutates(queue'[i])
    BY <2>2, <2>4, <1>0 DEF QInv
  <2>6. \A x \in Calls : pc'[x] = IF x = c THEN how
                                  ELSE IF queue' # <<>> /\ x = queue'[1] THEN "stat" ELSE pc[x]
    BY <1>2, <2>4 DEF End
  <2>7. pc' \in [Calls -> Phases]
    <3>1. pc' = [x \in Calls |-> pc'[x]]
      BY DEF End
    <3>2. \A x \in Calls : pc'[x] \in Phases
      BY <1>0, <2>6 DEF Phases
    <3> QED BY <3>1, <3>2
  <2>8. \A x \in Calls \ {c} : pc'[x] = pc[x] \/ (pc[x] = "queued" /\ pc'[x] = "stat")
    BY <2>4, <2>5, <2>6
  <2>9. QInv'
    <3>1. \A x \in Calls : /\ pc'[x] = "idle" => op'[x] = NoOp
                           /\ pc'[x] \in {"queued", "rename", "restat", "stamp"} => Mutates(x)'
      BY <2>6, <2>8, <1>o DEF QInv
    <3>2. \A i, j \in 1..Len(queue') : queue'[i] = queue'[j] => i = j
      BY <2>4 DEF QInv
    <3>3. \A i \in 1..Len(queue') : /\ Mutates(queue[i])'
                                    /\ i = 1 => pc'[queue'[i]] = "stat"
                                    /\ i > 1 => pc'[queue'[i]] = "queued"
      <4> TAKE i \in 1..Len(queue')
      <4>1. queue' # <<>> /\ 1 \in 1..Len(queue')
        BY <2>4
      <4>2. i > 1 => queue'[i] # queue'[1]
        BY <3>2, <4>1
      <4>3. op'[queue'[i]].kind # "get"
        BY <2>5 DEF Mutates
      <4> QED BY <2>5, <2>6, <4>1, <4>2, <4>3 DEF Mutates
    <3>4. \A x \in Calls : Mutates(x)' /\ (Running(x)' \/ pc'[x] = "queued") =>
                             \E i \in 1..Len(queue') : queue'[i] = x
      <4> SUFFICES ASSUME NEW x \in Calls, Mutates(x)', Running(x)' \/ pc'[x] = "queued"
                   PROVE  \E i \in 1..Len(queue') : queue'[i] = x
        OBVIOUS
      <4>1. x # c /\ Mutates(x)
        BY <2>6, <1>o DEF Running
      <4>2. Running(x) \/ pc[x] = "queued"
        BY <2>8, <4>1 DEF Running
      <4>3. PICK i \in 1..Len(queue) : queue[i] = x
        BY <4>1, <4>2 DEF QInv
      <4>4. i # 1 /\ i - 1 \in 1..Len(queue') /\ queue'[i - 1] = queue[i]
        BY <2>2, <2>4, <4>1, <4>3
      <4> QED BY <4>3, <4>4
    <3> QED BY <3>1, <3>2, <3>3, <3>4 DEF QInv, Running
  <2> QED BY <1>s, <2>4, <2>6, <2>7, <2>8, <2>9
<1> QED BY <1>1, <1>2

\* While a mutation runs no other call that mutates is under way.
LEMMA Alone ==
  ASSUME TypeOK, QInv, NEW c \in Calls, Mutates(c), Running(c),
         NEW x \in Calls \ {c}, Mutates(x)
  PROVE  pc[x] \in {"idle", "queued", "done", "failed"}
BY OneRuns DEF Running

\* A call that goes from one running phase to another leaves the queue in order.
LEMMA MoveKeeps ==
  ASSUME TypeOK, QInv, NEW c \in Calls, Running(c),
         NEW p \in Phases \ {"idle", "queued", "done", "failed"},
         p \in {"rename", "restat", "stamp"} => Mutates(c),
         pc' = [pc EXCEPT ![c] = p], UNCHANGED <<queue, op>>
  PROVE  QInv'
<1>0. pc \in [Calls -> Phases] /\ queue \in Seq(Calls)
  BY DEF TypeOK, Phases
<1>1. \A x \in Calls : /\ x # c => pc'[x] = pc[x]
                       /\ Running(x)' <=> Running(x)
                       /\ Mutates(x)' <=> Mutates(x)
  BY <1>0 DEF Running, Mutates
<1>2. pc'[c] = p /\ p \notin {"idle", "queued", "done", "failed"}
  BY <1>0
<1>3. \A i \in 1..Len(queue) : queue[i] \in Calls /\ (i > 1 => queue[i] # c)
  BY <1>0 DEF QInv, Running
<1>4. \A i \in 1..Len(queue') : /\ Mutates(queue[i])'
                                /\ i = 1 => Running(queue[i])'
                                /\ i > 1 => pc'[queue'[i]] = "queued"
  BY <1>1, <1>3 DEF QInv, Mutates, Running
<1>5. \A x \in Calls : /\ pc'[x] = "idle" => op'[x] = NoOp
                       /\ pc'[x] \in {"queued", "rename", "restat", "stamp"} => Mutates(x)'
  BY <1>1, <1>2 DEF QInv
<1>6. \A x \in Calls : Mutates(x)' /\ (Running(x)' \/ pc'[x] = "queued") =>
                         \E i \in 1..Len(queue') : queue'[i] = x
  BY <1>1, <1>2 DEF QInv
<1> QED BY <1>4, <1>5, <1>6 DEF QInv

\* What the end of a reload does to the calls and to memory.
LEMMA GoOnKeeps ==
  ASSUME TypeOK, QInv, NEW c \in Calls, pc[c] \in {"stat", "compare", "assign"},
         NEW d \in Doc, GoOn(c, d), UNCHANGED op
  PROVE  /\ QInv'
         /\ queue' \in Seq(Calls) /\ pc' \in [Calls -> Phases] /\ saw' \in [Calls -> File]
         /\ mem' \in Doc /\ snapshot' \in Doc /\ draft' \in Doc /\ got' \in [Calls -> BOOLEAN]
         /\ \A x \in Calls : got'[x] => pc'[x] \in {"rename", "restat", "stamp", "done"}
         /\ saw'[c].ver = 0 /\ \A x \in Calls \ {c} : saw'[x] = saw[x]
         /\ Mutates(c) => /\ snapshot' = d /\ draft' = Apply(op[c], d) /\ mem' = draft'
                          /\ pc' = [pc EXCEPT ![c] = "rename"]
         /\ ~Mutates(c) => /\ mem' = d /\ UNCHANGED <<snapshot, draft>>
                           /\ pc' = [pc EXCEPT ![c] = "done"]
<1>0. /\ pc \in [Calls -> Phases] /\ queue \in Seq(Calls) /\ Running(c)
      /\ got \in [Calls -> BOOLEAN]
      /\ \A x \in Calls : got[x] => pc[x] \in {"rename", "restat", "stamp", "done"}
  BY DEF TypeOK, Phases, Running
<1>1. CASE Mutates(c)
  <2>1. /\ snapshot' = d /\ draft' = Apply(op[c], d) /\ mem' = draft'
        /\ got' = [got EXCEPT ![c] = Found(op[c], d)]
        /\ pc' = [pc EXCEPT ![c] = "rename"]
        /\ saw' = [saw EXCEPT ![c] = Nothing]
        /\ queue' = queue
    BY <1>1 DEF GoOn
  <2>2. draft' \in Doc
    BY <2>1, ApplyType
  <2>3. saw' \in [Calls -> File] /\ saw'[c].ver = 0
    BY <2>1, EmptyIsDoc DEF TypeOK, Nothing
  <2>4. got' \in [Calls -> BOOLEAN]
    BY <2>1, <1>0, FoundType
  <2>5. QInv'
    BY <1>0, <1>1, <2>1, MoveKeeps DEF Phases
  <2> QED BY <1>0, <1>1, <2>1, <2>2, <2>3, <2>4, <2>5 DEF Phases, TypeOK
<1>2. CASE ~Mutates(c)
  <2>1. /\ mem' = d /\ End(c, "done") /\ UNCHANGED <<snapshot, draft, got>>
    BY <1>2 DEF GoOn
  <2>2. pc' = [pc EXCEPT ![c] = "done"]
    BY <1>0, <1>2, <2>1 DEF End
  <2>3. /\ QInv' /\ queue' \in Seq(Calls) /\ pc' \in [Calls -> Phases] /\ saw' \in [Calls -> File]
        /\ saw'[c].ver = 0 /\ \A x \in Calls \ {c} : saw'[x] = saw[x]
    BY <1>0, <2>1, EndKeeps
  <2> QED BY <1>0, <1>2, <2>1, <2>2, <2>3 DEF TypeOK
<1> QED BY <1>1, <1>2

-----------------------------------------------------------------------------
LEMMA InitInv == Init => IInv
<1> SUFFICES ASSUME Init PROVE IInv
  OBVIOUS
<1>1. PICK d \in Opened : disk = [kind |-> "doc", doc |-> d, ver |-> 1] /\ mem = d
  BY DEF Init
<1>2. d \in Doc
  BY StoreAssumption DEF Doc, Rows
<1>3. TypeOK
  <2>1. disk \in File /\ mem \in Doc /\ disk.ver = 1
    BY <1>1, <1>2 DEF File
  <2>2. saw \in [Calls -> File] /\ \A c \in Calls : saw[c].ver = 0
    BY EmptyIsDoc DEF Init, Nothing
  <2>3. op \in [Calls -> [kind : Methods, rows : SUBSET Rows]]
    BY DEF Init, NoOp, Methods
  <2>4. snapshot \in Doc /\ draft \in Doc
    BY EmptyIsDoc DEF Init
  <2>5. queue \in Seq(Calls) /\ stamp = 1 /\ rewrites = 0 /\ faults = 0
    BY DEF Init
  <2>e. excused \in BOOLEAN
    BY DEF Init
  <2>6. pc \in [Calls -> Phases]
    BY DEF Init, Phases
  <2>7. got \in [Calls -> BOOLEAN] /\ \A c \in Calls : ~got[c]
    <3>1. got = [c \in Calls |-> FALSE]
      BY DEF Init
    <3> QED BY <3>1
  <2>8. /\ stamp \in Nat /\ rewrites \in Nat /\ faults \in Nat /\ excused \in BOOLEAN
        /\ stamp <= disk.ver /\ \A c \in Calls : saw[c].ver <= disk.ver
    BY <2>1, <2>2, <2>5, <2>e
  <2> QED BY <2>1, <2>2, <2>3, <2>4, <2>5, <2>6, <2>7, <2>8 DEF TypeOK, Phases
<1>4. QInv
  BY DEF Init, QInv, NoOp, Mutates, Running
<1>5. VInv /\ SInv
  BY <1>1 DEF Init, VInv, SInv, InStep, Mutates, NoOp
<1> QED BY <1>3, <1>4, <1>5 DEF IInv

LEMMA InvokeKeeps ==
  ASSUME IInv, NEW c \in Calls, Invoke(c)
  PROVE  IInv'
<1>0. TypeOK /\ QInv /\ pc[c] = "idle" /\ queue \in Seq(Calls)
  BY DEF IInv, Invoke, TypeOK
<1>1. PICK k \in Kinds : \E S \in Arguments(k) : op' = [op EXCEPT ![c] = [kind |-> k, rows |-> S]]
  BY DEF Invoke
<1>2. PICK S \in Arguments(k) : op' = [op EXCEPT ![c] = [kind |-> k, rows |-> S]]
  BY <1>1
<1>3. k \in Methods /\ S \subseteq Rows
  BY StoreAssumption, ArgumentsType
<1>4. op' \in [Calls -> [kind : Methods, rows : SUBSET Rows]] /\ op'[c].kind = k
  BY <1>0, <1>2, <1>3 DEF TypeOK
<1>5. \A x \in Calls \ {c} : op'[x] = op[x]
  BY <1>0, <1>2 DEF TypeOK
<1>6. ~Mutates(c)
  BY <1>0 DEF QInv, Mutates, NoOp
<1>7. \A i \in 1..Len(queue) : queue[i] # c
  BY <1>6, <1>0 DEF QInv
<1>8. UNCHANGED <<disk, mem, stamp, saw, snapshot, draft, got, rewrites, faults, excused>>
  BY DEF Invoke
<1>9. CASE k = "get"
  <2>1. pc' = [pc EXCEPT ![c] = "stat"] /\ queue' = queue
    BY <1>4, <1>9 DEF Invoke
  <2>2. TypeOK'
    BY <1>0, <1>4, <1>8, <2>1 DEF TypeOK
  <2>3. QInv'
    <3>1. \A x \in Calls : Mutates(x)' <=> Mutates(x)
      BY <1>4, <1>5, <1>6, <1>9 DEF Mutates
    <3>2. \A i \in 1..Len(queue) : queue[i] \in Calls
      BY <1>0
    <3>3. \A x \in Calls \ {c} : pc'[x] = pc[x]
      BY <1>0, <2>1 DEF TypeOK
    <3>4. pc'[c] = "stat"
      BY <1>0, <2>1 DEF TypeOK
    <3>5. \A x \in Calls : /\ pc'[x] = "idle" => op'[x] = NoOp
                           /\ pc'[x] \in {"queued", "rename", "restat", "stamp"} => Mutates(x)'
      BY <1>0, <1>5, <3>1, <3>3, <3>4 DEF QInv
    <3>6. \A i \in 1..Len(queue') : /\ Mutates(queue[i])'
                                    /\ i = 1 => Running(queue[i])'
                                    /\ i > 1 => pc'[queue'[i]] = "queued"
      BY <1>0, <1>7, <2>1, <3>1, <3>2, <3>3 DEF QInv, Running
    <3> QED BY <1>0, <1>6, <2>1, <3>1, <3>3, <3>5, <3>6 DEF QInv, Running
  <2>4. VInv' /\ SInv'
    BY <1>0, <1>4, <1>5, <1>6, <1>8, <1>9, <2>1 DEF IInv, VInv, SInv, InStep, Writing, Phase, TypeOK, Mutates
  <2> QED BY <2>2, <2>3, <2>4 DEF IInv
<1>10. CASE k # "get"
  <2>1. queue' = Append(queue, c) /\ pc' = [pc EXCEPT ![c] = IF queue = <<>> THEN "stat" ELSE "queued"]
    BY <1>4, <1>10 DEF Invoke
  <2>2. TypeOK'
    BY <1>0, <1>4, <1>8, <2>1 DEF TypeOK
  <2>3. /\ Len(queue') = Len(queue) + 1 /\ queue'[Len(queue) + 1] = c
        /\ \A i \in 1..Len(queue) : queue'[i] = queue[i] /\ queue[i] \in Calls
        /\ Len(queue) \in Nat /\ (queue = <<>> <=> Len(queue) = 0)
    BY <1>0, <2>1
  <2>4. \A x \in Calls \ {c} : pc'[x] = pc[x]
    BY <1>0, <2>1 DEF TypeOK
  <2>5. pc'[c] = IF queue = <<>> THEN "stat" ELSE "queued"
    BY <1>0, <2>1 DEF TypeOK
  <2>6. QInv'
    <3>1. op'[c].kind # "get" /\ \A x \in Calls \ {c} : op'[x].kind = op[x].kind
      BY <1>4, <1>5, <1>10
    <3>2. \A x \in Calls : /\ pc'[x] = "idle" => op'[x] = NoOp
                           /\ pc'[x] \in {"queued", "rename", "restat", "stamp"} => Mutates(x)'
      BY <1>0, <1>5, <2>4, <2>5, <3>1 DEF QInv, Mutates
    <3>3. \A i \in 1..Len(queue') : /\ op'[queue'[i]].kind # "get"
                                    /\ i = 1 => pc'[queue'[i]] \notin {"idle", "queued", "done", "failed"}
                                    /\ i > 1 => pc'[queue'[i]] = "queued"
      <4> TAKE i \in 1..Len(queue')
      <4>1. CASE i \in 1..Len(queue)
        BY <1>0, <1>7, <2>3, <2>4, <3>1, <4>1 DEF QInv, Mutates, Running
      <4>2. CASE i = Len(queue) + 1
        BY <2>3, <2>5, <3>1, <4>2
      <4> QED BY <2>3, <4>1, <4>2
    <3>4. \A i, j \in 1..Len(queue') : queue'[i] = queue'[j] => i = j
      <4> TAKE i, j \in 1..Len(queue')
      <4>1. (i \in 1..Len(queue) \/ i = Len(queue) + 1) /\ (j \in 1..Len(queue) \/ j = Len(queue) + 1)
        BY <2>3
      <4> QED BY <1>0, <1>7, <2>3, <4>1 DEF QInv
    <3>5. \A x \in Calls : op'[x].kind # "get" /\ pc'[x] \notin {"idle", "done", "failed"} =>
                             \E i \in 1..Len(queue') : queue'[i] = x
      <4> SUFFICES ASSUME NEW x \in Calls, op'[x].kind # "get", pc'[x] \notin {"idle", "done", "failed"}
                   PROVE  \E i \in 1..Len(queue') : queue'[i] = x
        OBVIOUS
      <4>1. CASE x = c
        BY <2>3, <4>1
      <4>2. CASE x # c
        <5>1. PICK i \in 1..Len(queue) : queue[i] = x
          BY <1>0, <2>4, <3>1, <4>2 DEF QInv, Mutates, Running
        <5> QED BY <2>3, <5>1
      <4> QED BY <4>1, <4>2
    <3> QED BY <3>2, <3>3, <3>4, <3>5 DEF QInv, Mutates, Running
  <2>7. VInv'
    BY <1>0, <1>8, <2>4, <2>5 DEF IInv, VInv
  <2>8. SInv'
    BY <1>0, <1>5, <1>8, <2>4, <2>5 DEF IInv, SInv, InStep, Writing, Phase, Mutates
  <2> QED BY <2>2, <2>6, <2>7, <2>8 DEF IInv
<1> QED BY <1>9, <1>10

-----------------------------------------------------------------------------
(* The reload: what the disk answers. *)

LEMMA ReloadStatKeeps ==
  ASSUME IInv, NEW c \in Calls, ReloadStat(c)
  PROVE  IInv'
<1>0. TypeOK /\ QInv /\ pc[c] = "stat" /\ Running(c) /\ pc \in [Calls -> Phases] /\ disk \in File
  BY DEF IInv, ReloadStat, Running, TypeOK, Phases
<1>1. UNCHANGED <<disk, mem, stamp, queue, op, snapshot, draft, got, rewrites, faults, excused>>
  BY DEF ReloadStat
<1>2. /\ saw' = [saw EXCEPT ![c] = [kind |-> disk.kind, doc |-> EMPTY, ver |-> disk.ver]]
      /\ pc' = [pc EXCEPT ![c] = "compare"]
  BY DEF ReloadStat
<1>3. /\ pc'[c] = "compare" /\ \A x \in Calls \ {c} : pc'[x] = pc[x] /\ saw'[x] = saw[x]
      /\ saw'[c].ver = disk.ver /\ saw'[c].kind = disk.kind
      /\ [kind |-> disk.kind, doc |-> EMPTY, ver |-> disk.ver] \in File
  BY <1>0, <1>2, EmptyIsDoc DEF TypeOK, File
<1>4. TypeOK'
  BY <1>0, <1>1, <1>2, <1>3 DEF TypeOK, File
<1>5. QInv'
  BY <1>0, <1>1, <1>2, MoveKeeps DEF Phases
<1>6. VInv'
  BY <1>0, <1>1, <1>3 DEF IInv, VInv
<1>7. SInv'
  BY <1>0, <1>1, <1>3 DEF IInv, SInv, InStep, Writing, Phase, Mutates
<1> QED BY <1>4, <1>5, <1>6, <1>7 DEF IInv

LEMMA ChangedKeeps ==
  ASSUME IInv, NEW c \in Calls, Changed(c)
  PROVE  IInv'
<1>0. TypeOK /\ QInv /\ pc[c] = "compare" /\ Running(c) /\ pc \in [Calls -> Phases]
  BY DEF IInv, Changed, Running, TypeOK, Phases
<1>1. /\ UNCHANGED <<disk, mem, stamp, queue, op, saw, snapshot, draft, got, rewrites, faults, excused>>
      /\ pc' = [pc EXCEPT ![c] = "read"]
  BY DEF Changed
<1>2. pc'[c] = "read" /\ \A x \in Calls \ {c} : pc'[x] = pc[x]
  BY <1>0, <1>1
<1>3. TypeOK'
  BY <1>0, <1>1, <1>2 DEF TypeOK
<1>4. QInv'
  BY <1>0, <1>1, MoveKeeps DEF Phases
<1>5. VInv'
  BY <1>1, <1>2 DEF IInv, VInv
<1>6. SInv'
  BY <1>0, <1>1, <1>2 DEF IInv, SInv, InStep, Writing, Phase, Mutates
<1> QED BY <1>3, <1>4, <1>5, <1>6 DEF IInv

LEMMA ReadKeeps ==
  ASSUME IInv, NEW c \in Calls, Read(c)
  PROVE  IInv'
<1>0. TypeOK /\ QInv /\ pc[c] = "read" /\ Running(c) /\ pc \in [Calls -> Phases] /\ disk \in File
  BY DEF IInv, Read, Running, TypeOK, Phases
<1>1. /\ UNCHANGED <<disk, mem, stamp, queue, op, snapshot, draft, got, rewrites, faults, excused>>
      /\ pc' = [pc EXCEPT ![c] = "assign"]
      /\ saw' = [saw EXCEPT ![c] = [disk EXCEPT !.ver = saw[c].ver]]
  BY DEF Read
<1>2. /\ pc'[c] = "assign" /\ \A x \in Calls \ {c} : pc'[x] = pc[x] /\ saw'[x] = saw[x]
      /\ saw'[c] \in File /\ saw'[c].ver = saw[c].ver
      /\ saw'[c].kind = disk.kind /\ saw'[c].doc = disk.doc
      /\ saw' \in [Calls -> File]
  BY <1>0, <1>1 DEF TypeOK, File
<1>3. TypeOK'
  BY <1>0, <1>1, <1>2 DEF TypeOK
<1>4. QInv'
  BY <1>0, <1>1, MoveKeeps DEF Phases
<1>5. VInv'
  BY <1>1, <1>2 DEF IInv, VInv
<1>6. SInv'
  BY <1>0, <1>1, <1>2 DEF IInv, SInv, InStep, Writing, Phase, Mutates
<1> QED BY <1>3, <1>4, <1>5, <1>6 DEF IInv

LEMMA RenameKeeps ==
  ASSUME IInv, NEW c \in Calls, Rename(c)
  PROVE  IInv'
<1>0. /\ TypeOK /\ QInv /\ pc[c] = "rename" /\ Running(c) /\ pc \in [Calls -> Phases] /\ disk \in File
      /\ Mutates(c) /\ disk.ver \in Nat
  BY DEF IInv, Rename, Running, TypeOK, Phases, QInv, File
<1>1. /\ UNCHANGED <<mem, stamp, queue, op, saw, snapshot, draft, got, rewrites, faults, excused>>
      /\ pc' = [pc EXCEPT ![c] = "restat"]
      /\ disk' = [kind |-> "doc", doc |-> draft, ver |-> disk.ver + 1]
  BY DEF Rename
<1>2. /\ pc'[c] = "restat" /\ \A x \in Calls \ {c} : pc'[x] = pc[x]
      /\ disk' \in File /\ disk'.kind = "doc" /\ disk'.doc = draft /\ disk'.ver = disk.ver + 1
  BY <1>0, <1>1 DEF TypeOK, File
<1>3. TypeOK'
  BY <1>0, <1>1, <1>2 DEF TypeOK, File
<1>4. QInv'
  BY <1>0, <1>1, MoveKeeps DEF Phases
<1>5. VInv'
  BY <1>0, <1>1, <1>2 DEF IInv, VInv, TypeOK, File
<1>6. SInv'
  <2> SUFFICES ASSUME ~excused PROVE InStep' /\ \A x \in Calls : Mutates(x)' => Phase(x)'
    BY <1>1 DEF SInv
  <2>1. InStep'
    BY <1>2 DEF InStep, Writing
  <2>2. Phase(c)'
    BY <1>0, <1>1, <1>2 DEF IInv, SInv, Phase, TypeOK
  <2>3. ASSUME NEW x \in Calls \ {c}, Mutates(x)' PROVE Phase(x)'
    <3>1. pc[x] \in {"idle", "queued", "done", "failed"}
      BY <1>0, <1>1, <2>3, Alone DEF Mutates
    <3> QED BY <1>2, <3>1 DEF Phase
  <2> QED BY <2>1, <2>2, <2>3
<1> QED BY <1>3, <1>4, <1>5, <1>6 DEF IInv

LEMMA RestatKeeps ==
  ASSUME IInv, NEW c \in Calls, Restat(c)
  PROVE  IInv'
<1>0. /\ TypeOK /\ QInv /\ pc[c] = "restat" /\ Running(c) /\ pc \in [Calls -> Phases] /\ disk \in File
      /\ Mutates(c)
  BY DEF IInv, Restat, Running, TypeOK, Phases, QInv
<1>1. /\ UNCHANGED <<disk, mem, stamp, queue, op, snapshot, draft, got, rewrites, faults, excused>>
      /\ pc' = [pc EXCEPT ![c] = "stamp"]
      /\ saw' = [saw EXCEPT ![c] = [kind |-> "doc", doc |-> EMPTY, ver |-> disk.ver]]
  BY DEF Restat
<1>2. /\ pc'[c] = "stamp" /\ \A x \in Calls \ {c} : pc'[x] = pc[x] /\ saw'[x] = saw[x]
      /\ saw'[c].ver = disk.ver /\ saw' \in [Calls -> File]
  BY <1>0, <1>1, EmptyIsDoc DEF TypeOK, File
<1>3. TypeOK'
  BY <1>0, <1>1, <1>2 DEF TypeOK, File
<1>4. QInv'
  BY <1>0, <1>1, MoveKeeps DEF Phases
<1>5. VInv'
  BY <1>1, <1>2 DEF IInv, VInv
<1>6. SInv'
  BY <1>0, <1>1, <1>2 DEF IInv, SInv, InStep, Writing, Phase, Mutates
<1> QED BY <1>3, <1>4, <1>5, <1>6 DEF IInv

-----------------------------------------------------------------------------
(* The reload: what the code makes of the answers. *)

\* While c has not written, nothing else is writing either.
LEMMA NotWriting ==
  ASSUME TypeOK, QInv, NEW c \in Calls, Mutates(c), pc[c] \in {"stat", "compare", "read", "assign"}
  PROVE  ~Writing
<1>1. Running(c)
  BY DEF Running
<1> QED BY <1>1, WritingIsRunning

\* A reload that ends with d keeps the invariant if d is the file's content
\* whenever c goes on to write it or the stamp says so.
LEMMA GoOnInv ==
  ASSUME IInv, NEW c \in Calls, pc[c] \in {"stat", "compare", "assign"},
         NEW d \in Doc, GoOn(c, d), UNCHANGED <<disk, op, rewrites>>,
         faults' \in Nat, excused' \in BOOLEAN, excused => excused',
         stamp' \in Nat, stamp' <= disk.ver,
         ~excused' /\ Mutates(c) => /\ disk.kind # "corrupt" /\ d = disk.doc
                                    /\ stamp' = disk.ver => disk.kind = "doc",
         ~excused' /\ ~Mutates(c) => \/ d = mem /\ stamp' = stamp
                                     \/ ~Writing /\ (stamp' = disk.ver => disk.kind = "doc" /\ d = disk.doc)
  PROVE  IInv'
<1>0. /\ TypeOK /\ QInv /\ Running(c) /\ pc \in [Calls -> Phases]
      /\ disk \in File /\ disk.ver \in Nat
  BY DEF IInv, Running, TypeOK, Phases, File
<1>1. /\ QInv'
      /\ queue' \in Seq(Calls) /\ pc' \in [Calls -> Phases] /\ saw' \in [Calls -> File]
      /\ mem' \in Doc /\ snapshot' \in Doc /\ draft' \in Doc /\ got' \in [Calls -> BOOLEAN]
      /\ \A x \in Calls : got'[x] => pc'[x] \in {"rename", "restat", "stamp", "done"}
      /\ saw'[c].ver = 0 /\ \A x \in Calls \ {c} : saw'[x] = saw[x]
      /\ Mutates(c) => /\ snapshot' = d /\ draft' = Apply(op[c], d) /\ mem' = draft'
                       /\ pc' = [pc EXCEPT ![c] = "rename"]
      /\ ~Mutates(c) => /\ mem' = d /\ UNCHANGED <<snapshot, draft>>
                        /\ pc' = [pc EXCEPT ![c] = "done"]
  BY <1>0, GoOnKeeps
<1>2. /\ \A x \in Calls \ {c} : pc'[x] = pc[x]
      /\ pc'[c] = IF Mutates(c) THEN "rename" ELSE "done"
      /\ \A x \in Calls : Mutates(x)' <=> Mutates(x)
  BY <1>0, <1>1 DEF Mutates
<1>3. TypeOK'
  <2>1. \A x \in Calls : saw'[x].ver <= disk'.ver
    BY <1>0, <1>1 DEF TypeOK
  <2>2. disk' \in File /\ rewrites' \in Nat /\ op' \in [Calls -> [kind : Methods, rows : SUBSET Rows]]
    BY <1>0 DEF TypeOK
  <2> QED BY <1>1, <2>1, <2>2 DEF TypeOK, Phases
<1>4. VInv'
  BY <1>1, <1>2 DEF IInv, VInv
<1>5. SInv'
  <2> SUFFICES ASSUME ~excused' PROVE InStep' /\ \A x \in Calls : Mutates(x)' => Phase(x)'
    BY DEF SInv
  <2>0. InStep /\ \A x \in Calls : Mutates(x) => Phase(x)
    BY DEF IInv, SInv
  <2>1. CASE Mutates(c)
    <3>1. InStep'
      BY <1>2, <2>1 DEF InStep, Writing
    <3>2. Phase(c)'
      BY <1>0, <1>1, <1>2, <2>1 DEF Phase
    <3>3. ASSUME NEW x \in Calls \ {c}, Mutates(x)' PROVE Phase(x)'
      <4>1. pc[x] \in {"idle", "queued", "done", "failed"}
        BY <1>0, <1>2, <2>1, <3>3, Alone
      <4> QED BY <1>2, <4>1 DEF Phase
    <3> QED BY <3>1, <3>2, <3>3
  <2>2. CASE ~Mutates(c)
    <3>1. Writing' <=> Writing
      <4>1. pc[c] \notin {"rename", "restat", "stamp"} /\ pc'[c] \notin {"rename", "restat", "stamp"}
        BY <1>2, <2>2
      <4> QED BY <1>2, <4>1 DEF Writing
    <3>2. InStep'
      BY <1>1, <2>0, <2>2, <3>1 DEF InStep
    <3>3. ASSUME NEW x \in Calls, Mutates(x)' PROVE Phase(x)'
      <4>1. x # c /\ Mutates(x) /\ Phase(x) /\ pc'[x] = pc[x] /\ saw'[x] = saw[x]
        BY <1>1, <1>2, <2>0, <2>2, <3>3
      <4>2. CASE d = mem /\ stamp' = stamp
        BY <1>1, <2>2, <4>1, <4>2 DEF Phase
      <4>3. CASE ~Writing
        <5>1. pc[x] \notin {"rename", "restat", "stamp"}
          BY <4>3 DEF Writing
        <5> QED BY <4>1, <5>1 DEF Phase
      <4> QED BY <2>2, <4>2, <4>3
    <3> QED BY <3>2, <3>3
  <2> QED BY <2>1, <2>2
<1> QED BY <1>1, <1>3, <1>4, <1>5 DEF IInv

LEMMA StatFailsKeeps ==
  ASSUME IInv, NEW c \in Calls, StatFails(c)
  PROVE  IInv'
<1>1. /\ TypeOK /\ QInv /\ pc[c] = "stat" /\ faults \in Nat /\ excused \in BOOLEAN
      /\ mem \in Doc /\ stamp \in Nat /\ stamp <= disk.ver
  BY DEF IInv, StatFails, TypeOK
<1>2. /\ GoOn(c, mem) /\ UNCHANGED <<disk, stamp, op, rewrites>> /\ faults' = faults + 1
      /\ excused' = (excused \/ (Mutates(c) /\ stamp # disk.ver))
  BY DEF StatFails, Fault
<1>3. ASSUME ~excused', Mutates(c) PROVE disk.kind = "doc" /\ mem = disk.doc
  BY <1>1, <1>2, <1>3, NotWriting DEF IInv, SInv, InStep
<1> QED BY <1>1, <1>2, <1>3, GoOnInv

LEMMA GoneKeeps ==
  ASSUME IInv, NEW c \in Calls, Gone(c)
  PROVE  IInv'
<1>1. /\ TypeOK /\ QInv /\ pc[c] = "compare" /\ saw[c].kind = "absent"
      /\ faults \in Nat /\ excused \in BOOLEAN /\ disk.ver \in Nat /\ disk.ver > 0
  BY DEF IInv, Gone, TypeOK, VInv, File
<1>2. /\ GoOn(c, EMPTY) /\ UNCHANGED <<disk, op, rewrites, faults>> /\ stamp' = 0
      /\ excused' = (excused \/ (~Mutates(c) /\ Writing))
  BY DEF Gone, Crossed
<1>3. ASSUME ~excused', Mutates(c) PROVE disk.kind = "absent" /\ disk.doc = EMPTY
  BY <1>1, <1>2, <1>3 DEF IInv, SInv, Phase, VInv
<1>4. EMPTY \in Doc /\ stamp' \in Nat /\ stamp' <= disk.ver /\ stamp' # disk.ver
      /\ excused' \in BOOLEAN /\ (excused => excused') /\ faults' \in Nat
  BY <1>1, <1>2, EmptyIsDoc
<1>5. ~excused' /\ ~Mutates(c) => ~Writing
  BY <1>2
<1> QED BY <1>1, <1>2, <1>3, <1>4, <1>5, GoOnInv

LEMMA UnchangedKeeps ==
  ASSUME IInv, NEW c \in Calls, Unchanged(c)
  PROVE  IInv'
<1>1. /\ TypeOK /\ QInv /\ pc[c] = "compare" /\ saw[c].ver = stamp
      /\ faults \in Nat /\ excused \in BOOLEAN
      /\ mem \in Doc /\ stamp \in Nat /\ stamp <= disk.ver
  BY DEF IInv, Unchanged, TypeOK
<1>2. GoOn(c, mem) /\ UNCHANGED <<disk, stamp, op, rewrites, faults, excused>>
  BY DEF Unchanged
<1>3. ASSUME ~excused', Mutates(c) PROVE disk.kind = "doc" /\ mem = disk.doc
  <2>1. ~excused /\ Phase(c) /\ InStep
    BY <1>2, <1>3 DEF IInv, SInv
  <2>2. stamp = disk.ver
    BY <1>1, <2>1 DEF Phase
  <2> QED BY <1>1, <1>3, <2>1, <2>2, NotWriting DEF InStep
<1> QED BY <1>1, <1>2, <1>3, GoOnInv

LEMMA AssignKeeps ==
  ASSUME IInv, NEW c \in Calls, Assign(c)
  PROVE  IInv'
<1>1. /\ TypeOK /\ QInv /\ pc[c] = "assign" /\ saw[c].kind = "doc" /\ saw[c] \in File
      /\ saw[c].ver <= disk.ver /\ saw[c].ver \in Nat /\ saw[c].doc \in Doc
      /\ faults \in Nat /\ excused \in BOOLEAN
  BY DEF IInv, Assign, TypeOK, File
<1>2. /\ GoOn(c, saw[c].doc) /\ UNCHANGED <<disk, op, rewrites, faults>> /\ stamp' = saw[c].ver
      /\ excused' = (excused \/ (~Mutates(c) /\ Writing))
  BY DEF Assign, Crossed
<1>3. ASSUME ~excused', Mutates(c) PROVE disk.kind = "doc" /\ saw[c].doc = disk.doc
  BY <1>1, <1>2, <1>3 DEF IInv, SInv, Phase
<1>4. stamp' = disk.ver => disk.kind = "doc" /\ saw[c].doc = disk.doc
  BY <1>1, <1>2 DEF IInv, VInv
<1>5. excused' \in BOOLEAN /\ (excused => excused') /\ (~excused' /\ ~Mutates(c) => ~Writing)
  BY <1>1, <1>2
<1> QED BY <1>1, <1>2, <1>3, <1>4, <1>5, GoOnInv

-----------------------------------------------------------------------------
(* The end of a mutation, and other programs. *)

\* A call that ends keeps the invariant if memory is then the file's content
\* whenever the stamp says so, or a getter ends and nothing has changed.
LEMMA EndInv ==
  ASSUME IInv, NEW c \in Calls, Running(c), NEW how \in {"done", "failed"}, End(c, how),
         UNCHANGED <<disk, op, rewrites, excused>>, faults' \in Nat,
         mem' \in Doc, stamp' \in Nat, stamp' <= disk.ver, snapshot' \in Doc, draft' \in Doc,
         got' \in [Calls -> BOOLEAN], \A x \in Calls : got'[x] => got[x],
         how = "failed" => ~got'[c],
         ~excused /\ Mutates(c) => (stamp' = disk.ver => disk.kind = "doc" /\ mem' = disk.doc),
         ~Mutates(c) => UNCHANGED <<mem, stamp, snapshot, draft>>
  PROVE  IInv'
<1>0. TypeOK /\ QInv /\ pc \in [Calls -> Phases] /\ disk \in File
  BY DEF IInv, TypeOK, Phases
<1>1. /\ QInv'
      /\ queue' \in Seq(Calls) /\ pc' \in [Calls -> Phases] /\ saw' \in [Calls -> File]
      /\ pc'[c] = how
      /\ \A x \in Calls \ {c} : /\ pc'[x] = pc[x] \/ (pc[x] = "queued" /\ pc'[x] = "stat")
                                /\ saw'[x] = saw[x]
      /\ saw'[c].ver = 0
  BY <1>0, EndKeeps
<1>2. TypeOK'
  <2>1. \A x \in Calls : got'[x] => pc'[x] \in {"rename", "restat", "stamp", "done"}
    <3> TAKE x \in Calls
    <3>1. got[x] => pc[x] \in {"rename", "restat", "stamp", "done"}
      BY <1>0 DEF TypeOK
    <3> QED BY <1>1, <3>1
  <2>2. \A x \in Calls : saw'[x].ver <= disk'.ver
    <3>1. disk.ver \in Nat /\ 0 <= disk.ver /\ disk' = disk
      BY <1>0 DEF File
    <3>2. \A x \in Calls : saw[x].ver <= disk.ver
      BY <1>0 DEF TypeOK
    <3> QED BY <1>1, <3>1, <3>2
  <2>3. /\ disk' \in File /\ rewrites' \in Nat /\ excused' \in BOOLEAN
        /\ op' \in [Calls -> [kind : Methods, rows : SUBSET Rows]]
    BY <1>0 DEF TypeOK
  <2> QED BY <1>1, <2>1, <2>2, <2>3 DEF TypeOK, Phases
<1>3. VInv'
  BY <1>1 DEF IInv, VInv
<1>4. SInv'
  <2> SUFFICES ASSUME ~excused PROVE InStep' /\ \A x \in Calls : Mutates(x)' => Phase(x)'
    BY DEF SInv
  <2>0. InStep /\ \A x \in Calls : Mutates(x) => Phase(x)
    BY DEF IInv, SInv
  <2>1. ASSUME NEW x \in Calls, Mutates(x)' PROVE Phase(x)'
    <3>1. CASE x = c
      BY <1>1, <3>1 DEF Phase
    <3>2. CASE x # c /\ Mutates(c)
      <4>1. pc[x] \in {"idle", "queued", "done", "failed"}
        BY <1>0, <2>1, <3>2, Alone DEF Mutates
      <4> QED BY <1>1, <3>2, <4>1 DEF Phase
    <3>3. CASE x # c /\ ~Mutates(c)
      <4>1. Phase(x)
        BY <2>0, <2>1 DEF Mutates
      <4> QED BY <1>1, <3>3, <4>1 DEF Phase
    <3> QED BY <3>1, <3>2, <3>3
  <2>2. InStep'
    <3>1. CASE Mutates(c)
      BY <3>1 DEF InStep
    <3>2. CASE ~Mutates(c)
      <4>1. Writing => Writing'
        BY <1>0, <1>1, <3>2 DEF Writing, QInv
      <4> QED BY <2>0, <3>2, <4>1 DEF InStep
    <3> QED BY <3>1, <3>2
  <2> QED BY <2>1, <2>2
<1> QED BY <1>1, <1>2, <1>3, <1>4 DEF IInv

LEMMA ReloadFailsKeeps ==
  ASSUME IInv, NEW c \in Calls, ReloadFails(c)
  PROVE  IInv'
<1>1. /\ TypeOK /\ QInv /\ pc[c] \in {"assign", "read"} /\ Running(c) /\ faults \in Nat /\ ~got[c]
      /\ mem \in Doc /\ stamp \in Nat /\ stamp <= disk.ver /\ snapshot \in Doc /\ draft \in Doc
      /\ got \in [Calls -> BOOLEAN]
  BY DEF IInv, ReloadFails, TypeOK, Running
<1>2. /\ End(c, "failed") /\ UNCHANGED <<disk, mem, stamp, op, snapshot, draft, got, rewrites, excused>>
      /\ faults' \in Nat
  BY <1>1 DEF ReloadFails, Fault
<1>3. ~excused /\ Mutates(c) => (stamp = disk.ver => disk.kind = "doc" /\ mem = disk.doc)
  BY <1>1, NotWriting DEF IInv, SInv, InStep
<1> QED BY <1>1, <1>2, <1>3, EndInv

LEMMA RestampKeeps ==
  ASSUME IInv, NEW c \in Calls, Restamp(c)
  PROVE  IInv'
<1>1. /\ TypeOK /\ QInv /\ pc[c] = "stamp" /\ Running(c) /\ Mutates(c) /\ faults \in Nat
      /\ mem \in Doc /\ saw[c].ver \in Nat /\ saw[c].ver <= disk.ver /\ got \in [Calls -> BOOLEAN]
  BY DEF IInv, Restamp, TypeOK, Running, QInv, File
<1>2. /\ End(c, "done") /\ UNCHANGED <<disk, mem, op, got, rewrites, faults, excused>>
      /\ stamp' = saw[c].ver /\ snapshot' = EMPTY /\ draft' = EMPTY
  BY DEF Restamp
<1>3. ~excused => (stamp' = disk.ver => disk.kind = "doc" /\ mem = disk.doc)
  BY <1>1, <1>2 DEF IInv, SInv, Phase
<1> QED BY <1>1, <1>2, <1>3, EmptyIsDoc, EndInv

LEMMA WriteFailsKeeps ==
  ASSUME IInv, NEW c \in Calls, WriteFails(c)
  PROVE  IInv'
<1>1. /\ TypeOK /\ QInv /\ pc[c] \in {"rename", "restat"} /\ Running(c) /\ Mutates(c) /\ faults \in Nat
      /\ snapshot \in Doc /\ stamp \in Nat /\ stamp <= disk.ver /\ got \in [Calls -> BOOLEAN]
  BY DEF IInv, WriteFails, TypeOK, Running, QInv
<1>2. /\ End(c, "failed") /\ UNCHANGED <<disk, stamp, op, rewrites, excused>> /\ faults' \in Nat
      /\ mem' = snapshot /\ snapshot' = EMPTY /\ draft' = EMPTY
      /\ got' = [got EXCEPT ![c] = FALSE]
  BY <1>1 DEF WriteFails, Fault, RolledBack, NoAnswer
<1>3. ~excused => (stamp = disk.ver => disk.kind = "doc" /\ snapshot = disk.doc)
  BY <1>1 DEF IInv, SInv, Phase
<1>4. got' \in [Calls -> BOOLEAN] /\ ~got'[c] /\ \A x \in Calls : got'[x] => got[x]
  BY <1>1, <1>2
<1> QED BY <1>1, <1>2, <1>3, <1>4, EmptyIsDoc, EndInv

LEMMA RewriteKeeps ==
  ASSUME IInv, Rewrite
  PROVE  IInv'
<1>0. TypeOK /\ disk \in File /\ disk.ver \in Nat /\ rewrites \in Nat
  BY DEF IInv, TypeOK, File
<1>1. /\ UNCHANGED <<mem, stamp, queue, pc, op, saw, snapshot, draft, got, faults>>
      /\ rewrites' = rewrites + 1
      /\ excused' = (excused \/ \E c \in Calls : Mutates(c) /\ pc[c] \in {"compare", "assign", "rename", "restat"})
  BY DEF Rewrite
<1>2. /\ disk' \in File /\ disk'.ver = disk.ver + 1
      /\ disk'.kind = "absent" => disk'.doc = EMPTY
  <2>1. CASE \E d \in Rewritten : disk' = [kind |-> "doc", doc |-> d, ver |-> disk.ver + 1]
    <3>1. PICK d \in Rewritten : disk' = [kind |-> "doc", doc |-> d, ver |-> disk.ver + 1]
      BY <2>1
    <3>2. d \in Doc
      BY <1>0, EmptyIsDoc DEF Rewritten, Doc, File
    <3> QED BY <1>0, <3>1, <3>2 DEF File
  <2>2. CASE \E k \in {"corrupt", "absent"} : disk' = [kind |-> k, doc |-> EMPTY, ver |-> disk.ver + 1]
    BY <1>0, <2>2, EmptyIsDoc DEF File
  <2> QED BY <2>1, <2>2 DEF Rewrite
<1>3. \A c \in Calls : saw[c] \in File /\ saw[c].ver \in Nat /\ saw[c].ver <= disk.ver
  BY <1>0 DEF TypeOK, File
<1>4. TypeOK'
  <2>1. excused' \in BOOLEAN
    BY <1>0, <1>1 DEF TypeOK
  <2> QED BY <1>0, <1>1, <1>2, <1>3, <2>1 DEF TypeOK
<1>5. QInv'
  BY <1>1 DEF IInv, QInv, Running, Mutates
<1>6. VInv'
  BY <1>0, <1>1, <1>2, <1>3 DEF IInv, VInv
<1>7. SInv'
  <2> SUFFICES ASSUME ~excused' PROVE InStep' /\ \A c \in Calls : Mutates(c)' => Phase(c)'
    BY DEF SInv
  <2>1. InStep'
    BY <1>0, <1>1, <1>2 DEF InStep, TypeOK
  <2>2. ASSUME NEW c \in Calls, Mutates(c)' PROVE Phase(c)'
    <3>1. pc[c] \notin {"compare", "assign", "rename", "restat"}
      BY <1>1, <2>2 DEF Mutates
    <3>2. saw'[c].ver # disk'.ver
      BY <1>0, <1>1, <1>2, <1>3
    <3> QED BY <1>1, <3>1, <3>2 DEF Phase
  <2> QED BY <2>1, <2>2
<1> QED BY <1>4, <1>5, <1>6, <1>7 DEF IInv

-----------------------------------------------------------------------------
LEMMA StepKeeps == IInv /\ [Next]_vars => IInv'
<1> SUFFICES ASSUME IInv, [Next]_vars PROVE IInv'
  OBVIOUS
<1>1. CASE Rewrite
  BY <1>1, RewriteKeeps
<1>2. ASSUME NEW c \in Calls, Invoke(c) PROVE IInv'
  BY <1>2, InvokeKeeps
<1>3. ASSUME NEW c \in Calls, Step(c) PROVE IInv'
  BY <1>3, ReloadStatKeeps, StatFailsKeeps, GoneKeeps, UnchangedKeeps, ChangedKeeps, ReadKeeps,
     AssignKeeps, ReloadFailsKeeps, RenameKeeps, RestatKeeps, RestampKeeps, WriteFailsKeeps DEF Step
<1>4. CASE UNCHANGED vars
  <2>1. UNCHANGED <<disk, mem, stamp, queue, pc, op, saw, snapshot, draft, got, rewrites, faults, excused>>
    BY <1>4 DEF vars
  <2>2. TypeOK' /\ QInv' /\ VInv'
    BY <2>1 DEF IInv, TypeOK, QInv, VInv, Running, Mutates
  <2>3. SInv'
    BY <2>1 DEF IInv, SInv, InStep, Writing, Phase, Mutates
  <2> QED BY <2>2, <2>3 DEF IInv
<1> QED BY <1>1, <1>2, <1>3, <1>4 DEF Next

\* Where the calls, the queue, memory and the file stand to each other.
THEOREM StoreInvariant == Spec => []IInv
<1> QED BY InitInv, StepKeeps, PTL DEF Spec

\* The variables keep their types, and no stamp runs ahead of the file.
THEOREM StoreTypeOK == Spec => []TypeOK
<1>1. IInv => TypeOK
  BY DEF IInv
<1> QED BY <1>1, StoreInvariant, PTL

\* The queue of mutations never stops and never lets two of them run.
THEOREM StoreQueueMoves == Spec => []QueueMoves
<1>1. IInv => QueueMoves
  BY QueueMovesFrom DEF IInv
<1> QED BY <1>1, StoreInvariant, PTL

\* Every write is its operation applied to what the file holds, unless a
\* rewrite or a getter's reload has fallen into a mutation's windows.
THEOREM StoreSerialWrites == Spec => SerialWrites
<1> DEFINE Serial == \A c \in Calls : pc[c] = "rename" /\ pc'[c] = "restat" /\ ~excused =>
                       disk.kind # "corrupt" /\ disk'.doc = Apply(op[c], disk.doc)
<1>1. IInv /\ [Next]_vars => [Serial]_vars
  <2> SUFFICES ASSUME IInv, Next, NEW c \in Calls, pc[c] = "rename", pc'[c] = "restat", ~excused
               PROVE  disk.kind # "corrupt" /\ disk'.doc = Apply(op[c], disk.doc)
    BY DEF vars
  <2>1. disk.kind # "corrupt" /\ draft = Apply(op[c], disk.doc)
    BY DEF IInv, SInv, Phase, QInv
  <2>2. Rename(c)
    <3>0. pc \in [Calls -> Phases] /\ queue \in Seq(Calls) /\ TypeOK /\ QInv
      BY DEF IInv, TypeOK, Phases
    <3>1. ~Rewrite
      BY DEF Rewrite
    <3>2. ASSUME NEW x \in Calls, Invoke(x) PROVE FALSE
      <4>1. pc[x] = "idle" /\ (pc' = [pc EXCEPT ![x] = "stat"]
                              \/ pc' = [pc EXCEPT ![x] = IF queue = <<>> THEN "stat" ELSE "queued"])
        BY <3>2 DEF Invoke
      <4> QED BY <3>0, <4>1
    <3>3. ASSUME NEW x \in Calls, Step(x) PROVE Rename(c)
      <4>1. ASSUME NEW how \in {"done", "failed"}, Running(x), End(x, how), UNCHANGED op PROVE FALSE
        <5>1. pc'[x] = how /\ \A y \in Calls \ {x} : pc'[y] = pc[y] \/ (pc[y] = "queued" /\ pc'[y] = "stat")
          BY <3>0, <4>1, EndKeeps
        <5> QED BY <5>1
      <4>2. ASSUME NEW d \in Doc, pc[x] \in {"stat", "compare", "assign"}, GoOn(x, d), UNCHANGED op PROVE FALSE
        <5>1. pc' = [pc EXCEPT ![x] = "rename"] \/ pc' = [pc EXCEPT ![x] = "done"]
          BY <3>0, <4>2, GoOnKeeps
        <5> QED BY <3>0, <4>2, <5>1
      <4>3. mem \in Doc /\ EMPTY \in Doc /\ saw[x].doc \in Doc
        BY <3>0, EmptyIsDoc DEF TypeOK, File
      <4>4. ~StatFails(x) /\ ~Gone(x) /\ ~Unchanged(x) /\ ~Assign(x)
        BY <4>2, <4>3 DEF StatFails, Gone, Unchanged, Assign
      <4>5. ~ReloadFails(x) /\ ~Restamp(x) /\ ~WriteFails(x)
        BY <4>1 DEF ReloadFails, Restamp, WriteFails, Running
      <4>6. ~ReloadStat(x) /\ ~Changed(x) /\ ~Read(x) /\ ~Restat(x)
        BY <3>0 DEF ReloadStat, Changed, Read, Restat
      <4>7. Rename(x) => x = c
        BY <3>0 DEF Rename
      <4> QED BY <3>3, <4>4, <4>5, <4>6, <4>7 DEF Step
    <3> QED BY <3>1, <3>2, <3>3 DEF Next
  <2> QED BY <2>1, <2>2 DEF Rename
<1> QED BY <1>1, StoreInvariant, PTL DEF Spec, SerialWrites

-----------------------------------------------------------------------------
(* What a code and a pending authorization have been through. *)

Puts(c) == op[c].kind = "put"

\* The call puts its record later, if at all.
PutsLater(c) == Puts(c) /\ pc[c] \in {"queued", "stat", "compare", "read", "assign", "rename"}

\* Names are given once, those of pending authorizations in their order.
NInv ==
  /\ \A c \in Calls : /\ Puts(c) => \E r \in Rows : op[c].rows = {r}
                      /\ op[c].kind = "consumeCode" => op[c].rows = {} \/ \E k \in Codes : op[c].rows = {k}
                      /\ got[c] => op[c].kind = "consumeCode"
  /\ \A c, d \in Calls : c # d /\ Puts(c) /\ Puts(d) => op[c].rows \intersect op[d].rows = {}
  /\ \A c \in Calls : Puts(c) => \A p \in op[c].rows, d \in Opened : d[p] = "none"
                                   /\ (p \in Pendings => \A q \in Pendings : d[q] # "none" => q < p)

\* No call can find the code any more.
Spent(k) == disk.doc[k] # "live" /\ k \in Named /\ \A c \in Calls : PutsLater(c) => k \notin op[c].rows

\* A pending authorization is there, or a newer one has come, or one was removed.
StillThere(p) ==
  \/ p \in Present(disk.doc)
  \/ \E d \in Calls : \/ Puts(d) /\ \E q \in op[d].rows \intersect Pendings : q > p
                      \/ op[d].kind \in {"deletePending", "revokeAll", "sweepExpired"}

Clean == ~excused /\ rewrites = 0

\* What was put and what was found, as long as nobody else has interfered.
HInv ==
  /\ \A r \in Rows : disk.doc[r] # "none" => r \in Named
  /\ \A c \in Calls : PutsLater(c) => \A r \in op[c].rows : disk.doc[r] = "none"
  /\ \A c \in Calls : got[c] => IF pc[c] = "rename" THEN \E k \in op[c].rows : disk.doc[k] = "live"
                                ELSE op[c].rows # {} /\ \A k \in op[c].rows : Spent(k)
  /\ \A c, d \in Calls : c # d /\ got[c] /\ got[d] => op[c].rows # op[d].rows
  /\ IsFiniteSet(Present(disk.doc)) /\ Cardinality(Present(disk.doc)) <= MaxPending
  /\ \A c \in Calls : Puts(c) /\ op[c].rows \subseteq Pendings /\ pc[c] \in {"restat", "stamp", "done"} =>
                        \A p \in op[c].rows : StillThere(p)

LInv == Clean => NInv /\ HInv

\* A finite set of numbers that is not empty has a least one.
LEMMA LeastOf ==
  ASSUME NEW S \in SUBSET Nat, S # {}, IsFiniteSet(S)
  PROVE  \E m \in S : \A n \in S : m <= n
<1> DEFINE Below(n) == {k \in S : k < n}
           T == {Below(n) : n \in S}
<1>1. T # {} /\ T \subseteq FiniteSubsetsOf(S)
  <2>1. \A n \in S : Below(n) \in SUBSET S /\ IsFiniteSet(Below(n))
    BY FS_Subset
  <2> QED BY <2>1 DEF FiniteSubsetsOf
<1>2. PICK B \in T : \A C \in T : ~ (<<C, B>> \in StrictSubsetOrdering(S))
  <2> HIDE DEF T
  <2> QED BY <1>1, FS_StrictSubsetOrderingWellFounded, WFMin
<1>3. PICK m \in S : B = Below(m)
  OBVIOUS
<1>4. ASSUME NEW n \in S, n < m PROVE FALSE
  <2>1. Below(n) \subseteq Below(m) /\ n \in Below(m) /\ n \notin Below(n)
    <3>1. n \in Nat /\ m \in Nat /\ \A k \in S : k \in Nat
      OBVIOUS
    <3>2. \A k \in S : k < n => k < m
      BY <1>4, <3>1
    <3>3. ~ (n < n)
      BY <3>1
    <3> QED BY <1>4, <3>2, <3>3
  <2>2. <<Below(n), Below(m)>> \in StrictSubsetOrdering(S)
    BY <2>1 DEF StrictSubsetOrdering
  <2> QED BY <1>2, <1>3, <2>2
<1> QED BY <1>4

\* Trimming what is one over the limit takes at most the oldest, and leaves
\* what the limit allows.
LEMMA TrimmedKeeps ==
  ASSUME NEW d \in Doc, IsFiniteSet(Present(d)), Cardinality(Present(d)) <= MaxPending + 1
  PROVE  /\ \A r \in Rows : Trimmed(d)[r] \in {d[r], "none"}
         /\ \A r \in Rows \ Pendings : Trimmed(d)[r] = d[r]
         /\ IsFiniteSet(Present(Trimmed(d))) /\ Cardinality(Present(Trimmed(d))) <= MaxPending
         /\ \A p \in Present(d) \ Present(Trimmed(d)) : \E q \in Present(d) : q > p
<1> DEFINE P == Present(d)
           Before(p) == {q \in P : q < p}
           old == {p \in P : Cardinality(Before(p)) < Cardinality(P) - MaxPending}
<1>1. /\ MaxPending \in Nat \ {0} /\ P \subseteq Nat /\ P \subseteq Pendings /\ P \subseteq Rows
      /\ IsFiniteSet(P) /\ Cardinality(P) \in Nat /\ Cardinality(P) <= MaxPending + 1
  BY StoreAssumption, FS_CardinalityType DEF Present, Rows
<1>2. Trimmed(d) = [r \in Rows |-> IF r \in old THEN "none" ELSE d[r]]
  BY DEF Trimmed
<1>3. \A p \in P : d[p] # "none"
  BY DEF Present
<1>4. \A p \in P : IsFiniteSet(Before(p)) /\ Cardinality(Before(p)) \in Nat
  BY <1>1, FS_Subset, FS_CardinalityType
<1>p. Present(Trimmed(d)) = P \ old
  <2>1. \A p \in Pendings : p \in Rows
    BY DEF Rows
  <2> HIDE DEF old
  <2> QED BY <1>2, <2>1 DEF Present
<1>5. CASE Cardinality(P) <= MaxPending
  <2>1. old = {}
    BY <1>1, <1>4, <1>5
  <2> QED BY <1>1, <1>2, <1>p, <1>5, <2>1
<1>6. CASE Cardinality(P) = MaxPending + 1
  <2>1. P # {}
    BY <1>1, <1>6, FS_EmptySet
  <2>2. PICK m \in P : \A n \in P : m <= n
    BY <1>1, <2>1, LeastOf
  <2>3. Before(m) = {}
    BY <1>1, <2>2
  <2>4. m \in old
    <3>1. Cardinality(Before(m)) = 0
      BY <2>3, FS_EmptySet
    <3> QED BY <1>1, <1>6, <3>1
  <2>5. ASSUME NEW p \in P, p # m PROVE p \notin old
    <3>1. m \in Before(p)
      BY <1>1, <2>2, <2>5
    <3>2. Cardinality(Before(p)) # 0
      BY <1>4, <3>1, FS_EmptySet
    <3> QED BY <1>1, <1>4, <1>6, <3>2
  <2>6. old = {m}
    BY <2>4, <2>5
  <2>7. IsFiniteSet(P \ {m}) /\ Cardinality(P \ {m}) = MaxPending
    <3>1. IsFiniteSet(P \ {m}) /\ Cardinality(P \ {m}) = Cardinality(P) - 1
      BY <1>1, FS_RemoveElement
    <3> QED BY <1>1, <1>6, <3>1
  <2>8. \E q \in P : q > m
    <3>1. P \ {m} # {}
      BY <1>1, <2>7, FS_EmptySet
    <3>2. PICK q \in P \ {m} : TRUE
      BY <3>1
    <3> QED BY <1>1, <2>2, <3>2
  <2>9. Present(Trimmed(d)) = P \ {m}
    BY <1>p, <2>6
  <2>10. \A r \in Rows : Trimmed(d)[r] = IF r = m THEN "none" ELSE d[r]
    BY <1>2, <2>6
  <2>11. m \in Pendings
    BY <1>1
  <2> HIDE DEF old, P
  <2> QED BY <1>1, <2>7, <2>8, <2>9, <2>10, <2>11 DEF P
<1> QED BY <1>1, <1>5, <1>6

LEMMA WithRecord ==
  ASSUME NEW x \in Doc, NEW S, NEW v \in {"none", "used"}, NEW r \in Rows
  PROVE  /\ With(x, S, v) \in Doc
         /\ With(x, S, v)[r] # "none" => x[r] # "none"
         /\ With(x, S, v)[r] = "live" => x[r] = "live" /\ r \notin S
         /\ v = "used" /\ x[r] # "none" => With(x, S, v)[r] # "none"
BY DEF With, Doc

\* The record a method puts, if it does.
NewRows(o) == IF o.kind = "put" THEN o.rows ELSE {}

\* What the method o does to one record when it makes e of d.
Recorded(o, d, e) ==
  /\ \A r \in Rows \ NewRows(o) : /\ e[r] # "none" => d[r] # "none"
                                  /\ e[r] = "live" => d[r] = "live"
  /\ o.kind = "consumeCode" => \A k \in o.rows : e[k] # "live"
  /\ IsFiniteSet(Present(e)) /\ Cardinality(Present(e)) <= MaxPending
  /\ \A p \in Pendings : (p \in Present(d) \/ p \in NewRows(o)) =>
       \/ p \in Present(e)
       \/ o.kind \in {"deletePending", "revokeAll", "sweepExpired"}
       \/ o.kind = "put" /\ \E q \in Present(d) \union (NewRows(o) \intersect Pendings) : q > p

LEMMA ApplyRecord ==
  ASSUME NEW o \in [kind : Methods, rows : SUBSET Rows], NEW d \in Doc,
         o.kind = "put" => \E r \in Rows : o.rows = {r},
         IsFiniteSet(Present(d)), Cardinality(Present(d)) <= MaxPending
  PROVE  Recorded(o, d, Apply(o, d))
<1> DEFINE e == Apply(o, d)
<1>0. /\ MaxPending \in Nat /\ Pendings \subseteq Rows /\ e \in Doc
      /\ Cardinality(Present(d)) \in Nat
  BY StoreAssumption, ApplyType, FS_CardinalityType DEF Rows
<1>1. ASSUME NEW x \in Doc, Present(x) \subseteq Present(d)
      PROVE  IsFiniteSet(Present(x)) /\ Cardinality(Present(x)) <= MaxPending
  <2>1. IsFiniteSet(Present(x)) /\ Cardinality(Present(x)) <= Cardinality(Present(d))
    BY <1>1, FS_Subset
  <2> QED BY <1>0, <2>1, FS_CardinalityType
<1>3. CASE o.kind = "put"
  <2> DEFINE new == [r \in Rows |-> IF r \in o.rows THEN "live" ELSE d[r]]
  <2>1. PICK p \in Rows : o.rows = {p}
    BY <1>3
  <2>2. new \in Doc /\ \A r \in Rows : new[r] = IF r = p THEN "live" ELSE d[r]
    BY <2>1 DEF Doc
  <2>3. e = IF o.rows \subseteq Pendings THEN Trimmed(new) ELSE new
    BY <1>3 DEF Apply
  <2> HIDE DEF new, e
  <2>4. CASE p \in Pendings
    <3>1. Present(new) = Present(d) \union {p}
      BY <1>0, <2>2, <2>4 DEF Present
    <3>2. IsFiniteSet(Present(new)) /\ Cardinality(Present(new)) <= MaxPending + 1
      <4>1. IsFiniteSet(Present(new)) /\ (\/ Cardinality(Present(new)) = Cardinality(Present(d))
                                         \/ Cardinality(Present(new)) = Cardinality(Present(d)) + 1)
        BY <3>1, FS_AddElement
      <4> QED BY <1>0, <4>1
    <3>3. e = Trimmed(new)
      BY <2>1, <2>3, <2>4
    <3>4. /\ \A r \in Rows : e[r] \in {new[r], "none"}
          /\ IsFiniteSet(Present(e)) /\ Cardinality(Present(e)) <= MaxPending
          /\ \A q \in Present(new) \ Present(e) : \E z \in Present(new) : z > q
      BY <2>2, <3>2, <3>3, TrimmedKeeps
    <3>5. \A r \in Rows \ o.rows : (e[r] # "none" => d[r] # "none") /\ (e[r] = "live" => d[r] = "live")
      BY <2>1, <2>2, <3>4
    <3>6. \A q \in Pendings : (q \in Present(d) \/ q \in o.rows) =>
              q \in Present(e) \/ \E z \in Present(d) \union (o.rows \intersect Pendings) : z > q
      BY <2>1, <2>4, <3>1, <3>4
    <3> QED BY <1>3, <3>4, <3>5, <3>6 DEF e, NewRows, Recorded
  <2>5. CASE p \notin Pendings
    <3>1. e = new
      BY <2>1, <2>3, <2>5
    <3>2. Present(e) = Present(d)
      BY <1>0, <2>2, <2>5, <3>1 DEF Present
    <3>3. \A r \in Rows \ o.rows : e[r] = d[r]
      BY <2>1, <2>2, <3>1
    <3>4. \A q \in Pendings : q \notin o.rows
      BY <2>1, <2>5
    <3> QED BY <1>3, <3>2, <3>3, <3>4 DEF e, NewRows, Recorded
  <2> QED BY <2>4, <2>5
<1>4. CASE o.kind = "deletePending"
  <2>1. e = With(d, o.rows, "none")
    BY <1>4 DEF Apply
  <2> HIDE DEF e
  <2>2. \A r \in Rows : (e[r] # "none" => d[r] # "none") /\ (e[r] = "live" => d[r] = "live")
    BY <2>1, WithRecord
  <2>3. Present(e) \subseteq Present(d)
    BY <1>0, <2>2 DEF Present
  <2> QED BY <1>0, <1>1, <1>4, <2>2, <2>3 DEF e, NewRows, Recorded
<1>5. CASE o.kind \in {"consumeCode", "mark"}
  <2>1. e = With(d, o.rows, "used")
    BY <1>5 DEF Apply
  <2> HIDE DEF e
  <2>2. \A r \in Rows : (e[r] # "none" <=> d[r] # "none") /\ (e[r] = "live" => d[r] = "live" /\ r \notin o.rows)
    BY <2>1, WithRecord
  <2>3. Present(e) = Present(d)
    BY <1>0, <2>2 DEF Present
  <2>4. o.rows \subseteq Rows
    OBVIOUS
  <2> QED BY <1>0, <1>1, <1>5, <2>2, <2>3, <2>4 DEF e, NewRows, Recorded
<1>6. CASE o.kind = "revokeAll"
  <2> DEFINE x == With(d, Tokens, "used")
  <2>1. e = With(x, Pendings \union Codes, "none")
    BY <1>6 DEF Apply
  <2>2. x \in Doc
    BY ApplyType, WithRecord DEF With, Doc
  <2>3. \A r \in Rows : (x[r] # "none" => d[r] # "none") /\ (x[r] = "live" => d[r] = "live")
    BY WithRecord
  <2> HIDE DEF e, x
  <2>4. \A r \in Rows : (e[r] # "none" => x[r] # "none") /\ (e[r] = "live" => x[r] = "live")
    BY <2>1, <2>2, WithRecord
  <2>5. Present(e) \subseteq Present(d)
    BY <1>0, <2>3, <2>4 DEF Present
  <2> QED BY <1>0, <1>1, <1>6, <2>3, <2>4, <2>5 DEF e, NewRows, Recorded
<1>7. CASE o.kind = "sweepExpired"
  <2> DEFINE S == o.rows \union {k \in Codes : d[k] = "used"}
  <2>1. e = With(d, S, "none")
    BY <1>7 DEF Apply
  <2> HIDE DEF e, S
  <2>2. \A r \in Rows : (e[r] # "none" => d[r] # "none") /\ (e[r] = "live" => d[r] = "live")
    BY <2>1, WithRecord
  <2>3. Present(e) \subseteq Present(d)
    BY <1>0, <2>2 DEF Present
  <2> QED BY <1>0, <1>1, <1>7, <2>2, <2>3 DEF e, NewRows, Recorded
<1>8. CASE o.kind = "get"
  <2>1. e = d
    BY <1>8 DEF Apply
  <2> QED BY <1>0, <1>8, <2>1 DEF e, NewRows, Recorded
<1> QED BY <1>3, <1>4, <1>5, <1>6, <1>7, <1>8 DEF Methods

\* A mutation that goes on without interference goes on with what the file holds.
LEMMA GoOnFromDisk ==
  ASSUME IInv, NEW c \in Calls, Mutates(c), ~excused',
         StatFails(c) \/ Gone(c) \/ Unchanged(c) \/ Assign(c)
  PROVE  GoOn(c, disk.doc) /\ pc[c] \in {"stat", "compare", "assign"} /\ UNCHANGED <<disk, op>>
<1>0. TypeOK /\ QInv /\ mem \in Doc /\ stamp \in Nat
  BY DEF IInv, TypeOK
<1>1. CASE StatFails(c)
  <2>1. pc[c] = "stat" /\ GoOn(c, mem) /\ UNCHANGED <<disk, op>> /\ ~excused /\ stamp = disk.ver
    BY <1>1 DEF StatFails
  <2>2. mem = disk.doc
    BY <1>0, <2>1, NotWriting DEF IInv, SInv, InStep
  <2> QED BY <2>1, <2>2
<1>2. CASE Gone(c)
  <2>1. pc[c] = "compare" /\ saw[c].kind = "absent" /\ GoOn(c, EMPTY) /\ UNCHANGED <<disk, op>> /\ ~excused
    BY <1>2 DEF Gone, Crossed
  <2>2. EMPTY = disk.doc
    BY <2>1 DEF IInv, SInv, Phase, VInv
  <2> QED BY <2>1, <2>2
<1>3. CASE Unchanged(c)
  <2>1. /\ pc[c] = "compare" /\ saw[c].ver = stamp /\ GoOn(c, mem) /\ UNCHANGED <<disk, op>> /\ ~excused
    BY <1>3 DEF Unchanged
  <2>2. stamp = disk.ver /\ InStep
    BY <2>1 DEF IInv, SInv, Phase
  <2>3. mem = disk.doc
    BY <1>0, <2>1, <2>2, NotWriting DEF InStep
  <2> QED BY <2>1, <2>3
<1>4. CASE Assign(c)
  <2>1. pc[c] = "assign" /\ GoOn(c, saw[c].doc) /\ UNCHANGED <<disk, op>> /\ ~excused
    BY <1>4 DEF Assign, Crossed
  <2>2. saw[c].doc = disk.doc
    BY <2>1 DEF IInv, SInv, Phase
  <2> QED BY <2>1, <2>2
<1> QED BY <1>1, <1>2, <1>3, <1>4

\* A mutation has its change in memory, made of what the file holds.
Begins(c) ==
  /\ Mutates(c) /\ pc[c] \in {"stat", "compare", "assign"} /\ UNCHANGED <<disk, op>>
  /\ pc' = [pc EXCEPT ![c] = "rename"]
  /\ got' = [got EXCEPT ![c] = Found(op[c], disk.doc)]

\* Any other step of the call.
Advances(c) ==
  \/ pc'[c] = pc[c] /\ got'[c] = got[c]
  \/ /\ pc[c] \in {"queued", "stat", "compare", "read"} /\ pc'[c] \in {"stat", "compare", "read", "assign"}
     /\ got'[c] = got[c]
  \/ pc[c] \in {"restat", "stamp"} /\ pc'[c] \in {"stamp", "done"} /\ got'[c] = got[c]
  \/ pc'[c] = "failed" /\ ~got'[c]
  \/ ~Mutates(c) /\ pc'[c] = "done" /\ got'[c] = got[c]

\* What a step may do to the calls and the file while nobody else interferes.
LEMMA Effects ==
  ASSUME IInv, Next, Clean'
  PROVE  /\ Clean
         /\ \/ \E c \in Calls : Invoke(c) \/ Rename(c) \/ Begins(c)
            \/ UNCHANGED <<disk, op>> /\ \A c \in Calls : Advances(c)
<1>0. /\ TypeOK /\ QInv /\ pc \in [Calls -> Phases] /\ got \in [Calls -> BOOLEAN] /\ queue \in Seq(Calls)
      /\ excused \in BOOLEAN /\ rewrites \in Nat /\ mem \in Doc /\ EMPTY \in Doc
      /\ \A c \in Calls : saw[c].doc \in Doc
  BY EmptyIsDoc DEF IInv, TypeOK, Phases, File
<1>1. ~Rewrite
  BY <1>0 DEF Rewrite, Clean
<1>2. ASSUME NEW c \in Calls, Step(c)
      PROVE  /\ Clean
             /\ \/ Rename(c) \/ Begins(c)
                \/ UNCHANGED <<disk, op>> /\ \A x \in Calls : Advances(x)
  <2>1. Clean
    BY <1>0, <1>2 DEF Clean, Step, ReloadStat, StatFails, Gone, Unchanged, Changed, Read, Assign, ReloadFails,
       Rename, Restat, Restamp, WriteFails, Crossed
  <2>2. CASE StatFails(c) \/ Gone(c) \/ Unchanged(c) \/ Assign(c)
    <3>1. CASE Mutates(c)
      <4>1. GoOn(c, disk.doc) /\ pc[c] \in {"stat", "compare", "assign"} /\ UNCHANGED <<disk, op>>
        BY <2>2, <3>1, GoOnFromDisk DEF Clean
      <4>2. Begins(c)
        BY <3>1, <4>1 DEF GoOn, Begins
      <4> QED BY <2>1, <4>2
    <3>2. CASE ~Mutates(c)
      <4>1. /\ \E d \in Doc : GoOn(c, d)
            /\ pc[c] \in {"stat", "compare", "assign"} /\ UNCHANGED <<disk, op>>
        BY <1>0, <2>2 DEF StatFails, Gone, Unchanged, Assign
      <4>2. PICK d \in Doc : GoOn(c, d)
        BY <4>1
      <4>3. pc' = [pc EXCEPT ![c] = "done"] /\ got' = got
        BY <1>0, <3>2, <4>1, <4>2, GoOnKeeps DEF GoOn
      <4>4. \A x \in Calls : Advances(x)
        BY <1>0, <3>2, <4>3 DEF Advances
      <4> QED BY <2>1, <4>1, <4>4
    <3> QED BY <3>1, <3>2
  <2>3. CASE ReloadStat(c) \/ Changed(c) \/ Read(c) \/ Restat(c)
    <3>1. /\ UNCHANGED <<disk, op, got>>
          /\ \E p : pc' = [pc EXCEPT ![c] = p] /\ \/ pc[c] \in {"stat", "compare", "read"} /\ p \in {"compare", "read", "assign"}
                                                  \/ pc[c] = "restat" /\ p = "stamp"
      BY <2>3 DEF ReloadStat, Changed, Read, Restat
    <3>2. \A x \in Calls : Advances(x)
      BY <1>0, <3>1 DEF Advances
    <3> QED BY <2>1, <3>1, <3>2
  <2>4. CASE ReloadFails(c) \/ Restamp(c) \/ WriteFails(c)
    <3>1. PICK how \in {"done", "failed"} : End(c, how) /\ (how = "done" => pc[c] = "stamp")
      BY <2>4 DEF ReloadFails, Restamp, WriteFails
    <3>2. /\ UNCHANGED <<disk, op>> /\ Running(c)
          /\ \A x \in Calls \ {c} : got'[x] = got[x]
          /\ IF how = "failed" THEN ~got'[c] ELSE got'[c] = got[c]
      <4>1. CASE ReloadFails(c)
        <5>1. ~got[c]
          BY <1>0, <4>1 DEF ReloadFails, TypeOK
        <5> QED BY <3>1, <4>1, <5>1 DEF ReloadFails, Running
      <4>2. CASE Restamp(c)
        <5>1. how = "done"
          BY <1>0, <3>1, <4>2, EndKeeps DEF Restamp, End
        <5> QED BY <4>2, <5>1 DEF Restamp, Running
      <4>3. CASE WriteFails(c)
        <5>1. got' = [got EXCEPT ![c] = FALSE] /\ UNCHANGED <<disk, op>> /\ pc[c] \in {"rename", "restat"}
          BY <4>3 DEF WriteFails, NoAnswer
        <5> QED BY <1>0, <3>1, <5>1 DEF Running
      <4> QED BY <2>4, <4>1, <4>2, <4>3
    <3>3. /\ pc'[c] = how
          /\ \A x \in Calls \ {c} : pc'[x] = pc[x] \/ (pc[x] = "queued" /\ pc'[x] = "stat")
      BY <1>0, <3>1, <3>2, EndKeeps
    <3>4. \A x \in Calls : Advances(x)
      BY <1>0, <3>1, <3>2, <3>3 DEF Advances
    <3> QED BY <2>1, <3>2, <3>4
  <2>5. CASE Rename(c)
    BY <2>1, <2>5
  <2> QED BY <1>2, <2>2, <2>3, <2>4, <2>5 DEF Step
<1>3. ASSUME NEW c \in Calls, Invoke(c) PROVE Clean
  BY <1>3 DEF Invoke, Clean
<1> QED BY <1>1, <1>2, <1>3 DEF Next

\* Names are only added.
LEMMA NamedGrows ==
  ASSUME UNCHANGED op
  PROVE  Named' = Named
BY DEF Named

LEMMA HistoryInit ==
  ASSUME Init
  PROVE  LInv
<1>1. PICK d \in Opened : disk.doc = d
  BY DEF Init
<1>2. \A c \in Calls : op[c] = NoOp /\ ~got[c] /\ pc[c] = "idle"
  BY DEF Init
<1>3. NInv
  BY <1>2 DEF NInv, NoOp, Puts
<1>4. \A r \in Rows : disk.doc[r] # "none" => r \in Named
  BY <1>1 DEF Named
<1>5. IsFiniteSet(Present(disk.doc)) /\ Cardinality(Present(disk.doc)) <= MaxPending
  BY <1>1, OpenedAssumption
<1> QED BY <1>2, <1>3, <1>4, <1>5 DEF LInv, HInv, NoOp, Puts, PutsLater

LEMMA InvokeHistory ==
  ASSUME IInv, NInv, HInv, NEW c \in Calls, Invoke(c)
  PROVE  NInv' /\ HInv'
<1>0. /\ op \in [Calls -> [kind : Methods, rows : SUBSET Rows]] /\ pc \in [Calls -> Phases] /\ disk \in File
      /\ pc[c] = "idle" /\ op[c] = NoOp /\ ~got[c]
  BY DEF IInv, TypeOK, QInv, Invoke, Phases
<1>1. PICK k \in Kinds : \E S \in Arguments(k) : op' = [op EXCEPT ![c] = [kind |-> k, rows |-> S]]
  BY DEF Invoke
<1>2. PICK S \in Arguments(k) : op' = [op EXCEPT ![c] = [kind |-> k, rows |-> S]]
  BY <1>1
<1>3. /\ op'[c].kind = k /\ op'[c].rows = S /\ \A x \in Calls \ {c} : op'[x] = op[x]
      /\ UNCHANGED <<disk, got>>
  BY <1>0, <1>2 DEF Invoke
<1>4. (\A x \in Calls \ {c} : pc'[x] = pc[x]) /\ pc'[c] \in {"stat", "queued"}
  BY <1>0 DEF Invoke
<1>5. ~Puts(c)
  BY <1>0 DEF Puts, NoOp
<1>6. Named \subseteq Named' /\ (k = "put" => S \subseteq Named')
  <2>1. \A x \in Calls : op[x].kind = "put" => x # c
    BY <1>5 DEF Puts
  <2>2. \A x \in Calls : op[x].kind = "put" => op'[x].kind = "put" /\ op'[x].rows = op[x].rows
    BY <1>3, <2>1
  <2> QED BY <1>3, <2>2 DEF Named
<1>7. k = "put" => \E r \in Rows \ Named :
                     /\ S = {r} /\ disk.doc[r] = "none"
                     /\ r \in Pendings => \A p \in Pendings \intersect Named : p < r
  <2> DEFINE New == {x \in Rows \ Named :
                      /\ disk.doc[x] = "none"
                      /\ x \in Pendings => \A p \in Pendings \intersect Named : p < x}
  <2>1. Arguments("put") = {{r} : r \in New}
    BY DEF Arguments
  <2>2. k = "put" => \E r \in New : S = {r}
    <3> HIDE DEF New
    <3> QED BY <2>1
  <2>3. \A r \in New : r \in Rows \ Named /\ disk.doc[r] = "none"
                       /\ (r \in Pendings => \A p \in Pendings \intersect Named : p < r)
    OBVIOUS
  <2> HIDE DEF New
  <2> QED BY <2>2, <2>3
<1>8. k = "consumeCode" => S = {} \/ \E x \in Codes : S = {x}
  <2>1. Arguments("consumeCode") = {{x} : x \in Codes} \union {{}}
    BY DEF Arguments
  <2> QED BY <2>1
<1>9. \A x \in Calls \ {c} : /\ Puts(x)' <=> Puts(x)
                             /\ PutsLater(x)' <=> PutsLater(x)
                             /\ Puts(x) => op[x].rows \subseteq Named
  BY <1>3, <1>4 DEF Puts, PutsLater, Named, NInv
<1>10. \A d \in Opened, r \in Rows : d[r] # "none" => r \in Named
  BY DEF Named
<1>11. Pendings \subseteq Rows
  BY DEF Rows
<1>12. NInv'
  <2>1. \A x \in Calls : /\ Puts(x)' => \E r \in Rows : op'[x].rows = {r}
                         /\ op'[x].kind = "consumeCode" => op'[x].rows = {} \/ \E y \in Codes : op'[x].rows = {y}
                         /\ got'[x] => op'[x].kind = "consumeCode"
    BY <1>0, <1>3, <1>7, <1>8 DEF NInv, Puts
  <2>2. \A x, y \in Calls : x # y /\ Puts(x)' /\ Puts(y)' => op'[x].rows \intersect op'[y].rows = {}
    BY <1>3, <1>7, <1>9 DEF NInv, Puts
  <2>3. \A x \in Calls : Puts(x)' => \A p \in op'[x].rows, d \in Opened : d[p] = "none"
                                       /\ (p \in Pendings => \A q \in Pendings : d[q] # "none" => q < p)
    <3>1. CASE k = "put"
      <4>1. PICK r \in Rows \ Named : S = {r} /\ (r \in Pendings => \A p \in Pendings \intersect Named : p < r)
        BY <1>7, <3>1
      <4> QED BY <1>3, <1>9, <1>10, <1>11, <4>1 DEF NInv
    <3>2. CASE k # "put"
      BY <1>3, <1>9, <3>2 DEF NInv, Puts
    <3> QED BY <3>1, <3>2
  <2> QED BY <2>1, <2>2, <2>3 DEF NInv
<1>13. HInv'
  <2>1. \A r \in Rows : disk'.doc[r] # "none" => r \in Named'
    BY <1>3, <1>6 DEF HInv
  <2>2. \A x \in Calls : PutsLater(x)' => \A r \in op'[x].rows : disk'.doc[r] = "none"
    BY <1>3, <1>7, <1>9 DEF HInv, PutsLater, Puts
  <2>3. ASSUME NEW z, Spent(z) PROVE Spent(z)'
    BY <1>3, <1>6, <1>7, <1>9, <2>3 DEF Spent, PutsLater, Puts
  <2>4. \A x \in Calls : got'[x] => IF pc'[x] = "rename" THEN \E z \in op'[x].rows : disk'.doc[z] = "live"
                                    ELSE op'[x].rows # {} /\ \A z \in op'[x].rows : Spent(z)'
    BY <1>0, <1>3, <1>4, <2>3 DEF HInv
  <2>5. \A x, y \in Calls : x # y /\ got'[x] /\ got'[y] => op'[x].rows # op'[y].rows
    BY <1>0, <1>3 DEF HInv
  <2>6. IsFiniteSet(Present(disk'.doc)) /\ Cardinality(Present(disk'.doc)) <= MaxPending
    BY <1>3 DEF HInv
  <2>7. \A x \in Calls : Puts(x)' /\ op'[x].rows \subseteq Pendings /\ pc'[x] \in {"restat", "stamp", "done"} =>
                           \A p \in op'[x].rows : StillThere(p)'
    <3>1. ASSUME NEW x \in Calls, Puts(x)', op'[x].rows \subseteq Pendings, pc'[x] \in {"restat", "stamp", "done"},
                 NEW p \in op'[x].rows
          PROVE  StillThere(p)'
      <4>1. x # c
        BY <1>4, <3>1
      <4>2. StillThere(p)
        BY <1>3, <1>4, <1>9, <3>1, <4>1 DEF HInv
      <4>3. CASE p \in Present(disk.doc)
        BY <1>3, <4>3 DEF StillThere
      <4>4. CASE p \notin Present(disk.doc)
        <5>1. PICK d \in Calls : \/ Puts(d) /\ \E q \in op[d].rows \intersect Pendings : q > p
                                 \/ op[d].kind \in {"deletePending", "revokeAll", "sweepExpired"}
          BY <4>2, <4>4 DEF StillThere
        <5>2. d # c
          BY <1>0, <5>1 DEF NoOp, Puts
        <5> QED BY <1>3, <1>9, <5>1, <5>2 DEF StillThere
      <4> QED BY <4>3, <4>4
    <3> QED BY <3>1
  <2> QED BY <2>1, <2>2, <2>4, <2>5, <2>6, <2>7 DEF HInv
<1> QED BY <1>12, <1>13

LEMMA AdvanceHistory ==
  ASSUME IInv, NInv, HInv, UNCHANGED <<disk, op>>, \A c \in Calls : Advances(c)
  PROVE  NInv' /\ HInv'
<1>0. \A c \in Calls : got[c] => pc[c] \in {"rename", "restat", "stamp", "done"}
  BY DEF IInv, TypeOK
<1>1. \A c \in Calls : /\ PutsLater(c)' => PutsLater(c)
                       /\ got'[c] => got[c] /\ (pc'[c] = "rename" <=> pc[c] = "rename")
                       /\ Puts(c)' <=> Puts(c)
                       /\ Puts(c) /\ pc'[c] \in {"restat", "stamp", "done"} => pc[c] \in {"restat", "stamp", "done"}
  <2> TAKE c \in Calls
  <2>1. /\ Advances(c) /\ (got[c] => pc[c] \in {"rename", "restat", "stamp", "done"}) /\ op' = op
        /\ pc[c] = "rename" => Mutates(c)
    BY <1>0 DEF IInv, QInv
  <2>2. (got'[c] => got[c]) /\ (got[c] /\ got'[c] => (pc'[c] = "rename" <=> pc[c] = "rename"))
    <3>1. CASE got'[c] = got[c]
      BY <2>1, <3>1 DEF Advances
    <3>2. CASE ~got'[c]
      BY <3>2
    <3> QED BY <2>1, <3>1, <3>2 DEF Advances
  <2> QED BY <2>1, <2>2 DEF Advances, PutsLater, Puts, Mutates
<1>2. Named' = Named
  BY NamedGrows
<1>3. NInv'
  BY <1>1 DEF NInv
<1>4. \A k : Spent(k) => Spent(k)'
  BY <1>1, <1>2 DEF Spent
<1>5. \A p : StillThere(p) => StillThere(p)'
  BY <1>1 DEF StillThere
<1>6. HInv'
  BY <1>1, <1>2, <1>4, <1>5 DEF HInv
<1> QED BY <1>3, <1>6

LEMMA BeginHistory ==
  ASSUME IInv, NInv, HInv, NEW c \in Calls, Begins(c)
  PROVE  NInv' /\ HInv'
<1>0. /\ pc \in [Calls -> Phases] /\ got \in [Calls -> BOOLEAN] /\ TypeOK /\ QInv
      /\ Mutates(c) /\ pc[c] \in {"stat", "compare", "assign"} /\ UNCHANGED <<disk, op>>
      /\ \A x \in Calls : got[x] => pc[x] \in {"rename", "restat", "stamp", "done"}
  BY DEF IInv, TypeOK, Phases, Begins
<1>1. /\ pc'[c] = "rename" /\ \A x \in Calls \ {c} : pc'[x] = pc[x] /\ got'[x] = got[x]
      /\ got'[c] = Found(op[c], disk.doc)
  BY <1>0, FoundType DEF Begins
<1>2. got'[c] => op[c].kind = "consumeCode" /\ \E k \in op[c].rows : disk.doc[k] = "live"
  BY <1>1 DEF Found
<1>3. ASSUME NEW x \in Calls \ {c}, got[x] PROVE pc[x] # "rename"
  <2>1. Running(c) /\ (pc[x] = "rename" => Running(x) /\ Mutates(x))
    BY <1>0 DEF Running, QInv
  <2> QED BY <1>0, <2>1, OneRuns
<1>4. \A x \in Calls : PutsLater(x)' <=> PutsLater(x)
  BY <1>0, <1>1 DEF PutsLater, Puts
<1>5. Named' = Named
  BY <1>0, NamedGrows
<1>6. \A k : Spent(k)' <=> Spent(k)
  BY <1>0, <1>4, <1>5 DEF Spent
<1>7. NInv'
  BY <1>0, <1>1, <1>2 DEF NInv, Puts
<1>8. HInv'
  <2>1. \A x \in Calls : got'[x] => IF pc'[x] = "rename" THEN \E k \in op'[x].rows : disk'.doc[k] = "live"
                                    ELSE op'[x].rows # {} /\ \A k \in op'[x].rows : Spent(k)'
    BY <1>0, <1>1, <1>2, <1>6 DEF HInv
  <2>2. ASSUME NEW x \in Calls \ {c}, got'[c], got[x] PROVE op[x].rows # op[c].rows
    <3>1. \A k \in op[x].rows : disk.doc[k] # "live"
      BY <1>3, <2>2 DEF HInv, Spent
    <3> QED BY <1>2, <2>2, <3>1
  <2>3. \A x, y \in Calls : x # y /\ got'[x] /\ got'[y] => op'[x].rows # op'[y].rows
    BY <1>0, <1>1, <2>2 DEF HInv
  <2>4. \A x \in Calls : Puts(x)' /\ op'[x].rows \subseteq Pendings /\ pc'[x] \in {"restat", "stamp", "done"} =>
                           \A p \in op'[x].rows : StillThere(p)'
    BY <1>0, <1>1 DEF HInv, StillThere, Puts
  <2> QED BY <1>0, <1>4, <1>5, <2>1, <2>3, <2>4 DEF HInv
<1> QED BY <1>7, <1>8

\* A pending authorization with a newer name than one that was put was put, too.
LEMMA NewerWasPut ==
  ASSUME NInv, NEW c \in Calls, Puts(c), NEW p \in op[c].rows \intersect Pendings,
         NEW q \in Pendings \intersect Named, q > p
  PROVE  \E d \in Calls : Puts(d) /\ q \in op[d].rows
<1>1. p \in Nat /\ q \in Nat
  BY StoreAssumption
<1>2. \A d \in Opened : d[q] = "none"
  <2>1. \A d \in Opened : d[q] # "none" => q < p
    BY DEF NInv
  <2> QED BY <1>1, <2>1
<1> QED BY <1>2 DEF Named, Puts

LEMMA RenameHistory ==
  ASSUME IInv, NInv, HInv, ~excused, NEW c \in Calls, Rename(c)
  PROVE  NInv' /\ HInv'
<1> DEFINE e == Apply(op[c], disk.doc)
<1>0. /\ pc \in [Calls -> Phases] /\ got \in [Calls -> BOOLEAN] /\ TypeOK /\ QInv /\ Mutates(c)
      /\ op \in [Calls -> [kind : Methods, rows : SUBSET Rows]] /\ disk.doc \in Doc
      /\ pc[c] = "rename" /\ UNCHANGED <<op, got>>
      /\ \A x \in Calls : got[x] => pc[x] \in {"rename", "restat", "stamp", "done"}
  BY DEF IInv, TypeOK, Phases, Rename, QInv, File
<1>1. pc'[c] = "restat" /\ \A x \in Calls \ {c} : pc'[x] = pc[x]
  BY <1>0 DEF Rename
<1>2. disk'.doc = e
  <2>1. draft = e
    BY <1>0 DEF IInv, SInv, Phase
  <2> HIDE DEF e
  <2> QED BY <2>1 DEF Rename
<1>3. /\ \A r \in Rows \ NewRows(op[c]) : (e[r] # "none" => disk.doc[r] # "none") /\ (e[r] = "live" => disk.doc[r] = "live")
      /\ op[c].kind = "consumeCode" => \A k \in op[c].rows : e[k] # "live"
      /\ IsFiniteSet(Present(e)) /\ Cardinality(Present(e)) <= MaxPending
      /\ \A p \in Pendings : (p \in Present(disk.doc) \/ p \in NewRows(op[c])) =>
           \/ p \in Present(e)
           \/ op[c].kind \in {"deletePending", "revokeAll", "sweepExpired"}
           \/ Puts(c) /\ \E q \in Present(disk.doc) \union (NewRows(op[c]) \intersect Pendings) : q > p
  <2>1. op[c] \in [kind : Methods, rows : SUBSET Rows]
    BY <1>0
  <2>2. op[c].kind = "put" => \E r \in Rows : op[c].rows = {r}
    BY DEF NInv, Puts
  <2>3. IsFiniteSet(Present(disk.doc)) /\ Cardinality(Present(disk.doc)) <= MaxPending
    BY DEF HInv
  <2>4. disk.doc \in Doc
    BY <1>0
  <2>5. (Puts(c) <=> op[c].kind = "put")
    BY DEF Puts
  <2>6. /\ \A r \in Rows \ NewRows(op[c]) : (e[r] # "none" => disk.doc[r] # "none")
                                           /\ (e[r] = "live" => disk.doc[r] = "live")
        /\ op[c].kind = "consumeCode" => \A k \in op[c].rows : e[k] # "live"
        /\ IsFiniteSet(Present(e)) /\ Cardinality(Present(e)) <= MaxPending
        /\ \A p \in Pendings : (p \in Present(disk.doc) \/ p \in NewRows(op[c])) =>
             \/ p \in Present(e)
             \/ op[c].kind \in {"deletePending", "revokeAll", "sweepExpired"}
             \/ op[c].kind = "put" /\ \E q \in Present(disk.doc) \union (NewRows(op[c]) \intersect Pendings) : q > p
    <3>1. Recorded(op[c], disk.doc, e)
      BY <2>1, <2>2, <2>3, <2>4, ApplyRecord
    <3> HIDE DEF e
    <3> QED BY <3>1 DEF Recorded
  <2> HIDE DEF e
  <2> QED BY <2>5, <2>6
<1>4. Named' = Named
  BY <1>0, NamedGrows
<1>5. \A x \in Calls : PutsLater(x)' => x # c /\ PutsLater(x)
  BY <1>0, <1>1 DEF PutsLater, Puts
<1>6. Puts(c) => PutsLater(c) /\ NewRows(op[c]) = op[c].rows
  BY <1>0 DEF PutsLater, Puts, NewRows
<1>7. ~Puts(c) => NewRows(op[c]) = {}
  BY DEF Puts, NewRows
<1>8. \A x \in Calls : op[x].rows \subseteq Rows
  BY <1>0
<1>9. NInv'
  BY <1>0 DEF NInv, Puts
<1> HIDE DEF e
<1>10. ASSUME NEW k \in Rows, Spent(k) PROVE Spent(k)'
  <2>1. k \notin NewRows(op[c])
    BY <1>6, <1>7, <1>10 DEF Spent
  <2> QED BY <1>0, <1>2, <1>3, <1>4, <1>5, <1>10, <2>1 DEF Spent
<1>11. ASSUME NEW x \in Calls, got[x]
       PROVE  /\ pc'[x] # "rename"
              /\ op[x].rows # {} /\ \A k \in op[x].rows : Spent(k)'
  <2>1. CASE x = c
    <3>1. op[c].kind = "consumeCode"
      BY <1>11, <2>1 DEF NInv
    <3>2. \A k \in op[c].rows : disk.doc[k] = "live"
      BY <1>0, <1>11, <2>1, <3>1 DEF HInv, NInv
    <3>3. op[c].rows # {}
      BY <1>0, <1>11, <2>1 DEF HInv
    <3>4. ASSUME NEW k \in op[c].rows PROVE Spent(k)'
      <4>1. disk'.doc[k] # "live" /\ k \in Named'
        BY <1>2, <1>3, <1>4, <1>8, <3>1, <3>2 DEF HInv
      <4>2. \A y \in Calls : PutsLater(y) => k \notin op[y].rows
        BY <3>2 DEF HInv
      <4> QED BY <1>0, <1>5, <4>1, <4>2 DEF Spent
    <3> QED BY <1>1, <2>1, <3>3, <3>4
  <2>2. CASE x # c
    <3>1. pc[x] # "rename"
      <4>1. Running(c) /\ (pc[x] = "rename" => Running(x) /\ Mutates(x))
        BY <1>0 DEF Running, QInv
      <4> QED BY <1>0, <2>2, <4>1, OneRuns
    <3>2. op[x].rows # {} /\ \A k \in op[x].rows : Spent(k)
      BY <1>11, <3>1 DEF HInv
    <3> QED BY <1>1, <1>8, <1>10, <2>2, <3>1, <3>2
  <2> QED BY <2>1, <2>2
<1>12. ASSUME NEW x \in Calls, Puts(x), op[x].rows \subseteq Pendings, pc'[x] \in {"restat", "stamp", "done"},
              NEW p \in op[x].rows
       PROVE  StillThere(p)'
  <2>0. p \in Pendings /\ p \in Nat /\ \A d \in Calls : Puts(d)' <=> Puts(d)
    BY <1>0, <1>12, StoreAssumption DEF Puts
  <2>1. CASE p \in Present(disk.doc) \/ p \in NewRows(op[c])
    <3>1. CASE p \in Present(e)
      BY <1>2, <3>1 DEF StillThere
    <3>2. CASE op[c].kind \in {"deletePending", "revokeAll", "sweepExpired"}
      BY <1>0, <3>2 DEF StillThere
    <3>3. CASE Puts(c) /\ \E q \in Present(disk.doc) \union (NewRows(op[c]) \intersect Pendings) : q > p
      <4>1. PICK q \in Present(disk.doc) \union (NewRows(op[c]) \intersect Pendings) : q > p
        BY <3>3
      <4>2. q \in Pendings
        BY <4>1 DEF Present
      <4>3. \E d \in Calls : Puts(d) /\ q \in op[d].rows
        <5>1. CASE q \in NewRows(op[c])
          BY <1>6, <3>3, <5>1
        <5>2. CASE q \in Present(disk.doc)
          <6>1. q \in Named
            BY <4>2, <5>2 DEF HInv, Present, Rows
          <6> QED BY <1>12, <2>0, <4>1, <4>2, <6>1, NewerWasPut
        <5> QED BY <4>1, <5>1, <5>2
      <4> QED BY <1>0, <2>0, <4>1, <4>2, <4>3 DEF StillThere
    <3> QED BY <1>3, <2>0, <2>1, <3>1, <3>2, <3>3
  <2>2. CASE ~ (p \in Present(disk.doc) \/ p \in NewRows(op[c]))
    <3>1. x # c
      BY <1>6, <1>12, <2>2
    <3>2. StillThere(p)
      BY <1>1, <1>12, <3>1 DEF HInv
    <3> QED BY <1>0, <2>0, <2>2, <3>2 DEF StillThere
  <2> QED BY <2>1, <2>2
<1>13. HInv'
  <2>1. \A r \in Rows : disk'.doc[r] # "none" => r \in Named'
    <3>1. \A r \in NewRows(op[c]) : r \in Named
      <4>1. Puts(c) => op[c].rows \subseteq Named
        BY <1>8 DEF Named, Puts
      <4> QED BY <1>6, <1>7, <4>1
    <3> QED BY <1>2, <1>3, <1>4, <3>1 DEF HInv
  <2>2. ASSUME NEW x \in Calls, PutsLater(x)', NEW r \in op'[x].rows PROVE disk'.doc[r] = "none"
    <3>1. x # c /\ PutsLater(x) /\ r \in op[x].rows /\ r \in Rows
      BY <1>0, <1>5, <1>8, <2>2
    <3>2. disk.doc[r] = "none"
      BY <3>1 DEF HInv
    <3>3. r \notin NewRows(op[c])
      BY <1>6, <1>7, <3>1 DEF NInv, PutsLater
    <3> QED BY <1>2, <1>3, <3>1, <3>2, <3>3
  <2>3. \A x, y \in Calls : x # y /\ got'[x] /\ got'[y] => op'[x].rows # op'[y].rows
    BY <1>0 DEF HInv
  <2> QED BY <1>0, <1>2, <1>3, <1>11, <1>12, <2>1, <2>2, <2>3 DEF HInv, Puts
<1> QED BY <1>9, <1>13

LEMMA HistoryStep ==
  ASSUME IInv, LInv, [Next]_vars
  PROVE  LInv'
<1>1. CASE UNCHANGED vars
  BY <1>1 DEF vars, LInv, NInv, HInv, Clean, Spent, Named, StillThere, PutsLater, Puts
<1>2. CASE Next
  <2> SUFFICES ASSUME Clean' PROVE NInv' /\ HInv'
    BY DEF LInv
  <2>1. /\ Clean
        /\ \/ \E c \in Calls : Invoke(c) \/ Rename(c) \/ Begins(c)
           \/ UNCHANGED <<disk, op>> /\ \A c \in Calls : Advances(c)
    BY <1>2, Effects
  <2>2. NInv /\ HInv /\ ~excused
    BY <2>1 DEF LInv, Clean
  <2> QED BY <2>1, <2>2, InvokeHistory, RenameHistory, BeginHistory, AdvanceHistory
<1> QED BY <1>1, <1>2

\* As long as nobody interferes, the names and the history of records are in order.
THEOREM StoreHistory == Spec => []LInv
<1>1. Init => LInv
  BY HistoryInit
<1>2. IInv /\ LInv /\ [Next]_vars => LInv'
  BY HistoryStep
<1> QED BY <1>1, <1>2, StoreInvariant, PTL DEF Spec

\* Of the calls that consume one code, one finds it at most, whatever overlaps
\* and whatever fails.
THEOREM StoreConsumedOnce == Spec => []ConsumedOnce
<1>1. IInv /\ LInv => ConsumedOnce
  <2> SUFFICES ASSUME IInv, LInv, ~excused, ~(rewrites > 0) PROVE
        \A c, d \in Calls : c # d /\ pc[c] = "done" /\ pc[d] = "done" /\ got[c] /\ got[d] => op[c].rows # op[d].rows
    BY DEF ConsumedOnce
  <2>1. Clean
    BY DEF Clean, IInv, TypeOK
  <2> QED BY <2>1 DEF LInv, HInv
<1> QED BY <1>1, StoreInvariant, StoreHistory, PTL

\* A pending authorization stays, at the limit too, until a newer one comes or
\* it is removed, and there are never more than the limit.
THEOREM StorePendingsAtLimit == Spec => []PendingsAtLimit
<1>1. IInv /\ LInv => PendingsAtLimit
  <2> SUFFICES ASSUME IInv, LInv, ~excused, ~(rewrites > 0)
               PROVE  /\ Cardinality(Present(disk.doc)) <= MaxPending
                      /\ \A c \in Calls : pc[c] = "done" /\ op[c].kind = "put" /\ op[c].rows \subseteq Pendings =>
                           \/ op[c].rows \subseteq Present(disk.doc)
                           \/ \E d \in Calls : \/ op[d].kind = "put" /\ \E p \in op[c].rows : \E q \in op[d].rows \intersect Pendings : q > p
                                              \/ op[d].kind \in {"deletePending", "revokeAll", "sweepExpired"}
    BY DEF PendingsAtLimit
  <2>1. NInv /\ HInv
    BY DEF Clean, IInv, TypeOK, LInv
  <2>2. ASSUME NEW c \in Calls, pc[c] = "done", Puts(c), op[c].rows \subseteq Pendings
        PROVE  \/ op[c].rows \subseteq Present(disk.doc)
               \/ \E d \in Calls : \/ Puts(d) /\ \E p \in op[c].rows : \E q \in op[d].rows \intersect Pendings : q > p
                                   \/ op[d].kind \in {"deletePending", "revokeAll", "sweepExpired"}
    <3>1. \A p \in op[c].rows : StillThere(p)
      BY <2>1, <2>2 DEF HInv
    <3> QED BY <3>1 DEF StillThere
  <2> QED BY <2>1, <2>2 DEF HInv, Puts
<1> QED BY <1>1, StoreInvariant, StoreHistory, PTL
=============================================================================
