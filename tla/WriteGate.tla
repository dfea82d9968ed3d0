------------------------------ MODULE WriteGate ------------------------------
(***************************************************************************)
(* The keyed async mutex of src/src/storage/write-gate.ts.  Every mutating *)
(* tool call runs inside withLock(paths, fn).  The gate keeps, per path, a *)
(* chain of promises: a call appends its own promise to the chain of one   *)
(* path, awaits the promise it found there, and only then goes on to the   *)
(* next path, in sorted order.                                             *)
(*                                                                         *)
(* A promise chain is modelled by its links.  tail[p] is the caller whose  *)
(* promise is in the map (None: no entry); behind[c] is the caller whose   *)
(* promise c awaits (None: that promise has resolved).  JavaScript runs    *)
(* the code between two awaits without interruption, so each action below  *)
(* is what happens between two awaits.                                     *)
(***************************************************************************)
EXTENDS Naturals, FiniteSets

CONSTANTS
  Path,    \* vault paths, as their positions, from 1, in the default string order
  Caller,  \* concurrent withLock calls
  None     \* no caller

ASSUME PathAssumption == Path \subseteq Nat \ {0} /\ IsFiniteSet(Path)
ASSUME NoneAssumption == None \notin Caller

VARIABLES
  pc,      \* "idle", "acquiring" (some path not yet owned), "inside" (fn runs)
  need,    \* the paths the call was given, deduplicated
  todo,    \* those it has not joined the chain of yet
  at,      \* the path whose chain it joined last
  behind,  \* the caller whose promise on that path it awaits
  tail     \* the chains map: the last caller that joined each path's chain

vars == <<pc, need, todo, at, behind, tail>>

NoPath == 0

Init ==
  /\ pc = [c \in Caller |-> "idle"]
  /\ need = [c \in Caller |-> {}]
  /\ todo = [c \in Caller |-> {}]
  /\ at = [c \in Caller |-> NoPath]
  /\ behind = [c \in Caller |-> None]
  /\ tail = [p \in Path |-> None]

(* The paths whose chain c has joined and not left. *)
Joined(c) == need[c] \ todo[c]

(* c's await of the promise before it is over, or p is not the one awaited. *)
Owns(c, p) == p \in Joined(c) /\ ~(at[c] = p /\ behind[c] # None)

(* Mutant of IsNext: no sort, any order the caller gave the paths in. *)
IsNextUnsorted(p, P) == p \in P

(* `.sort()`: a call joins the chains of its paths in ascending order. *)
IsNext(p, P) == p \in P /\ \A q \in P : p <= q

(* Mutant of Join: the promise found in the map is not awaited. *)
JoinWithoutWait(c, p, R) ==
  /\ pc' = [pc EXCEPT ![c] = "acquiring"]
  /\ todo' = [todo EXCEPT ![c] = R]
  /\ at' = [at EXCEPT ![c] = p]
  /\ behind' = [behind EXCEPT ![c] = None]
  /\ tail' = [tail EXCEPT ![p] = c]

(* acquire(p): read the map entry, replace it with one's own promise, wait. *)
(* The rest of the call's paths is R.                                      *)
Join(c, p, R) ==
  /\ pc' = [pc EXCEPT ![c] = "acquiring"]
  /\ todo' = [todo EXCEPT ![c] = R]
  /\ at' = [at EXCEPT ![c] = p]
  /\ behind' = [behind EXCEPT ![c] = tail[p]]
  /\ tail' = [tail EXCEPT ![p] = c]

(* Every path is owned: fn starts. *)
Start(c) ==
  /\ pc' = [pc EXCEPT ![c] = "inside"]
  /\ UNCHANGED <<todo, at, behind, tail>>

(* withLock(P, fn), up to its first await.  (An empty list of paths holds   *)
(* nothing and waits for nobody; it is left out.)                          *)
Call(c, P) ==
  /\ pc[c] = "idle"
  /\ need' = [need EXCEPT ![c] = P]
  /\ \E p \in P : IsNext(p, P) /\ Join(c, p, P \ {p})

(* Mutant of Resolved: the caller goes on without awaiting. *)
ResolvedAlways(c) == TRUE

(* `await prior` is over. *)
Resolved(c) == behind[c] = None

(* The awaited promise has resolved: on to the next path, or into fn. *)
Proceed(c) ==
  /\ pc[c] = "acquiring"
  /\ Resolved(c)
  /\ UNCHANGED need
  /\ \/ \E p \in todo[c] : IsNext(p, todo[c]) /\ Join(c, p, todo[c] \ {p})
     \/ todo[c] = {} /\ Start(c)

(* Mutants of LastOf: the map entry is always deleted, or never. *)
LastOfAlways(c, p) == TRUE
LastOfNever(c, p) == FALSE

(* `chains.get(p) === chained`: nobody joined p's chain after c. *)
LastOf(c, p) == tail[p] = c

(* fn settled; `finally` resolves c's promise on every path, waking whoever *)
(* waits for it, and drops the map entries nobody replaced.                *)
Release(c) ==
  /\ pc[c] = "inside"
  /\ pc' = [pc EXCEPT ![c] = "idle"]
  /\ need' = [need EXCEPT ![c] = {}]
  /\ todo' = [todo EXCEPT ![c] = {}]
  /\ at' = [at EXCEPT ![c] = NoPath]
  /\ behind' = [d \in Caller |-> IF behind[d] = c THEN None ELSE behind[d]]
  /\ tail' = [p \in Path |->
                IF p \in Joined(c) /\ LastOf(c, p) THEN None ELSE tail[p]]

Next ==
  \E c \in Caller :
    \/ \E P \in SUBSET Path : Call(c, P)
    \/ Proceed(c)
    \/ Release(c)

(* The event loop runs every ready continuation, and fn (file I/O with a   *)
(* bounded number of retries) settles.                                     *)
Fairness ==
  \A c \in Caller : WF_vars(Proceed(c)) /\ WF_vars(Release(c))

Spec == Init /\ [][Next]_vars /\ Fairness

-----------------------------------------------------------------------------
TypeOK ==
  /\ pc \in [Caller -> {"idle", "acquiring", "inside"}]
  /\ need \in [Caller -> SUBSET Path]
  /\ todo \in [Caller -> SUBSET Path]
  /\ \A c \in Caller : todo[c] \subseteq need[c]
  /\ at \in [Caller -> Path \cup {NoPath}]
  /\ behind \in [Caller -> Caller \cup {None}]
  /\ tail \in [Path -> Caller \cup {None}]
  /\ \A c \in Caller : pc[c] = "idle" => need[c] = {}
  /\ \A c \in Caller :
       pc[c] # "acquiring" => todo[c] = {} /\ behind[c] = None

(* No two bodies run at the same time on a common path: the reason every   *)
(* mutating tool call goes through the gate.                               *)
MutualExclusion ==
  \A c, d \in Caller :
    (c # d /\ pc[c] = "inside" /\ pc[d] = "inside")
      => need[c] \cap need[d] = {}

(* The chains map holds an entry for a path exactly while some call has    *)
(* joined that path's chain: nothing leaks over the server's lifetime, and *)
(* no entry disappears under a call that is still queued.                  *)
NoLeakedEntry ==
  \A p \in Path : tail[p] = None <=> \A c \in Caller : p \notin Joined(c)

(* No cycle of waiting calls: a call waits at a path above every path it   *)
(* owns, and the call ahead of it has joined that same path.  So along the *)
(* waits-for relation the path a caller is stuck at never decreases.       *)
WaitsUpward ==
  \A c \in Caller :
    behind[c] # None =>
      /\ \A p \in Joined(c) : p <= at[c]
      /\ at[c] \in Joined(behind[c])

(* Every call runs: FIFO chains joined in sorted order neither deadlock    *)
(* nor starve anyone, as long as bodies end.                               *)
EveryCallRuns ==
  \A c \in Caller : pc[c] = "acquiring" ~> pc[c] = "inside"

-----------------------------------------------------------------------------
(* The abstract lock this gate implements. *)
status == [c \in Caller |-> IF pc[c] = "acquiring" THEN "waiting" ELSE pc[c]]

Locks == INSTANCE PathLocks

ImplementsPathLocks == Locks!Spec
=============================================================================
