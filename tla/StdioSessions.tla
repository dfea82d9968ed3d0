---------------------------- MODULE StdioSessions ----------------------------
(***************************************************************************)
(* Several stdio servers on one vault and one machine (stdio-main.ts,      *)
(* storage/local-state.ts, storage/local-peers.ts): how each boots, what   *)
(* it creates on the way, and how each learns of the others through the    *)
(* instance files of the shared state folder.                              *)
(*                                                                         *)
(* A boot goes from check to check and makes things in between; it may be  *)
(* refused or die at any of them, and the vault may be moved away between  *)
(* two of them.  All servers have the same settings, chosen at the start.  *)
(*                                                                         *)
(* Time runs in heartbeat intervals, and only ages count.  A beat is a     *)
(* write of its own that may be late, but lands before the file is stale;  *)
(* a process may die at any moment, and its number be given to another     *)
(* program.                                                                *)
(***************************************************************************)
EXTENDS Integers

CONSTANTS
  Pids,     \* one server each
  ReadOnly  \* those started with --read-only

None == -1
Stale == 3   \* INSTANCE_STALE_MS in heartbeats

VARIABLES
  vault,    \* the folder the settings name: "never" there (mistyped), "there", "gone"
  stateDir, \* where they put the state folder
  at,       \* where each server is
  traces,   \* what each has made and not taken away again
  age,      \* how old each instance file is, None when there is none
  beat,     \* a heartbeat's write is in flight
  todo,     \* the instance files a scan has still to look at
  look,     \* the one it looks at, and whether it is stale
  peers     \* the other servers the boot's scan has counted

settled == <<vault, stateDir>>
scanning == <<todo, look, peers>>
sessionVars == <<settled, at, traces, age, beat, scanning>>

Booting == {"probing", "removing", "checked", "resolved", "cleared", "placed", "cached", "open", "seeded"}
Serving == {"written", "scanning", "up", "leaving"}
Running == Booting \union Serving
Refused == {"badVault", "badState"}

\* The machine's own state folder, STATE_DIR somewhere else, either of them in or
\* around the vault, and STATE_DIR=<vault>/_brainstem, which is allowed.
StateDirs == {"machine", "given", "related", "reserved"}

\* Of what is made, "local" lies outside the vault; "inner" is a state or cache
\* folder in it; and the vault itself is "remade" when it was gone, "invented"
\* when it never was.
Things == {"probe", "template", "instance", "inner", "remade", "invented", "local"}

Init ==
  /\ vault \in {"never", "there"} /\ stateDir \in StateDirs
  /\ at = [p \in Pids |-> "start"]
  /\ traces = [p \in Pids |-> {}]
  /\ age = [p \in Pids |-> None]
  /\ beat = [p \in Pids |-> FALSE]
  /\ todo = [p \in Pids |-> {}] /\ look = [p \in Pids |-> <<>>] /\ peers = [p \in Pids |-> {}]

Go(p, phase) == at' = [at EXCEPT ![p] = phase]
Make(p, things) == traces' = [traces EXCEPT ![p] = @ \union things]

\* A folder is made in the vault with its parents, the vault included.
Parents == CASE vault = "there" -> {} [] vault = "gone" -> {"remade"} [] OTHER -> {"invented"}
MakeInVault(p, things) == vault' = "there" /\ Make(p, things \union Parents)

-----------------------------------------------------------------------------
(* The boot, a step from wait to wait.  Any of them may refuse for a reason  *)
(* that is not modelled: a bad setting, a path, a right, the disk.           *)

\* loadVaultConfig, and the checks of the path: a mistyped folder is not there.
validateVaultPath(p) ==
  /\ at[p] = "start"
  /\ (vault = "there" /\ Go(p, "probing")) \/ Go(p, "badVault")
  /\ UNCHANGED <<settled, traces, age, beat, scanning>>

\* A file is written to see that it can be; read-only, the folder is only looked at.
probeWrite(p) ==
  /\ at[p] = "probing"
  /\ \/ Go(p, "badVault") /\ UNCHANGED traces
     \/ vault = "there" /\ p \in ReadOnly /\ Go(p, "checked") /\ UNCHANGED traces
     \/ vault = "there" /\ p \notin ReadOnly /\ Go(p, "removing") /\ Make(p, {"probe"})
  /\ UNCHANGED <<settled, age, beat, scanning>>

\* Mutant: a probe that cannot be removed is left where it is, and the boot goes on.
ProbeLeft(p) ==
  /\ at[p] = "removing"
  /\ Go(p, "checked")
  /\ traces' = [traces EXCEPT ![p] = @ \ {"probe"}] \/ UNCHANGED traces
  /\ UNCHANGED <<settled, age, beat, scanning>>

RemoveProbe(p) ==
  /\ at[p] = "removing"
  /\ \/ Go(p, "checked") /\ traces' = [traces EXCEPT ![p] = @ \ {"probe"}]
     \/ Go(p, "badVault") /\ UNCHANGED traces
  /\ UNCHANGED <<settled, age, beat, scanning>>

ResolveVault(p) ==
  /\ at[p] = "checked"
  /\ (vault = "there" /\ Go(p, "resolved")) \/ Go(p, "badVault")
  /\ UNCHANGED <<settled, traces, age, beat, scanning>>

\* Mutant: the state folder is made before it is checked against the vault.
StateDirFirst(p) ==
  /\ at[p] = "resolved"
  /\ (stateDir # "related" /\ Go(p, "cleared")) \/ Go(p, "badState")
  /\ IF stateDir = "related" THEN Make(p, {"inner"}) ELSE UNCHANGED traces
  /\ UNCHANGED <<settled, age, beat, scanning>>

\* resolveLocalStateDir, or the same for STATE_DIR: first the check, then mkdir.
CheckStateDir(p) ==
  /\ at[p] = "resolved"
  /\ \/ stateDir = "machine" /\ vault = "there" /\ Go(p, "cleared")
     \/ stateDir \in {"given", "reserved"} /\ Go(p, "cleared")
     \/ Go(p, "badState")
  /\ UNCHANGED <<settled, traces, age, beat, scanning>>

\* STATE_DIR is made when something is put there; mkdir may fail half way.
MakeStateDir(p) ==
  /\ at[p] = "cleared"
  /\ \/ stateDir = "machine" /\ Go(p, "placed") /\ Make(p, {"local"})
     \/ stateDir # "machine" /\ Go(p, "placed") /\ UNCHANGED traces
     \/ stateDir = "machine" /\ Go(p, "badState") /\ (Make(p, {"local"}) \/ UNCHANGED traces)
  /\ UNCHANGED <<settled, age, beat, scanning>>

\* Mutant: the cache's folder is made wherever the settings put it.
CacheAnywhere(place) == {place}

\* What is made for a cache whose folder the settings put there.
CacheMade(place) == {place} \ {"inner"}

\* Without its folder the server does without a cache, and goes on.
resolveLocalCacheDir(p) ==
  /\ at[p] = "placed"
  /\ Go(p, "cached")
  /\ UNCHANGED traces \/ \E place \in {"local", "inner"} : Make(p, CacheMade(place))
  /\ UNCHANGED <<settled, age, beat, scanning>>

\* The adapter makes the vault's folder if it is not there, then looks it up.
createLocalRuntime(p) ==
  /\ at[p] = "cached"
  /\ \/ Go(p, "failed") /\ UNCHANGED <<vault, traces>>
     \/ (Go(p, "open") \/ Go(p, "failed")) /\ MakeInVault(p, {})
  /\ UNCHANGED <<stateDir, age, beat, scanning>>

\* Mutant: the template is seeded whatever the mode.
SeededAlways(p) ==
  /\ at[p] = "open"
  /\ Go(p, "seeded")
  /\ UNCHANGED <<vault, traces>> \/ MakeInVault(p, {"template"})
  /\ UNCHANGED <<stateDir, age, beat, scanning>>

\* The owner's template, unless it is there or cannot be written.
SeedTemplate(p) ==
  /\ at[p] = "open"
  /\ Go(p, "seeded")
  /\ UNCHANGED <<vault, traces>> \/ (p \notin ReadOnly /\ MakeInVault(p, {"template"}))
  /\ UNCHANGED <<stateDir, age, beat, scanning>>

\* registerInstance, whatever the mode: the folder, the file, and its rename into
\* place; then the others are looked for.
Register(p) ==
  /\ at[p] = "seeded"
  /\ \/ Go(p, "failed") /\ UNCHANGED <<vault, traces, age>>
     \/ /\ IF stateDir = "reserved" THEN MakeInVault(p, {"instance"}) ELSE Make(p, {"local"}) /\ UNCHANGED vault
        /\ \/ Go(p, "written") /\ age' = [age EXCEPT ![p] = 0]
           \/ Go(p, "failed") /\ UNCHANGED age
  /\ UNCHANGED <<stateDir, beat, scanning>>

-----------------------------------------------------------------------------
(* listOtherLivePeers, at boot: each entry is looked at, then judged. *)

\* Mutant: a server looks around before it says that it is there.
ListEarly(p) ==
  /\ at[p] = "seeded"
  /\ Go(p, "scanning")
  /\ todo' = [todo EXCEPT ![p] = {q \in Pids : age[q] # None}]
  /\ UNCHANGED <<settled, traces, age, beat, look, peers>>

List(p) ==
  /\ at[p] = "written"
  /\ Go(p, "scanning")
  /\ todo' = [todo EXCEPT ![p] = {q \in Pids : age[q] # None}]
  /\ UNCHANGED <<settled, traces, age, beat, look, peers>>

LookAt(p, q) ==
  /\ at[p] = "scanning" /\ look[p] = <<>> /\ q \in todo[p]
  /\ todo' = [todo EXCEPT ![p] = @ \ {q}]
  /\ look' = [look EXCEPT ![p] = IF age[q] = None THEN <<>> ELSE <<q, age[q] > Stale>>]
  /\ UNCHANGED <<settled, at, traces, age, beat, peers>>

\* process.kill(pid, 0)
isAlive(q) == at[q] \in Running \union {"reused"}

\* Mutant: a server that is still booting is not alive.
CountsBooted(q, stale) == at[q] = "up" /\ ~stale

Counts(q, stale) == isAlive(q) /\ ~stale

Judge(p) ==
  /\ at[p] = "scanning" /\ look[p] # <<>>
  /\ LET q == look[p][1] IN
       IF Counts(q, look[p][2])
       THEN peers' = [peers EXCEPT ![p] = @ \union ({q} \ {p})] /\ UNCHANGED age
       ELSE age' = [age EXCEPT ![q] = None] /\ UNCHANGED peers
  /\ look' = [look EXCEPT ![p] = <<>>]
  /\ UNCHANGED <<settled, at, traces, beat, todo>>

Serve(p) ==
  /\ at[p] = "scanning" /\ look[p] = <<>> /\ todo[p] = {}
  /\ Go(p, "up")
  /\ UNCHANGED <<settled, traces, age, beat, scanning>>

-----------------------------------------------------------------------------
(* The heartbeat, the stop, a crash, and time. *)

Beat(p) ==
  /\ at[p] \in {"written", "scanning", "up"} /\ ~beat[p]
  /\ beat' = [beat EXCEPT ![p] = TRUE]
  /\ UNCHANGED <<settled, at, traces, age, scanning>>

\* The write of a beat lands, even behind a stop that has begun, or fails.
BeatLands(p) ==
  /\ beat[p] /\ at[p] \in Running
  /\ age' = [age EXCEPT ![p] = 0] \/ UNCHANGED age
  /\ beat' = [beat EXCEPT ![p] = FALSE]
  /\ UNCHANGED <<settled, at, traces, scanning>>

\* stopHeartbeat, and the removal of the file; the process ends a little later.
Stop(p) ==
  /\ at[p] = "up"
  /\ Go(p, "leaving")
  /\ age' = [age EXCEPT ![p] = None] \/ UNCHANGED age
  /\ UNCHANGED <<settled, traces, beat, scanning>>

Exit(p) ==
  /\ at[p] \in Running
  /\ Go(p, "gone")
  /\ beat' = [beat EXCEPT ![p] = FALSE] /\ todo' = [todo EXCEPT ![p] = {}]
  /\ look' = [look EXCEPT ![p] = <<>>] /\ peers' = [peers EXCEPT ![p] = {}]
  /\ UNCHANGED <<settled, traces, age>>

Reuse(p) ==
  /\ at[p] = "gone"
  /\ Go(p, "reused")
  /\ UNCHANGED <<settled, traces, age, beat, scanning>>

\* The beats of a running server land before its file is stale.
Tick ==
  /\ \A p \in Pids : at[p] \in {"written", "scanning", "up"} => age[p] \in 0 .. Stale - 1
  /\ age' = [p \in Pids |-> IF age[p] \in 0 .. Stale THEN age[p] + 1 ELSE age[p]]
  /\ UNCHANGED <<settled, at, traces, beat, scanning>>

\* The vault is moved away, unmounted or deleted while a server boots.  One that
\* holds instance files stays where it is.
Vanish ==
  /\ vault = "there" /\ \E p \in Pids : at[p] \in Booting
  /\ stateDir = "reserved" => \A p \in Pids : at[p] \notin Serving /\ age[p] = None
  /\ vault' = "gone"
  /\ UNCHANGED <<stateDir, at, traces, age, beat, scanning>>

-----------------------------------------------------------------------------
BootStep(p) ==
  \/ validateVaultPath(p) \/ probeWrite(p) \/ RemoveProbe(p) \/ ResolveVault(p)
  \/ CheckStateDir(p) \/ MakeStateDir(p) \/ resolveLocalCacheDir(p)
  \/ createLocalRuntime(p) \/ SeedTemplate(p) \/ Register(p)

Next ==
  \/ \E p \in Pids :
       \/ BootStep(p)
       \/ List(p) \/ (\E q \in Pids : LookAt(p, q)) \/ Judge(p) \/ Serve(p)
       \/ Beat(p) \/ BeatLands(p) \/ Stop(p) \/ Exit(p) \/ Reuse(p)
  \/ Tick \/ Vanish

Spec == Init /\ [][Next]_sessionVars

-----------------------------------------------------------------------------
Phases == Running \union Refused \union {"start", "failed", "gone", "reused"}

TypeOK ==
  /\ vault \in {"never", "there", "gone"} /\ stateDir \in StateDirs
  /\ at \in [Pids -> Phases]
  /\ traces \in [Pids -> SUBSET Things]
  /\ age \in [Pids -> 0 .. Stale + 1 \union {None}] /\ beat \in [Pids -> BOOLEAN]
  /\ todo \in [Pids -> SUBSET Pids] /\ peers \in [Pids -> SUBSET Pids]

\* What a boot may leave behind, wherever it is refused, fails or dies ("before
\* anything is created: a mistyped folder must be an error, not an empty vault").
\* A mistyped folder stays as it is, and nothing is made anywhere; no state or
\* cache folder is made in the vault; one refused for the vault or for a state
\* folder in it leaves at most the probe, and only when that could not be removed
\* or the process died with it.  A read-only boot puts nothing into the vault but
\* the vault's own folder, when that is moved away under it, and its instance
\* file, when STATE_DIR is the reserved folder.
BootLeavesVaultAlone ==
  \A p \in Pids :
    /\ vault = "never" => traces[p] = {}
    /\ traces[p] \intersect {"invented", "inner"} = {}
    /\ at[p] = "badVault" \/ stateDir = "related" => traces[p] \subseteq {"probe"}
    /\ at[p] = "badState" => traces[p] \subseteq {"local"}
    /\ "probe" \in traces[p] => at[p] \in {"removing", "badVault", "gone", "reused"}
    /\ p \in ReadOnly => traces[p] \subseteq {"local", "remade"} \union (IF stateDir = "reserved" THEN {"instance"} ELSE {})

\* Of two servers that are up, the one whose scan came later has seen the other,
\* however close their boots were.
NoMutualBlindness ==
  \A p, q \in Pids : at[p] = "up" /\ at[q] = "up" /\ p # q => q \in peers[p] \/ p \in peers[q]

\* "Two processes booting at nearly the same moment still see each other"; and
\* the file of a running server that keeps up its beat is taken away by no one
\* but itself: what a scan removes is stale or an ended process's.
PeersTell ==
  [][/\ NoMutualBlindness'
     /\ \A p \in Pids : at[p] \in {"written", "scanning", "up"} /\ age[p] # None /\ age'[p] = None
                          => at'[p] = "leaving"]_sessionVars
=============================================================================
