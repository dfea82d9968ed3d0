---------------------------- MODULE IndexCacheFile ----------------------------
(***************************************************************************)
(* The index cache of the stdio server (storage/local-cache.ts, and when   *)
(* vault/runtime.ts saves and loads it), for one note and any number of    *)
(* sessions on one vault.  A boot trusts a cached entry when size and      *)
(* modification time are those of the disk; all contents here have one     *)
(* size.  The times of files are coarse, so two writes may bear the same,  *)
(* and an entry modified just before a save is left out of it.             *)
(*                                                                         *)
(* An entry is <<content, time>>, and a content is the number of the write *)
(* that made it.  Lines too long, malformed or unsafe as JSON are entries  *)
(* that are missing: Keeps and Load choose.                                *)
(***************************************************************************)
EXTENDS Integers

CONSTANTS
  Sessions,  \* servers that may run
  Coarse,    \* how coarse the times of files are
  Window,    \* INDEX_CACHE_RACY_WINDOW_MS
  Delay,     \* the longest a running server takes to see a change
  MaxClock, MaxWrites, MaxSaves  \* bounds

None == <<>>

VARIABLES
  now,     \* the clock
  disk,    \* the note
  cache,   \* the cache file: <<"absent">>, <<"spoiled">>, or <<"held", its entry or None>>
  session, \* where each is: "off", "filling", "filled", "ready"
  index,   \* the entry each holds
  unseen,  \* since when a change has been there it has not seen, -1 when none
  saving,  \* a save under way: when it began, and what it took
  saves,   \* how many saves have begun
  blind    \* history: a write under an unchanged time fell between a fill and its watcher

cacheVars == <<now, disk, cache, session, index, unseen, saving, saves, blind>>

Init ==
  /\ now = 0 /\ disk = <<0, 0>> /\ cache = <<"absent">> /\ saves = 0 /\ blind = FALSE
  /\ session = [s \in Sessions |-> "off"]
  /\ index = [s \in Sessions |-> None]
  /\ unseen = [s \in Sessions |-> -1]
  /\ saving = [s \in Sessions |-> None]

Running(s) == session[s] # "off"

\* The vault's owner saves the note.
Write ==
  /\ disk[1] < MaxWrites
  /\ disk' = <<disk[1] + 1, now - (now % Coarse)>>
  /\ unseen' = [s \in Sessions |-> IF session[s] = "ready" /\ unseen[s] = -1 THEN now ELSE unseen[s]]
  /\ blind' = (blind \/ \E s \in Sessions : session[s] = "filled" /\ index[s][2] = disk'[2])
  /\ UNCHANGED <<now, cache, session, index, saving, saves>>

\* The watcher's event is handled: the entry becomes what is on the disk.
See(s) ==
  /\ session[s] = "ready" /\ unseen[s] # -1
  /\ index' = [index EXCEPT ![s] = disk]
  /\ unseen' = [unseen EXCEPT ![s] = -1]
  /\ UNCHANGED <<now, disk, cache, session, saving, saves, blind>>

Tick ==
  /\ now < MaxClock
  /\ \A s \in Sessions : unseen[s] # -1 => now - unseen[s] < Delay
  /\ now' = now + 1
  /\ UNCHANGED <<disk, cache, session, index, unseen, saving, saves, blind>>

-----------------------------------------------------------------------------
(* Boot: load, then fill. *)

\* A header that does not parse, or is another vault's or another schema's.
Rejected == cache = <<"spoiled">>

Boot(s) ==
  /\ ~Running(s)
  /\ session' = [session EXCEPT ![s] = "filling"]
  /\ IF Rejected THEN cache' = <<"absent">> ELSE UNCHANGED cache
  /\ UNCHANGED <<now, disk, index, unseen, saving, saves, blind>>

Hit == cache[1] = "held" /\ cache[2] # None /\ cache[2][2] = disk[2]

\* What loading leaves of the file's lines: the entry, or nothing when its line
\* is malformed, too long or not shaped like an entry.
LoadedEntries == IF Hit THEN {None, cache[2]} ELSE {None}

\* The note is taken from the cache when its stamp is the disk's, else read.
Fill(s) ==
  /\ session[s] = "filling"
  /\ session' = [session EXCEPT ![s] = "filled"]
  /\ \E entry \in LoadedEntries : index' = [index EXCEPT ![s] = IF entry # None THEN entry ELSE disk]
  /\ UNCHANGED <<now, disk, cache, unseen, saving, saves, blind>>

\* The watcher is attached, and a pass that compares the times succeeds.
Settle(s) ==
  /\ session[s] = "filled"
  /\ session' = [session EXCEPT ![s] = "ready"]
  /\ IF index[s][2] = disk[2]
     THEN UNCHANGED index
     ELSE index' = [index EXCEPT ![s] = disk]
  /\ UNCHANGED <<now, disk, cache, unseen, saving, saves, blind>>

-----------------------------------------------------------------------------
(* runIndexCacheSave: after the fill, hourly, when a racy entry has aged, and  *)
(* on the way out.                                                             *)

BeginSave(s) ==
  /\ session[s] = "ready" /\ saving[s] = None /\ saves < MaxSaves
  /\ saves' = saves + 1
  /\ saving' = [saving EXCEPT ![s] = <<now, None>>]
  /\ UNCHANGED <<now, disk, cache, session, index, unseen, blind>>

\* Mutant: an entry is kept however young it is.
KeepsYoung(e, began) == TRUE

\* An entry as old as the window, or younger, is left out.
Keeps(e, began) == e[2] < began - Window

\* The loop over the index takes the entry as it is by then.
TakeEntry(s) ==
  /\ saving[s] # None /\ saving[s][2] = None
  /\ Keeps(index[s], saving[s][1])
  /\ saving' = [saving EXCEPT ![s][2] = index[s]]
  /\ UNCHANGED <<now, disk, cache, session, index, unseen, saves, blind>>

\* The rename, with the entry or (racy, oversized, unsafe) without it.
EndSave(s) ==
  /\ saving[s] # None
  /\ cache' = <<"held", saving[s][2]>>
  /\ saving' = [saving EXCEPT ![s] = None]
  /\ UNCHANGED <<now, disk, session, index, unseen, saves, blind>>

\* Out of time, or an error: the old file stays.
AbandonSave(s) ==
  /\ saving[s] # None
  /\ saving' = [saving EXCEPT ![s] = None]
  /\ UNCHANGED <<now, disk, cache, session, index, unseen, saves, blind>>

\* The process ends, in whatever way; what it had not seen nobody has.
Die(s) ==
  /\ Running(s)
  /\ session' = [session EXCEPT ![s] = "off"] /\ index' = [index EXCEPT ![s] = None]
  /\ unseen' = [unseen EXCEPT ![s] = -1]
  /\ saving' = [saving EXCEPT ![s] = None]
  /\ UNCHANGED <<now, disk, cache, saves, blind>>

\* A cache of another version or vault, or a torn one, by whatever cause.
Spoil ==
  /\ cache # <<"absent">>
  /\ cache' = <<"spoiled">>
  /\ UNCHANGED <<now, disk, session, index, unseen, saving, saves, blind>>

Next ==
  \/ Write \/ Tick \/ Spoil
  \/ \E s \in Sessions :
       See(s) \/ Boot(s) \/ Fill(s) \/ Settle(s) \/ BeginSave(s) \/ TakeEntry(s) \/ EndSave(s) \/ AbandonSave(s) \/ Die(s)

-----------------------------------------------------------------------------
\* What the constants have to satisfy: the window outlasts the coarseness of the
\* times and the delay of a running server together.
CacheTimes ==
  /\ Coarse \in Nat \ {0} /\ {Window, Delay, MaxClock, MaxWrites, MaxSaves} \subseteq Nat
  /\ Coarse + Delay <= Window + 1

TypeOK ==
  /\ now \in 0 .. MaxClock /\ saves \in 0 .. MaxSaves
  /\ disk \in (0 .. MaxWrites) \X (0 .. MaxClock)
  /\ \A s \in Sessions : index[s] # None => index[s][1] \in 0 .. disk[1]

\* What the cache holds under the disk's time is what the disk holds: no boot
\* takes an old content for the present one, whatever sessions saved it and
\* whichever of them died before it saw the last write.  (A write that falls
\* between a session's read and its watcher, under the same time, no session sees.)
HitIsCurrent == Hit /\ ~blind => cache[2][1] = disk[1]
=============================================================================
