-------------------------- MODULE ReconcileSchedule --------------------------
(***************************************************************************)
(* When the runtime checks its index against the disk (vault/runtime.ts):  *)
(* at the end of a deferred boot, at every tick of a timer, and whenever   *)
(* the watcher reports an error; and how it stops.  What one pass does is  *)
(* IndexRefresh; here a pass starts, runs, and succeeds or fails.          *)
(*                                                                         *)
(* The code runs on one thread: each action is what happens between two    *)
(* waits.  Time is abstracted to whether minGapMs, which is not 0, has     *)
(* gone by since the last pass started or ended.                           *)
(***************************************************************************)
EXTENDS Integers, FiniteSets

CONSTANTS
  Passes,   \* passes that can run at once (a bound)
  Retries   \* how often a failed first pass is tried again (retryMs.length)

ASSUME ScheduleAssumption == IsFiniteSet(Passes) /\ 0 \notin Passes /\ Retries \in Nat

VARIABLES
  deferred,  \* deferIndex: the stdio server's boot
  boot,      \* how far the background part of the boot (fillPromise) has come
  attempt,   \* how many of its passes have failed
  awaited,   \* the pass it waits for, 0 when none
  running,   \* passes in progress
  inFlight,  \* the one the runtime knows of, 0 when none
  pending,   \* an error came in while inFlight was running
  trailing,  \* the timer of a trailing pass is set
  gap,       \* less than minGapMs since the last pass started or ended
  close,     \* how far close() has come
  last,      \* the pass close() waits for, 0 when none
  owed,      \* history: the watcher reported an error no pass has started since
  checked    \* history: a pass has succeeded

passes == <<running, inFlight, gap>>
vars == <<deferred, boot, attempt, awaited, passes, pending, trailing, close, last, owed, checked>>

closed == close # "open"
BootOver == boot \in {"built", "failed", "left"}

\* From startWatching, which a fill that failed or was stopped never reaches,
\* until close() detaches the watcher and clears the timer.
Watching ==
  /\ close \in {"open", "waiting"}
  /\ boot \in {"awaiting", "pausing", "built"} \/ attempt > 0

Init ==
  /\ deferred \in BOOLEAN
  /\ boot = IF deferred THEN "filling" ELSE "built"
  /\ attempt = 0 /\ awaited = 0
  /\ running = {} /\ inFlight = 0 /\ gap = FALSE
  /\ pending = FALSE /\ trailing = FALSE
  /\ close = "open" /\ last = 0
  /\ owed = FALSE /\ checked = FALSE

startPass(p) ==
  /\ p \notin running
  /\ running' = running \union {p}
  /\ inFlight' = p
  /\ gap' = TRUE

-----------------------------------------------------------------------------
(* What asks for a pass. *)

\* Mutant: the pass in flight is taken to answer the error.
requestDropped(timer) ==
  \/ /\ ~closed /\ inFlight = 0 /\ ~gap
     /\ \E p \in Passes : startPass(p)
     /\ trailing' = timer
     /\ UNCHANGED pending
  \/ /\ closed \/ inFlight # 0 \/ gap
     /\ trailing' = (timer \/ (~closed /\ inFlight = 0))
     /\ UNCHANGED <<passes, pending>>

\* Mutant: a closed runtime still answers.
requestClosed(timer) ==
  \/ /\ inFlight = 0 /\ ~gap
     /\ \E p \in Passes : startPass(p)
     /\ trailing' = timer
     /\ UNCHANGED pending
  \/ /\ inFlight # 0 \/ gap
     /\ pending' = (pending \/ inFlight # 0)
     /\ trailing' = (timer \/ inFlight = 0)
     /\ UNCHANGED passes

\* A trigger that must not be lost.  timer: whether a trailing pass is due already.
requestPass(timer) ==
  \/ /\ ~closed /\ inFlight = 0 /\ ~gap
     /\ \E p \in Passes : startPass(p)
     /\ trailing' = timer
     /\ UNCHANGED pending
  \/ /\ closed \/ inFlight # 0 \/ gap
     /\ pending' = (pending \/ (~closed /\ inFlight # 0))
     /\ trailing' = (timer \/ (~closed /\ inFlight = 0))
     /\ UNCHANGED passes

WatcherError ==
  /\ Watching
  /\ requestPass(trailing)
  /\ owed' = (running' = running)
  /\ UNCHANGED <<deferred, boot, attempt, awaited, close, last, checked>>

TrailingFires ==
  /\ trailing
  /\ requestPass(FALSE)
  /\ owed' = (owed /\ running' = running)
  /\ UNCHANGED <<deferred, boot, attempt, awaited, close, last, checked>>

\* Mutant: a tick does not look whether a pass is in flight.
NoneKnownAlways == TRUE

NoneKnown == inFlight = 0

onTick ==
  /\ Watching /\ ~closed /\ NoneKnown
  /\ \E p \in Passes : startPass(p)
  /\ owed' = FALSE
  /\ UNCHANGED <<deferred, boot, attempt, awaited, pending, trailing, close, last, checked>>

GapEnds ==
  /\ gap
  /\ gap' = FALSE
  /\ UNCHANGED <<deferred, boot, attempt, awaited, running, inFlight, pending, trailing, close, last, owed, checked>>

-----------------------------------------------------------------------------
(* The deferred boot: fill, watch, then pass after pass until one succeeds. *)

SettlePass ==
  /\ ~closed
  /\ \E p \in Passes : startPass(p) /\ awaited' = p
  /\ boot' = "awaiting"
  /\ owed' = FALSE

EndFill ==
  /\ boot = "filling"
  /\ \/ SettlePass
     \/ /\ boot' = "failed" \/ (closed /\ boot' = "left")
        /\ UNCHANGED <<awaited, passes, owed>>
  /\ UNCHANGED <<deferred, attempt, pending, trailing, close, last, checked>>

PauseEnds ==
  /\ boot = "pausing"
  /\ \/ SettlePass
     \/ closed /\ boot' = "left" /\ UNCHANGED <<awaited, passes, owed>>
  /\ UNCHANGED <<deferred, attempt, pending, trailing, close, last, checked>>

\* Mutant: the boot never gives up.
AfterFailureForEver == IF closed THEN "left" ELSE "pausing"

\* Where the boot goes when a pass it waits for has failed.
AfterFailure == IF closed THEN "left" ELSE IF attempt < Retries THEN "pausing" ELSE "failed"

\* Mutant: the index is ready when the pass is over, however it went.
AfterPassHopeful(ok) == "built"

AfterPass(ok) == IF ok THEN "built" ELSE AfterFailure

\* A pass ends.  The runtime forgets the pass it knows of, whichever that is;
\* an error that came in meanwhile is answered when the gap is over.
EndPass(p, ok) ==
  /\ p \in running
  /\ running' = running \ {p} /\ inFlight' = 0 /\ gap' = TRUE
  /\ pending' = FALSE
  /\ trailing' = (trailing \/ (pending /\ ~closed))
  /\ checked' = (checked \/ ok)
  /\ IF p = awaited
     THEN /\ boot' = AfterPass(ok)
          /\ awaited' = 0
          /\ attempt' = IF ok THEN attempt ELSE attempt + 1
     ELSE UNCHANGED <<boot, awaited, attempt>>
  /\ UNCHANGED <<deferred, close, last, owed>>

-----------------------------------------------------------------------------
(* close(). *)

Close ==
  /\ close = "open"
  /\ close' = "waiting"
  /\ UNCHANGED <<deferred, boot, attempt, awaited, passes, pending, trailing, last, owed, checked>>

\* The boot is over: timers and watcher are taken down, and the pass the
\* runtime knows of is waited for.
TearDown ==
  /\ close = "waiting" /\ BootOver
  /\ close' = "draining" /\ last' = inFlight
  /\ trailing' = FALSE
  /\ UNCHANGED <<deferred, boot, attempt, awaited, passes, pending, owed, checked>>

Down ==
  /\ close = "draining" /\ last \notin running
  /\ close' = "down"
  /\ UNCHANGED <<deferred, boot, attempt, awaited, passes, pending, trailing, last, owed, checked>>

-----------------------------------------------------------------------------
Passing(p) == \E ok \in BOOLEAN : EndPass(p, ok)

Next ==
  \/ WatcherError \/ TrailingFires \/ onTick \/ GapEnds
  \/ EndFill \/ PauseEnds
  \/ \E p \in Passes : Passing(p)
  \/ Close \/ TearDown \/ Down

Spec == Init /\ [][Next]_vars

-----------------------------------------------------------------------------
TypeOK ==
  /\ deferred \in BOOLEAN
  /\ boot \in {"filling", "awaiting", "pausing", "built", "failed", "left"}
  /\ attempt \in 0 .. Retries + 1
  /\ running \subseteq Passes /\ {awaited, inFlight, last} \subseteq Passes \union {0}
  /\ pending \in BOOLEAN /\ trailing \in BOOLEAN /\ gap \in BOOLEAN
  /\ close \in {"open", "waiting", "draining", "down"}
  /\ owed \in BOOLEAN /\ checked \in BOOLEAN

\* One reconcile at a time, where no settling boot starts passes of its own
\* (the HTTP server), and close() leaves none behind.
OneAtATime ==
  ~deferred =>
    /\ running = {inFlight} \ {0}
    /\ close = "down" => running = {}

\* No pass starts once the runtime is closed.
NoneAfterClose == [][closed => running' \subseteq running]_vars

\* A deferred index is ready only when a pass over the disk has succeeded.
ReadyWhenChecked == deferred /\ boot = "built" => checked

\* "A reconcile pass in flight finishes before the caller tears the vault down."
CloseWaits == close = "down" => running = {}
=============================================================================
