--------------------------- MODULE StdioShutdown ---------------------------
(***************************************************************************)
(* How the stdio server stops (stdio-main.ts, tools/call-tracker.ts,       *)
(* tools/register.ts): a signal or the client's disconnect starts one      *)
(* orderly stop.  Calls are still let in for a while, then refused; those  *)
(* running are waited for and answered; then the transport is closed, and  *)
(* the runtime last.  A timer ends the process the hard way when all that  *)
(* takes too long.                                                         *)
(*                                                                         *)
(* A call that needs the index waits for it inside the tracker, so the     *)
(* stop waits for the call and the call, told of the stop, not for long.   *)
(***************************************************************************)
EXTENDS Integers

CONSTANTS
  Calls,   \* calls the client can have open at once; each can be made again
  Exempt,  \* those that never read the index (INDEX_GATE_EXEMPT)
  Rounds   \* quiet periods that fit in the time calls are let in (4: 1000/250 ms)

ASSUME ShutdownAssumption == Exempt \subseteq Calls /\ Rounds \in Nat \ {0}

VARIABLES
  call,       \* where each call is
  stop,       \* how far the stop has come
  fresh,      \* whether a call started in the current quiet period (started # seen)
  rounds,     \* quiet periods waited for (HTTP: shares of the drain time)
  indexState  \* the deferred index

stopVars == <<call, stop, fresh, rounds, indexState>>

Exited == stop \in {"exit0", "exit1"}
Announced == stop # "up"
Refusing == stop \in {"waiting", "turn", "flush"}
TransportOpen == stop \in {"up", "admitting", "waiting", "turn", "flush"}
Running == {c \in Calls : call[c] \in {"parked", "running"}}

StopInit ==
  /\ call = [c \in Calls |-> "away"]
  /\ stop = "up"
  /\ fresh = FALSE
  /\ rounds = 0
  /\ indexState = "building"

-----------------------------------------------------------------------------
(* The client and the calls. *)

Send(c) ==
  /\ TransportOpen /\ call[c] = "away"
  /\ call' = [call EXCEPT ![c] = "sent"]
  /\ UNCHANGED <<stop, fresh, rounds, indexState>>

\* Where a call goes that is let in: into its body, or to wait for the index.
Admitted(c) ==
  CASE c \in Exempt \/ indexState = "ready" -> "running"
    [] indexState = "failed" -> "returned"
    [] OTHER -> "parked"

Dispatch(c) ==
  /\ TransportOpen /\ call[c] = "sent"
  /\ IF Refusing
     THEN call' = [call EXCEPT ![c] = "refused"] /\ UNCHANGED fresh
     ELSE call' = [call EXCEPT ![c] = Admitted(c)] /\ fresh' = TRUE
  /\ UNCHANGED <<stop, rounds, indexState>>

\* The race in waitForIndex: the index is settled, or the stop was announced
\* and its short grace is over.  Its own long timeout is Expire.
MayWake == indexState # "building" \/ Announced

Wake(c) ==
  /\ ~Exited /\ call[c] = "parked" /\ MayWake
  /\ call' = [call EXCEPT ![c] = IF indexState = "ready" THEN "running" ELSE "returned"]
  /\ UNCHANGED <<stop, fresh, rounds, indexState>>

Expire(c) ==
  /\ ~Exited /\ call[c] = "parked" /\ indexState = "building"
  /\ call' = [call EXCEPT ![c] = "returned"]
  /\ UNCHANGED <<stop, fresh, rounds, indexState>>

Finish(c) ==
  /\ ~Exited /\ call[c] = "running"
  /\ call' = [call EXCEPT ![c] = "returned"]
  /\ UNCHANGED <<stop, fresh, rounds, indexState>>

\* The protocol layer writes the answer; the client may then call again.
Answer(c) ==
  /\ TransportOpen /\ call[c] \in {"returned", "refused"}
  /\ call' = [call EXCEPT ![c] = "away"]
  /\ UNCHANGED <<stop, fresh, rounds, indexState>>

-----------------------------------------------------------------------------
(* The stop. *)

Shutdown ==
  /\ stop = "up"
  /\ stop' = "admitting" /\ fresh' = FALSE
  /\ UNCHANGED <<call, rounds, indexState>>

\* Mutant: a busy client keeps the intake open.
IntakeOverWhenQuiet == Running = {} /\ ~fresh

IntakeOver == (Running = {} /\ ~fresh) \/ rounds + 1 >= Rounds

\* Mutant: the time limit is looked at one wait too late.
QuietLate ==
  /\ stop = "admitting"
  /\ IF rounds = Rounds
     THEN stop' = "waiting" /\ UNCHANGED <<fresh, rounds>>
     ELSE fresh' = FALSE /\ rounds' = rounds + 1 /\ UNCHANGED stop
  /\ UNCHANGED <<call, indexState>>

\* One wait of drain's loop is over.
Quiet ==
  /\ stop = "admitting"
  /\ IF IntakeOver
     THEN stop' = "waiting" /\ UNCHANGED <<fresh, rounds>>
     ELSE fresh' = FALSE /\ rounds' = (IF rounds + 1 < Rounds THEN rounds + 1 ELSE rounds) /\ UNCHANGED stop
  /\ UNCHANGED <<call, indexState>>

\* Mutant: the stop goes on when the intake is over.
DrainedAtOnce == stop = "waiting"

Drained == stop = "waiting" /\ Running = {}

Drain ==
  /\ Drained
  /\ stop' = "turn"
  /\ UNCHANGED <<call, fresh, rounds, indexState>>

\* setImmediate: what a returned call still has to do in its turn is done first.
Turn ==
  /\ stop = "turn" /\ \A c \in Calls : call[c] # "returned"
  /\ stop' = "flush"
  /\ UNCHANGED <<call, fresh, rounds, indexState>>

CloseTransport ==
  /\ stop = "flush"
  /\ stop' = "closing"
  /\ UNCHANGED <<call, fresh, rounds, indexState>>

\* The rest of the stop: runtime.close() beside unregisterInstance.
CloseRuntime ==
  /\ stop = "closing"
  /\ stop' = "closed"
  /\ UNCHANGED <<call, fresh, rounds, indexState>>

Exit0 ==
  /\ stop = "closed" /\ indexState # "building"
  /\ stop' = "exit0"
  /\ UNCHANGED <<call, fresh, rounds, indexState>>

Exit1 ==
  /\ Announced /\ ~Exited
  /\ stop' = "exit1"
  /\ UNCHANGED <<call, fresh, rounds, indexState>>

-----------------------------------------------------------------------------
(* What goes on beside them: the index build. *)

Settle ==
  /\ ~Exited /\ indexState = "building"
  /\ indexState' \in {"ready", "failed"}
  /\ UNCHANGED <<call, stop, fresh, rounds>>

\* close() was called: the build stops at its next batch.
StopBuild ==
  /\ stop \in {"closing", "closed"} /\ indexState = "building"
  /\ indexState' = "stopped"
  /\ UNCHANGED <<call, stop, fresh, rounds>>

-----------------------------------------------------------------------------
CallStep(c) == Dispatch(c) \/ Wake(c) \/ Finish(c) \/ Answer(c)
StopStep == Quiet \/ Drain \/ Turn \/ CloseTransport \/ CloseRuntime \/ Exit0

StopNext ==
  \/ \E c \in Calls : Send(c) \/ CallStep(c) \/ Expire(c)
  \/ Shutdown \/ StopStep \/ Exit1
  \/ Settle \/ StopBuild

StopSpec == StopInit /\ [][StopNext]_stopVars

-----------------------------------------------------------------------------
StopTypeOK ==
  /\ call \in [Calls -> {"away", "sent", "parked", "running", "returned", "refused", "orphaned"}]
  /\ stop \in {"up", "admitting", "waiting", "turn", "flush", "closing", "closed", "exit0", "exit1"}
  /\ fresh \in BOOLEAN /\ rounds \in 0 .. Rounds - 1
  /\ indexState \in {"building", "ready", "failed", "stopped"}

\* Once the transport is closed in the orderly way no call that was let in is
\* still waiting, running or unanswered ("the calls already running finish and
\* are answered"), so the runtime is never closed under a running tool.
AdmittedAnswered ==
  stop \in {"closing", "closed", "exit0"} =>
    \A c \in Calls : call[c] \notin {"parked", "running", "returned"}
=============================================================================
