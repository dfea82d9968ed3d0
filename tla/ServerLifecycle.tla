--------------------------- MODULE ServerLifecycle ---------------------------
(***************************************************************************)
(* The stop of a server and the runtime it closes, put together            *)
(* (stdio-main.ts, vault/runtime.ts): the boot of the runtime is what the  *)
(* calls parked on the index wait for, the stop closes the runtime when    *)
(* the transport is closed, and the process ends when close() is through,  *)
(* whatever fill, pause or pass it still had to wait for.                  *)
(*                                                                         *)
(* A runtime that defers its index is the stdio server's.  The other one   *)
(* is the HTTP server's (main.ts, server.ts): its index is ready when it   *)
(* serves, it refuses no call, and its stop waits for open exchanges only  *)
(* for a while; then it cuts their connections, and what ran behind them   *)
(* runs on, under a runtime that is closed, until the process exits.       *)
(***************************************************************************)
EXTENDS StdioShutdown, ReconcileSchedule

lifeVars == <<stopVars, vars>>

\* What the calls see of the boot.
IndexStateOf(b) ==
  IF b = "built" THEN "ready" ELSE IF b = "failed" THEN "failed" ELSE IF b = "left" THEN "stopped" ELSE "building"

LifeInit == StopInit /\ Init /\ indexState = IndexStateOf("filling")

-----------------------------------------------------------------------------
(* The stdio server. *)

\* A step of the calls or of the stop that does not touch the runtime.
Serve(A) == deferred /\ A /\ UNCHANGED vars

\* Mutant: the stop does not close the runtime.
CloseForgotten == Serve(CloseRuntime)

StopRuntime == CloseRuntime /\ Close

\* exit(0) comes after close() has returned.
Leave == stop = "closed" /\ close = "down" /\ stop' = "exit0" /\ UNCHANGED <<call, fresh, rounds, indexState, vars>>

-----------------------------------------------------------------------------
(* The HTTP server. *)

\* A step of its calls: the index was built before the listener was opened.  A
\* client that hangs up ends its exchange, but not the tool ("orphaned").
HttpCall(c) ==
  \/ /\ stop = "up" /\ call[c] = "away"
     /\ call' = [call EXCEPT ![c] = "running"]
     /\ UNCHANGED <<stop, fresh, rounds, indexState>>
  \/ Finish(c)
  \/ Answer(c)

HangUp(c) ==
  /\ TransportOpen /\ call[c] \in {"running", "returned"}
  /\ call' = [call EXCEPT ![c] = IF @ = "running" THEN "orphaned" ELSE "away"]
  /\ UNCHANGED <<stop, fresh, rounds, indexState>>

OrphanEnds(c) ==
  /\ ~Exited /\ call[c] = "orphaned"
  /\ call' = [call EXCEPT ![c] = "away"]
  /\ UNCHANGED <<stop, fresh, rounds, indexState>>

\* The listener is closed, and idle connections with it.
HttpShutdown ==
  /\ stop = "up" /\ stop' = "waiting"
  /\ UNCHANGED <<call, fresh, rounds, indexState>>

\* Mutant: what has not been written yet is not waited for.
ExchangesRun == \A c \in Calls : call[c] # "running"

\* Every exchange is over by itself.
ExchangesOver == \A c \in Calls : call[c] \notin {"running", "returned"}

\* Mutant: the drain time is not waited for.
DrainTimeSkipped == TRUE

\* drainMs is over: the connections are cut, and nothing else is.
DrainTimeOver == rounds + 1 >= Rounds

HttpDrain ==
  /\ stop = "waiting" /\ (ExchangesOver \/ DrainTimeOver)
  /\ stop' = "closing"
  /\ UNCHANGED <<call, fresh, rounds, indexState>>

\* A share of drainMs goes by.
HttpWait ==
  /\ stop = "waiting" /\ ~DrainTimeOver
  /\ rounds' = rounds + 1
  /\ UNCHANGED <<call, stop, fresh, indexState>>

Http(A) == ~deferred /\ A /\ UNCHANGED vars

-----------------------------------------------------------------------------
(* The runtime, and all together. *)

\* Mutant: a call is not told that the build has failed.
SeenLate == indexState' = (IF boot' = "failed" THEN indexState ELSE IndexStateOf(boot'))

Seen == indexState' = IndexStateOf(boot')

\* A step of the runtime, while the process lives; the calls see the boot move.
Work(A) ==
  /\ ~Exited /\ A
  /\ IF deferred THEN Seen ELSE UNCHANGED indexState
  /\ UNCHANGED <<call, stop, fresh, rounds>>

Pass == \E p \in Passes : Passing(p)

LifeNext ==
  \/ \E c \in Calls : Serve(Send(c) \/ CallStep(c) \/ Expire(c))
  \/ Serve(Shutdown) \/ Serve(Quiet \/ Drain \/ Turn \/ CloseTransport) \/ Serve(Exit1)
  \/ StopRuntime \/ Leave
  \/ Work(WatcherError \/ TrailingFires \/ onTick \/ GapEnds)
  \/ Work(EndFill \/ PauseEnds \/ Pass)
  \/ Work(TearDown \/ Down)
  \/ \E c \in Calls : Http(HttpCall(c) \/ HangUp(c) \/ OrphanEnds(c))
  \/ Http(HttpShutdown) \/ Http(HttpDrain) \/ Http(HttpWait) \/ Http(Exit1)

LifeSpec == LifeInit /\ [][LifeNext]_lifeVars

-----------------------------------------------------------------------------
\* Both states are well typed, and the calls see the boot the runtime is in.
LifeTypeOK ==
  /\ TypeOK /\ StopTypeOK
  /\ deferred => indexState = IndexStateOf(boot)

\* Over stdio no admitted call is left behind when the transport is closed, so
\* the runtime is never closed under a tool.  Over HTTP that holds only of what
\* ends in time: an exchange still open when the runtime is closed, its tool
\* running on or its answer lost, has been given the whole drain time first.
StopAnswers ==
  /\ deferred => AdmittedAnswered
  /\ ~deferred /\ stop \in {"closing", "closed", "exit0"} =>
       (\A c \in Calls : call[c] \notin {"running", "returned"}) \/ rounds + 1 = Rounds

\* An error of the watcher is never dropped: a pass starts after it, unless the
\* runtime is closed or the process gone.
ErrorAnswered == owed ~> ~owed \/ closed \/ Exited

\* A boot comes to an end, in an index that is ready or in an error it reports,
\* whatever its passes do.
BootEnds == boot = "filling" ~> BootOver \/ Exited

\* A stop ends, however busy the client, wherever the boot is, and whatever
\* passes close() still has to wait for; the hard limit is not needed for it.
Stops == stop \in {"admitting", "waiting"} ~> Exited
=============================================================================
