-------------------------- MODULE LifecycleProofs --------------------------
(***************************************************************************)
(* Theorems about what lives and dies with a server process, for any       *)
(* number of calls, passes, sessions and writes: the stop (StdioShutdown), *)
(* the runtime's passes (ReconcileSchedule), both put together             *)
(* (ServerLifecycle), the sessions of one vault (StdioSessions), the index *)
(* cache (IndexCacheFile) and the tunnel's address (TunnelAddress).        *)
(***************************************************************************)
EXTENDS MCLifecycle, TLAPS

-----------------------------------------------------------------------------
(* The stop alone.  From "turn" on nothing is running and nothing is let   *)
(* in, so nothing can return any more; and "turn" is only left when        *)
(* whatever had returned by then is answered.                              *)

Late == {"turn", "flush", "closing", "closed", "exit0"}

NoneRunning == stop \in Late => \A c \in Calls : call[c] \notin {"parked", "running"}
NoneUnanswered == stop \in Late \ {"turn"} => \A c \in Calls : call[c] # "returned"

StopInv == StopTypeOK /\ NoneRunning /\ NoneUnanswered

LEMMA StopInvStarts == StopInit => StopInv
<1> SUFFICES ASSUME StopInit PROVE StopInv
    OBVIOUS
<1>1. rounds \in 0 .. Rounds - 1
      BY ShutdownAssumption DEF StopInit
<1>2. StopTypeOK
      BY <1>1 DEF StopInit, StopTypeOK
<1>3. NoneRunning /\ NoneUnanswered
      BY DEF StopInit, NoneRunning, NoneUnanswered, Late
<1> QED BY <1>2, <1>3 DEF StopInv

\* Every step keeps the state typed.
LEMMA StopTypeStep == StopTypeOK /\ [StopNext]_stopVars => StopTypeOK'
<1> SUFFICES ASSUME StopTypeOK, [StopNext]_stopVars PROVE StopTypeOK'
    OBVIOUS
<1> USE ShutdownAssumption DEF StopTypeOK
<1>1. CASE \E c \in Calls : Send(c) \/ CallStep(c) \/ Expire(c)
  <2> PICK c \in Calls : Send(c) \/ CallStep(c) \/ Expire(c)
      BY <1>1
  <2>1. CASE Send(c) \/ Wake(c) \/ Expire(c) \/ Finish(c) \/ Answer(c)
        BY <2>1 DEF Send, Wake, Expire, Finish, Answer
  <2>2. CASE Dispatch(c)
    <3>1. Admitted(c) \in {"running", "returned", "parked"}
          BY DEF Admitted
    <3> QED BY <2>2, <3>1 DEF Dispatch
  <2> QED BY <2>1, <2>2 DEF CallStep
<1>2. CASE Shutdown \/ Exit1
      BY <1>2 DEF Shutdown, Exit1
<1>3. CASE StopStep
  <2>1. CASE Quiet
    <3>1. rounds' = rounds \/ (rounds + 1 < Rounds /\ rounds' = rounds + 1)
          BY <2>1 DEF Quiet
    <3>2. rounds' \in 0 .. Rounds - 1
          BY <3>1
    <3>3. /\ stop' \in {stop, "waiting"} /\ fresh' \in BOOLEAN
          /\ UNCHANGED <<call, indexState>>
          BY <2>1 DEF Quiet
    <3> QED BY <3>2, <3>3
  <2>2. CASE Drain \/ Turn \/ CloseTransport \/ CloseRuntime \/ Exit0
        BY <2>2 DEF Drain, Turn, CloseTransport, CloseRuntime, Exit0
  <2> QED BY <1>3, <2>1, <2>2 DEF StopStep
<1>4. CASE Settle \/ StopBuild
      BY <1>4 DEF Settle, StopBuild
<1>5. CASE UNCHANGED stopVars
      BY <1>5 DEF stopVars
<1> QED BY <1>1, <1>2, <1>3, <1>4, <1>5 DEF StopNext

\* Every step keeps the strengthening.
LEMMA StopInvStep == StopInv /\ [StopNext]_stopVars => StopInv'
<1> SUFFICES ASSUME StopInv, [StopNext]_stopVars PROVE StopInv'
    OBVIOUS
<1>1. StopTypeOK /\ StopTypeOK'
      BY StopTypeStep DEF StopInv
<1>2. NoneRunning' /\ NoneUnanswered'
  <2> USE <1>1 DEF StopInv, StopTypeOK, NoneRunning, NoneUnanswered, Late
  <2>1. CASE \E c \in Calls : Send(c) \/ CallStep(c) \/ Expire(c)
    <3> PICK c \in Calls : Send(c) \/ CallStep(c) \/ Expire(c)
        BY <2>1
    <3>1. CASE Send(c)
          BY <3>1 DEF Send
    <3>2. CASE Dispatch(c)
          BY <3>2 DEF Dispatch, TransportOpen, Refusing
    <3>3. CASE Wake(c) \/ Expire(c) \/ Finish(c)
          BY <3>3 DEF Wake, Expire, Finish
    <3>4. CASE Answer(c)
          BY <3>4 DEF Answer
    <3> QED BY <3>1, <3>2, <3>3, <3>4 DEF CallStep
  <2>2. CASE Shutdown \/ Exit1
        BY <2>2 DEF Shutdown, Exit1
  <2>3. CASE Quiet
        BY <2>3 DEF Quiet
  <2>4. CASE Drain
        BY <2>4 DEF Drain, Drained, Running
  <2>5. CASE Turn
        BY <2>5 DEF Turn
  <2>6. CASE CloseTransport \/ CloseRuntime \/ Exit0
        BY <2>6 DEF CloseTransport, CloseRuntime, Exit0
  <2>7. CASE Settle \/ StopBuild
        BY <2>7 DEF Settle, StopBuild
  <2>8. CASE UNCHANGED stopVars
        BY <2>8 DEF stopVars
  <2> QED BY <2>1, <2>2, <2>3, <2>4, <2>5, <2>6, <2>7, <2>8 DEF StopNext, StopStep
<1> QED BY <1>1, <1>2 DEF StopInv

\* The strengthening holds in every state of every behaviour.
THEOREM ShutdownInvariant == StopSpec => []StopInv
<1>1. StopInit => StopInv
      BY StopInvStarts
<1>2. StopInv /\ [StopNext]_stopVars => StopInv'
      BY StopInvStep
<1> QED BY <1>1, <1>2, PTL DEF StopSpec

\* Nothing that was let in is left behind when the transport is closed
\* (stdio-main.ts, the order of its shutdown), whatever the number of calls.
THEOREM ShutdownAnswers == StopSpec => []AdmittedAnswered
<1>1. StopInv => AdmittedAnswered
      BY DEF StopInv, NoneRunning, NoneUnanswered, AdmittedAnswered, Late
<1> QED BY <1>1, ShutdownInvariant, PTL

\* The state of the stop is well typed throughout.
THEOREM ShutdownTypeOK == StopSpec => []StopTypeOK
<1>1. StopInv => StopTypeOK
      BY DEF StopInv
<1> QED BY <1>1, ShutdownInvariant, PTL

-----------------------------------------------------------------------------
(* The passes alone.  Outside the settling boot a pass starts only when    *)
(* inFlight is 0, and inFlight names every pass that runs; close() waits   *)
(* for that one.                                                           *)

\* A runtime that does not defer has no boot to settle.
NoBoot == ~deferred => boot = "built" /\ awaited = 0

\* What runs is what is known, and what close() waits for once it does.
Known == ~deferred => running = {inFlight} \ {0}
CloseKnows ==
  ~deferred => /\ close = "draining" => running \subseteq {last}
               /\ close = "down" => running = {}

\* A boot that is not over has retries to spare.
Spare == awaited # 0 \/ boot \in {"filling", "pausing"} => attempt <= Retries

ScheduleInv == TypeOK /\ Spare /\ NoBoot /\ Known /\ CloseKnows /\ ReadyWhenChecked

LEMMA ScheduleInvStarts == Init => ScheduleInv
<1> SUFFICES ASSUME Init PROVE ScheduleInv
    OBVIOUS
<1>1. TypeOK
  <2>1. boot \in {"filling", "built"}
        BY DEF Init
  <2>2. attempt \in 0 .. Retries + 1
        BY ScheduleAssumption DEF Init
  <2> QED BY <2>1, <2>2 DEF Init, TypeOK
<1>2. Spare /\ NoBoot /\ Known /\ CloseKnows /\ ReadyWhenChecked
      BY ScheduleAssumption DEF Init, Spare, NoBoot, Known, CloseKnows, ReadyWhenChecked
<1> QED BY <1>1, <1>2 DEF ScheduleInv

\* What requestPass may change, and when it starts a pass.
LEMMA Requested ==
  ASSUME TypeOK, NEW timer \in BOOLEAN, requestPass(timer)
  PROVE  /\ trailing' \in BOOLEAN /\ pending' \in BOOLEAN
         /\ \/ UNCHANGED passes
            \/ /\ ~closed /\ inFlight = 0
               /\ \E p \in Passes : startPass(p)
  BY DEF TypeOK, requestPass

\* A pass started when none is known leaves one pass, and that one known.
LEMMA Started ==
  ASSUME ScheduleInv, ~closed, inFlight = 0, NEW p \in Passes, startPass(p),
         UNCHANGED <<deferred, boot, attempt, awaited, close, last, checked>>,
         trailing' \in BOOLEAN, pending' \in BOOLEAN, owed' \in BOOLEAN
  PROVE  ScheduleInv'
<1> USE ScheduleAssumption DEF ScheduleInv
<1>1. TypeOK'
      BY DEF TypeOK, startPass
<1>2. NoBoot' /\ Spare' /\ ReadyWhenChecked'
      BY DEF NoBoot, Spare, ReadyWhenChecked
<1>3. Known'
      BY DEF Known, startPass
<1>4. CloseKnows'
      BY DEF CloseKnows, closed
<1> QED BY <1>1, <1>2, <1>3, <1>4

\* Nothing that the invariant speaks of changes but the timers and histories.
LEMMA Unmoved ==
  ASSUME ScheduleInv, UNCHANGED <<deferred, boot, attempt, awaited, running, inFlight, close, last, checked>>,
         gap' \in BOOLEAN, trailing' \in BOOLEAN, pending' \in BOOLEAN, owed' \in BOOLEAN
  PROVE  ScheduleInv'
  BY DEF ScheduleInv, TypeOK, Spare, NoBoot, Known, CloseKnows, ReadyWhenChecked

LEMMA RequestStep ==
  ASSUME ScheduleInv, WatcherError \/ TrailingFires
  PROVE  ScheduleInv'
<1>1. PICK timer \in BOOLEAN : requestPass(timer)
      BY DEF WatcherError, TrailingFires, ScheduleInv, TypeOK
<1>2. /\ UNCHANGED <<deferred, boot, attempt, awaited, close, last, checked>>
      /\ owed' \in BOOLEAN /\ TypeOK
      BY DEF WatcherError, TrailingFires, ScheduleInv, TypeOK
<1>3. CASE UNCHANGED passes
  <2>1. gap' \in BOOLEAN /\ UNCHANGED <<running, inFlight>>
        BY <1>2, <1>3 DEF passes, TypeOK
  <2> QED BY <1>1, <1>2, <2>1, Requested, Unmoved
<1>4. CASE ~closed /\ inFlight = 0 /\ \E p \in Passes : startPass(p)
      BY <1>1, <1>2, <1>4, Requested, Started
<1> QED BY <1>1, <1>2, <1>3, <1>4, Requested

LEMMA TickStep ==
  ASSUME ScheduleInv, onTick \/ GapEnds
  PROVE  ScheduleInv'
<1>1. CASE onTick
  <2>1. trailing' \in BOOLEAN /\ pending' \in BOOLEAN /\ owed' \in BOOLEAN
        BY <1>1 DEF onTick, ScheduleInv, TypeOK
  <2> QED BY <1>1, <2>1, Started DEF onTick, NoneKnown
<1>2. CASE GapEnds
  <2>1. /\ gap' \in BOOLEAN /\ trailing' \in BOOLEAN /\ pending' \in BOOLEAN /\ owed' \in BOOLEAN
        BY <1>2 DEF GapEnds, ScheduleInv, TypeOK
  <2> QED BY <1>2, <2>1, Unmoved DEF GapEnds
<1> QED BY <1>1, <1>2

\* The boot's own steps: they only happen to a deferred boot.
LEMMA BootStep ==
  ASSUME ScheduleInv, EndFill \/ PauseEnds
  PROVE  ScheduleInv'
<1> USE ScheduleAssumption DEF ScheduleInv
<1>1. deferred /\ deferred'
      BY DEF EndFill, PauseEnds, NoBoot, TypeOK
<1>2. TypeOK' /\ boot' # "built"
  <2>1. CASE SettlePass
        BY <2>1 DEF EndFill, PauseEnds, SettlePass, startPass, TypeOK
  <2>2. CASE ~SettlePass
        BY <2>2 DEF EndFill, PauseEnds, passes, TypeOK
  <2> QED BY <2>1, <2>2
<1>3. Spare'
      BY DEF EndFill, PauseEnds, Spare, SettlePass, TypeOK
<1> QED BY <1>1, <1>2, <1>3 DEF NoBoot, Known, CloseKnows, ReadyWhenChecked

LEMMA EndPassStep ==
  ASSUME ScheduleInv, NEW p \in Passes, NEW ok \in BOOLEAN, EndPass(p, ok)
  PROVE  ScheduleInv'
<1> USE ScheduleAssumption DEF ScheduleInv
<1>1. AfterPass(ok) \in {"built", "left", "pausing", "failed"} /\ (AfterPass(ok) = "built" => ok)
      BY DEF AfterPass, AfterFailure
<1>2. /\ p \in running /\ running' = running \ {p} /\ inFlight' = 0
      /\ UNCHANGED <<deferred, close, last>> /\ checked' = (checked \/ ok)
      BY DEF EndPass
<1>3. CASE p = awaited
  <2>1. deferred
        BY <1>3 DEF NoBoot, TypeOK
  <2>2. TypeOK'
    <3>1. attempt' = attempt \/ attempt' = attempt + 1
          BY <1>3 DEF EndPass
    <3>2. p # 0 /\ attempt \in Nat /\ attempt <= Retries
          BY <1>3 DEF TypeOK, Spare
    <3>3. attempt' \in 0 .. Retries + 1
          BY <3>1, <3>2
    <3> QED BY <1>1, <1>2, <1>3, <3>3 DEF EndPass, TypeOK
  <2>3. Spare'
    <3>1. awaited' = 0 /\ boot' = AfterPass(ok) /\ attempt \in Nat
          BY <1>3 DEF EndPass, TypeOK
    <3>2. boot' = "pausing" => ~ok /\ attempt < Retries
          BY <3>1 DEF AfterPass, AfterFailure
    <3>3. boot' # "filling"
          BY <1>1, <3>1
    <3> QED BY <1>3, <3>1, <3>2, <3>3 DEF EndPass, Spare
  <2> QED BY <1>1, <1>2, <1>3, <2>1, <2>2, <2>3 DEF EndPass, NoBoot, Known, CloseKnows, ReadyWhenChecked
<1>4. CASE p # awaited
  <2>1. TypeOK'
        BY <1>2, <1>4 DEF EndPass, TypeOK
  <2>2. Spare' /\ NoBoot' /\ ReadyWhenChecked'
        BY <1>2, <1>4 DEF EndPass, Spare, NoBoot, ReadyWhenChecked, TypeOK
  <2>3. Known' /\ CloseKnows'
        BY <1>2 DEF Known, CloseKnows
  <2> QED BY <2>1, <2>2, <2>3
<1> QED BY <1>3, <1>4

LEMMA CloseStep ==
  ASSUME ScheduleInv, Close \/ TearDown \/ Down
  PROVE  ScheduleInv'
<1> USE DEF ScheduleInv
<1>1. UNCHANGED <<deferred, boot, attempt, awaited, running, inFlight, gap, checked>>
      BY DEF Close, TearDown, Down, passes
<1>2. TypeOK'
      BY <1>1 DEF Close, TearDown, Down, TypeOK
<1>3. Spare' /\ NoBoot' /\ Known' /\ ReadyWhenChecked'
      BY <1>1 DEF Spare, NoBoot, Known, ReadyWhenChecked
<1>4. CloseKnows'
      BY <1>1 DEF Close, TearDown, Down, CloseKnows, Known
<1> QED BY <1>2, <1>3, <1>4

LEMMA ScheduleInvStep == ScheduleInv /\ [Next]_vars => ScheduleInv'
<1> SUFFICES ASSUME ScheduleInv, [Next]_vars PROVE ScheduleInv'
    OBVIOUS
<1>1. CASE UNCHANGED vars
      BY <1>1 DEF vars, passes, ScheduleInv, TypeOK, Spare, NoBoot, Known, CloseKnows, ReadyWhenChecked
<1>2. CASE Next
      BY <1>2, RequestStep, TickStep, BootStep, EndPassStep, CloseStep DEF Next, Passing
<1> QED BY <1>1, <1>2

\* The strengthening holds in every state of every behaviour.
THEOREM ScheduleInvariant == Spec => []ScheduleInv
<1>1. Init => ScheduleInv
      BY ScheduleInvStarts
<1>2. ScheduleInv /\ [Next]_vars => ScheduleInv'
      BY ScheduleInvStep
<1> QED BY <1>1, <1>2, PTL DEF Spec

\* The runtime's scheduling state is well typed; a boot never fails more often
\* than it may retry.
THEOREM ScheduleTypeOK == Spec => []TypeOK
<1>1. ScheduleInv => TypeOK
      BY DEF ScheduleInv
<1> QED BY <1>1, ScheduleInvariant, PTL

\* Without a deferred boot passes never overlap, and close() returns when the
\* last one is over.
THEOREM ScheduleOneAtATime == Spec => []OneAtATime
<1>1. ScheduleInv => OneAtATime
      BY DEF ScheduleInv, Known, CloseKnows, OneAtATime
<1> QED BY <1>1, ScheduleInvariant, PTL

\* A deferred index is never ready unchecked.
THEOREM ScheduleReadyWhenChecked == Spec => []ReadyWhenChecked
<1>1. ScheduleInv => ReadyWhenChecked
      BY DEF ScheduleInv
<1> QED BY <1>1, ScheduleInvariant, PTL

\* A step of a closed runtime starts no pass.
LEMMA NoneStarts ==
  ASSUME Next, closed
  PROVE  running' \subseteq running
<1>1. CASE WatcherError \/ TrailingFires
      BY <1>1 DEF WatcherError, TrailingFires, requestPass, passes
<1>2. CASE onTick \/ GapEnds
      BY <1>2 DEF onTick, GapEnds
<1>3. CASE EndFill \/ PauseEnds
      BY <1>3 DEF EndFill, PauseEnds, SettlePass, passes
<1>4. CASE \E p \in Passes : Passing(p)
      BY <1>4 DEF Passing, EndPass
<1>5. CASE Close \/ TearDown \/ Down
      BY <1>5 DEF Close, TearDown, Down, passes
<1> QED BY <1>1, <1>2, <1>3, <1>4, <1>5 DEF Next

\* A closed runtime starts no pass, however many timers are still set.
THEOREM ScheduleNoneAfterClose == Spec => NoneAfterClose
<1>1. [Next]_vars => [closed => running' \subseteq running]_vars
      BY NoneStarts
<1> QED BY <1>1, PTL DEF Spec, NoneAfterClose

-----------------------------------------------------------------------------
(* The server: the stop and the runtime put together. *)

\* The HTTP server lets nothing in once it stops; what is open when it has gone
\* on has had the whole drain time.
HttpInv ==
  /\ stop \in {"up", "waiting", "closing", "closed", "exit0", "exit1"}
  /\ stop \in {"closing", "closed", "exit0"} => ExchangesOver \/ rounds + 1 = Rounds

LifeInv ==
  /\ ScheduleInv /\ StopTypeOK
  /\ deferred => StopInv /\ indexState = IndexStateOf(boot)
  /\ ~deferred => HttpInv

LEMMA LifeInvStarts == LifeInit => LifeInv
<1> SUFFICES ASSUME LifeInit PROVE LifeInv
    OBVIOUS
<1>1. StopInv /\ ScheduleInv
      BY StopInvStarts, ScheduleInvStarts DEF LifeInit
<1>2. deferred => indexState = IndexStateOf(boot)
      BY DEF LifeInit, Init
<1>3. HttpInv
      BY DEF LifeInit, StopInit, HttpInv, ExchangesOver
<1> QED BY <1>1, <1>2, <1>3 DEF LifeInv, StopInv

\* A step of the calls or of the stop, the runtime looking on.
LEMMA ServeStep ==
  ASSUME LifeInv, deferred, StopNext, UNCHANGED indexState, UNCHANGED vars
  PROVE  LifeInv'
<1>1. UNCHANGED <<deferred, boot>>
      BY DEF vars
<1>2. StopInv'
      BY StopInvStep DEF LifeInv
<1>3. ScheduleInv'
      BY ScheduleInvStep DEF LifeInv
<1> QED BY <1>1, <1>2, <1>3 DEF LifeInv, StopInv

\* The stop's last steps: the runtime is closed, and the process leaves after it.
LEMMA LeaveStep ==
  ASSUME LifeInv, StopRuntime \/ Leave
  PROVE  LifeInv'
<1>1. ScheduleInv'
  <2>1. [Next]_vars
        BY DEF StopRuntime, Leave, Next
  <2> QED BY <2>1, ScheduleInvStep DEF LifeInv
<1>2. UNCHANGED <<call, fresh, rounds, indexState, deferred, boot>>
      BY DEF StopRuntime, Leave, CloseRuntime, Close, vars
<1>3. \/ stop = "closing" /\ stop' = "closed"
      \/ stop = "closed" /\ stop' = "exit0"
      BY DEF StopRuntime, Leave, CloseRuntime
<1>4. StopTypeOK'
      BY <1>2, <1>3 DEF LifeInv, StopTypeOK
<1>5. deferred => StopInv'
      BY <1>2, <1>3, <1>4 DEF LifeInv, StopInv, NoneRunning, NoneUnanswered, Late
<1>6. ~deferred => HttpInv'
      BY <1>2, <1>3 DEF LifeInv, HttpInv, ExchangesOver
<1> QED BY <1>1, <1>2, <1>4, <1>5, <1>6 DEF LifeInv

\* A step of the runtime, the stop looking on.
LEMMA WorkStep ==
  ASSUME LifeInv, Next, IF deferred THEN Seen ELSE UNCHANGED indexState, UNCHANGED <<call, stop, fresh, rounds>>
  PROVE  LifeInv'
<1>1. /\ deferred => indexState' = IndexStateOf(boot')
      /\ ~deferred => UNCHANGED indexState
      BY DEF Seen
<1>2. ScheduleInv'
      BY ScheduleInvStep DEF LifeInv
<1>3. UNCHANGED deferred
      BY DEF Next, WatcherError, TrailingFires, onTick, GapEnds, EndFill, PauseEnds, Passing, EndPass, Close, TearDown, Down
<1>4. IndexStateOf(boot') \in {"building", "ready", "failed", "stopped"}
      BY DEF IndexStateOf
<1>5. StopTypeOK'
      BY <1>1, <1>3, <1>4 DEF LifeInv, StopTypeOK
<1>6. deferred => StopInv'
      BY <1>1, <1>5 DEF LifeInv, StopInv, NoneRunning, NoneUnanswered
<1>7. ~deferred => HttpInv'
      BY <1>1 DEF LifeInv, HttpInv, ExchangesOver
<1> QED BY <1>1, <1>2, <1>3, <1>5, <1>6, <1>7 DEF LifeInv

\* A step of the HTTP server.
LEMMA HttpStep ==
  ASSUME LifeInv,
         \/ \E c \in Calls : Http(HttpCall(c) \/ HangUp(c) \/ OrphanEnds(c))
         \/ Http(HttpShutdown) \/ Http(HttpDrain) \/ Http(HttpWait) \/ Http(Exit1)
  PROVE  LifeInv'
<1>1. /\ ~deferred /\ UNCHANGED vars
      /\ \/ \E c \in Calls : HttpCall(c) \/ HangUp(c) \/ OrphanEnds(c)
         \/ HttpShutdown \/ HttpDrain \/ HttpWait \/ Exit1
      BY DEF Http
<1>2. ScheduleInv' /\ ~deferred'
      BY <1>1, ScheduleInvStep DEF LifeInv, vars
<1>3. StopTypeOK' /\ HttpInv'
  <2> USE <1>1, ShutdownAssumption DEF LifeInv, StopTypeOK, HttpInv, ExchangesOver
  <2>1. ASSUME NEW c \in Calls, HttpCall(c) \/ HangUp(c) \/ OrphanEnds(c)
        PROVE  StopTypeOK' /\ HttpInv'
    <3>1. CASE Finish(c)
          BY <3>1 DEF Finish
    <3>2. CASE Answer(c)
          BY <3>2 DEF Answer
    <3>3. CASE HangUp(c) \/ OrphanEnds(c)
          BY <3>3 DEF HangUp, OrphanEnds
    <3> QED BY <2>1, <3>1, <3>2, <3>3 DEF HttpCall
  <2>2. CASE HttpDrain
        BY <2>2 DEF HttpDrain, DrainTimeOver
  <2>3. CASE HttpWait
    <3>1. rounds' \in 0 .. Rounds - 1
          BY <2>3 DEF HttpWait, DrainTimeOver
    <3> QED BY <2>3, <3>1 DEF HttpWait
  <2>4. CASE HttpShutdown \/ Exit1
        BY <2>4 DEF HttpShutdown, Exit1
  <2> QED BY <1>1, <2>1, <2>2, <2>3, <2>4
<1> QED BY <1>1, <1>2, <1>3 DEF LifeInv

LEMMA LifeInvStep == LifeInv /\ [LifeNext]_lifeVars => LifeInv'
<1> SUFFICES ASSUME LifeInv, [LifeNext]_lifeVars PROVE LifeInv'
    OBVIOUS
<1>1. ASSUME NEW c \in Calls, Serve(Send(c) \/ CallStep(c) \/ Expire(c))
      PROVE  LifeInv'
  <2>1. deferred /\ StopNext /\ UNCHANGED indexState /\ UNCHANGED vars
        BY <1>1 DEF Serve, StopNext, CallStep, Send, Dispatch, Wake, Finish, Answer, Expire
  <2> QED BY <2>1, ServeStep
<1>2. CASE Serve(Shutdown)
  <2>1. deferred /\ StopNext /\ UNCHANGED indexState /\ UNCHANGED vars
        BY <1>2 DEF Serve, StopNext, Shutdown
  <2> QED BY <2>1, ServeStep
<1>3. CASE Serve(Quiet \/ Drain \/ Turn \/ CloseTransport)
  <2>1. deferred /\ StopNext /\ UNCHANGED indexState /\ UNCHANGED vars
        BY <1>3 DEF Serve, StopNext, StopStep, Quiet, Drain, Turn, CloseTransport
  <2> QED BY <2>1, ServeStep
<1>4. CASE Serve(Exit1)
  <2>1. deferred /\ StopNext /\ UNCHANGED indexState /\ UNCHANGED vars
        BY <1>4 DEF Serve, StopNext, Exit1
  <2> QED BY <2>1, ServeStep
<1>5. CASE Work(WatcherError \/ TrailingFires \/ onTick \/ GapEnds)
  <2>1. /\ Next /\ UNCHANGED <<call, stop, fresh, rounds>>
        /\ IF deferred THEN Seen ELSE UNCHANGED indexState
        BY <1>5 DEF Work, Next
  <2> QED BY <2>1, WorkStep
<1>6. CASE Work(EndFill \/ PauseEnds \/ Pass)
  <2>1. /\ Next /\ UNCHANGED <<call, stop, fresh, rounds>>
        /\ IF deferred THEN Seen ELSE UNCHANGED indexState
        BY <1>6 DEF Work, Next, Pass
  <2> QED BY <2>1, WorkStep
<1>7. CASE Work(TearDown \/ Down)
  <2>1. /\ Next /\ UNCHANGED <<call, stop, fresh, rounds>>
        /\ IF deferred THEN Seen ELSE UNCHANGED indexState
        BY <1>7 DEF Work, Next
  <2> QED BY <2>1, WorkStep
<1>8. CASE UNCHANGED lifeVars
  <2>1. UNCHANGED vars /\ UNCHANGED stopVars /\ UNCHANGED <<call, stop, fresh, rounds, indexState, deferred, boot>>
        BY <1>8 DEF lifeVars, vars, stopVars
  <2>2. ScheduleInv'
        BY <2>1, ScheduleInvStep DEF LifeInv
  <2> QED BY <2>1, <2>2 DEF LifeInv, StopInv, StopTypeOK, NoneRunning, NoneUnanswered, HttpInv, ExchangesOver
<1> QED BY <1>1, <1>2, <1>3, <1>4, <1>5, <1>6, <1>7, <1>8, LeaveStep, HttpStep DEF LifeNext

\* The invariant of the server gives what its calls, its stop and its passes promise.
LEMMA LifeInvHolds == LifeInv => LifeTypeOK /\ StopAnswers /\ OneAtATime /\ ReadyWhenChecked
<1> SUFFICES ASSUME LifeInv PROVE LifeTypeOK /\ StopAnswers /\ OneAtATime /\ ReadyWhenChecked
    OBVIOUS
<1>1. LifeTypeOK /\ ReadyWhenChecked
      BY DEF LifeInv, LifeTypeOK, ScheduleInv
<1>2. OneAtATime
      BY DEF LifeInv, ScheduleInv, Known, CloseKnows, OneAtATime
<1>3. deferred => AdmittedAnswered
      BY DEF LifeInv, StopInv, NoneRunning, NoneUnanswered, AdmittedAnswered, Late
<1>4. StopAnswers
  <2>1. CASE deferred
        BY <1>3, <2>1 DEF StopAnswers
  <2>2. ASSUME ~deferred, stop \in {"closing", "closed", "exit0"}, rounds + 1 # Rounds, NEW c \in Calls
        PROVE  call[c] \notin {"running", "returned"}
        BY <2>2 DEF LifeInv, HttpInv, ExchangesOver
  <2> QED BY <2>1, <2>2 DEF StopAnswers
<1> QED BY <1>1, <1>2, <1>4

-----------------------------------------------------------------------------
(* The servers of one vault.  A server that runs has its file, and its file  *)
(* is not stale; so of two that run one is yet to look around, will look at  *)
(* the other's file, or has counted it.                                      *)

Busy == {"written", "scanning", "up"}
Past == {"leaving", "gone", "reused"}
Looks == {<<>>} \union (Pids \X BOOLEAN)

FilesKept ==
  \A p \in Pids : /\ at[p] \notin Busy \union Past => age[p] = Peer!None /\ ~beat[p]
                  /\ at[p] \in Busy => age[p] \in 0 .. Peer!Stale

UpIsDone == \A p \in Pids : at[p] = "up" => todo[p] = {} /\ look[p] = <<>>

\* What was seen to be stale was not a running server's.
StaleIsPast == \A p, q \in Pids : look[p] = <<q, TRUE>> => at[q] \in Past

Sees(p, q) == at[p] = "written" \/ q \in peers[p] \/ q \in todo[p] \/ look[p] = <<q, FALSE>>

EitherSees == \A p, q \in Pids : p # q /\ at[p] \in Busy /\ at[q] \in Busy => Sees(p, q) \/ Sees(q, p)

\* What has been made by whom: until the state folder is cleared nothing but the
\* probe, and from then on nothing a check has ruled out.
AtStart == {"start", "badVault"}
Unchecked == {"start", "probing", "removing", "checked", "resolved", "badVault", "badState", "gone", "reused"}

MadeOk(p) ==
  /\ vault = "never" => at[p] \in AtStart /\ traces[p] = {}
  /\ stateDir = "related" => at[p] \in Unchecked /\ traces[p] \subseteq {"probe"}
  /\ at[p] \in {"start", "probing", "checked", "resolved", "cleared"} => traces[p] = {}
  /\ at[p] \in {"removing", "badVault"} => traces[p] \subseteq {"probe"}
  /\ at[p] = "badState" => traces[p] \subseteq {"local"}
  /\ "probe" \in traces[p] => at[p] \in {"removing", "badVault", "gone", "reused"}
  /\ traces[p] \intersect {"invented", "inner"} = {}
  /\ p \in ReadOnly => /\ traces[p] \subseteq {"local", "remade", "instance"}
                       /\ at[p] # "removing"
                       /\ stateDir # "reserved" => "instance" \notin traces[p]

AllMadeOk == \A p \in Pids : MadeOk(p)

PeerInv ==
  /\ Peer!TypeOK /\ look \in [Pids -> Looks] /\ AllMadeOk
  /\ FilesKept /\ UpIsDone /\ StaleIsPast /\ EitherSees

LEMMA PeerInvStarts == Peer!Init => PeerInv
<1> SUFFICES ASSUME Peer!Init PROVE PeerInv
    OBVIOUS
<1>1. /\ at = [p \in Pids |-> "start"] /\ traces = [p \in Pids |-> {}] /\ age = [p \in Pids |-> Peer!None]
      /\ beat = [p \in Pids |-> FALSE] /\ todo = [p \in Pids |-> {}] /\ look = [p \in Pids |-> <<>>]
      /\ peers = [p \in Pids |-> {}] /\ vault \in {"never", "there"} /\ stateDir \in Peer!StateDirs
      BY DEF Peer!Init
<1>2. Peer!TypeOK
      BY <1>1 DEF Peer!TypeOK, Peer!Phases
<1>3. look \in [Pids -> Looks]
      BY <1>1 DEF Looks
<1>4. AllMadeOk
      BY <1>1 DEF AllMadeOk, MadeOk, AtStart, Unchecked
<1>5. FilesKept
      BY <1>1 DEF FilesKept, Busy, Past
<1>6. \A p \in Pids : at[p] = "start" /\ look[p] = <<>>
      BY <1>1
<1>7. UpIsDone /\ EitherSees
      BY <1>6 DEF UpIsDone, EitherSees, Busy
<1>8. ASSUME NEW p \in Pids, NEW q \in Pids
      PROVE  look[p] # <<q, TRUE>>
  <2>1. <<q, TRUE>> # <<>>
        OBVIOUS
  <2> QED BY <1>6, <2>1
<1>9. StaleIsPast
      BY <1>8 DEF StaleIsPast
<1> QED BY <1>2, <1>3, <1>4, <1>5, <1>7, <1>9 DEF PeerInv

\* A folder made in the vault is never one that was not there from the start.
LEMMA MadeInVault ==
  ASSUME PeerInv, NEW p \in Pids, at[p] \notin AtStart, NEW things \in SUBSET Peer!Things, Peer!MakeInVault(p, things)
  PROVE  /\ vault' = "there" /\ vault # "never"
         /\ \E more \in SUBSET {"remade"} : traces' = [traces EXCEPT ![p] = @ \union things \union more]
<1>1. vault \in {"there", "gone"}
      BY DEF PeerInv, Peer!TypeOK, AllMadeOk, MadeOk
<1>2. Peer!Parents \in SUBSET {"remade"}
      BY <1>1 DEF Peer!Parents
<1>3. vault' = "there" /\ traces' = [traces EXCEPT ![p] = @ \union (things \union Peer!Parents)]
      BY DEF Peer!MakeInVault, Peer!Make
<1>4. traces' = [traces EXCEPT ![p] = (@ \union things) \union Peer!Parents]
      BY <1>3
<1> QED BY <1>1, <1>2, <1>3, <1>4

\* What one server makes as it goes from phase to phase is its own.
LEMMA MadeMoves ==
  ASSUME PeerInv, NEW p \in Pids, NEW phase \in Peer!Phases, NEW things \in SUBSET Peer!Things,
         at' = [at EXCEPT ![p] = phase], traces' = [traces EXCEPT ![p] = things],
         vault' \in {"never", "there", "gone"}, vault' = "never" => vault = "never", UNCHANGED stateDir,
         MadeOk(p)'
  PROVE  AllMadeOk'
<1> SUFFICES ASSUME NEW q \in Pids, q # p PROVE MadeOk(q)'
    BY DEF AllMadeOk
<1>1. at'[q] = at[q] /\ traces'[q] = traces[q] /\ MadeOk(q)
      BY DEF PeerInv, Peer!TypeOK, AllMadeOk
<1> QED BY <1>1 DEF MadeOk

\* A step of servers that run, end, or have their number reused.
GoesOn ==
  \A p \in Pids : \/ at'[p] = at[p]
                  \/ at'[p] \in {"gone", "reused"} /\ at[p] \notin AtStart
                  \/ at'[p] \in Busy \union {"leaving"} /\ at[p] \in Busy

\* Such a step, when nothing is made by it, keeps what was made as it should be.
LEMMA MadeKept ==
  ASSUME PeerInv, traces' = traces, vault' = vault, stateDir' = stateDir, GoesOn
  PROVE  AllMadeOk'
<1> SUFFICES ASSUME NEW p \in Pids PROVE MadeOk(p)'
    BY DEF AllMadeOk
<1>1. MadeOk(p)
      BY DEF PeerInv, AllMadeOk
<1>2. CASE at'[p] = at[p]
      BY <1>1, <1>2 DEF MadeOk
<1>3. CASE at'[p] \in {"gone", "reused"} /\ at[p] \notin AtStart
      BY <1>1, <1>3 DEF MadeOk, AtStart, Unchecked
<1>4. CASE at'[p] \in Busy \union {"leaving"} /\ at[p] \in Busy
      BY <1>1, <1>4 DEF MadeOk, AtStart, Unchecked, Busy
<1> QED BY <1>2, <1>3, <1>4 DEF GoesOn

\* A step of a boot that is not registered yet, or not any more.
Forth == {"start", "failed"} \union Peer!Refused \union Peer!Booting

LEMMA BootMoves ==
  ASSUME PeerInv, NEW p \in Pids, NEW phase \in Forth, NEW things \in SUBSET Peer!Things,
         at[p] \in Forth, at' = [at EXCEPT ![p] = phase], traces' = [traces EXCEPT ![p] = things],
         vault' \in {"never", "there", "gone"}, vault' = "never" => vault = "never",
         UNCHANGED <<stateDir, age, beat, todo, look, peers>>, MadeOk(p)'
  PROVE  PeerInv'
<1>1. phase \in Peer!Phases
      BY DEF Forth, Peer!Phases, Peer!Running
<1>2. AllMadeOk'
      BY <1>1, MadeMoves
<1>3. Peer!TypeOK' /\ look' \in [Pids -> Looks]
      BY <1>1 DEF PeerInv, Peer!TypeOK
<1>4. \A x \in Forth : x \notin Busy /\ x \notin Past
      BY DEF Forth, Busy, Past, Peer!Refused, Peer!Booting
<1>5. \A q \in Pids : /\ at[q] \in Busy <=> at'[q] \in Busy
                      /\ at[q] \in Past <=> at'[q] \in Past
                      /\ at[q] = "written" <=> at'[q] = "written"
                      /\ at[q] = "up" <=> at'[q] = "up"
      BY <1>4 DEF PeerInv, Peer!TypeOK, Busy
<1>6. FilesKept' /\ UpIsDone' /\ StaleIsPast' /\ EitherSees'
      BY <1>5 DEF PeerInv, FilesKept, UpIsDone, StaleIsPast, EitherSees, Sees
<1> QED BY <1>2, <1>3, <1>6 DEF PeerInv

\* The boot up to the state folder: the vault and the folder are only looked at,
\* but for the probe.
LEMMA ChecksStep ==
  ASSUME PeerInv, NEW p \in Pids,
         \/ Peer!validateVaultPath(p) \/ Peer!probeWrite(p) \/ Peer!RemoveProbe(p)
         \/ Peer!ResolveVault(p) \/ Peer!CheckStateDir(p)
  PROVE  PeerInv'
<1> DEFINE To == {"probing", "removing", "checked", "resolved", "cleared", "badVault", "badState"}
<1>1. /\ at[p] \in {"start", "probing", "removing", "checked", "resolved"}
      /\ UNCHANGED <<vault, stateDir, age, beat, todo, look, peers>>
      BY DEF Peer!validateVaultPath, Peer!probeWrite, Peer!RemoveProbe, Peer!ResolveVault, Peer!CheckStateDir,
             Peer!settled, Peer!scanning
<1>2. /\ traces \in [Pids -> SUBSET Peer!Things] /\ at \in [Pids -> Peer!Phases] /\ vault \in {"never", "there", "gone"}
      /\ stateDir \in Peer!StateDirs /\ MadeOk(p)
      BY DEF PeerInv, Peer!TypeOK, AllMadeOk
<1>3. \E phase \in To, things \in SUBSET {"probe"} :
        /\ at' = [at EXCEPT ![p] = phase] /\ traces' = [traces EXCEPT ![p] = things]
        /\ things = {} \/ (p \notin ReadOnly /\ phase = "removing") \/ phase = "badVault"
        /\ p \in ReadOnly => phase # "removing" /\ things = {}
        /\ vault = "never" => phase = "badVault" /\ things = {}
        /\ stateDir = "related" => phase # "cleared"
  <2> USE <1>2 DEF MadeOk, AtStart
  <2>1. traces' = traces => traces' = [traces EXCEPT ![p] = traces[p]]
        OBVIOUS
  <2>2. CASE Peer!validateVaultPath(p)
        BY <2>1, <2>2 DEF Peer!validateVaultPath, Peer!Go
  <2>3. CASE Peer!probeWrite(p)
    <3>1. at[p] = "probing" /\ traces[p] = {} /\ vault # "never"
          BY <2>3 DEF Peer!probeWrite
    <3> QED BY <2>1, <2>3, <3>1 DEF Peer!probeWrite, Peer!Go, Peer!Make
  <2>4. CASE Peer!RemoveProbe(p)
    <3>1. at[p] = "removing" /\ traces[p] \subseteq {"probe"} /\ vault # "never" /\ p \notin ReadOnly
          BY <2>4 DEF Peer!RemoveProbe
    <3>2. traces[p] \ {"probe"} = {} /\ traces[p] \in SUBSET {"probe"}
          BY <3>1
    <3> QED BY <2>1, <2>4, <3>1, <3>2 DEF Peer!RemoveProbe, Peer!Go
  <2>5. CASE Peer!ResolveVault(p)
    <3>1. at[p] = "checked" /\ traces[p] = {} /\ vault # "never"
          BY <2>5 DEF Peer!ResolveVault
    <3> QED BY <2>1, <2>5, <3>1 DEF Peer!ResolveVault, Peer!Go
  <2>6. CASE Peer!CheckStateDir(p)
    <3>1. at[p] = "resolved" /\ traces[p] = {} /\ vault # "never"
          BY <2>6 DEF Peer!CheckStateDir
    <3> QED BY <2>1, <2>6, <3>1 DEF Peer!CheckStateDir, Peer!Go
  <2> QED BY <2>2, <2>3, <2>4, <2>5, <2>6
<1>4. PICK phase \in To, things \in SUBSET {"probe"} :
        /\ at' = [at EXCEPT ![p] = phase] /\ traces' = [traces EXCEPT ![p] = things]
        /\ things = {} \/ (p \notin ReadOnly /\ phase = "removing") \/ phase = "badVault"
        /\ p \in ReadOnly => phase # "removing" /\ things = {}
        /\ vault = "never" => phase = "badVault" /\ things = {}
        /\ stateDir = "related" => phase # "cleared"
      BY <1>3
<1>5. at'[p] = phase /\ traces'[p] = things
      BY <1>2, <1>4
<1>6. MadeOk(p)'
      BY <1>1, <1>4, <1>5 DEF MadeOk, AtStart, Unchecked
<1>7. phase \in Forth /\ at[p] \in Forth /\ things \in SUBSET Peer!Things
      BY <1>1 DEF Forth, Peer!Refused, Peer!Booting, Peer!Things
<1> QED BY <1>1, <1>2, <1>4, <1>6, <1>7, BootMoves

\* The folders outside the vault.
LEMMA FoldersStep ==
  ASSUME PeerInv, NEW p \in Pids, Peer!MakeStateDir(p) \/ Peer!resolveLocalCacheDir(p)
  PROVE  PeerInv'
<1>1. at[p] \in {"cleared", "placed"} /\ UNCHANGED <<vault, stateDir, age, beat, todo, look, peers>>
      BY DEF Peer!MakeStateDir, Peer!resolveLocalCacheDir, Peer!settled, Peer!scanning
<1>2. /\ traces \in [Pids -> SUBSET Peer!Things] /\ at \in [Pids -> Peer!Phases] /\ vault \in {"never", "there", "gone"}
      /\ MadeOk(p)
      BY DEF PeerInv, Peer!TypeOK, AllMadeOk
<1>3. vault # "never" /\ stateDir # "related"
      BY <1>1, <1>2 DEF MadeOk, AtStart, Unchecked
<1>4. PICK phase \in {"placed", "cached", "badState"} :
        at' = [at EXCEPT ![p] = phase] /\ (phase = "badState" => at[p] = "cleared")
      BY DEF Peer!MakeStateDir, Peer!resolveLocalCacheDir, Peer!Go
<1>5. PICK xs \in SUBSET {"local"} : traces' = [traces EXCEPT ![p] = @ \union xs]
  <2> DEFINE With(xs) == traces' = [traces EXCEPT ![p] = @ \union xs]
  <2>1. /\ traces' = traces => With({})
        /\ \A xs : Peer!Make(p, xs) => With(xs)
        BY <1>2 DEF Peer!Make
  <2>2. Peer!CacheMade("inner") = {} /\ Peer!CacheMade("local") = {"local"}
        BY DEF Peer!CacheMade
  <2>3. traces' = traces \/ Peer!Make(p, {}) \/ Peer!Make(p, {"local"})
        BY <2>2 DEF Peer!MakeStateDir, Peer!resolveLocalCacheDir
  <2>4. With({}) \/ With({"local"})
        BY <2>1, <2>3
  <2> HIDE DEF With
  <2>5. \E xs \in SUBSET {"local"} : With(xs)
        BY <2>4
  <2> QED BY <2>5 DEF With
<1>6. at'[p] = phase /\ traces'[p] = traces[p] \union xs
      BY <1>2, <1>4, <1>5
<1>7. MadeOk(p)'
      BY <1>1, <1>2, <1>3, <1>4, <1>6 DEF MadeOk
<1>8. /\ phase \in Forth /\ at[p] \in Forth /\ traces[p] \union xs \in SUBSET Peer!Things
      /\ traces' = [traces EXCEPT ![p] = traces[p] \union xs]
      BY <1>1, <1>2, <1>4, <1>5 DEF Forth, Peer!Refused, Peer!Booting, Peer!Things
<1> QED BY <1>1, <1>2, <1>3, <1>4, <1>5, <1>7, <1>8, BootMoves

\* The runtime and the template, which may make the vault's folder anew.
LEMMA OpenStep ==
  ASSUME PeerInv, NEW p \in Pids, Peer!createLocalRuntime(p) \/ Peer!SeedTemplate(p)
  PROVE  PeerInv'
<1>1. at[p] \in {"cached", "open"} /\ UNCHANGED <<stateDir, age, beat, todo, look, peers>>
      BY DEF Peer!createLocalRuntime, Peer!SeedTemplate, Peer!scanning
<1>2. /\ traces \in [Pids -> SUBSET Peer!Things] /\ at \in [Pids -> Peer!Phases] /\ vault \in {"never", "there", "gone"}
      /\ MadeOk(p)
      BY DEF PeerInv, Peer!TypeOK, AllMadeOk
<1>3. vault # "never" /\ stateDir # "related"
      BY <1>1, <1>2 DEF MadeOk, AtStart, Unchecked
<1>4. \E phase \in {"open", "failed", "seeded"} : at' = [at EXCEPT ![p] = phase]
      BY DEF Peer!createLocalRuntime, Peer!SeedTemplate, Peer!Go
<1>5. \/ UNCHANGED <<vault, traces>>
      \/ Peer!MakeInVault(p, {})
      \/ p \notin ReadOnly /\ Peer!MakeInVault(p, {"template"})
      BY DEF Peer!createLocalRuntime, Peer!SeedTemplate
<1>6. at[p] \notin AtStart /\ {} \in SUBSET Peer!Things /\ {"template"} \in SUBSET Peer!Things
      BY <1>1 DEF AtStart, Peer!Things
<1>7. \E xs \in SUBSET {"template", "remade"} :
        /\ traces' = [traces EXCEPT ![p] = @ \union xs] /\ vault' \in {vault, "there"}
        /\ p \in ReadOnly => "template" \notin xs
  <2>1. CASE UNCHANGED <<vault, traces>>
    <3> DEFINE With(xs) == traces' = [traces EXCEPT ![p] = @ \union xs]
    <3>1. With({}) /\ vault' = vault
          BY <1>2, <2>1
    <3> HIDE DEF With
    <3>2. \E xs \in SUBSET {"template", "remade"} : With(xs) /\ "template" \notin xs
          BY <3>1
    <3> QED BY <3>1, <3>2 DEF With
  <2>2. CASE Peer!MakeInVault(p, {})
    <3>1. PICK more \in SUBSET {"remade"} : vault' = "there" /\ traces' = [traces EXCEPT ![p] = (@ \union {}) \union more]
          BY <1>6, <2>2, MadeInVault
    <3>2. traces' = [traces EXCEPT ![p] = @ \union more]
          BY <3>1
    <3> QED BY <3>1, <3>2
  <2>3. CASE p \notin ReadOnly /\ Peer!MakeInVault(p, {"template"})
    <3>1. PICK more \in SUBSET {"remade"} :
            vault' = "there" /\ traces' = [traces EXCEPT ![p] = (@ \union {"template"}) \union more]
          BY <1>6, <2>3, MadeInVault
    <3>2. traces' = [traces EXCEPT ![p] = @ \union ({"template"} \union more)] /\ {"template"} \union more \in SUBSET {"template", "remade"}
          BY <3>1
    <3> QED BY <2>3, <3>1, <3>2
  <2> QED BY <1>5, <2>1, <2>2, <2>3
<1>8. PICK phase \in {"open", "failed", "seeded"} : at' = [at EXCEPT ![p] = phase]
      BY <1>4
<1>9. PICK xs \in SUBSET {"template", "remade"} :
        /\ traces' = [traces EXCEPT ![p] = @ \union xs] /\ vault' \in {vault, "there"}
        /\ p \in ReadOnly => "template" \notin xs
      BY <1>7
<1>10. at'[p] = phase /\ traces'[p] = traces[p] \union xs
      BY <1>2, <1>8, <1>9
<1>11. MadeOk(p)'
      BY <1>1, <1>2, <1>3, <1>9, <1>10 DEF MadeOk
<1>12. /\ phase \in Forth /\ at[p] \in Forth /\ traces[p] \union xs \in SUBSET Peer!Things
       /\ traces' = [traces EXCEPT ![p] = traces[p] \union xs]
      BY <1>1, <1>2, <1>9 DEF Forth, Peer!Booting, Peer!Things
<1> QED BY <1>1, <1>2, <1>3, <1>8, <1>9, <1>11, <1>12, BootMoves

LEMMA RegisterStep ==
  ASSUME PeerInv, NEW p \in Pids, Peer!Register(p)
  PROVE  PeerInv'
<1>1. at[p] = "seeded" /\ UNCHANGED <<stateDir, beat, todo, look, peers>>
      BY DEF Peer!Register, Peer!scanning
<1>2. Peer!TypeOK /\ MadeOk(p)
      BY DEF PeerInv, AllMadeOk
<1>3. vault # "never" /\ stateDir # "related"
      BY <1>1, <1>2 DEF MadeOk, AtStart, Unchecked
<1>4. \/ at' = [at EXCEPT ![p] = "written"] /\ age' = [age EXCEPT ![p] = 0]
      \/ at' = [at EXCEPT ![p] = "failed"] /\ UNCHANGED age
      BY DEF Peer!Register, Peer!Go
<1>5. \E xs \in SUBSET {"local", "instance", "remade"} :
        /\ traces' = [traces EXCEPT ![p] = @ \union xs] /\ vault' \in {vault, "there"}
        /\ stateDir # "reserved" => "instance" \notin xs
  <2> DEFINE With(xs) == traces' = [traces EXCEPT ![p] = @ \union xs]
  <2>1. CASE UNCHANGED <<vault, traces>>
    <3>1. With({}) /\ vault' = vault
          BY <1>2, <2>1 DEF Peer!TypeOK
    <3> HIDE DEF With
    <3>2. \E xs \in SUBSET {"local", "instance", "remade"} : With(xs) /\ "instance" \notin xs
          BY <3>1
    <3> QED BY <3>1, <3>2 DEF With
  <2>2. CASE stateDir = "reserved" /\ Peer!MakeInVault(p, {"instance"})
    <3>1. at[p] \notin AtStart /\ {"instance"} \in SUBSET Peer!Things
          BY <1>1 DEF AtStart, Peer!Things
    <3>2. PICK more \in SUBSET {"remade"} :
            vault' = "there" /\ traces' = [traces EXCEPT ![p] = (@ \union {"instance"}) \union more]
          BY <2>2, <3>1, MadeInVault
    <3>3. traces' = [traces EXCEPT ![p] = @ \union ({"instance"} \union more)]
          BY <3>2
    <3>4. {"instance"} \union more \in SUBSET {"local", "instance", "remade"}
          BY <3>2
    <3> QED BY <2>2, <3>2, <3>3, <3>4
  <2>3. CASE Peer!Make(p, {"local"}) /\ UNCHANGED vault
    <3>1. With({"local"}) /\ vault' = vault
          BY <2>3 DEF Peer!Make
    <3> HIDE DEF With
    <3>2. \E xs \in SUBSET {"local", "instance", "remade"} : With(xs) /\ "instance" \notin xs
          BY <3>1
    <3> QED BY <3>1, <3>2 DEF With
  <2> QED BY <2>1, <2>2, <2>3 DEF Peer!Register
<1>6. PICK xs \in SUBSET {"local", "instance", "remade"} :
        /\ traces' = [traces EXCEPT ![p] = @ \union xs] /\ vault' \in {vault, "there"}
        /\ stateDir # "reserved" => "instance" \notin xs
      BY <1>5
<1>7. traces'[p] = traces[p] \union xs /\ at'[p] \in {"written", "failed"}
      BY <1>2, <1>4, <1>6 DEF Peer!TypeOK
<1>8. MadeOk(p)'
      BY <1>1, <1>2, <1>3, <1>6, <1>7 DEF MadeOk
<1>9. traces[p] \union xs \in SUBSET Peer!Things
      BY <1>2, <1>6 DEF Peer!TypeOK, Peer!Things
<1>10. traces' = [traces EXCEPT ![p] = traces[p] \union xs] /\ vault' \in {"never", "there", "gone"} /\ vault' # "never"
      BY <1>2, <1>3, <1>6 DEF Peer!TypeOK
<1>11. AllMadeOk'
  <2>1. {"written", "failed"} \subseteq Peer!Phases
        BY DEF Peer!Phases, Peer!Running, Peer!Serving
  <2> QED BY <1>1, <1>4, <1>8, <1>9, <1>10, <2>1, MadeMoves
<1> USE DEF PeerInv, Peer!TypeOK, Busy, Past
<1>12. Peer!TypeOK' /\ look' \in [Pids -> Looks]
  <2>1. at' \in [Pids -> Peer!Phases] /\ age' \in [Pids -> 0 .. Peer!Stale + 1 \union {Peer!None}]
        BY <1>1, <1>4 DEF Peer!Phases, Peer!Running, Peer!Serving, Peer!Stale
  <2>2. traces' \in [Pids -> SUBSET Peer!Things]
        BY <1>9, <1>10
  <2> QED BY <1>1, <1>10, <2>1, <2>2
<1>13. FilesKept'
      BY <1>1, <1>4 DEF FilesKept, Peer!Stale
<1>14. UpIsDone' /\ StaleIsPast'
      BY <1>1, <1>4 DEF UpIsDone, StaleIsPast
<1>15. EitherSees'
  <2> SUFFICES ASSUME NEW x \in Pids, NEW y \in Pids, x # y, at'[x] \in Busy, at'[y] \in Busy
               PROVE  Sees(x, y)' \/ Sees(y, x)'
      BY DEF EitherSees
  <2>1. CASE x = p \/ y = p
        BY <1>1, <1>4, <2>1 DEF Sees
  <2>2. CASE x # p /\ y # p
    <3>1. at'[x] = at[x] /\ at'[y] = at[y] /\ (Sees(x, y) \/ Sees(y, x))
          BY <1>4, <2>2 DEF EitherSees
    <3> QED BY <1>1, <3>1 DEF Sees
  <2> QED BY <2>1, <2>2
<1> QED BY <1>11, <1>12, <1>13, <1>14, <1>15

\* The vault is moved away: it was there, and what was made is not forgotten.
LEMMA VanishStep == PeerInv /\ Peer!Vanish => PeerInv'
<1> SUFFICES ASSUME PeerInv, Peer!Vanish PROVE PeerInv'
    OBVIOUS
<1>1. vault' = "gone" /\ UNCHANGED <<stateDir, at, traces, age, beat, todo, look, peers>>
      BY DEF Peer!Vanish, Peer!scanning
<1>2. Peer!TypeOK' /\ look' \in [Pids -> Looks]
      BY <1>1 DEF PeerInv, Peer!TypeOK
<1>3. AllMadeOk'
      BY <1>1 DEF PeerInv, AllMadeOk, MadeOk
<1>4. FilesKept' /\ UpIsDone' /\ StaleIsPast' /\ EitherSees'
      BY <1>1 DEF PeerInv, FilesKept, UpIsDone, StaleIsPast, EitherSees, Sees
<1> QED BY <1>2, <1>3, <1>4 DEF PeerInv

LEMMA ListStep ==
  ASSUME PeerInv, NEW p \in Pids, Peer!List(p)
  PROVE  PeerInv'
<1> USE DEF PeerInv, Peer!TypeOK, Busy, Past
<1>1. /\ at[p] = "written" /\ at' = [at EXCEPT ![p] = "scanning"] /\ UNCHANGED <<vault, stateDir, traces, age, beat, look, peers>>
      /\ todo' = [todo EXCEPT ![p] = {q \in Pids : age[q] # Peer!None}]
      BY DEF Peer!List, Peer!Go, Peer!settled
<1>2. Peer!TypeOK' /\ look' \in [Pids -> Looks]
      BY <1>1 DEF Peer!Phases, Peer!Running, Peer!Serving, Peer!settled
<1>3. AllMadeOk'
  <2>1. GoesOn
        BY <1>1 DEF GoesOn, AtStart, Peer!Running, Peer!Serving, Peer!Booting
  <2>2. traces' = traces /\ vault' = vault /\ stateDir' = stateDir
        BY <1>1
  <2> HIDE DEF PeerInv, Peer!TypeOK, Busy
  <2> QED BY <2>1, <2>2, MadeKept
<1>4. FilesKept' /\ UpIsDone' /\ StaleIsPast'
      BY <1>1 DEF FilesKept, UpIsDone, StaleIsPast
<1>5. \A q \in Pids : at[q] \in Busy => q \in todo'[p]
      BY <1>1 DEF FilesKept, Peer!None, Peer!Stale
<1>6. EitherSees'
      BY <1>1, <1>5 DEF EitherSees, Sees
<1> QED BY <1>2, <1>3, <1>4, <1>6

LEMMA LookAtStep ==
  ASSUME PeerInv, NEW p \in Pids, NEW q \in Pids, Peer!LookAt(p, q)
  PROVE  PeerInv'
<1> USE DEF PeerInv, Peer!TypeOK, Busy, Past
<1> DEFINE seen == IF age[q] = Peer!None THEN <<>> ELSE <<q, age[q] > Peer!Stale>>
<1>1. /\ at[p] = "scanning" /\ look[p] = <<>> /\ q \in todo[p] /\ UNCHANGED <<vault, stateDir, at, traces, age, beat, peers>>
      /\ todo' = [todo EXCEPT ![p] = @ \ {q}] /\ look' = [look EXCEPT ![p] = seen]
      BY DEF Peer!LookAt, Peer!settled
<1>2. seen \in Looks
  <2>1. (age[q] > Peer!Stale) \in BOOLEAN
        OBVIOUS
  <2>2. \A b \in BOOLEAN : <<q, b>> \in Looks
        BY DEF Looks
  <2>3. <<>> \in Looks
        BY DEF Looks
  <2> QED BY <2>1, <2>2, <2>3
<1>3. ASSUME at[q] \in Busy
      PROVE  seen = <<q, FALSE>>
  <2>1. age[q] \in 0 .. Peer!Stale
        BY <1>3 DEF FilesKept
  <2>2. age[q] # Peer!None /\ (age[q] > Peer!Stale) = FALSE
        BY <2>1 DEF Peer!None, Peer!Stale
  <2> QED BY <2>2
<1>4. \A x \in Pids : seen = <<x, TRUE>> => x = q /\ age[q] # Peer!None /\ ~(at[q] \in Busy)
      BY <1>3
<1>5. at[q] \in Busy \union Past \/ age[q] = Peer!None
      BY DEF FilesKept
<1>6. \A x \in Pids : seen = <<x, TRUE>> => at[x] \in Past
      BY <1>4, <1>5
<1> HIDE DEF seen
<1>7. Peer!TypeOK' /\ look' \in [Pids -> Looks]
      BY <1>1, <1>2
<1>8. AllMadeOk'
  <2>1. GoesOn
        BY <1>1 DEF GoesOn
  <2>2. traces' = traces /\ vault' = vault /\ stateDir' = stateDir
        BY <1>1
  <2> HIDE DEF PeerInv, Peer!TypeOK, Busy
  <2> QED BY <2>1, <2>2, MadeKept
<1>9. FilesKept' /\ UpIsDone'
      BY <1>1 DEF FilesKept, UpIsDone
<1>10. StaleIsPast'
      BY <1>1, <1>6 DEF StaleIsPast
<1>11. ASSUME NEW x \in Pids, NEW y \in Pids, at[y] \in Busy, Sees(x, y)
       PROVE  Sees(x, y)'
  <2>1. CASE x # p
    <3>1. look'[x] = look[x] /\ todo'[x] = todo[x] /\ peers'[x] = peers[x] /\ at'[x] = at[x]
          BY <1>1, <2>1
    <3> QED BY <1>11, <3>1 DEF Sees
  <2>2. CASE x = p /\ y # q
    <3>1. todo'[p] = todo[p] \ {q} /\ peers'[p] = peers[p] /\ at'[p] = "scanning" /\ look[p] # <<y, FALSE>>
          BY <1>1
    <3>2. y \in peers[p] \/ y \in todo[p]
          BY <1>1, <1>11, <2>2, <3>1 DEF Sees
    <3> QED BY <2>2, <3>1, <3>2 DEF Sees
  <2>3. CASE x = p /\ y = q
    <3>1. look'[p] = <<q, FALSE>>
          BY <1>1, <1>3, <1>11, <2>3
    <3> QED BY <2>3, <3>1 DEF Sees
  <2> QED BY <2>1, <2>2, <2>3
<1>12. EitherSees'
      BY <1>1, <1>11 DEF EitherSees
<1> QED BY <1>7, <1>8, <1>9, <1>10, <1>12

LEMMA JudgeStep ==
  ASSUME PeerInv, NEW p \in Pids, Peer!Judge(p)
  PROVE  PeerInv' /\ \A x \in Pids : at[x] \in Busy => age'[x] = age[x]
<1> USE DEF PeerInv, Peer!TypeOK, Busy, Past
<1>1. at[p] = "scanning" /\ look[p] # <<>> /\ look' = [look EXCEPT ![p] = <<>>] /\ UNCHANGED <<vault, stateDir, at, traces, beat, todo>>
      BY DEF Peer!Judge, Peer!settled
<1>2. PICK q \in Pids, stale \in BOOLEAN : look[p] = <<q, stale>>
      BY <1>1 DEF Looks
<1>3. IF Peer!Counts(q, stale)
      THEN peers' = [peers EXCEPT ![p] = @ \union ({q} \ {p})] /\ UNCHANGED age
      ELSE age' = [age EXCEPT ![q] = Peer!None] /\ UNCHANGED peers
      BY <1>2 DEF Peer!Judge
<1>4. at[q] \in Busy => stale = FALSE /\ Peer!Counts(q, stale)
      BY <1>2 DEF StaleIsPast, Peer!Counts, Peer!isAlive, Peer!Running, Peer!Serving
<1>5. \A x \in Pids : at[x] \in Busy => age'[x] = age[x]
      BY <1>3, <1>4
<1>6. Peer!TypeOK' /\ look' \in [Pids -> Looks]
      BY <1>1, <1>3 DEF Looks
<1>7. AllMadeOk'
  <2>1. GoesOn
        BY <1>1 DEF GoesOn
  <2>2. traces' = traces /\ vault' = vault /\ stateDir' = stateDir
        BY <1>1
  <2> HIDE DEF PeerInv, Peer!TypeOK, Busy
  <2> QED BY <2>1, <2>2, MadeKept
<1>8. FilesKept'
      BY <1>1, <1>3, <1>5 DEF FilesKept
<1>9. UpIsDone' /\ StaleIsPast'
      BY <1>1 DEF UpIsDone, StaleIsPast
<1>10. ASSUME NEW x \in Pids, NEW y \in Pids, x # y, at[y] \in Busy, Sees(x, y)
       PROVE  Sees(x, y)'
  <2>1. CASE x # p
    <3>1. look'[x] = look[x] /\ todo'[x] = todo[x] /\ peers'[x] = peers[x] /\ at'[x] = at[x]
          BY <1>1, <1>3, <2>1
    <3> QED BY <1>10, <3>1 DEF Sees
  <2>2. CASE x = p /\ y # q
    <3>1. todo'[p] = todo[p] /\ peers[p] \subseteq peers'[p] /\ at[p] = "scanning"
          BY <1>1, <1>3
    <3>2. look[p] # <<y, FALSE>>
      <4>1. <<q, stale>> # <<y, FALSE>>
            BY <2>2
      <4> QED BY <1>2, <4>1
    <3>3. y \in peers[p] \/ y \in todo[p]
          BY <1>10, <2>2, <3>1, <3>2 DEF Sees
    <3> QED BY <2>2, <3>1, <3>3 DEF Sees
  <2>3. CASE x = p /\ y = q
    <3>1. q \in peers'[p]
          BY <1>3, <1>4, <1>10, <2>3
    <3> QED BY <2>3, <3>1 DEF Sees
  <2> QED BY <2>1, <2>2, <2>3
<1>11. EitherSees'
      BY <1>1, <1>10 DEF EitherSees
<1> QED BY <1>5, <1>6, <1>7, <1>8, <1>9, <1>11

LEMMA ServeUpStep ==
  ASSUME PeerInv, NEW p \in Pids, Peer!Serve(p)
  PROVE  PeerInv'
<1> USE DEF PeerInv, Peer!TypeOK, Busy, Past
<1>1. /\ at[p] = "scanning" /\ look[p] = <<>> /\ todo[p] = {} /\ at' = [at EXCEPT ![p] = "up"]
      /\ UNCHANGED <<vault, stateDir, traces, age, beat, todo, look, peers>>
      BY DEF Peer!Serve, Peer!Go, Peer!settled, Peer!scanning
<1>2. Peer!TypeOK' /\ look' \in [Pids -> Looks]
      BY <1>1 DEF Peer!Phases, Peer!Running, Peer!Serving, Peer!settled
<1>3. AllMadeOk'
  <2>1. GoesOn
        BY <1>1 DEF GoesOn, AtStart, Peer!Running, Peer!Serving, Peer!Booting
  <2>2. traces' = traces /\ vault' = vault /\ stateDir' = stateDir
        BY <1>1
  <2> HIDE DEF PeerInv, Peer!TypeOK, Busy
  <2> QED BY <2>1, <2>2, MadeKept
<1>4. FilesKept' /\ UpIsDone' /\ StaleIsPast'
      BY <1>1 DEF FilesKept, UpIsDone, StaleIsPast
<1>5. EitherSees'
  <2> SUFFICES ASSUME NEW x \in Pids, NEW y \in Pids, x # y, at'[x] \in Busy, at'[y] \in Busy
               PROVE  Sees(x, y)' \/ Sees(y, x)'
      BY DEF EitherSees
  <2>1. at[x] \in Busy /\ at[y] \in Busy /\ (at[x] = "written" => x # p) /\ (at[y] = "written" => y # p)
        BY <1>1
  <2>2. Sees(x, y) \/ Sees(y, x)
        BY <2>1 DEF EitherSees
  <2>3. /\ at[x] = "written" => at'[x] = "written"
        /\ at[y] = "written" => at'[y] = "written"
        BY <1>1, <2>1
  <2> QED BY <1>1, <2>2, <2>3 DEF Sees
<1> QED BY <1>2, <1>3, <1>4, <1>5

\* Beats, time, and the end of a server.
LEMMA BeatStep ==
  ASSUME PeerInv, (\E p \in Pids : Peer!Beat(p) \/ Peer!BeatLands(p)) \/ Peer!Tick
  PROVE  PeerInv' /\ \A x \in Pids : at[x] \in Busy => age'[x] # Peer!None
<1> USE DEF PeerInv, Peer!TypeOK, Busy, Past
<1>1. UNCHANGED <<vault, stateDir, at, traces, todo, look, peers>>
      BY DEF Peer!Beat, Peer!BeatLands, Peer!Tick, Peer!settled, Peer!scanning
<1> DEFINE Typed == age \in [Pids -> 0 .. Peer!Stale + 1 \union {Peer!None}] /\ beat \in [Pids -> BOOLEAN]
<1>2. Typed' /\ FilesKept'
  <2>1. ASSUME NEW p \in Pids, Peer!Beat(p)
        PROVE  Typed' /\ FilesKept'
        BY <1>1, <2>1 DEF Peer!Beat, FilesKept
  <2>2. ASSUME NEW p \in Pids, Peer!BeatLands(p)
        PROVE  Typed' /\ FilesKept'
    <3>1. at[p] \in Busy \union Past
          BY <2>2 DEF Peer!BeatLands, FilesKept
    <3> QED BY <1>1, <2>2, <3>1 DEF Peer!BeatLands, FilesKept, Peer!Stale
  <2>3. CASE Peer!Tick
        BY <1>1, <2>3 DEF Peer!Tick, FilesKept, Peer!Stale, Peer!None
  <2> QED BY <2>1, <2>2, <2>3
<1>3. Peer!TypeOK' /\ look' \in [Pids -> Looks]
      BY <1>1, <1>2
<1>4. AllMadeOk'
  <2>1. GoesOn
        BY <1>1 DEF GoesOn
  <2>2. traces' = traces /\ vault' = vault /\ stateDir' = stateDir
        BY <1>1
  <2> HIDE DEF PeerInv, Peer!TypeOK, Busy
  <2> QED BY <2>1, <2>2, MadeKept
<1>5. UpIsDone' /\ StaleIsPast' /\ EitherSees'
      BY <1>1 DEF UpIsDone, StaleIsPast, EitherSees, Sees
<1>6. \A x \in Pids : at[x] \in Busy => age'[x] # Peer!None
      BY <1>1, <1>2 DEF FilesKept, Peer!None, Peer!Stale
<1> QED BY <1>2, <1>3, <1>4, <1>5, <1>6

LEMMA EndStep ==
  ASSUME PeerInv, NEW p \in Pids, Peer!Stop(p) \/ Peer!Exit(p) \/ Peer!Reuse(p)
  PROVE  PeerInv'
<1> USE DEF PeerInv, Peer!TypeOK, Busy, Past
<1>1. /\ at[p] \in Peer!Running \union {"gone"} /\ UNCHANGED <<vault, stateDir, traces>>
      /\ \E phase \in Past : /\ at' = [at EXCEPT ![p] = phase]
                             /\ phase = "leaving" => at[p] = "up"
      BY DEF Peer!Stop, Peer!Exit, Peer!Reuse, Peer!Go, Peer!Running, Peer!Serving, Peer!settled
<1>2. /\ age' = age \/ (age' = [age EXCEPT ![p] = Peer!None])
      /\ beat' = beat \/ beat' = [beat EXCEPT ![p] = FALSE]
      /\ \/ UNCHANGED <<todo, look, peers>>
         \/ /\ todo' = [todo EXCEPT ![p] = {}] /\ look' = [look EXCEPT ![p] = <<>>]
            /\ peers' = [peers EXCEPT ![p] = {}]
      BY DEF Peer!Stop, Peer!Exit, Peer!Reuse, Peer!scanning
<1>3. Peer!TypeOK' /\ look' \in [Pids -> Looks]
  <2>1. <<>> \in Looks
        BY DEF Looks
  <2>2. look' \in [Pids -> Looks]
        BY <1>2, <2>1
  <2>3. at' \in [Pids -> Peer!Phases]
        BY <1>1 DEF Peer!Phases, Peer!Running, Peer!Serving
  <2>4. todo' \in [Pids -> SUBSET Pids] /\ peers' \in [Pids -> SUBSET Pids]
        BY <1>2
  <2>5. age' \in [Pids -> 0 .. Peer!Stale + 1 \union {Peer!None}] /\ beat' \in [Pids -> BOOLEAN] /\ UNCHANGED traces
        BY <1>1, <1>2
  <2> QED BY <1>1, <2>2, <2>3, <2>4, <2>5
<1>4. AllMadeOk'
  <2>1. GoesOn
        BY <1>1 DEF GoesOn, AtStart, Peer!Running, Peer!Serving, Peer!Booting
  <2>2. traces' = traces /\ vault' = vault /\ stateDir' = stateDir
        BY <1>1
  <2> HIDE DEF PeerInv, Peer!TypeOK, Busy
  <2> QED BY <2>1, <2>2, MadeKept
<1>5. FilesKept'
      BY <1>1, <1>2 DEF FilesKept, Peer!None
<1>6. UpIsDone' /\ StaleIsPast'
  <2>1. at[p] # "start" /\ at'[p] \in Past /\ (\A x \in Pids \ {p} : at'[x] = at[x])
        BY <1>1 DEF Peer!Running, Peer!Serving, Peer!Booting
  <2>2. \A x \in Pids : look'[x] = look[x] \/ look'[x] = <<>>
        BY <1>2
  <2>3. \A x \in Pids \ {p} : look'[x] = look[x] /\ todo'[x] = todo[x]
        BY <1>2
  <2>4. UpIsDone'
        BY <2>1, <2>3 DEF UpIsDone
  <2>5. ASSUME NEW x \in Pids, NEW y \in Pids, look'[x] = <<y, TRUE>>
        PROVE  at'[y] \in Past
    <3>1. look[x] = <<y, TRUE>>
      <4>1. <<y, TRUE>> # <<>>
            OBVIOUS
      <4> QED BY <2>2, <2>5, <4>1
    <3>2. at[y] \in Past
          BY <3>1 DEF StaleIsPast
    <3> QED BY <2>1, <3>2
  <2> QED BY <2>4, <2>5 DEF StaleIsPast
<1>7. EitherSees'
  <2> SUFFICES ASSUME NEW x \in Pids, NEW y \in Pids, x # y, at'[x] \in Busy, at'[y] \in Busy
               PROVE  Sees(x, y)' \/ Sees(y, x)'
      BY DEF EitherSees
  <2>1. x # p /\ y # p
        BY <1>1
  <2>2. /\ at'[x] = at[x] /\ look'[x] = look[x] /\ todo'[x] = todo[x] /\ peers'[x] = peers[x]
        /\ at'[y] = at[y] /\ look'[y] = look[y] /\ todo'[y] = todo[y] /\ peers'[y] = peers[y]
        BY <1>1, <1>2, <2>1
  <2>3. Sees(x, y) \/ Sees(y, x)
        BY <2>2 DEF EitherSees
  <2> QED BY <2>2, <2>3 DEF Sees
<1> QED BY <1>3, <1>4, <1>5, <1>6, <1>7

LEMMA PeerInvStep == PeerInv /\ [Peer!Next]_(Peer!sessionVars) => PeerInv'
<1> SUFFICES ASSUME PeerInv, [Peer!Next]_(Peer!sessionVars) PROVE PeerInv'
    OBVIOUS
<1>1. CASE UNCHANGED Peer!sessionVars
  <2>1. UNCHANGED <<vault, stateDir, at, traces, age, beat, todo, look, peers>>
        BY <1>1 DEF Peer!sessionVars, Peer!settled, Peer!scanning
  <2> QED BY <2>1 DEF PeerInv, Peer!TypeOK, AllMadeOk, MadeOk, FilesKept, UpIsDone, StaleIsPast, EitherSees, Sees
<1>2. ASSUME NEW p \in Pids, Peer!BootStep(p)
      PROVE  PeerInv'
      BY <1>2, ChecksStep, FoldersStep, OpenStep, RegisterStep DEF Peer!BootStep
<1>3. CASE Peer!Next
      BY <1>2, <1>3, ListStep, LookAtStep, JudgeStep, ServeUpStep, BeatStep, EndStep, VanishStep DEF Peer!Next
<1> QED BY <1>1, <1>3

\* Only a server that stops takes its own file away.
LEMMA FileLeaves ==
  ASSUME PeerInv, Peer!Next, NEW p \in Pids, at[p] \in Busy, age[p] # Peer!None, age'[p] = Peer!None
  PROVE  at'[p] = "leaving"
<1> USE DEF PeerInv, Peer!TypeOK
<1>1. ASSUME NEW x \in Pids, (Peer!BootStep(x) /\ ~Peer!Register(x)) \/ Peer!List(x) \/ Peer!Serve(x) \/ Peer!Exit(x) \/ Peer!Reuse(x)
      PROVE  FALSE
      BY <1>1 DEF Peer!BootStep, Peer!validateVaultPath, Peer!probeWrite, Peer!RemoveProbe, Peer!ResolveVault,
             Peer!CheckStateDir, Peer!MakeStateDir, Peer!resolveLocalCacheDir, Peer!createLocalRuntime, Peer!SeedTemplate,
             Peer!List, Peer!Serve, Peer!Exit, Peer!Reuse
<1>2. ASSUME NEW x \in Pids, Peer!Register(x)
      PROVE  FALSE
      BY <1>2 DEF Peer!Register, Peer!None
<1>3. ASSUME NEW x \in Pids, NEW y \in Pids, Peer!LookAt(x, y)
      PROVE  FALSE
      BY <1>3 DEF Peer!LookAt
<1>4. ASSUME NEW x \in Pids, Peer!Judge(x)
      PROVE  FALSE
      BY <1>4, JudgeStep
<1>5. CASE (\E x \in Pids : Peer!Beat(x) \/ Peer!BeatLands(x)) \/ Peer!Tick
      BY <1>5, BeatStep
<1>6. ASSUME NEW x \in Pids, Peer!Stop(x)
      PROVE  at'[p] = "leaving"
      BY <1>6 DEF Peer!Stop, Peer!Go
<1>7. CASE Peer!Vanish
      BY <1>7 DEF Peer!Vanish
<1> QED BY <1>1, <1>2, <1>3, <1>4, <1>5, <1>6, <1>7 DEF Peer!Next

LEMMA PeerInvTells == PeerInv => Peer!NoMutualBlindness
<1> SUFFICES ASSUME PeerInv, NEW p \in Pids, NEW q \in Pids, at[p] = "up", at[q] = "up", p # q
             PROVE  q \in peers[p] \/ p \in peers[q]
    BY DEF Peer!NoMutualBlindness
<1>1. Sees(p, q) \/ Sees(q, p)
      BY DEF PeerInv, EitherSees, Busy
<1>2. todo[p] = {} /\ look[p] = <<>> /\ todo[q] = {} /\ look[q] = <<>>
      BY DEF PeerInv, UpIsDone
<1>3. <<q, FALSE>> # <<>> /\ <<p, FALSE>> # <<>>
      OBVIOUS
<1> QED BY <1>1, <1>2, <1>3 DEF Sees

\* The strengthening holds in every state of every behaviour.
THEOREM SessionsInvariant == Peer!Spec => []PeerInv
<1>1. Peer!Init => PeerInv
      BY PeerInvStarts
<1>2. PeerInv /\ [Peer!Next]_(Peer!sessionVars) => PeerInv'
      BY PeerInvStep
<1> QED BY <1>1, <1>2, PTL DEF Peer!Spec

\* However far a boot comes, whatever it finds and wherever it ends, for any
\* number of servers on one vault: a mistyped folder is left alone, no state or
\* cache folder is made in the vault, a boot refused for the vault leaves at most
\* the probe, and a read-only one makes nothing there but what the property names
\* (stdio-main.ts, runStdioServer: the order of its checks and of what it makes).
THEOREM RefusedBootsLeaveNothing == Peer!Spec => []BootLeavesVaultAlone
<1>1. PeerInv => BootLeavesVaultAlone
  <2> SUFFICES ASSUME PeerInv, NEW p \in Pids
               PROVE  /\ vault = "never" => traces[p] = {}
                      /\ traces[p] \intersect {"invented", "inner"} = {}
                      /\ at[p] = "badVault" \/ stateDir = "related" => traces[p] \subseteq {"probe"}
                      /\ at[p] = "badState" => traces[p] \subseteq {"local"}
                      /\ "probe" \in traces[p] => at[p] \in {"removing", "badVault", "gone", "reused"}
                      /\ p \in ReadOnly => traces[p] \subseteq {"local", "remade"} \union (IF stateDir = "reserved" THEN {"instance"} ELSE {})
      BY DEF BootLeavesVaultAlone, Peer!BootLeavesVaultAlone
  <2>1. MadeOk(p)
        BY DEF PeerInv, AllMadeOk
  <2> QED BY <2>1 DEF MadeOk
<1> QED BY <1>1, SessionsInvariant, PTL

\* However many servers boot on one vault and however close together, of two
\* that are up one has counted the other; and no scan takes a running server's
\* file (local-peers.ts, listOtherLivePeers).
THEOREM PeersLearnOfEachOther == Peer!Spec => PeersTell
<1>1. PeerInv' => Peer!NoMutualBlindness'
  <2>1. PeerInv => Peer!NoMutualBlindness
        BY PeerInvTells
  <2> QED BY <2>1, PTL
<1>2. PeerInv /\ PeerInv' /\ [Peer!Next]_(Peer!sessionVars) =>
        [/\ Peer!NoMutualBlindness'
         /\ \A p \in Pids : at[p] \in {"written", "scanning", "up"} /\ age[p] # Peer!None /\ age'[p] = Peer!None
                              => at'[p] = "leaving"]_(Peer!sessionVars)
  <2> SUFFICES ASSUME PeerInv, PeerInv', Peer!Next
               PROVE  /\ Peer!NoMutualBlindness'
                      /\ \A p \in Pids : at[p] \in {"written", "scanning", "up"} /\ age[p] # Peer!None /\ age'[p] = Peer!None
                                           => at'[p] = "leaving"
      OBVIOUS
  <2>1. Peer!NoMutualBlindness'
        BY <1>1
  <2>2. ASSUME NEW p \in Pids, at[p] \in {"written", "scanning", "up"}, age[p] # Peer!None, age'[p] = Peer!None
        PROVE  at'[p] = "leaving"
        BY <2>2, FileLeaves DEF Busy
  <2> QED BY <2>1, <2>2
<1> QED BY <1>2, SessionsInvariant, PTL DEF PeersTell, Peer!PeersTell, Peer!Spec

-----------------------------------------------------------------------------
(* The index cache.  What a save keeps was modified so long before it that   *)
(* no later write can bear its time, and so long that the session had seen   *)
(* every write that bears it.                                                *)

Entries == Nat \X Nat

\* An entry under the disk's time is what the disk holds, unless a write fell where no session sees it.
Fresh(e) == ~blind /\ e[2] = disk[2] => e[1] = disk[1]

\* An entry that a save begun at t keeps.
Kept(e, t) == e[1] <= disk[1] /\ e[2] < t - Window /\ Fresh(e)

ClockTypes ==
  /\ now \in 0 .. MaxClock /\ saves \in 0 .. MaxSaves /\ blind \in BOOLEAN
  /\ disk \in (0 .. MaxWrites) \X (0 .. MaxClock) /\ disk[2] <= now

FileOk ==
  \/ cache \in {<<"absent">>, <<"spoiled">>, <<"held", Cache!None>>}
  \/ \E e \in Entries : cache = <<"held", e>> /\ Kept(e, now)

IndexOk(s) ==
  /\ session[s] \in {"off", "filling", "filled", "ready"}
  /\ index[s] = Cache!None \/ (index[s] \in Entries /\ index[s][1] <= disk[1])
  /\ session[s] \in {"filled", "ready"} => index[s] # Cache!None /\ (unseen[s] = -1 => Fresh(index[s]))
  /\ \/ unseen[s] = -1
     \/ /\ session[s] = "ready" /\ unseen[s] \in 0 .. now
        /\ now - unseen[s] <= Delay /\ unseen[s] - Coarse < disk[2]

SaveOk(s) ==
  \/ saving[s] = Cache!None
  \/ /\ session[s] = "ready"
     /\ \E began \in 0 .. now : \/ saving[s] = <<began, Cache!None>>
                                \/ \E e \in Entries : saving[s] = <<began, e>> /\ Kept(e, began)

CacheInv ==
  /\ ClockTypes /\ FileOk
  /\ DOMAIN session = Sessions /\ DOMAIN index = Sessions /\ DOMAIN unseen = Sessions /\ DOMAIN saving = Sessions
  /\ \A s \in Sessions : IndexOk(s) /\ SaveOk(s)

\* A time as the disk has it.
LEMMA Stamp ==
  ASSUME NEW t \in Nat, NEW c \in Nat \ {0}
  PROVE  t - (t % c) \in 0 .. t /\ t - c < t - (t % c)
<1>1. t % c \in 0 .. c - 1
      OBVIOUS
<1>2. t % c <= t
  <2>1. CASE t < c
        BY <2>1
  <2>2. CASE ~(t < c)
        BY <1>1, <2>2
  <2> QED BY <2>1, <2>2
<1> QED BY <1>1, <1>2

\* What may happen to the clock and the note in a step.
Later ==
  /\ now' \in Nat /\ now <= now'
  /\ \/ UNCHANGED <<disk, blind>>
     \/ disk'[1] = disk[1] + 1 /\ disk'[2] = now - (now % Coarse)

LEMMA CacheInvStarts == Cache!CacheTimes /\ Cache!Init => CacheInv
<1> SUFFICES ASSUME Cache!CacheTimes, Cache!Init PROVE CacheInv
    OBVIOUS
<1>1. ClockTypes
  <2>1. MaxClock \in Nat /\ MaxWrites \in Nat /\ MaxSaves \in Nat
        BY DEF Cache!CacheTimes
  <2>2. disk = <<0, 0>> /\ now = 0 /\ saves = 0 /\ blind = FALSE
        BY DEF Cache!Init
  <2>3. 0 \in 0 .. MaxClock /\ 0 \in 0 .. MaxWrites /\ 0 \in 0 .. MaxSaves
        BY <2>1
  <2>4. disk \in (0 .. MaxWrites) \X (0 .. MaxClock) /\ disk[2] <= now
        BY <2>2, <2>3
  <2> QED BY <2>2, <2>3, <2>4 DEF ClockTypes
<1>2. FileOk
      BY DEF Cache!Init, FileOk
<1>3. ASSUME NEW s \in Sessions
      PROVE  IndexOk(s) /\ SaveOk(s)
      BY DEF Cache!Init, IndexOk, SaveOk
<1>4. DOMAIN session = Sessions /\ DOMAIN index = Sessions /\ DOMAIN unseen = Sessions /\ DOMAIN saving = Sessions
      BY DEF Cache!Init
<1> QED BY <1>1, <1>2, <1>3, <1>4 DEF CacheInv

\* A kept entry stays true of the note: a later write bears a later time.
LEMMA KeptStays ==
  ASSUME Cache!CacheTimes, ClockTypes, Later, NEW e \in Entries, NEW t \in 0 .. now, Kept(e, t)
  PROVE  e[1] <= disk'[1] /\ Fresh(e)'
<1>1. /\ now \in Nat /\ Coarse \in Nat \ {0} /\ Window \in Nat /\ Delay \in Nat /\ Coarse + Delay <= Window + 1
      /\ e[1] \in Nat /\ e[2] \in Nat /\ disk[1] \in Nat /\ disk[2] \in Nat
      BY DEF Cache!CacheTimes, ClockTypes, Entries
<1>2. e[1] <= disk[1] /\ e[2] < t - Window /\ Fresh(e)
      BY DEF Kept
<1>3. CASE UNCHANGED <<disk, blind>>
      BY <1>2, <1>3 DEF Fresh
<1>4. CASE disk'[1] = disk[1] + 1 /\ disk'[2] = now - (now % Coarse)
  <2>1. now - (now % Coarse) \in 0 .. now /\ now - Coarse < now - (now % Coarse)
        BY <1>1, Stamp
  <2>2. e[2] # disk'[2]
        BY <1>1, <1>2, <1>4, <2>1
  <2> QED BY <1>1, <1>2, <1>4, <2>2 DEF Fresh
<1> QED BY <1>3, <1>4 DEF Later

LEMMA FileStays ==
  ASSUME Cache!CacheTimes, CacheInv, Later, UNCHANGED cache
  PROVE  FileOk'
<1>1. ClockTypes /\ FileOk /\ now \in Nat /\ now \in 0 .. now /\ Window \in Nat /\ now' \in Nat /\ now <= now'
      BY DEF CacheInv, ClockTypes, Cache!CacheTimes, Later
<1>2. CASE cache \in {<<"absent">>, <<"spoiled">>, <<"held", Cache!None>>}
      BY <1>2 DEF FileOk
<1>3. CASE \E e \in Entries : cache = <<"held", e>> /\ Kept(e, now)
  <2>1. PICK e \in Entries : cache = <<"held", e>> /\ Kept(e, now)
        BY <1>3
  <2>2. e[1] <= disk'[1] /\ Fresh(e)'
        BY <1>1, <2>1, KeptStays
  <2>3. e[2] \in Nat /\ e[2] < now - Window
        BY <2>1 DEF Kept, Entries
  <2>4. Kept(e, now)'
        BY <1>1, <2>2, <2>3 DEF Kept
  <2> QED BY <2>1, <2>4 DEF FileOk
<1> QED BY <1>1, <1>2, <1>3 DEF FileOk

LEMMA SaveStays ==
  ASSUME Cache!CacheTimes, CacheInv, Later, NEW s \in Sessions, saving'[s] = saving[s], session'[s] = session[s]
  PROVE  SaveOk(s)'
<1>1. ClockTypes /\ SaveOk(s) /\ now \in Nat /\ now' \in Nat /\ now <= now'
      BY DEF CacheInv, ClockTypes, Later
<1>2. CASE saving[s] = Cache!None
      BY <1>2 DEF SaveOk
<1>3. CASE saving[s] # Cache!None
  <2>1. PICK began \in 0 .. now : \/ saving[s] = <<began, Cache!None>>
                                  \/ \E e \in Entries : saving[s] = <<began, e>> /\ Kept(e, began)
        BY <1>1, <1>3 DEF SaveOk
  <2>2. began \in 0 .. now' /\ session'[s] = "ready"
        BY <1>1, <1>3 DEF SaveOk
  <2>3. CASE saving[s] = <<began, Cache!None>>
        BY <2>2, <2>3 DEF SaveOk
  <2>4. CASE \E e \in Entries : saving[s] = <<began, e>> /\ Kept(e, began)
    <3>1. PICK e \in Entries : saving[s] = <<began, e>> /\ Kept(e, began)
          BY <2>4
    <3>2. e[1] <= disk'[1] /\ Fresh(e)'
          BY <1>1, <3>1, KeptStays
    <3>3. Kept(e, began)'
          BY <3>1, <3>2 DEF Kept
    <3> QED BY <2>2, <3>1, <3>3 DEF SaveOk
  <2> QED BY <2>1, <2>3, <2>4
<1> QED BY <1>2, <1>3

LEMMA IndexStays ==
  ASSUME CacheInv, UNCHANGED <<now, disk, blind>>, NEW s \in Sessions,
         index'[s] = index[s], session'[s] = session[s], unseen'[s] = unseen[s]
  PROVE  IndexOk(s)'
<1>1. IndexOk(s)
      BY DEF CacheInv
<1> QED BY <1>1 DEF IndexOk, Fresh

\* One note written: the stamp is young, every entry under it is marked unseen or blind.
LEMMA WriteStep == Cache!CacheTimes /\ CacheInv /\ Cache!Write => CacheInv'
<1> SUFFICES ASSUME Cache!CacheTimes, CacheInv, Cache!Write PROVE CacheInv'
    OBVIOUS
<1> DEFINE stamp == now - (now % Coarse)
<1>1. /\ now \in Nat /\ now \in 0 .. MaxClock /\ Coarse \in Nat \ {0} /\ Delay \in Nat /\ MaxClock \in Nat /\ MaxWrites \in Nat
      /\ disk[1] \in 0 .. MaxWrites /\ disk[2] \in 0 .. MaxClock /\ ClockTypes /\ FileOk
      BY DEF CacheInv, ClockTypes, Cache!CacheTimes
<1>2. stamp \in 0 .. now /\ now - Coarse < stamp
      BY <1>1, Stamp
<1>3. /\ disk[1] < MaxWrites /\ disk' = <<disk[1] + 1, stamp>>
      /\ unseen' = [s \in Sessions |-> IF session[s] = "ready" /\ unseen[s] = -1 THEN now ELSE unseen[s]]
      /\ blind' = (blind \/ \E s \in Sessions : session[s] = "filled" /\ index[s][2] = disk'[2])
      /\ UNCHANGED <<now, cache, session, index, saving, saves>>
      BY DEF Cache!Write
<1> HIDE DEF stamp
<1>4. disk'[1] = disk[1] + 1 /\ disk'[2] = stamp
      BY <1>3
<1>5. Later
      BY <1>1, <1>3, <1>4 DEF Later, stamp
<1>6. ClockTypes'
  <2>1. disk[1] + 1 \in 0 .. MaxWrites /\ stamp \in 0 .. MaxClock /\ stamp <= now
        BY <1>1, <1>2, <1>3
  <2>2. blind' \in BOOLEAN
        BY <1>3, <1>1 DEF ClockTypes
  <2> QED BY <1>1, <1>3, <1>4, <2>1, <2>2 DEF ClockTypes
<1>7. FileOk'
      BY <1>3, <1>5, FileStays
<1>8. ASSUME NEW s \in Sessions
      PROVE  IndexOk(s)'
  <2>1. IndexOk(s) /\ unseen'[s] = IF session[s] = "ready" /\ unseen[s] = -1 THEN now ELSE unseen[s]
        BY <1>3 DEF CacheInv
  <2>2. index[s] = Cache!None \/ (index[s] \in Entries /\ index[s][1] <= disk'[1])
        BY <1>1, <1>4, <2>1 DEF IndexOk, Entries
  <2>3. \/ unseen'[s] = -1
        \/ /\ session[s] = "ready" /\ unseen'[s] \in 0 .. now
           /\ now - unseen'[s] <= Delay /\ unseen'[s] - Coarse < stamp
    <3>1. CASE session[s] = "ready" /\ unseen[s] = -1
          BY <1>1, <1>2, <2>1, <3>1
    <3>2. CASE ~(session[s] = "ready" /\ unseen[s] = -1)
          BY <1>1, <1>2, <2>1, <3>2 DEF IndexOk
    <3> QED BY <3>1, <3>2
  <2>4. session[s] \in {"filled", "ready"} => index[s] # Cache!None /\ (unseen'[s] = -1 => Fresh(index[s])')
    <3>1. ASSUME session[s] = "filled"
          PROVE  Fresh(index[s])'
          BY <1>3, <1>4, <3>1 DEF Fresh
    <3>2. session[s] = "ready" => unseen'[s] # -1
          BY <1>1, <2>1
    <3> QED BY <2>1, <3>1, <3>2 DEF IndexOk
  <2> QED BY <1>3, <1>4, <2>1, <2>2, <2>3, <2>4 DEF IndexOk
<1>9. ASSUME NEW s \in Sessions
      PROVE  SaveOk(s)'
      BY <1>3, <1>5, <1>9, SaveStays
<1>10. DOMAIN session' = Sessions /\ DOMAIN index' = Sessions /\ DOMAIN unseen' = Sessions /\ DOMAIN saving' = Sessions
      BY <1>3 DEF CacheInv
<1> QED BY <1>6, <1>7, <1>8, <1>9, <1>10 DEF CacheInv

\* The clock waits for a session that is late.
LEMMA ClockStep == Cache!CacheTimes /\ CacheInv /\ Cache!Tick => CacheInv'
<1> SUFFICES ASSUME Cache!CacheTimes, CacheInv, Cache!Tick PROVE CacheInv'
    OBVIOUS
<1>1. /\ now \in Nat /\ now \in 0 .. MaxClock /\ Coarse \in Nat \ {0} /\ Delay \in Nat /\ MaxClock \in Nat
      /\ disk[2] \in 0 .. MaxClock /\ ClockTypes
      BY DEF CacheInv, ClockTypes, Cache!CacheTimes
<1>2. /\ now < MaxClock /\ now' = now + 1
      /\ \A s \in Sessions : unseen[s] # -1 => now - unseen[s] < Delay
      /\ UNCHANGED <<disk, cache, session, index, unseen, saving, saves, blind>>
      BY DEF Cache!Tick
<1>3. Later
      BY <1>1, <1>2 DEF Later
<1>4. ClockTypes'
      BY <1>1, <1>2 DEF ClockTypes
<1>5. FileOk'
      BY <1>2, <1>3, FileStays
<1>6. ASSUME NEW s \in Sessions
      PROVE  IndexOk(s)'
  <2>1. IndexOk(s) /\ (unseen[s] # -1 => now - unseen[s] < Delay)
        BY <1>2 DEF CacheInv
  <2>2. \/ unseen[s] = -1
        \/ /\ session[s] = "ready" /\ unseen[s] \in 0 .. now + 1
           /\ (now + 1) - unseen[s] <= Delay /\ unseen[s] - Coarse < disk[2]
        BY <1>1, <2>1 DEF IndexOk
  <2> QED BY <1>2, <2>1, <2>2 DEF IndexOk, Fresh
<1>7. ASSUME NEW s \in Sessions
      PROVE  SaveOk(s)'
      BY <1>2, <1>3, SaveStays
<1>8. DOMAIN session' = Sessions /\ DOMAIN index' = Sessions /\ DOMAIN unseen' = Sessions /\ DOMAIN saving' = Sessions
      BY <1>2 DEF CacheInv
<1> QED BY <1>4, <1>5, <1>6, <1>7, <1>8 DEF CacheInv

\* What the disk holds is an entry.
LEMMA DiskEntry == Cache!CacheTimes /\ ClockTypes => disk \in Entries /\ disk # Cache!None /\ disk[1] <= disk[1]
<1> SUFFICES ASSUME Cache!CacheTimes, ClockTypes PROVE disk \in Entries /\ disk # Cache!None /\ disk[1] <= disk[1]
    OBVIOUS
<1>1. disk \in (0 .. MaxWrites) \X (0 .. MaxClock) /\ MaxWrites \in Nat /\ MaxClock \in Nat
      BY DEF ClockTypes, Cache!CacheTimes
<1>2. disk[1] \in Nat /\ disk[2] \in Nat /\ disk = <<disk[1], disk[2]>>
      BY <1>1
<1>3. disk \in Entries
      BY <1>2 DEF Entries
<1> QED BY <1>2, <1>3 DEF Cache!None

\* A step of one session, in which clock and note stand still.
LEMMA OneSession ==
  ASSUME Cache!CacheTimes, CacheInv, NEW s \in Sessions, UNCHANGED <<now, disk, blind>>, saves' \in 0 .. MaxSaves,
         FileOk', IndexOk(s)', SaveOk(s)',
         DOMAIN session' = Sessions, DOMAIN index' = Sessions, DOMAIN unseen' = Sessions, DOMAIN saving' = Sessions,
         \A q \in Sessions \ {s} : /\ index'[q] = index[q] /\ session'[q] = session[q]
                                  /\ unseen'[q] = unseen[q] /\ saving'[q] = saving[q]
  PROVE  CacheInv'
<1>1. Later /\ ClockTypes'
      BY DEF CacheInv, ClockTypes, Later
<1>2. ASSUME NEW q \in Sessions \ {s}
      PROVE  IndexOk(q)' /\ SaveOk(q)'
      BY <1>1, IndexStays, SaveStays
<1> QED BY <1>1, <1>2 DEF CacheInv

LEMMA SeeStep ==
  ASSUME Cache!CacheTimes, CacheInv, NEW s \in Sessions, Cache!See(s)
  PROVE  CacheInv'
<1>1. /\ session[s] = "ready" /\ index' = [index EXCEPT ![s] = disk] /\ unseen' = [unseen EXCEPT ![s] = -1]
      /\ UNCHANGED <<now, disk, cache, session, saving, saves, blind>>
      BY DEF Cache!See
<1>2. /\ disk \in Entries /\ disk # Cache!None /\ disk[1] <= disk[1] /\ Later /\ saves \in 0 .. MaxSaves
      /\ DOMAIN session = Sessions /\ DOMAIN index = Sessions /\ DOMAIN unseen = Sessions /\ DOMAIN saving = Sessions
      BY <1>1, DiskEntry DEF CacheInv, ClockTypes, Later
<1>3. index'[s] = disk /\ unseen'[s] = -1
      BY <1>1, <1>2
<1>4. IndexOk(s)'
      BY <1>1, <1>2, <1>3 DEF IndexOk, Fresh
<1>5. FileOk' /\ SaveOk(s)'
      BY <1>1, <1>2, FileStays, SaveStays
<1> QED BY <1>1, <1>2, <1>4, <1>5, OneSession

LEMMA SessionBoots ==
  ASSUME Cache!CacheTimes, CacheInv, NEW s \in Sessions, Cache!Boot(s)
  PROVE  CacheInv'
<1>1. /\ session[s] = "off" /\ session' = [session EXCEPT ![s] = "filling"]
      /\ cache' = <<"absent">> \/ UNCHANGED cache
      /\ UNCHANGED <<now, disk, index, unseen, saving, saves, blind>>
      BY DEF Cache!Boot, Cache!Running
<1>2. /\ IndexOk(s) /\ SaveOk(s) /\ Later /\ saves \in 0 .. MaxSaves
      /\ DOMAIN session = Sessions /\ DOMAIN index = Sessions /\ DOMAIN unseen = Sessions /\ DOMAIN saving = Sessions
      BY <1>1 DEF CacheInv, ClockTypes, Later
<1>3. session'[s] = "filling"
      BY <1>1, <1>2
<1>4. IndexOk(s)' /\ SaveOk(s)'
      BY <1>1, <1>2, <1>3 DEF IndexOk, SaveOk
<1>5. FileOk'
      BY <1>1, <1>2, FileStays DEF FileOk
<1> QED BY <1>1, <1>2, <1>4, <1>5, OneSession

\* A hit of the cache is an entry it kept.
LEMMA FillStep ==
  ASSUME Cache!CacheTimes, CacheInv, NEW s \in Sessions, Cache!Fill(s)
  PROVE  CacheInv'
<1>1. PICK entry \in Cache!LoadedEntries : index' = [index EXCEPT ![s] = IF entry # Cache!None THEN entry ELSE disk]
      BY DEF Cache!Fill
<1>2. /\ session[s] = "filling" /\ session' = [session EXCEPT ![s] = "filled"]
      /\ UNCHANGED <<now, disk, cache, unseen, saving, saves, blind>>
      BY DEF Cache!Fill
<1>3. /\ disk \in Entries /\ disk # Cache!None /\ Later /\ saves \in 0 .. MaxSaves /\ disk[1] <= disk[1]
      /\ IndexOk(s) /\ SaveOk(s) /\ FileOk
      /\ DOMAIN session = Sessions /\ DOMAIN index = Sessions /\ DOMAIN unseen = Sessions /\ DOMAIN saving = Sessions
      BY <1>2, DiskEntry DEF CacheInv, ClockTypes, Later
<1>4. ASSUME entry # Cache!None
      PROVE  entry \in Entries /\ entry[1] <= disk[1] /\ Fresh(entry)
  <2>1. cache[1] = "held" /\ entry = cache[2]
        BY <1>4 DEF Cache!LoadedEntries, Cache!Hit
  <2>2. cache # <<"absent">> /\ cache # <<"spoiled">> /\ cache # <<"held", Cache!None>>
        BY <1>4, <2>1
  <2>3. PICK e \in Entries : cache = <<"held", e>> /\ Kept(e, now)
        BY <1>3, <2>2 DEF FileOk
  <2>4. entry = e
        BY <2>1, <2>3
  <2> QED BY <2>3, <2>4 DEF Kept
<1>5. index'[s] \in Entries /\ index'[s] # Cache!None /\ index'[s][1] <= disk[1] /\ Fresh(index'[s])
  <2>1. CASE entry # Cache!None
    <3>1. index'[s] = entry
          BY <1>1, <1>3, <2>1
    <3> QED BY <1>4, <2>1, <3>1
  <2>2. CASE entry = Cache!None
    <3>1. index'[s] = disk
          BY <1>1, <1>3, <2>2
    <3> QED BY <1>3, <3>1 DEF Fresh
  <2> QED BY <2>1, <2>2
<1>6. session'[s] = "filled" /\ unseen[s] = -1
      BY <1>2, <1>3 DEF IndexOk
<1>7. IndexOk(s)' /\ SaveOk(s)'
      BY <1>2, <1>3, <1>5, <1>6 DEF IndexOk, SaveOk, Fresh
<1>8. FileOk'
      BY <1>2, <1>3, FileStays
<1>9. \A q \in Sessions \ {s} : index'[q] = index[q]
      BY <1>1, <1>3
<1>10. DOMAIN index' = Sessions
      BY <1>1, <1>3
<1> QED BY <1>2, <1>3, <1>7, <1>8, <1>9, <1>10, OneSession

LEMMA SettleStep ==
  ASSUME Cache!CacheTimes, CacheInv, NEW s \in Sessions, Cache!Settle(s)
  PROVE  CacheInv'
<1>1. /\ session[s] = "filled" /\ session' = [session EXCEPT ![s] = "ready"]
      /\ \/ UNCHANGED index
         \/ index' = [index EXCEPT ![s] = disk]
      /\ UNCHANGED <<now, disk, cache, unseen, saving, saves, blind>>
      BY DEF Cache!Settle
<1>2. /\ disk \in Entries /\ disk # Cache!None /\ Later /\ saves \in 0 .. MaxSaves /\ disk[1] <= disk[1]
      /\ IndexOk(s) /\ SaveOk(s)
      /\ DOMAIN session = Sessions /\ DOMAIN index = Sessions /\ DOMAIN unseen = Sessions /\ DOMAIN saving = Sessions
      BY <1>1, DiskEntry DEF CacheInv, ClockTypes, Later
<1>3. index'[s] \in Entries /\ index'[s] # Cache!None /\ index'[s][1] <= disk[1] /\ Fresh(index'[s])
  <2>1. CASE UNCHANGED index
        BY <1>1, <1>2, <2>1 DEF IndexOk
  <2>2. CASE index' = [index EXCEPT ![s] = disk]
    <3>1. index'[s] = disk
          BY <1>2, <2>2
    <3> QED BY <1>2, <3>1 DEF Fresh
  <2> QED BY <1>1, <2>1, <2>2
<1>4. session'[s] = "ready" /\ unseen[s] = -1 /\ saving[s] = Cache!None
      BY <1>1, <1>2 DEF IndexOk, SaveOk
<1>5. IndexOk(s)' /\ SaveOk(s)'
      BY <1>1, <1>2, <1>3, <1>4 DEF IndexOk, SaveOk, Fresh
<1>6. FileOk'
      BY <1>1, <1>2, FileStays
<1>7. (\A q \in Sessions \ {s} : index'[q] = index[q]) /\ DOMAIN index' = Sessions
      BY <1>1, <1>2
<1> QED BY <1>1, <1>2, <1>5, <1>6, <1>7, OneSession

\* What a step of one session that leaves its entry alone has to show.
LEMMA SavingStep ==
  ASSUME Cache!CacheTimes, CacheInv, NEW s \in Sessions, UNCHANGED <<now, disk, session, index, unseen, blind>>,
         saves' \in 0 .. MaxSaves, FileOk', SaveOk(s)', DOMAIN saving' = Sessions,
         \A q \in Sessions \ {s} : saving'[q] = saving[q]
  PROVE  CacheInv'
<1>1. DOMAIN session = Sessions /\ DOMAIN index = Sessions /\ DOMAIN unseen = Sessions
      BY DEF CacheInv
<1>2. IndexOk(s)'
      BY IndexStays
<1> QED BY <1>1, <1>2, OneSession

LEMMA BeginSaveStep ==
  ASSUME Cache!CacheTimes, CacheInv, NEW s \in Sessions, Cache!BeginSave(s)
  PROVE  CacheInv'
<1>1. /\ session[s] = "ready" /\ saves < MaxSaves /\ saves' = saves + 1
      /\ saving' = [saving EXCEPT ![s] = <<now, Cache!None>>]
      /\ UNCHANGED <<now, disk, cache, session, index, unseen, blind>>
      BY DEF Cache!BeginSave
<1>2. /\ saves \in 0 .. MaxSaves /\ MaxSaves \in Nat /\ now \in Nat /\ now \in 0 .. now
      /\ Later /\ DOMAIN saving = Sessions
      BY <1>1 DEF CacheInv, ClockTypes, Later, Cache!CacheTimes
<1>3. saves' \in 0 .. MaxSaves
      BY <1>1, <1>2
<1>4. saving'[s] = <<now, Cache!None>> /\ DOMAIN saving' = Sessions /\ (\A q \in Sessions \ {s} : saving'[q] = saving[q])
      BY <1>1, <1>2
<1>5. SaveOk(s)'
      BY <1>1, <1>2, <1>4 DEF SaveOk
<1>6. FileOk'
      BY <1>1, <1>2, FileStays
<1> QED BY <1>1, <1>3, <1>4, <1>5, <1>6, SavingStep

\* An entry that a save keeps is what the disk holds, or has another time: had
\* the session missed a write, it would be too young to be kept.
LEMMA KeepsOld ==
  ASSUME Cache!CacheTimes, ClockTypes, NEW s \in Sessions, IndexOk(s), session[s] = "ready",
         NEW began \in 0 .. now, index[s][2] < began - Window
  PROVE  index[s] \in Entries /\ Kept(index[s], began)
<1>1. index[s] \in Entries /\ index[s][1] <= disk[1]
      BY DEF IndexOk
<1>2. Fresh(index[s])
  <2>1. CASE unseen[s] = -1
        BY <2>1 DEF IndexOk
  <2>2. CASE unseen[s] # -1
    <3>1. /\ now \in Nat /\ Coarse \in Nat /\ Window \in Nat /\ Delay \in Nat /\ Coarse + Delay <= Window + 1
          /\ disk[2] \in Nat /\ index[s][2] \in Nat
          BY <1>1 DEF ClockTypes, Cache!CacheTimes, Entries
    <3>2. unseen[s] \in 0 .. now /\ now - unseen[s] <= Delay /\ unseen[s] - Coarse < disk[2]
          BY <2>2 DEF IndexOk
    <3>3. index[s][2] # disk[2]
          BY <3>1, <3>2
    <3> QED BY <3>3 DEF Fresh
  <2> QED BY <2>1, <2>2
<1> QED BY <1>1, <1>2 DEF Kept

LEMMA TakeEntryStep ==
  ASSUME Cache!CacheTimes, CacheInv, NEW s \in Sessions, Cache!TakeEntry(s)
  PROVE  CacheInv'
<1>1. /\ saving[s] # Cache!None /\ saving[s][2] = Cache!None /\ index[s][2] < saving[s][1] - Window
      /\ saving' = [saving EXCEPT ![s][2] = index[s]]
      /\ UNCHANGED <<now, disk, cache, session, index, unseen, saves, blind>>
      BY DEF Cache!TakeEntry, Cache!Keeps
<1>2. ClockTypes /\ saves \in 0 .. MaxSaves /\ Later /\ DOMAIN saving = Sessions /\ IndexOk(s) /\ SaveOk(s)
      BY <1>1 DEF CacheInv, ClockTypes, Later
<1>3. PICK began \in 0 .. now : saving[s] = <<began, Cache!None>>
  <2>1. ASSUME NEW e \in Entries
        PROVE  e # Cache!None
        BY DEF Entries, Cache!None
  <2> QED BY <1>1, <1>2, <2>1 DEF SaveOk
<1>4. session[s] = "ready"
      BY <1>1, <1>2 DEF SaveOk
<1>5. index[s] \in Entries /\ Kept(index[s], began)
      BY <1>1, <1>2, <1>3, <1>4, KeepsOld
<1>6. saving'[s] = <<began, index[s]>> /\ DOMAIN saving' = Sessions /\ (\A q \in Sessions \ {s} : saving'[q] = saving[q])
      BY <1>1, <1>2, <1>3
<1>7. SaveOk(s)'
      BY <1>1, <1>4, <1>5, <1>6 DEF SaveOk, Kept, Fresh
<1>8. FileOk'
      BY <1>1, <1>2, FileStays
<1> QED BY <1>1, <1>2, <1>6, <1>7, <1>8, SavingStep

\* What a save has taken makes a file that may be trusted.
LEMMA EndSaveStep ==
  ASSUME Cache!CacheTimes, CacheInv, NEW s \in Sessions, Cache!EndSave(s) \/ Cache!AbandonSave(s)
  PROVE  CacheInv'
<1>1. /\ saving[s] # Cache!None
      /\ cache' = <<"held", saving[s][2]>> \/ UNCHANGED cache
      /\ saving' = [saving EXCEPT ![s] = Cache!None]
      /\ UNCHANGED <<now, disk, session, index, unseen, saves, blind>>
      BY DEF Cache!EndSave, Cache!AbandonSave
<1>2. ClockTypes /\ saves \in 0 .. MaxSaves /\ Later /\ DOMAIN saving = Sessions /\ SaveOk(s)
      BY <1>1 DEF CacheInv, ClockTypes, Later
<1>3. saving'[s] = Cache!None /\ DOMAIN saving' = Sessions /\ (\A q \in Sessions \ {s} : saving'[q] = saving[q])
      BY <1>1, <1>2
<1>4. SaveOk(s)'
      BY <1>3 DEF SaveOk
<1>5. FileOk'
  <2>1. CASE UNCHANGED cache
        BY <1>2, <2>1, FileStays
  <2>2. CASE cache' = <<"held", saving[s][2]>>
    <3>1. PICK began \in 0 .. now : \/ saving[s] = <<began, Cache!None>>
                                    \/ \E e \in Entries : saving[s] = <<began, e>> /\ Kept(e, began)
          BY <1>1, <1>2 DEF SaveOk
    <3>2. CASE saving[s] = <<began, Cache!None>>
          BY <2>2, <3>2 DEF FileOk
    <3>3. CASE \E e \in Entries : saving[s] = <<began, e>> /\ Kept(e, began)
      <4>1. PICK e \in Entries : saving[s] = <<began, e>> /\ Kept(e, began)
            BY <3>3
      <4>2. now \in Nat /\ Window \in Nat /\ e[2] \in Nat /\ e[2] < began - Window
            BY <1>2, <4>1 DEF ClockTypes, Cache!CacheTimes, Entries, Kept
      <4>3. e[2] < now - Window
            BY <4>2
      <4>4. Kept(e, now)'
            BY <1>1, <4>1, <4>3 DEF Kept, Fresh
      <4> QED BY <2>2, <4>1, <4>4 DEF FileOk
    <3> QED BY <3>1, <3>2, <3>3
  <2> QED BY <1>1, <2>1, <2>2
<1> QED BY <1>1, <1>2, <1>3, <1>4, <1>5, SavingStep

LEMMA DieStep ==
  ASSUME Cache!CacheTimes, CacheInv, NEW s \in Sessions, Cache!Die(s)
  PROVE  CacheInv'
<1>1. /\ session' = [session EXCEPT ![s] = "off"] /\ index' = [index EXCEPT ![s] = Cache!None]
      /\ unseen' = [unseen EXCEPT ![s] = -1] /\ saving' = [saving EXCEPT ![s] = Cache!None]
      /\ UNCHANGED <<now, disk, cache, saves, blind>>
      BY DEF Cache!Die
<1>2. /\ saves \in 0 .. MaxSaves /\ Later
      /\ DOMAIN session = Sessions /\ DOMAIN index = Sessions /\ DOMAIN unseen = Sessions /\ DOMAIN saving = Sessions
      BY <1>1 DEF CacheInv, ClockTypes, Later
<1>3. session'[s] = "off" /\ index'[s] = Cache!None /\ unseen'[s] = -1 /\ saving'[s] = Cache!None
      BY <1>1, <1>2
<1>4. IndexOk(s)' /\ SaveOk(s)'
      BY <1>3 DEF IndexOk, SaveOk
<1>5. FileOk'
      BY <1>1, <1>2, FileStays
<1> QED BY <1>1, <1>2, <1>4, <1>5, OneSession

LEMMA SpoilStep == Cache!CacheTimes /\ CacheInv /\ Cache!Spoil => CacheInv'
<1> SUFFICES ASSUME Cache!CacheTimes, CacheInv, Cache!Spoil PROVE CacheInv'
    OBVIOUS
<1>1. cache' = <<"spoiled">> /\ UNCHANGED <<now, disk, session, index, unseen, saving, saves, blind>>
      BY DEF Cache!Spoil
<1>2. ClockTypes' /\ FileOk' /\ Later
      BY <1>1 DEF CacheInv, ClockTypes, FileOk, Later
<1>3. ASSUME NEW s \in Sessions
      PROVE  IndexOk(s)' /\ SaveOk(s)'
      BY <1>1, <1>2, IndexStays, SaveStays
<1> QED BY <1>1, <1>2, <1>3 DEF CacheInv

LEMMA CacheInvStep == Cache!CacheTimes /\ CacheInv /\ [Cache!Next]_cacheVars => CacheInv'
<1> SUFFICES ASSUME Cache!CacheTimes, CacheInv, [Cache!Next]_cacheVars PROVE CacheInv'
    OBVIOUS
<1>1. CASE Cache!Next
      BY <1>1, WriteStep, ClockStep, SpoilStep, SeeStep, SessionBoots, FillStep, SettleStep,
         BeginSaveStep, TakeEntryStep, EndSaveStep, DieStep DEF Cache!Next
<1>2. CASE UNCHANGED cacheVars
  <2>1. UNCHANGED <<now, disk, cache, session, index, unseen, saving, saves, blind>>
        BY <1>2 DEF cacheVars
  <2>2. ClockTypes' /\ FileOk'
        BY <2>1 DEF CacheInv, ClockTypes, FileOk, Kept, Fresh
  <2>3. ASSUME NEW s \in Sessions
        PROVE  IndexOk(s)' /\ SaveOk(s)'
        BY <2>1 DEF CacheInv, IndexOk, SaveOk, Kept, Fresh
  <2> QED BY <2>1, <2>2, <2>3 DEF CacheInv
<1> QED BY <1>1, <1>2

\* Of the invariant, what the run checks.
LEMMA CacheInvHolds == Cache!CacheTimes /\ CacheInv => Cache!TypeOK /\ Cache!HitIsCurrent
<1> SUFFICES ASSUME Cache!CacheTimes, CacheInv PROVE Cache!TypeOK /\ Cache!HitIsCurrent
    OBVIOUS
<1>1. Cache!TypeOK
  <2>1. ASSUME NEW s \in Sessions, index[s] # Cache!None
        PROVE  index[s][1] \in 0 .. disk[1]
    <3>1. index[s] \in Entries /\ index[s][1] <= disk[1]
          BY <2>1 DEF CacheInv, IndexOk
    <3>2. disk[1] \in Nat
          BY DEF CacheInv, ClockTypes, Cache!CacheTimes
    <3> QED BY <3>1, <3>2 DEF Entries
  <2> QED BY <2>1 DEF CacheInv, ClockTypes, Cache!TypeOK
<1>2. ASSUME Cache!Hit, ~blind
      PROVE  cache[2][1] = disk[1]
  <2>1. cache[1] = "held" /\ cache[2] # Cache!None /\ cache[2][2] = disk[2]
        BY <1>2 DEF Cache!Hit
  <2>2. PICK e \in Entries : cache = <<"held", e>> /\ Kept(e, now)
        BY <2>1 DEF CacheInv, FileOk
  <2> QED BY <1>2, <2>1, <2>2 DEF Kept, Fresh
<1> QED BY <1>1, <1>2 DEF Cache!HitIsCurrent

-----------------------------------------------------------------------------
(* The tunnel.  The file is removed before a child starts, when no write of  *)
(* the one before it is on its way; from then on only the child's own        *)
(* address gets there.                                                       *)

TunnelTypes ==
  /\ child \in 0 .. MaxChildren
  /\ lastUrl \in 0 .. MaxChildren + 1 /\ urlFile \in 0 .. MaxChildren + 1
  /\ app \in 0 .. MaxChildren + 1 /\ read \in 0 .. MaxChildren + 1
  /\ writes \subseteq 1 .. MaxChildren
  /\ alive \in BOOLEAN /\ cleared \in BOOLEAN /\ mishaps \in BOOLEAN

TunnelInv ==
  /\ TunnelTypes
  /\ cleared => ~alive /\ child < MaxChildren /\ writes = {} /\ (mishaps \/ urlFile = 0)
  /\ writes \subseteq {child}
  /\ alive /\ ~mishaps => urlFile \in {0, child}

LEMMA TunnelInvTypes == TunnelInv => Tunnel!TypeOK
BY DEF TunnelInv, TunnelTypes, Tunnel!TypeOK, Tunnel!Leftover

LEMMA TunnelInvStarts == MaxChildren \in Nat /\ Tunnel!Init => TunnelInv
<1> SUFFICES ASSUME MaxChildren \in Nat, Tunnel!Init PROVE TunnelInv
    OBVIOUS
<1>1. /\ child = 0 /\ alive = FALSE /\ cleared = FALSE /\ lastUrl = 0 /\ writes = {}
      /\ urlFile \in {0, MaxChildren + 1} /\ app = 0 /\ read = 0 /\ mishaps = FALSE
      BY DEF Tunnel!Init, Tunnel!None, Tunnel!Leftover
<1>2. 0 \in 0 .. MaxChildren /\ 0 \in 0 .. MaxChildren + 1 /\ MaxChildren + 1 \in 0 .. MaxChildren + 1
      OBVIOUS
<1>3. TunnelTypes
      BY <1>1, <1>2 DEF TunnelTypes
<1> QED BY <1>1, <1>3 DEF TunnelInv

LEMMA TunnelInvStep == MaxChildren \in Nat /\ TunnelInv /\ [Tunnel!Next]_tunnelVars => TunnelInv'
<1> SUFFICES ASSUME MaxChildren \in Nat, TunnelInv, [Tunnel!Next]_tunnelVars PROVE TunnelInv'
    OBVIOUS
<1>1. 0 \in 0 .. MaxChildren + 1
      OBVIOUS
<1>2. CASE Tunnel!Clear
  <2>1. /\ ~alive /\ ~cleared /\ child < MaxChildren /\ writes = {} /\ cleared' = TRUE /\ lastUrl' = 0
        /\ UNCHANGED <<child, alive, writes, app, read>>
        BY <1>2 DEF Tunnel!Clear, Tunnel!None
  <2>2. \/ urlFile' = 0 /\ UNCHANGED mishaps
        \/ mishaps' = TRUE /\ UNCHANGED urlFile
        BY <1>2 DEF Tunnel!Clear, Tunnel!None
  <2>3. TunnelTypes'
        BY <1>1, <2>1, <2>2 DEF TunnelInv, TunnelTypes
  <2> QED BY <2>1, <2>2, <2>3 DEF TunnelInv
<1>3. CASE Tunnel!Spawn
  <2>1. /\ ~alive /\ cleared /\ child' = child + 1 /\ alive' = TRUE /\ cleared' = FALSE
        /\ UNCHANGED <<lastUrl, writes, urlFile, app, read, mishaps>>
        BY <1>3 DEF Tunnel!Spawn
  <2>2. child + 1 \in 0 .. MaxChildren
        BY <2>1 DEF TunnelInv, TunnelTypes
  <2>3. TunnelTypes'
        BY <2>1, <2>2 DEF TunnelInv, TunnelTypes
  <2> QED BY <2>1, <2>3 DEF TunnelInv
<1>4. CASE Tunnel!handleLine
  <2>1. /\ child # 0 /\ ~cleared /\ lastUrl' = child /\ writes' = writes \union {child}
        /\ UNCHANGED <<child, alive, cleared, urlFile, app, read, mishaps>>
        BY <1>4 DEF Tunnel!handleLine
  <2>2. child \in 1 .. MaxChildren /\ child \in 0 .. MaxChildren + 1
        BY <2>1 DEF TunnelInv, TunnelTypes
  <2>3. TunnelTypes'
        BY <2>1, <2>2 DEF TunnelInv, TunnelTypes
  <2> QED BY <2>1, <2>3 DEF TunnelInv
<1>5. ASSUME NEW url \in 1 .. MaxChildren, Tunnel!WriteLands(url)
      PROVE  TunnelInv'
  <2>1. /\ url \in writes /\ writes' = writes \ {url}
        /\ UNCHANGED <<child, alive, cleared, lastUrl, app, read>>
        BY <1>5 DEF Tunnel!WriteLands
  <2>2. \/ urlFile' = url /\ UNCHANGED mishaps
        \/ UNCHANGED urlFile /\ mishaps' = TRUE
        BY <1>5 DEF Tunnel!WriteLands
  <2>3. url = child /\ url \in 0 .. MaxChildren + 1 /\ ~cleared
        BY <2>1 DEF TunnelInv
  <2>4. TunnelTypes'
        BY <2>1, <2>2, <2>3 DEF TunnelInv, TunnelTypes
  <2> QED BY <2>1, <2>2, <2>3, <2>4 DEF TunnelInv
<1>6. CASE Tunnel!ChildExits
      BY <1>6 DEF Tunnel!ChildExits, TunnelInv, TunnelTypes
<1>7. CASE Tunnel!BootApp \/ Tunnel!Poll \/ Tunnel!Restart
  <2>1. UNCHANGED <<child, alive, cleared, lastUrl, writes, urlFile, mishaps>>
        BY <1>7 DEF Tunnel!BootApp, Tunnel!Poll, Tunnel!Restart, Tunnel!supervisor
  <2>2. app' \in {0, app, urlFile} /\ read' \in {0, urlFile}
        BY <1>7 DEF Tunnel!BootApp, Tunnel!Poll, Tunnel!Restart, Tunnel!None
  <2>3. TunnelTypes'
        BY <1>1, <2>1, <2>2 DEF TunnelInv, TunnelTypes
  <2> QED BY <2>1, <2>3 DEF TunnelInv
<1>8. CASE UNCHANGED tunnelVars
      BY <1>8 DEF tunnelVars, TunnelInv, TunnelTypes
<1> QED BY <1>2, <1>3, <1>4, <1>5, <1>6, <1>7, <1>8 DEF Tunnel!Next

LEMMA BootsOnChild ==
  ASSUME TunnelInv, Tunnel!Next, app = Tunnel!None, app' # Tunnel!None, alive, ~mishaps
  PROVE  app' = child
<1>1. ~Tunnel!Clear /\ ~Tunnel!Spawn /\ ~Tunnel!handleLine /\ ~Tunnel!ChildExits
      BY DEF Tunnel!Clear, Tunnel!Spawn, Tunnel!handleLine, Tunnel!ChildExits
<1>2. \A url \in 1 .. MaxChildren : ~Tunnel!WriteLands(url)
      BY DEF Tunnel!WriteLands
<1>3. ~Tunnel!Poll /\ ~Tunnel!Restart
      BY DEF Tunnel!Poll, Tunnel!Restart
<1>4. Tunnel!BootApp
      BY <1>1, <1>2, <1>3 DEF Tunnel!Next
<1> QED BY <1>4 DEF Tunnel!BootApp, Tunnel!None, TunnelInv

-----------------------------------------------------------------------------
(* All together: a step is of one part, and the rest stand still.          *)

MCInv == LifeInv /\ CacheInv /\ TunnelInv

LEMMA MCInvStarts == MCInit => MCInv
BY LifecycleAssumption, LifeInvStarts, CacheInvStarts, TunnelInvStarts DEF MCInit, MCInv

LEMMA MCSteps ==
  ASSUME [MCNext]_mcVars
  PROVE  [LifeNext]_lifeVars /\ [Cache!Next]_cacheVars /\ [Tunnel!Next]_tunnelVars
BY DEF MCNext, mcVars

LEMMA MCInvStep == MCInv /\ [MCNext]_mcVars => MCInv'
BY LifecycleAssumption, MCSteps, LifeInvStep, CacheInvStep, TunnelInvStep DEF MCInv

\* The strengthening holds in every state of every behaviour.
THEOREM LifecycleInvariant == MCSpec => []MCInv
<1>1. MCInit => MCInv
      BY MCInvStarts
<1>2. MCInv /\ [MCNext]_mcVars => MCInv'
      BY MCInvStep
<1> QED BY <1>1, <1>2, PTL DEF MCSpec

\* Every part's state is well typed, and the calls see the boot the runtime is in.
THEOREM LifecycleTypeOK == MCSpec => []MCTypeOK
<1>1. MCInv => MCTypeOK
      BY LifecycleAssumption, LifeInvHolds, CacheInvHolds, TunnelInvTypes DEF MCInv, MCTypeOK
<1> QED BY <1>1, LifecycleInvariant, PTL

\* With the runtime's passes and either server around it, the stdio server leaves
\* nothing behind that it let in, and the HTTP server only what outlasts its
\* drain time (StopAnswers); passes of a runtime that does not defer never
\* overlap, and a deferred index is never ready unchecked.
THEOREM LifecycleAnswers == MCSpec => [](StopAnswers /\ OneAtATime /\ ReadyWhenChecked)
<1>1. MCInv => StopAnswers /\ OneAtATime /\ ReadyWhenChecked
      BY LifeInvHolds DEF MCInv
<1> QED BY <1>1, LifecycleInvariant, PTL

\* A step of the server is one of its runtime, or leaves the runtime alone.
LEMMA LifeSteps ==
  ASSUME [LifeNext]_lifeVars
  PROVE  [Next]_vars
<1>1. CASE StopRuntime \/ Leave
      BY <1>1 DEF StopRuntime, Leave, Next
<1>2. CASE (\E c \in Calls : Serve(Send(c) \/ CallStep(c) \/ Expire(c))) \/ Serve(Shutdown) \/ Serve(Exit1)
            \/ Serve(Quiet \/ Drain \/ Turn \/ CloseTransport)
      BY <1>2 DEF Serve
<1>3. CASE \/ Work(WatcherError \/ TrailingFires \/ onTick \/ GapEnds)
           \/ Work(EndFill \/ PauseEnds \/ Pass) \/ Work(TearDown \/ Down)
      BY <1>3 DEF Work, Pass, Next
<1>4. CASE \/ \E c \in Calls : Http(HttpCall(c) \/ HangUp(c) \/ OrphanEnds(c))
           \/ Http(HttpShutdown) \/ Http(HttpDrain) \/ Http(HttpWait) \/ Http(Exit1)
      BY <1>4 DEF Http
<1>5. CASE UNCHANGED lifeVars
      BY <1>5 DEF lifeVars
<1> QED BY <1>1, <1>2, <1>3, <1>4, <1>5 DEF LifeNext

\* A closed runtime starts no pass, whatever the server around it still does.
THEOREM LifecycleNoneAfterClose == MCSpec => NoneAfterClose
<1>1. [MCNext]_mcVars => [closed => running' \subseteq running]_vars
  <2> SUFFICES ASSUME [MCNext]_mcVars PROVE [Next]_vars
      BY NoneStarts
  <2>1. [LifeNext]_lifeVars
        BY MCSteps
  <2> QED BY <2>1, LifeSteps
<1> QED BY <1>1, PTL DEF MCSpec, NoneAfterClose

\* No boot takes an old content from the cache for the present one: for any
\* number of sessions, and any window that outlasts coarse times and late
\* watchers together (local-cache.ts, INDEX_CACHE_RACY_WINDOW_MS).
THEOREM CacheHitIsCurrent == MCSpec => []HitIsCurrent
<1>1. MCInv => HitIsCurrent
      BY LifecycleAssumption, CacheInvHolds DEF MCInv, HitIsCurrent
<1> QED BY <1>1, LifecycleInvariant, PTL

\* While a child of the tunnel runs the server boots on no other's address, the
\* first half of what AppFollows promises (supervisor.ts, clearUrlFile).
THEOREM ServerBootsOnRunningTunnel == MCSpec => Tunnel!BootsOnRunning
<1>1. MCInv /\ [MCNext]_mcVars =>
        [app = Tunnel!None /\ app' # Tunnel!None /\ alive /\ ~mishaps => app' = child]_<<child, alive, cleared, lastUrl, writes, urlFile, app, read, mishaps>>
  <2> SUFFICES ASSUME MCInv, [MCNext]_mcVars, app = Tunnel!None, app' # Tunnel!None, alive, ~mishaps
               PROVE  app' = child
      OBVIOUS
  <2>1. TunnelInv /\ Tunnel!Next
        BY MCSteps DEF MCInv, tunnelVars
  <2> QED BY <2>1, BootsOnChild
<1>2. MCSpec => [][MCNext]_mcVars
      BY DEF MCSpec
<1> QED BY <1>1, <1>2, LifecycleInvariant, PTL DEF Tunnel!BootsOnRunning, Tunnel!tunnelVars
=============================================================================
