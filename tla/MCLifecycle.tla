---------------------------- MODULE MCLifecycle ----------------------------
(***************************************************************************)
(* Small instances of what lives and dies with a server process, one per   *)
(* behaviour: the stop and the runtime (ServerLifecycle), the index cache  *)
(* (IndexCacheFile), the tunnel's address (TunnelAddress), and the stdio   *)
(* servers of one vault (StdioSessions): how they boot, wherever the vault *)
(* and the state folder are, until they say that they are there; and how   *)
(* they find each other, on a vault that stays.  The parts share no state: *)
(* a behaviour is of one of them, and the rest stay as they begin.         *)
(***************************************************************************)
EXTENDS ServerLifecycle

CONSTANTS Pids, ReadOnly, Sessions, Coarse, Window, Delay, MaxClock, MaxWrites, MaxSaves, MaxChildren

VARIABLES part,
  now, disk, cache, session, index, unseen, saving, saves, blind,
  child, alive, cleared, lastUrl, writes, urlFile, app, read, mishaps,
  vault, stateDir, at, traces, age, beat, todo, look, peers

Cache == INSTANCE IndexCacheFile
Tunnel == INSTANCE TunnelAddress
Peer == INSTANCE StdioSessions

\* Of the constants, what the theorems rest on.
ASSUME LifecycleAssumption == Cache!CacheTimes /\ MaxChildren \in Nat

cacheVars == <<now, disk, cache, session, index, unseen, saving, saves, blind>>
tunnelVars == <<child, alive, cleared, lastUrl, writes, urlFile, app, read, mishaps>>
peerVars == <<vault, stateDir, at, traces, age, beat, todo, look, peers>>
mcVars == <<part, lifeVars, cacheVars, tunnelVars, peerVars>>

MCInit ==
  /\ part \in {"server", "cache", "tunnel", "boots", "sessions"}
  /\ LifeInit /\ (part # "server" => ~deferred)
  /\ Cache!Init
  /\ Tunnel!Init /\ (part # "tunnel" => urlFile = Tunnel!None)
  /\ Peer!Init /\ (part # "boots" => vault = "there" /\ stateDir = "machine")

MCNext ==
  \/ part = "server" /\ LifeNext /\ UNCHANGED <<part, cacheVars, tunnelVars, peerVars>>
  \/ part = "cache" /\ Cache!Next /\ UNCHANGED <<part, lifeVars, tunnelVars, peerVars>>
  \/ part = "tunnel" /\ Tunnel!Next /\ UNCHANGED <<part, lifeVars, cacheVars, peerVars>>
  \/ part = "boots" /\ Peer!Next /\ (\A p \in Pids : at'[p] # "written") /\ UNCHANGED <<part, lifeVars, cacheVars, tunnelVars>>
  \/ part = "sessions" /\ Peer!Next /\ UNCHANGED <<part, vault, lifeVars, cacheVars, tunnelVars>>

\* A step of the server, and of the tunnel, in a behaviour that is theirs.
Srv(A) == part = "server" /\ A
Tun(A) == part = "tunnel" /\ A

\* Calls that run end and are answered, the stop's own steps are taken, timers
\* that are set fire, the fill and every pass end.  Nothing is said of the hard
\* limit, which would end any stop, of the reconcile timer, which need not exist
\* (VAULT_RECONCILE_MS may be 0), of the client, or of a pass succeeding.
ServerFairness ==
  /\ \A c \in Calls : /\ WF_lifeVars(Srv(Serve(Wake(c)))) /\ WF_lifeVars(Srv(Serve(Finish(c))))
                      /\ WF_lifeVars(Srv(Serve(Answer(c))))
  /\ WF_lifeVars(Srv(Serve(Quiet \/ Drain \/ Turn \/ CloseTransport) \/ Http(HttpDrain \/ HttpWait) \/ StopRuntime \/ Leave))
  /\ WF_lifeVars(Srv(Work(TrailingFires))) /\ WF_lifeVars(Srv(Work(GapEnds)))
  /\ WF_lifeVars(Srv(Work(EndFill \/ PauseEnds))) /\ WF_lifeVars(Srv(Work(TearDown \/ Down)))
  /\ \A p \in Passes : WF_lifeVars(Srv(Work(Passing(p))))

\* The supervisor goes on, a child prints its address, writes land or fail, and
\* the server polls.
TunnelFairness ==
  /\ WF_tunnelVars(Tun(Tunnel!Clear)) /\ WF_tunnelVars(Tun(Tunnel!Spawn)) /\ WF_tunnelVars(Tun(Tunnel!handleLine))
  /\ \A url \in 1 .. MaxChildren : WF_tunnelVars(Tun(Tunnel!WriteLands(url)))
  /\ WF_tunnelVars(Tun(Tunnel!BootApp)) /\ WF_tunnelVars(Tun(Tunnel!Poll)) /\ WF_tunnelVars(Tun(Tunnel!Restart))

MCSpec == MCInit /\ [][MCNext]_mcVars /\ ServerFairness /\ TunnelFairness

-----------------------------------------------------------------------------
\* Every part's state is well typed.
MCTypeOK == LifeTypeOK /\ Cache!TypeOK /\ Tunnel!TypeOK

\* No boot takes an old content from the cache for the present one: see
\* IndexCacheFile.
HitIsCurrent == Cache!HitIsCurrent

\* The server ends up on the address of the tunnel that runs: see TunnelAddress.
AppFollows == Tunnel!AppFollows

\* However far a boot came, it leaves nothing where it should not: see
\* StdioSessions.
BootLeavesVaultAlone == Peer!BootLeavesVaultAlone

\* Of two sessions that are up one has counted the other, and no scan takes away
\* the instance file of one that runs: see StdioSessions.
PeersTell == Peer!PeersTell
=============================================================================
