---------------------------- MODULE TunnelAddress ----------------------------
(***************************************************************************)
(* The public address of a quick tunnel, from cloudflared to the server    *)
(* (tunnel/supervisor.ts, tunnel/public-url-file.ts, main.ts): every start *)
(* of cloudflared gets an address of its own and prints it; the supervisor *)
(* writes it to a file without waiting for the write, and removes the file *)
(* before it starts the next child; the server boots on what the file      *)
(* says, polls it, and ends to be started again when it says another.      *)
(*                                                                         *)
(* The address of the n-th child is n.  The pause before a restart, of a   *)
(* second or more, is taken to outlast the writes of the child that ended  *)
(* and the lines it left in its pipes: nothing in the code waits for them. *)
(***************************************************************************)
EXTENDS Integers

CONSTANT MaxChildren   \* a bound on how often cloudflared is started

None == 0
Leftover == MaxChildren + 1   \* an address an earlier supervisor left in the file

VARIABLES
  child,    \* the last child started
  alive,    \* it runs
  cleared,  \* clearUrlFile has been called since it ended
  lastUrl,  \* what the supervisor has last begun to write
  writes,   \* the addresses whose writes are in flight
  urlFile,  \* the address in the urlFile, None when there is none
  app,      \* the address the server runs on, None while it waits for one
  read,     \* what its poll has read and not yet acted on
  mishaps   \* history: a clear or a write has failed

tunnelVars == <<child, alive, cleared, lastUrl, writes, urlFile, app, read, mishaps>>
supervisor == <<child, alive, cleared, lastUrl, writes, urlFile>>

Init ==
  /\ child = 0 /\ alive = FALSE /\ cleared = FALSE
  /\ lastUrl = None /\ writes = {} /\ urlFile \in {None, Leftover}
  /\ app = None /\ read = None /\ mishaps = FALSE

-----------------------------------------------------------------------------
(* runSupervisor *)

\* Mutant: the file is removed before the first start only.
ClearOnce ==
  /\ ~alive /\ ~cleared /\ child < MaxChildren /\ writes = {}
  /\ urlFile' = (IF child = 0 THEN None ELSE urlFile)
  /\ cleared' = TRUE /\ lastUrl' = None
  /\ UNCHANGED <<child, alive, writes, app, read, mishaps>>

\* The pause is over.  A clear that fails is only logged.
Clear ==
  /\ ~alive /\ ~cleared /\ child < MaxChildren /\ writes = {}
  /\ \/ urlFile' = None /\ UNCHANGED mishaps
     \/ urlFile # None /\ mishaps' = TRUE /\ UNCHANGED urlFile
  /\ cleared' = TRUE /\ lastUrl' = None
  /\ UNCHANGED <<child, alive, writes, app, read>>

Spawn ==
  /\ ~alive /\ cleared
  /\ child' = child + 1 /\ alive' = TRUE /\ cleared' = FALSE
  /\ UNCHANGED <<lastUrl, writes, urlFile, app, read, mishaps>>

\* handleLine, of a child that runs or has just ended.  The child may print its address more than once.
handleLine ==
  /\ child # 0 /\ ~cleared /\ child # lastUrl
  /\ lastUrl' = child
  /\ writes' = writes \union {child}
  /\ UNCHANGED <<child, alive, cleared, urlFile, app, read, mishaps>>

\* A write lands, or fails and is not tried again.
WriteLands(url) ==
  /\ url \in writes
  /\ writes' = writes \ {url}
  /\ \/ urlFile' = url /\ UNCHANGED mishaps
     \/ UNCHANGED urlFile /\ mishaps' = TRUE
  /\ UNCHANGED <<child, alive, cleared, lastUrl, app, read>>

ChildExits ==
  /\ alive /\ alive' = FALSE
  /\ UNCHANGED <<child, cleared, lastUrl, writes, urlFile, app, read, mishaps>>

-----------------------------------------------------------------------------
(* The server. *)

\* waitForPublicUrl; what it returns is what the server boots on.
BootApp ==
  /\ app = None /\ urlFile # None
  /\ app' = urlFile /\ read' = urlFile
  /\ UNCHANGED <<supervisor, mishaps>>

\* One poll of watchPublicUrl reads the file; an absent one says nothing.
Poll ==
  /\ app # None /\ urlFile # None /\ urlFile # read
  /\ read' = urlFile
  /\ UNCHANGED <<supervisor, app, mishaps>>

\* Mutant: the server runs on.
RestartNever == FALSE

Changed == app # None /\ read # app

\* onChange: the server shuts down, and is started again from outside.
Restart ==
  /\ Changed
  /\ app' = None /\ read' = None
  /\ UNCHANGED <<supervisor, mishaps>>

Next ==
  \/ Clear \/ Spawn \/ handleLine \/ (\E url \in 1 .. MaxChildren : WriteLands(url)) \/ ChildExits
  \/ BootApp \/ Poll \/ Restart

-----------------------------------------------------------------------------
TypeOK ==
  /\ child \in 0 .. MaxChildren /\ {lastUrl, urlFile, app, read} \subseteq 0 .. Leftover
  /\ writes \subseteq 1 .. MaxChildren
  /\ {alive, cleared, mishaps} \subseteq BOOLEAN

\* While a child runs the server never boots on the address of one before it
\* ("clearing it first makes the app wait for the new URL").
BootsOnRunning == [][app = None /\ app' # None /\ alive /\ ~mishaps => app' = child]_tunnelVars

\* And once a child stays the server ends up on its address, whatever it ran on
\* before; unless the disk refused a removal or a write.
AppFollows ==
  /\ BootsOnRunning
  /\ \A n \in 1 .. MaxChildren : <>[](child = n /\ alive) => <>(mishaps \/ app = n)
=============================================================================
