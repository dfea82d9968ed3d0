# TLA+ models of brainstem-mcp

This directory holds a formal model of the parts of brainstem-mcp in which
order, failure and concurrency decide whether the program is right: TLA+
modules, the TLC configurations that check them on small instances, and theorems
about them that TLAPS checks for every value of the constants. `PROJECT.json`
lists components, runs, theorems, hazards, findings, and for every definition
the source lines it stands for.

Paths below are relative to the repository's own `src/` directory unless they
start with a name such as `README.md`.

```
tlc -workers 2 -config WriteGate.cfg MCWriteGate     # one run
tlapm WriteGateProofs.tla                            # one module of proofs
```

## 1. The system

brainstem-mcp serves an Obsidian vault (a directory of Markdown notes) to an MCP
client, over stdio or over HTTP with its own OAuth server. One process is one
JavaScript thread: code between two `await`s is never interrupted, everything
else interleaves, and the vault is shared with programs that know nothing of
this one (Obsidian, sync clients, an editor, a second session).

| component | source | state | operations | talks to |
|---|---|---|---|---|
| Write gate | `storage/write-gate.ts` | map path -> last promise | `withLock(paths, fn)` | wraps every mutating tool call |
| Transactions | `storage/transaction.ts`, `tools/tx.ts` | journal directory per batch under the state dir; in memory the simulated files | `runTransaction`: pre-flight, journal, apply, roll back, close; boot scan | write gate, vault adapter, index |
| Vault adapter | `storage/local-fs.ts` | the files, `.trash/` | read, write, edit, append, merge frontmatter, move, delete, list, watch | the disk; watcher events to the index |
| Index of notes | `vault/frontmatter-index.ts` | entries with size and mtime, `withdrawals`, `unreadablePaths`, `unindexable`, version | fill, refresh, applyNote, remove, rename, reconcile | fed by the watcher, by sweeps, by tools; read by the graph and the query tools |
| Vault runtime | `vault/runtime.ts` | readiness, pass in flight, pending and trailing pass, timers, saves | boot, ticks, watcher errors, settle, close | drives the index's fill and reconcile |
| Index cache | `storage/local-cache.ts` | one file of entries per vault | load, save | read by the fill, written by the runtime |
| Stdio lifecycle | `stdio-main.ts`, `tools/call-tracker.ts`, `tools/register.ts` | calls running, calls started, gate open or closed, shutdown announced | admit or refuse a call, wait for the index, drain, stop | runtime, transport, peers |
| Authorization state | `auth/store/file-store.ts` | one JSON file, its copy in memory, its stamp, a promise queue | getters, put, consume, update, revoke, sweep | used by every OAuth handler; the command line rewrites the file |
| Authorization server | `auth/as/*`, `auth/rs/*`, `auth/owner.ts`, `auth/mount.ts` | rate limits, the owner's lockout | authorize, consent, token, metadata, verify | authorization state |
| Link graph | `vault/graph.ts`, `mentions.ts`, `tags.ts` | adjacency of one index version | resolve, backlinks, refresh on a new version | index |
| Sections | `vault/sections.ts` | none | find, insert, compare lines | append, edit, transactions |
| Moves with link rewriting | `tools/move.ts`, `tools/manage.ts`, `vault/link-rewrite.ts` | none of its own | plan, rename, rewrite each linking note | write gate, adapter, graph, index |
| Canvases | `vault/canvas.ts`, `tools/canvas.ts` | none | add, change and remove nodes and edges | write gate, adapter |
| Other write tools | `tools/write.ts`, `daily.ts`, `template.ts` | none | one or two adapter calls under the gate | write gate, adapter, index |
| Read and query tools | `tools/read.ts`, `search.ts`, `query.ts`, `vault/query.ts`, `budget.ts`, `safe-regex.ts` | none | read, batch read, search, query within a size budget | index, graph, adapter |
| Graph and analytics tools | `tools/graph.ts`, `analytics.ts`, `vault/analytics.ts` | none | links, tags, outline, statistics | index, graph |
| Peers and local state | `storage/local-peers.ts`, `local-state.ts` | one instance file per session | register, heartbeat, count, prune | other sessions, through files |
| HTTP server | `main.ts`, `app.ts`, `mcp/factory.ts` | the listener | requests, shutdown | everything above |
| Tunnel | `tunnel/*` | a child process, a file with its address | start, restart, publish | `cloudflared` |
| Command line | `cli/*` | an `.env` file, docker | set up, start, update, revoke | the authorization file |

What is hard, and where:

* **Interleaving at every `await`.** A tool reads, waits and writes while other
  tools, refreshes and sweeps do the same. The answers are the write gate (tools
  against tools), withdrawals (tools against refreshes) and the promise queue of
  the authorization state.
* **A disk that others write to.** Watcher events are late, collapsed or lost; a
  stamp taken before or after the bytes may belong to another file; another
  program may write between any two file operations.
* **Crash and partial failure.** A batch is several file operations, each of
  which may fail, also after it took effect; the process may die between any two.
* **Timers against work in flight.** Passes over the vault are asked for by a
  tick, by a watcher error, by a trailing timer and by the boot, and all of them
  race `close()`.
* **Stopping.** Calls may be queued, parked, running or returned and not yet
  written when the stop begins, and the client does not stop calling.

What makes each component right:

* gate: bodies on a common path never overlap, no deadlock, no starvation, no
  entry left behind;
* transactions: a batch takes effect as a whole or not at all, and when a crash
  or a failed rollback tears it, a complete copy is kept and is never called
  disposable;
* index: it comes to agree with the disk whatever events were lost, and never
  goes back behind what a tool has told it;
* runtime: no watcher error is dropped, nothing starts after `close()`, ready
  means checked, the boot ends;
* stdio: an admitted call is answered before the transport closes, and the stop
  ends;
* authorization state: no write of the store loses another's change, a code is
  spent once, a failed write leaves no trace;
* authorization server: a code buys one family of tokens, a revoked family stays
  dead, a rotated refresh token ends with its grace, and no order of requests gets
  more secrets compared or more calls through than the limits say;
* write tools: no tool undoes what another wrote, what a tool has answered can be
  found at once, a move leaves no link behind that it had found;
* sessions, cache, tunnel: servers on one vault learn of each other, no boot takes
  an old note from the cache, the server ends up on the address that is served;
* read and query tools: an answer is what was asked for, or says what it leaves
  out.

## 2. Modules

```
PathLocks  <--refines--  WriteGate            AtomicBatch  <--refines--  Transaction
    ^  ^                                           \                       /
    |  +---------- instance of the locks -----------\--- VaultOps --------+
    +------------- instance of the locks --- VaultTools

StdioShutdown --+
                +-- ServerLifecycle        StdioSessions   IndexCacheFile   TunnelAddress
ReconcileSchedule                          (one vault)     (two sessions)   (HTTP)

IndexRefresh        FileTokenStore -- Authorization: AuthFlow, RateLimits
(one pass)          (OAuth state)     (the handlers over it, the limits before them)

Sections  CanvasBoard  SafeRegex     ResultBudget -- QueryResult, TextSearch, BatchRead
(operators: what is changed)         (operators: what is answered)
```

An `MC<module>` gives the constants of a module their values; theorems are in
`<module>Proofs`. Comments headed "Mutant" mark variants of a definition that
put a plausible bug in it; they are not part of any specification, and serve to
show that a property notices the bug.

Four MC modules hold several instances in one state space: `MCLifecycle`
(`ServerLifecycle`, `IndexCacheFile`, `TunnelAddress`, `StdioSessions`),
`MCAuthorization` (`FileTokenStore`, `AuthFlow`, `RateLimits`; `Authorization` joins
the last two), `MCVault`
(`VaultTools`, `Sections`, `CanvasBoard`, `SafeRegex`) and `MCIndexQuery`
(`IndexRefresh`, `QueryResult`, `TextSearch`, `BatchRead`). A variable `part`,
chosen at first and never changed, says which of them a behaviour is of; the
variables of the others keep their initial values. This is the union of the
state spaces, not their product: the parts share no state in the model.

### PathLocks, WriteGate (`storage/write-gate.ts`)

`PathLocks` is what a caller relies on: request a set of paths, enter when nobody
is inside on any of them, leave. `WriteGate` is the code. A promise chain is its
links: `tail[p]` is the entry of the `chains` map, `behind[c]` the promise `c`
awaits. `Call` is `withLock` up to its first `await`, `Proceed` the code between
two awaits of `acquire`, `Release` the `finally` block. Paths are natural numbers
in their sort order, because that order is what prevents deadlock. A call with
no paths holds nothing and is left out.

### VaultOps, AtomicBatch, Transaction (`storage/transaction.ts`)

`VaultOps` holds the six operations of `vault_transaction` as pure operators,
once as the pre-flight decides them (`Passes`) and once as the adapter does
(`Applies`), since the two differ. A text file is the set of its parts
(frontmatter keys, the mark of a block that is not YAML, body lines); every
other file is one of two opaque values. A hash of a file is the file.

`Transaction` runs batches concurrently under an instance of `PathLocks`, one
action per file operation: `Submit`, `Begin` (locks granted), `Preflight` (one op
in memory), `MakeDir`, `CopyPreImage`, `WriteManifest`, `Apply`, then `Flip`,
`RemoveEntry`, `Close`, or before these the rollback `BeginRestore`,
`EndRestore`, `Restored`, `Uncreate`, `Undone`. Each may fail; `Apply` may fail
after it took effect; copying a pre-image back is two steps, with a torn file in
between; the recursive removal of the journal unlinks its entries in any order.
`Crash` drops all memory and locks and leaves the disk: the next boot replays
nothing. `External` is another program's write. What goes wrong in a behaviour is
counted in `met` and bounded by `Mishaps`; `Undisturbed` says that no other
program wrote.

`AtomicBatch` is the promise: `Commit` makes the vault what the whole batch makes
of it, `Undo` changes nothing, `Interrupt` may tear the files of the batch and
saves a copy of all of them. The refinement mapping hides the files of a batch
that is being applied behind their old contents (`val`), since nobody who takes
the locks can see them; the commit happens at `Flip`.

### IndexRefresh (`vault/frontmatter-index.ts`, parts of `storage/local-fs.ts`)

A file's content is the number of the change that made it, and its stamp is the
same number. A read is `Stat`, then `Fetch`, then `FinishRead` or
`FinishChecked`, because the code stats first, reads later and handles the
answer later still. The fill and the sweep share one `sweep` record (`list`,
`check`, `confirm`, `rest`) and its steps are the loops of `reconcile` and
`fill`, with a cache of the last run; a tool is its rename on disk, the stat of
the result (`noteForWritten`) and what it tells the index (`applyNote`, `remove`,
`rename` followed by a refresh). The watcher's `queue` collapses events, and any
of them may be lost. Not in the model: the parse of a note, the graph.

A stamp identifies a content here. Two different contents of equal size and
mtime, which no sweep can tell apart either, are outside this model, and in
`IndexCacheFile`.

No run lets another program replace a note between a tool's rename and its stat
(`Intrusive` is `FALSE` in all): the index then holds the tool's content under the
other file's stamp, and nothing would question it (`storage/local-fs.ts:510`). The
theorem `IndexToolWins` does not need this.

### VaultTools (`tools/*.ts` that write, over `storage/local-fs.ts`)

The tools that change notes, one call each in `call[c]`: the file it is at
(`on`), what it saw of it (`seen`), the text it is about to write, the plan of a
move, what failed. A call enters the gate (`Enter`, an instance of `PathLocks`),
reads, writes (`Put`, `FailPut`: `atomicWrite`), tells the index
(`noteForWritten`, `applyNote`) and answers, each a step of its own, because each
is an `await`. `WriteNote`, `WriteBinary`, `EditNote`, `AppendNote`,
`AppendUnique`, `InsertInSection`, `UpdateFrontmatter` and the batch of them
(`BatchItem`), the canvas tools (`AddCanvasNode`, `ChangeCanvas`),
`CreateFromTemplate` and `AppendDaily` are the simple ones; `Delete` is a file's
and a folder's. A move plans before it locks (`Submit`, `Plan`), renames
(`MoveFile`), tells the index (`RenameEntry`), then rewrites one linking note or
canvas after another (`ReadSource`), with the hash the index has and the offsets
of the plan. `Outside` is another program's write, `Refresh` the watcher's event,
at any later time.

A note is the sequence of its pieces, links (by name, by path, markdown) and
texts; the offset of a link is its place. The graph is computed from the index
where it is asked for (`Resolve`).

### StdioShutdown, ReconcileSchedule, ServerLifecycle

`StdioShutdown` (`stdio-main.ts`, `tools/call-tracker.ts`, `tools/register.ts`):
`call[c]` follows a call through `sent`, `parked` on the index, `running`,
`returned` (or `refused`) and back to the client, who calls again for ever.
`stop` follows `shutdown()` through admitting (`Quiet`: the quiet period of
`drain`), waiting for running calls, the `setImmediate` turn, the transport, the
runtime, and the exit; `Exit1` is the 10 second timer.

`ReconcileSchedule` (`vault/runtime.ts`), when passes start: `requestPass`
(watcher error and trailing timer), `onTick`, `EndFill` and `PauseEnds` (the
settling boot), `EndPass`, and `Close`, `TearDown`, `Down`. `inFlight` is the pass
the runtime knows of, `running` the passes there are: the code has no such set,
and the difference between the two is one of the findings. Time is abstracted to
whether the minimum gap is over.

`ServerLifecycle` puts them together. The state of the index that calls wait for
is that of the boot (`IndexStateOf`), the stop closes the runtime only after the
transport (`StopRuntime`), and the process ends when `close()` is through
(`Leave`). With `deferred` the server is stdio's; without, it is the HTTP
server's, which refuses no call and waits for open exchanges only for a while
(`HttpWait`, a share of the drain time; `HttpDrain`). When that is over the code
cuts the connections and nothing else: a tool that still runs goes on, under a
runtime that is being closed, until `exit(0)`. So what `StopAnswers` promises of
HTTP is less than of stdio: what is still open when the runtime closes has
been given the whole drain time. A client may hang up (`HangUp`); its exchange is
over and no longer waited for, while its tool runs on (`OrphanEnds`).

### StdioSessions, IndexCacheFile, TunnelAddress

`StdioSessions` (`stdio-main.ts`, `cli/vault-path.ts`, `storage/local-state.ts`,
`local-cache.ts`, `local-fs.ts`, `vault/instructions.ts`, `storage/local-peers.ts`): a
boot goes from one wait to the next, from `validateVaultPath` to `Register`, with the
probe file, the state folder, the cache's folder, the vault's own `mkdir`, the template
and the instance file made at the step that makes them; it may be refused, fail or die
at each, and the vault may be moved away between any two (`Vanish`). `traces` is what each
boot has made so far, on either side of the vault's border; `stateDir` says where the
settings put the state folder. Whether the order of checks and creations keeps
`BootLeavesVaultAlone` is what the run asks. Then the instance file (`age`), the heartbeat whose
writes may be late, and the scan that reads one file of another server after another
and removes what is stale. A process may die at any time and its number be reused.

`IndexCacheFile` (`storage/local-cache.ts`, `vault/runtime.ts`): saves by several
sessions, each of the index it had when it began, leaving out what was modified
just before; boots that take entries by size and time. File times are coarse, so
two writes may bear one.

`TunnelAddress` (`tunnel/supervisor.ts`, `public-url-file.ts`, `main.ts`): children
that come and go, each with an address of its own, written to a file without
waiting; the server that boots on the file, polls it and ends to be restarted.

### FileTokenStore, AuthFlow, RateLimits (`auth/`)

`FileTokenStore` (`auth/store/file-store.ts`): all methods of the store over one
JSON file. A file operation is two steps, the disk's answer and the code that
goes on with it, because a getter's code runs in between. `mutate` is
`ReloadStat` / `Gone` / `Unchanged` / `Changed` / `Read` / `Assign`, the change
and its serialisation (in `GoOn`, one turn of the event loop), `Rename`, `Restat`,
`Restamp`, or `WriteFails` with the snapshot put back. Getters take the same
reload outside the queue. A record is absent, live or marked. `Rewrite` is
another program.

`AuthFlow` (`auth/as/authorize.ts`, `token.ts`, `cimd.ts`, `auth/owner.ts`,
`auth/rs/verifier.ts`): each handler as its calls of the store, one step each,
with what it has read in `req[r]`. A request keeps the time it took when it began.
`client` is the cache of client documents, a cached failure included. Parameters
are good or bad. `wrong`, `dead`, `raced` and `failedAt` are history: what the
properties compare with.

`RateLimits` (`auth/mount.ts`, `app.ts`): three token buckets, a clock that may be
set back, and the gate of `/mcp`, which draws from one bucket before it has looked
at a token and from another after.

### Sections, CanvasBoard, SafeRegex

Pure algorithms of what the tools change or match, as operators; each property
is stated against a definition that is not the code's.

`Sections` (`vault/sections.ts`, and who calls it in `tools/write.ts`, `read.ts`):
a note is the sequence of its lines. `PathsLead` says what a heading path must
find, `OfferedPathsReach` that the paths an error offers can be used,
`InsertKeeps` that an insertion adds the text and at most blank lines inside its
section and changes nothing else, `UniqueOnce` that repeating a `unique` append
changes nothing, `PicksEachOnce` that a list of sections shows each line once.

`CanvasBoard` (`vault/canvas.ts`): `BoardStaysWhole`, no edge without its nodes and
no id taken twice that was not so before; an addition leaves all there was in its
place (`AddKeeps`), an update all but the node it names, and of that its type, id and
fields (`UpdateKeeps`), a removal exactly what was not asked for (`RemovalKeeps`). Nodes
that share an id lose their content to the first on an update, against what the code
says of types; that is left out of `UpdateKeeps` by name (see section 5).

`SafeRegex` (`vault/safe-regex.ts`): parser, automaton, full match, leftmost-first
search, the derived literals. A pattern is compared with what it means
(`Ends`: where a match from a place may end, in the order of preference), and the
parse with the languages of its halves (`BindsAsRead`). `FindIsLeftmostFirst` leaves
out texts with a character that has another one's upper case, where the derived
literals do rule out a match (see section 5). Case is folded character
by character; the final sigma, which `toLowerCase` of a whole text writes differently, is
not in the model.

### ResultBudget, QueryResult, TextSearch, BatchRead

`ResultBudget` (`vault/budget.ts`): the rows that fit. `QueryResult`
(`vault/query.ts`): conditions, sorting, groups, totals, page. `TextSearch`
(`tools/search.ts`): candidates, lists of a size the backend takes, the scan that
filters afterwards. `BatchRead` (`tools/read.ts`): frontmatter, bodies and
suggestions in one budget, with what JSON makes of a character. The properties
are of the kind "what is answered is right, what is left out is said, and what the
hint advises leads to the rest".

## 3. Runs

| run | module | instance | what holds |
|---|---|---|---|
| `WriteGate` | `MCWriteGate` | 3 callers, all sets of 3 paths | `NoLeakedEntry`, `WaitsUpward` (no cycle of waits), `EveryCallRuns`, and `ImplementsPathLocks` with its fairness |
| `TxAtomic` | `MCTransaction` | 2 transactions, 4 overlapping batches of all six operations, 3 paths; 2 faults and a crash, or a crash and a write by another program | `JournalGuards`, `JournalTells`, `UndoesOnlyOwnFiles`, `Settles`, and `ImplementsAtomicBatch` (the last three as long as no other program wrote) |
| `TxForeignFile` | `MCTransaction` | 1 transaction, 1 write by another program and nothing failing | **violates** `SparesForeignFiles` |
| `IndexTools` | `MCIndexQuery` | 2 notes, 1 refresh in flight beside the sweep's and the move's, 3 changes, one of them not text, one note cached; and 3 notes queried, 4 files searched, 3 notes read at once | `ToolWins`, `ReadyIsRight`, `AnswersHold` |
| `IndexHeals` | `MCIndexHeals` | 1 note with 3 contents, the second not text, or 2 notes and 1 change or move; 2 refreshes in flight, 1 fault, lost events | `HealsOrMarks` |
| `IndexBlind` | `MCIndexRefresh` | 1 note, 1 refresh in flight, 3 contents, the second not text, lost events, nothing failing | **violates** `SelfHeals` |
| `Lifecycle` | `MCLifecycle` | 2 calls made again and again, 2 passes, with and without a deferred boot; 2 sessions of one cache; 3 children of a supervisor; 2 servers, one of them read-only, on a vault that is there, is not or goes away, the state folder on the machine, elsewhere, in or around the vault, or the reserved one | `StopAnswers`, `Stops`, `OneAtATime`, `ReadyWhenChecked`, `ErrorAnswered`, `NoneAfterClose`, `BootEnds`; `HitIsCurrent`; `AppFollows`; `BootLeavesVaultAlone`, `PeersTell` |
| `CloseWaits` | `MCReconcileSchedule` | 2 passes | **violates** `CloseWaits` |
| `TokenStore` | `MCAuthorization` | 3 calls (`get`, `put`, `consumeCode`, `revokeAll`, `sweepExpired`), 1 rewrite or 1 fault, a cap of 1 pending; 3 requests, 2 at once, over 4 kinds of store; 3 requests of each bucket | `ConsumedOnce`, `PendingsAtLimit`, `QueueMoves`, `SerialWrites`; `TokensHold`; `GatesHold` |
| `TokenStoreReload` | `MCFileTokenStore` | 4 calls, get and put, nothing failing, no other program | **violates** `EachWriteSerial` |
| `VaultTools` | `MCVault` | 2 calls of any tools over 5 paths of notes and 2 of canvases, 1 failed or foreign write; all notes of up to 5 lines, all canvases of 2 nodes and 2 edges, all patterns of 4 to 6 tokens over 5 alphabets | `NoLostUpdate`, `AnswersAreIndexed`, `MoveKeepsLinks`; `EditsHold`; `PatternsHold` |
| `MoveStale` | `MCVaultTools` | 2 calls, nothing failing, no other program | **violates** `RewritesOnlyLinks` |

Some names stand for several statements, each with its own comment in the module
it is from: `TokensHold` (`CodesBuyOnce`, `RevokedIsDead`, `GraceEnds`), `GatesHold`
(`AttemptsBounded`, `NegativeEnds`, `BucketsHold`), `EditsHold`, `PatternsHold`,
`AnswersHold` (the statements of the operator modules above). Modules with a type
invariant check it in one of their runs, except `IndexRefresh` and `StdioSessions`,
whose type invariants (`Typed`, `TypeOK`) are conjuncts of the inductive invariants of
`IndexToolWins` and `SessionsInvariant`.

### Bounds, and why they suffice

* **Write gate.** Two callers show exclusion; the third is needed for a chain of
  two waiting calls whose middle releases, and for a call that waits at one path
  while a third holds another. Three paths make two-step acquisition orders that
  could cross. What is not bounded: callers call again and again.
* **Transactions.** Three paths, because a move, an overlap and a file of
  neither batch need one each. Two faults: one to start a rollback and one in
  it. One crash: boot replays nothing, so a second crash has no more to tear.
  One write by another program meets every phase of the call.
  `MaxOps` and `MaxFiles` of the configurations are the code's own limits scaled
  down, and larger than any batch.
* **Index.** Three changes: a first state, the state a read saw, and one that
  made it old. The index holds one entry per path and the paths meet only in a
  move and in the order of the sweep, so two are enough. One refresh is enough
  for `ToolWins` since any number of older reads is as good as the oldest (the
  theorem drops the bound); two are needed for answers in the wrong order, which
  is what `HealsOrMarks` must survive; it is checked for one note that changes
  twice and, to have moves, for two notes and one change (`MCIndexHeals`, whose
  `subject` says which, and whose bounds stop no step that is fair). A move whose
  two reads are both in flight needs a fourth change, too many states for a run;
  it is covered by the theorem `IndexToolWins`, which has no bound on changes.
* **Tools.** Locks make a third call wait or leave it apart, and what is at stake is
  between one call's plan, read or write and another's; the vault has a link of
  every kind, a text between two links, a canvas, a name that a move makes
  ambiguous, and a folder. One mishap, a failed write before or after its rename
  or another program's, since the properties leave out paths it touched.
* **Schedule and stop.** Two passes: the boot's or a tick's, and one more to
  overlap it. Calls are made again for ever, so two slots, one of them exempt from
  the index gate, are unbounded traffic. Quiet periods are the code's own four,
  scaled to two.
* **Sessions, cache, tunnel.** Two servers for one pair, one of each mode; stale is
  three heartbeats, as in the code. Boots are checked up to the
  instance file, on any vault, which may go away and be made again, and with the state
  folder anywhere; what follows makes nothing more. Scans, beats and stops are checked on a
  vault that stays, with the state folder on the machine. The theorems have both at once. The cache's clock is as long as a write, the coarse time around it, the
  window that leaves entries out and one more save. Three children: one that left
  an address behind, one that ends, one that stays.
* **Authorization state.** A lost update needs two overlapping mutations and one
  look at the file, three calls; the finding, which needs no other program,
  takes four. One trouble, a rewrite or a fault: all four properties are theorems,
  for any number of both.
* **Authorization server.** Two requests race; the third retries after them. The
  store begins empty, with a request waiting for consent, with a family of tokens,
  or with an old one, so that three requests reach every handler. Life times and
  windows are a few ticks, in the order the code's constants have.
* **Rate limits.** Three requests on buckets of one and two.
* **Sections.** Five lines of seven kinds hold two headings of one name, a heading
  whose own text looks like a path, a section that ends in a blank, text before
  and after; insertions are tried on all notes of up to four. Notes, canvases and
  patterns, as queries and searches, grow step by step, and their properties
  (`EditsHold`, `PatternsHold`, `AnswersHold`) speak of what each step leads to. The
  canvases include two nodes of one id and of different types.
* **Patterns.** Each alphabet holds what interacts (groups and bars; counts;
  quantifiers; classes, ranges and case); texts of two or three characters. One
  alphabet is `s`, `S` and the long s, whose upper case is `S` but which neither is the
  lower case of, in patterns and in texts.
* **Queries.** Three notes, whose keys are fourteen values of every kind, in every
  combination; the limits are scaled so that rows, groups, paths and hints do not
  fit together. The condition of a group is asked for every set of two values.
* **Search and batch read.** Limits smaller than what is found, backends that read
  files in three orders, an index that lacks a file; texts with escapes and
  surrogate pairs cut at every place.

The two calls of `VaultTools` and the two requests of `AuthFlow` are alike, so both
runs declare their symmetry; none of their properties is a liveness property.

`CHECK_DEADLOCK FALSE` stands where the system really stops: a process that has
exited, a runtime that is down, calls and changes of the disk that are used up,
transactions that are over, a note or a pattern of full length. The gate never
stops and is checked for deadlock.

### Fairness, and why the code justifies it

* `WriteGate`: weak fairness of `Proceed` (the event loop runs every ready
  continuation) and `Release` (a body is file operations with bounded retries).
  None for `Call`.
* `Transaction`: weak fairness of the steps of a call, strong fairness of
  `Begin`, which is what the gate gives: `WriteGate` implements `PathLocks`
  including its strong fairness, and that is checked.
* `IndexRefresh`: reads are answered, a started tool call goes on, the timer
  starts sweeps again and again, and an event is delivered or lost. No fairness
  that an event arrives, and none for other programs.
* `ServerLifecycle`: set timers fire (the drain time of the HTTP server among them),
  passes and the fill end, over stdio running calls end and are answered, the stop's own
  steps are taken. An HTTP call need not end: the stop does not wait for it. None for ticks
  (`VAULT_RECONCILE_MS` may be 0), for the success of a pass, for the client, and
  none for the hard timer: the orderly path alone has to end.
* `TunnelAddress`: the supervisor goes on, a child that stays prints its address,
  writes end, the server polls. None for a child ending.
* All others: none. `QueueMoves` says as a safety property that the head of
  the queue is always on its way; the properties of the tools and of the
  authorization server are about what happens, not that it does.

## 4. Theorems

Every theorem below is proved for all values of the constants, from the named
assumptions in the module that declares them (paths a finite set of positive
numbers, "no caller" not a caller, the batches sequences of operations, and the
like); theorems about a module whose constants a configuration sets as a whole have
their assumption as a hypothesis or in the `MC` module that TLC evaluates it in. No
theorem assumes a bound of a configuration.

**WriteGateProofs.** `GateTypeOK`, `GateMutualExclusion`, `GateNoLeakedEntry`,
`GateWaitsUpward`, `GateImplementsPathLocks`. Exclusion is not inductive: the
state has only links, and they have to be those of a line. `LineInv` says that
for some order of arrival on each path the owner is first, `tail[p]` last, and
nobody stands between a waiting call and the one it waits behind; `TailInv` and
`WaitInv` tie the links to the chains joined, `OrderInv` says paths are joined
upward. Two owners of a path would each be before the other. The refinement
theorem is for the safety part; the fairness of `PathLocks` stays with TLC.

**TransactionProofs.** `TxTypeOK`, `TxJournalGuards`, `TxJournalTells`.
The invariant says who holds the locks and that they are disjoint (`Locked`,
`Exclusive`), where the loops of the call are (`Looping`: while copying, each
touched path is copied, noted as created or still to do), and what each phase
knows of files, copies and manifest: until its first mutation the files of a
batch are still `before`, as long as no other program wrote. Disjoint locks are
why another transaction's writes disturb none of this. `JournalTells` needs beside it that
failures are only counted up (`FaultsGrow`) and that no step but `Flip` commits
(`OnlyFlipCommits`).

**AtomicBatchProofs.** `TxImplementsAtomicBatch`, `TxUndoesOnlyOwnFiles`. On top of
that invariant, `Progress` compares each call with what its batch makes, op by op, of
the vault it found (`Run`): the files simulated so far (`Simulated`), applied so far
(`Applied`) or put back so far (`PutBack`) are those, and the journal holds nothing
but the pre-images it lists (`Listed`). Under the mapping a path under the locks of a
call that mutates shows as it was (`val`), so that every step of the call is a
stutter until `Flip` (a `Commit` or an `Undo`), a failed rollback or a crash (an
`Interrupt` of all calls at once). The batch is committed on `val`, which is not the
vault the call found but agrees with it on the paths touched; `AfterLocal` says
that this is all a batch depends on. That and the existence of `After` are inductions
over the batch. They rest on `Least` (a nonempty set of numbers has a least member),
which follows from the library's theorem that `<` is well-founded. For the second
theorem: a file where the call found none was made by an operation already applied
(`MadeBy`), so a rollback finds nobody else's.

**IndexRefreshProofs.** `IndexToolWins`, `IndexReadyIsRight`. Telling the index of a
path raises the path's withdrawal count in the same step, so a read whose count is
still the current one took its bytes after the index was last told (`Fresh`, with
`Counted` and `Past`). What the fill takes without that check it takes before
any tool has spoken (`FillFirst`). For the second theorem a path is `Still` while the
index is not ready and the path has not changed since the watcher was attached: no
event, tool or refresh but the sweep's own concerns it (`Alone`), a stamp that is the
file's tells its content (`Dated`), what the sweep has read of it is what the disk has
(`Current`), and behind the sweep's place in its listing, its checks and its
confirmations the path is right or known to be unreadable (`Passed`). The proof
needs what the code gives, that a cached entry was once read as text
(`IndexAssumption`). TLC checked the invariant on the `IndexTools` instance with
a failing read more (13 million states) before it was proved.

**LifecycleProofs.** About the parts of `MCLifecycle`, alone and together; each has
its invariant, and a step of one leaves the others alone (`MCInv`).

* The stop: `ShutdownTypeOK`, `ShutdownAnswers`. From `turn` on nothing is parked or
  running (`NoneRunning`), and once `turn` is over nothing that returned is
  unanswered (`NoneUnanswered`).
* The passes: `ScheduleTypeOK`, `ScheduleOneAtATime`, `ScheduleReadyWhenChecked`,
  `ScheduleNoneAfterClose`. Without a deferred boot the pass the runtime knows of is
  the only one (`Known`), after the tear-down only the one waited for may run
  (`CloseKnows`), and a boot that is not over has retries to spare (`Spare`).
* Server and runtime together: `LifecycleTypeOK`, `LifecycleAnswers`,
  `LifecycleNoneAfterClose`. With a deferred index the calls see the boot the
  runtime is in (`LifeInv`); the HTTP server goes on to close the runtime only with no
  exchange open or the drain time used up (`HttpInv`), and no call of it is started
  behind that, which is all that is true: a tool may run on under the closed runtime.
* The sessions: `RefusedBootsLeaveNothing`, `PeersLearnOfEachOther`. For the first the
  invariant says of each phase of a boot what it can have made by then (`MadeOk`): a
  vault that was never there is left at the first check, a state folder in or around
  the vault at the one that comes before anything but the probe is made
  (`Unchecked`). For the second, of two servers
  that run one has yet to look around, will look at the other's file, is looking at
  it, or has counted it (`EitherSees`). It rests on a running server having its file
  (`FilesKept`) and on what was seen stale being no running server's (`StaleIsPast`).
* The cache: `CacheHitIsCurrent`, from an assumption on the constants, `CacheTimes`:
  the window of 3 s is as long as times are coarse and a running server is late
  together. What a save keeps is then older than any write the session has missed
  (`KeepsOld`), and no later write bears its time (`KeptStays`): that holds of an
  entry in a save under way, in the file, and in a session that took it from there.
* The tunnel: `ServerBootsOnRunningTunnel`, the half of `AppFollows` that is safety.
  When a child starts the file is empty and no write is on its way, so that only its
  own address gets there (`TunnelInv`).

**FileTokenStoreProofs.** `StoreTypeOK`, `StoreQueueMoves`, `StoreSerialWrites`,
`StoreConsumedOnce`, `StorePendingsAtLimit`. Three layers: the queue holds each
mutation under way once and only its head runs (`QInv`); an answer with the file's
stamp is what the file holds (`VInv`); and as long as nothing is excused memory is
the file whenever its stamp is, and each phase of the running mutation knows where
it stands between the two (`SInv`: before the rename, `draft` is the operation
applied to the file). The last two theorems need history on top (`LInv`): names are
given once (`NInv`), a code that was found is not live and nobody will put it again
(`Spent`), and a pending authorization that was put is there, or a newer one was put,
or one was removed (`StillThere`). `OpenedAssumption`: the file that is opened holds
no more pending authorizations than the limit.

**AuthorizationProofs.** `RateBucketsHold`, from the assumption that sizes and
refills are natural numbers: what a bucket let through, what is in it and what is
due to it for the time since it was looked at never exceed its size and what the
clock put in (`Accounted`); and once a request went through, nothing is due until
the clock goes forward (`AtOnce`), which is why a clock that is set back lets no
more through at once than the bucket holds. Capped levels alone are not inductive:
the amount due is what connects two looks at a bucket.

`FlowTokensHold`, `ServerGatesHold`, from `FlowConstants` (times are natural numbers,
a lockout is no shorter than the window of attempts). The invariant is what each
request still relies on of what it has read (`ReqInv`): that its token's family is
not dead unless the request was under way when it died, that a code it found was
live and is used by the same call of the store, that a rotated token it goes on with
is within its grace. For the owner's secret the list of failures is compared with all
wrong secrets ever tried (`AttemptInv`): it is their end, and those before it are out
of the window or led to a lockout. This needs the clock of `AuthFlow` to go forward
only, as it does in the model; `RateLimits` does without.

**VaultToolsProofs.** `VaultTypeOK`, `VaultNoLostUpdate`, `VaultAnswersAreIndexed`,
`VaultMoveKeepsLinks`, for every vault, every set of jobs and any number of calls
(`PathsAssumption`: finitely many paths, each a folder and a name, and an attachment
is no note; `JobsAssumption`: a job's paths are paths of the vault, and a move names
none beside its two; `CallsAssumption`; `FilesAssumption`: a file has at most
one copy of the line the unique append looks for). A path that a call has locked and
nobody has meddled with is changed by no other call. So the invariant joins the locks
(`LockInv`) with what each call knows at each point of its body: that what it is about
to replace is what it has read (`WriteInv`), that what a batch has written is still
there (`WrittenInv`), and that what it tells the index is true when it answers
(`InIndex`). Left out by the statement itself: what a move does to
canvases and attachments, the one it moves, those that a folder's move takes along and
those it rewrites, since the index is told of their new place only by way of the old
entry, which the watcher may have taken out, and of a rewritten canvas not at all.

For the links of a move the invariant (`KeepInv`) follows each link planned through
the rewriting: its note is still to do, or the rewrite failed or was spoiled, or the
offsets are not the note's any more (`Displaced`), or the link is right (`Right`) in the text
the move is about to write or has written (`TextAt`). That a new target leads to the new
place is a lemma about `NewTarget` and `Resolve` alone (`NewTargetLeads`); that the offset
is the right one needs that each link planned has one new place (`PlanKept`), and that no
canvas shows an old path needs that no place moved to is one moved from (`NoWayBack`).
Two exceptions in the property came out of this proof, each with a counterexample
of TLC's on an instance larger than the run's (section 5, *Tools*): a name that the server
takes for free although it leads elsewhere (`Unknown`), and two planned notes that have come
to be one (the second half of `Displaced`).

**Only model-checked.** All liveness (`EveryCallRuns`, `Settles`, `HealsOrMarks`,
`Stops`, `ErrorAnswered`, `BootEnds`, the rest of `AppFollows`), which the proof
system does not reach, and the modules of operators. What those compute is by
recursion over a note, a pattern or a list of rows, and their RECURSIVE operators are out of the SMT backend's reach; they are
checked on every input up to a size instead.

## 5. Findings

Five statements of the repository's documents and comments that the code does
not keep. Each has a run whose counterexample is short; `PROJECT.json` quotes the
statement.

1. **A rollback deletes a file it did not make** (`TxForeignFile`,
   `storage/transaction.ts:697`). A file another program puts at the destination
   of a move after pre-flight makes the move refuse, and the rollback then
   unlinks that file, of which there is no copy.
2. **A readable note no sweep reads** (`IndexBlind`, `vault/frontmatter-index.ts:526`).
   A note is for a moment not UTF-8 (half written, half synced) and then good. The
   watcher's slow refresh of the bad content ends while a sweep reads the good one:
   it withdraws the sweep's answer and counts the path as unreadable, and the sweep
   takes that for its own read's failure. It marks the good content's stamp as not
   to be indexed; the note stays out of the index until it changes again.
   `HealsOrMarks` says that this mark is the one way a difference stays.
3. **Two passes at once, and a close that does not wait** (`CloseWaits`,
   `vault/runtime.ts:420`). The settling boot starts a pass without looking for one
   in flight. The overlap also breaks what `IndexRefresh` assumes of sweeps.
4. **A getter undoes a mutation** (`TokenStoreReload`, `auth/store/file-store.ts:158`).
   A getter's reload puts an old document back in memory while a mutation
   writes; the mutation after that writes without the first one's change.
5. **A move rewrites with old offsets** (`MoveStale`, `tools/move.ts:149`). The plan
   of a move is made before its locks are taken. A tool that changes a linking
   note in between has told the index, so the hash the rewrite insists on is the
   new one while the offsets are the old: the new text is cut up.
Observed while reading or while checking, without a run that shows it:

* A failure while the journal is made leaves its directory behind without a
  crash (`transaction.ts:637`; the comment at 203-204 speaks of a crash).
* The recursive removal of a committed batch's journal may unlink `manifest.json` and
  then fail (`transaction.ts:721`): what is left no longer says that the batch
  committed, and the boot points the owner to the pre-images, against what 114-118
  promises. `JournalTells` leaves out this case by name (`LeftoverSaysCommitted`); dropping it there
  gives a counterexample with one fault.
* A merging write onto a note with unusable frontmatter passes the pre-flight
  (`transaction.ts:480`) and is refused by the adapter (`local-fs.ts:633`), so the
  batch is rolled back rather than refused.
* A refresh that fails for a moment marks its note unreadable also when a tool
  has told the index of that note meanwhile (`frontmatter-index.ts:469`); the entry's
  stamp is then the file's, no sweep reads the note again, and the count stays up
  although the note is well (the comment at 381-382 says it falls).
* A refresh that saw a note absent removes it even when a tool has created it
  since (`frontmatter-index.ts:461`); the next sweep brings it back, which is why
  `ToolWins` speaks of notes that are held.
* The authorization state does not see a write by another program between a
  mutation's stat and its rename, between the rename and the second stat
  (`file-store.ts:171`), or between the read and the stat of `open` (133). No lock
  file exists that could close these windows; `SerialWrites` leaves the first two
  out by name (`excused`) and `Init` assumes the third away. A stat that fails for another
  reason than a missing file lets a mutation go on with stale memory (154-156),
  excused likewise.

  Sessions, boot and cache:

* A heartbeat's write in flight may put the instance file back after it was
  removed on the way out (`local-peers.ts:126`; the comment at
  `stdio-main.ts:445` says the file is gone). `PeersTell` only needs that a server
  that runs is seen.
* `local-cache.ts` speaks of a file "that changed close to the moment of this
  save". A program that sets times back makes such a pair at any later time
  (`blind` in `IndexCacheFile`).
* With `STATE_DIR` set to `<vault>/_brainstem`, the one folder in the vault that is
  allowed, a read-only server writes its instance file there (`stdio-main.ts:398`; 393-394
  says "never into the vault"). `BootLeavesVaultAlone` excepts it by name.
* A vault that is moved away after its checks is made again, empty, by the `mkdir` of
  the adapter (`local-fs.ts:315`), also read-only; `BootLeavesVaultAlone` excepts it
  by name (`remade`). Two first boots may both write `vault.json`.
* The HTTP server closes the runtime under tools that outlast the drain time, and
  `exit(0)` ends them wherever they are (`main.ts:277-280`): a write or a batch may
  be cut, as by a crash.
* The write of the tunnel's address is not repeated when it fails
  (`supervisor.ts:141`). `TunnelAddress` takes for granted that the pause before a
  restart is longer than a write of the old child.

  Tools:

* An append to a daily note that fails after the template was written leaves a
  note the index learns of only from the watcher.
* A move planned before another tool creates a note under the folder, or a link
  to the note, leaves that one to the watcher, or unrewritten.
* `isBasenameUnique` checks that a name resolves, not that it resolves to the new
  path (`move.ts:135`). When the watcher has taken the old place of
  an attachment out before `renameAsset`, the new place is not in the index, and a name
  that leads to another file of that name is kept: the link then shows the wrong file.
* A note planned as a source of links that another call has moved away since, and
  whose place the moved note takes, has its old offsets applied to the moved note
  (the cause is that of the fifth finding).
* The check of `expectedHash` and the write are two steps (`local-fs.ts:620`), so
  between two processes the guard may come too late.
* A markdown link that a move rewrites becomes relative, and the server's own
  graph does not resolve relative links: the next move does not find it.
* Deleting or moving a folder locks the files the index knew when the call came
  (comment at `manage.ts:20-27`); files made meanwhile go along unlocked.
* The `unlink` event of a moved attachment between its rename and `renameAsset`
  leaves the new path to the watcher; a rewritten canvas is not told to the index.
* A `unique` append resolves link targets through the live graph in pre-flight
  and again when a transaction applies it (`transaction.ts:253`); the two may
  differ when the index moved in between.

  Authorization:

* Two approvals of one consent that overlap mint two codes (comment at
  `authorize.ts:352-356`). A refresh in flight revives a family that is being
  revoked (`raced`). First rotations that overlap move `rotatedAt` later. A fetch
  of a client document that fails late replaces a good record.

  Texts and queries:

* A `unique` append of several lines without a link, or of text that is a heading
  of the section's level, is not found the second time, so it lands twice (the
  comment at `sections.ts:323-326` says never).
* Inserting at the start of a section that is only a heading at the end of the
  file leaves no newline at the end (`sections.ts:254-257`). A heading whose text
  holds `>` makes an offered path that finds nothing or a deeper heading.
* An update of a canvas on which two nodes have one id, which `parseCanvas` accepts, puts
  the first of them in the place of both, type included (`canvas.ts:258`; 210-211 says
  that a node cannot be reassigned to a different type). `UpdateKeeps` leaves those nodes'
  type and fields out; everything else it says of them too.
* The derived literals may hide a match when case is ignored (`safe-regex.ts:774`; 731 says
  "GUARANTEED"): the text is lower-cased before it is searched for them, while the
  automaton also tries each character in upper case. The long s matches `S`, and its lower
  case is not `s`. `FindIsLeftmostFirst` leaves out these texts, and only where the
  literals do rule them out.
* An empty first alternative inside `*` is preferred otherwise than
  in PCRE.
* `typedCompare` is not a total order over mixed values (`10 < "1a" < 2 < 10`), and
  a date that does not exist is not equal to itself. `in` with null also finds the
  text `null`, which `eq` does not.
* The hint to page by a filter past the last sort key loses rows with equal keys
  (`query.ts:438`); the hint to filter on a group's key finds neither `(none)` nor
  `null` groups.
* The cut of `prefixWithinSerialized` may be shorter than needed at a surrogate
  pair, never too long (`budget.ts:63-68`).
* With ripgrep a candidate that has just been removed fails the whole search
  (`local-fs.ts:1138`), where the other backend skips the file.

## 6. What is left

**Not modelled, to come.** The rebuild of the graph on a new version of the index
(`graph.ts:222-227`; `VaultTools` computes it anew where it is asked for) and what
reads it (mentions, tags, outline, statistics).

**Not modelled, and why.**

* Parsing and formatting (YAML, Markdown, diffs, logs) and path policy: strings in,
  strings out, best left to tests. What the tools conclude from them is modelled.
* A lock between processes for `expectedHash`: there is none. Other programs'
  writes are modelled where they meet this program's.
* ripgrep as a process, file systems that ignore case: `TextSearch` takes what the
  backend returns.
* The wiring of the HTTP server beyond its stop, the command line (steps in order
  around docker and one file, whose effect on the authorization file is
  `Rewrite`), the libraries (watcher, MCP protocol, HTTP), build, packaging, tests.
