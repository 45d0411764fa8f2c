# A verification of gemstone-js

gemstone-js is a TypeScript client for GemStone/S. An application logs *sessions* in to a
Stone (the object server), performs Smalltalk code through the native GCI library, and commits
or aborts the session's transaction. Around the session sit a session pool, request scopes for
web frameworks, transaction helpers with retries, schema migrations under an advisory lock, a
persistent dictionary layer with optimistic commits, collections and queries, object mapping,
and command-line tools. Above the published interface there are an explorer, which is a web
server with a page of its own, and an extension of VS Code that manages it.

This directory holds TLA+ specifications of the parts whose behaviour depends on order or on
cases that are hard to think of. JavaScript is single-threaded, but every `await` is a point
where another flow of the application runs, and the Stone is shared with other clients. Code
between two awaits is one step of a specification; what a native call returns is a
nondeterministic choice among the outcomes the code distinguishes. What only computes is
written as operators, and checked against what is meant for all small inputs.

## 1. Inventory

| Component | State | Operations | Interacts with | What is hard |
|---|---|---|---|---|
| Session pool (`src/pool.ts`) | idle stack, capacity counter, waiter queue, closed flag, use counts | `acquire`, `release`, `withSession`, `warm`, `sweepIdle`, `close`, the acquire timer | sessions, every adapter | state read before an await and used after it; timers racing a late login; failures between taking and giving back capacity |
| Request scope and adapters (`src/scope.ts`, `src/adapters/*.ts`) | session, lease, finalized flag | `session`, `finalize`, `close` | pool, web framework events | the connection closes while the session is being acquired, or while the handler works |
| Transactions (`src/transactions.ts`) | attempt number | `runTransaction`, retry on conflict | session | which errors are conflicts; an abort that fails between attempts |
| GStore (`src/gstore.ts`) | buffers, in-transaction flag | `transaction`, reads and writes, commit with retry | Stone | replayed writes rest on reads of an older view; two buffers that several operations read in different orders |
| Migrations (`src/migrations.ts`) | table of applied steps, advisory lock, step list | `plan`, `upgrade`, `downgrade`, lock, command line | Stone, other runners | steps read before the lock is held; locks taken from live owners; a crash between steps; the order of a dependency graph |
| Session (`src/client.ts`) | logged-in flag, session id, counts of retained OOPs | `connect`, `logout`, `commit`, `abort`, performs, arrays, dictionaries, inspection | serialized runtime | counts changed before the call they stand for; helpers that are several calls each |
| Serialized runtime (`src/runtime/serialized.ts`) | one promise chain per session | every native call | the native library, whose *active session* is process-wide | activation and call are two native calls |
| Object mapping (`src/object-mapping.ts`) | queue of writes, pending error, assigned values, read cache | `proxy.p`, `proxy.p = v`, `$set`, `$flush`, `$refresh`, `$clearCache`, `$send` | session | assignments cannot be awaited: order, errors nobody waits for, values kept while newer ones are written |
| Dictionaries, persistent roots, collections, log (`src/gsdict.ts`, `src/persistent-root.ts`, `src/ordered-collection.ts`, `src/reduced-conflict.ts`, `src/object-log.ts`) | cached OOPs | get, put, remove, bulk operations | session, other flows | an operation is several calls, with other flows in between; a position that is stale when used; handles to be released on every way out |
| Query (`src/query.ts`) | none | searches, iteration in chunks, bulk operations | session | a collection that changes between two chunks |
| Values (`src/oop.ts`, marshalling of `src/client.ts`) | none | encodings, reading nested arrays back | everything | 61-bit range, kinds that look alike, cycles and limits |
| Benchmark baselines (`src/benchmark-baselines.ts`) | a manifest and report files | register, prune, select, validate, compare | files | several files changed one after the other, with reports that vanish |
| Code generation (`src/codegen.ts`, `scripts/scan-codegen.mjs`) | none | scan, check, render | files | names imported under other names |
| Doctor, bootstrap, inspection (`src/doctor.ts`, `src/session-env.ts`, `src/bootstrap.ts`, `src/inspection-cli.ts`) | none | command lines | environment, session | aliases of variables; a session opened must end on every way out; two bootstraps at once |
| Observability (`src/observability.ts`) | none | `observe` | tracers, metrics | a sink that throws |
| Explorer server (`examples/explorer.ts`) | sessions kept for debugging | endpoints, debug runs and actions, shutdown | Stone, page, extension | sessions that outlive their request, actions of several requests on one of them, a signal at any time |
| Explorer page (`examples/explorer.ts`, the script of the page) | panes, editor, debugger window, layout | loads, selections, submits | explorer server | answers in another order than the questions |
| VS Code workbench (`vscode-gemstone-js-workbench/extension.js`) | the process, its start in progress, password | start, stop, restart, configure, the debug adapter | explorer process and server | commands overlap at their awaits; a process ends in its own time |
| Native runtimes, bridges, benchmarks, other examples and scripts | loaded library, worker | one function per GCI call; none | native code | native code is outside the repository |

`PROJECT.json` lists under "components" what is modelled of each part, and under "hazards" the
lines where each can go wrong, with the properties that would notice.

## 2. Modules

The unit of interleaving is the same everywhere: what the code does between two awaits is one
action, and the awaits (a native call, a callback of the application) are the stages a flow can
be at. A native call's outcomes are those the code tells apart, chosen freely.

**`SessionPool`, `Leases`.** All of `src/pool.ts` that changes the pool: `acquire` (`Acquire`,
`EvictDone`, `ValidateDone`, `ConnectDone`, `ConnectFail`, the timer `Timeout`), `release`
(`ReleaseDiscard`, `ReleaseClean`, `ReleaseReset`, `ResetDone`, `CheckFailed`, `HandOver`,
`Shelve`, `DiscardDone`), `serveWaiters` (`ServeDone`, `ServeExpired`, `ServeFail`), `warm`,
`close` and `sweepIdle`. `idle`, `created`, `closed`, `waiters` are the fields `#idle`,
`#created`, `#closed`, `#waiters`; `pc[c]` is the await at which a caller's operation stands.
`Leases` is what the pool promises: a session is leased to one caller at a time, at most
`MaxSize` are leased, and a lease starts on a free, clean session. `SessionPool` implements it
(`LeasesAsPromised`), and `RequestScope` is built on `Leases` alone.

**`RequestScope`.** `src/scope.ts` with each of its users: the Express, Fastify, fetch and Hono
adapters and an application that holds a scope itself (`Drivers`). A request arrives, asks for a
session, its handler changes objects, responds or throws, and `finalize()` commits, aborts and
releases, each around an await. In Express the handler is not awaited and the client may go away
meanwhile. `changes[s]` is whose uncommitted changes session `s` has; `saved` is which requests
have been committed.

**`Transactions`, `Updates`.** The two retry loops: `GStore.transaction` with `#commitWithRetry`,
which writes the buffers of the callback's first run at each attempt, and
`runTransactionWithRetry`, which runs the callback again. Clients share one Stone. `Updates` is
the abstract specification: each client's program is applied in one step, to the value committed
then, or never.

**`StoreBuffers`, `StoreContents`.** One attempt of a GStore transaction seen by its callback:
`data`, `dirty` and `deletes` are `#data`, `#dirty`, `#deletes`. `StoreContents` is a dictionary
that does at once what it is told; `BuffersKeepPromises` is the refinement.

**`Migrations`, `MigrationPlans`.** `upgrade`, `downgrade` and the advisory lock for runners that
share a Stone: `applied[r]` and `pending[r]` are a runner's in-memory table and plan, `head` what
is committed, `view[r]` what its session sees, `missed[r]` what others have written since; `data`
counts how often each step was applied, which the table claims to know. `MigrationPlans` is the
rest as functions: the order of a manifest, plans with targets, the checks of tables and locks, and
the command line's calls.

**`SerializedRuntime`.** `Session.connect`, the promise chain of `src/runtime/serialized.ts`, and
`ManagedOop` with the counts of `retainManagedOop` and `releaseManagedOop`. A chain's calls are
enqueued in one step and made later, in order: `Activate` is the activation of the bound session
id, `Add`, `Remove`, `Use` and `LogOut` the call itself. `Collected` is the finalization callback.

**`TransparentObject`.** `transparentObject()`: the proxy that flows share. `tail` is the end of the
chain `writeTail`, `error` is `pendingWriteError`, `assigned` and `cached` are the maps of promises.
`WriteArrives` and `WriteFails` are the reactions of `queueWrite`; reactions run before the
application or the Stone goes on, in any order among themselves.

**`KeyedAccess`, `OrderedAccess`, `ObjectLog`, `ReadBack`, `QueriedCollection`.** The operations on
dictionaries, ordered collections, queues and arrays, logs, and queried collections: each is a
sequence of native calls, and flows of one session interleave between them. `op[f]`, `work[u]` and
`query[q]` record the calls made and what the flow knows. `ReadBack` follows `arrayOopToValues`
frame by frame with its limits and its set of arrays seen; a place is a way through the arrays to an
item, so that an array that is shared or holds itself is at several places, and `NestedValues` is what
the arrays hold when there is nothing too deep. A call may fail at any point of it (`ReadThrows`), and
when the one for the class of an item does, `IsArrayOop` takes the item for no array, as the code does.
The queries of one call (`Search` to `LastItem`) are functions of the elements, of which one may be nil.

**`Values`.** `argumentToOop` and `marshalOop` over the encodings of `src/oop.ts`, for `Oops` OOPs
(2^64 in the code), with the wrapping of the code. `ReadObject` makes up to four calls for an object, of
which any may fail: the code takes a failure for a no, and remembers it of the class String
(`stringClass`). `ValuesAssumption` says how the limits of the types
lie to each other, as they do in JavaScript and the Stone.

**`Inspection`, `ExplorerQueries`, `Codegen`, `Doctor`, `DebugScripts`, `Observability`.** Functions:
what the Stone writes and how the client reads it back; what the explorer's lists show; what is
scanned, refused and rendered; what an environment configures, which checks and calls are made and
what is told; what each debugger action sends to a process that knows only some messages; and what
tracers and metrics are told. A name with line breaks is a sequence of lines.

**`Bootstrap`, `BenchmarkBaselines`.** Two runs of the bootstrap beside another program, one step
per call; the commands on a manifest of baselines, one step per file read or written. A command keeps
its options to the end, so that what its write takes away can be compared with what it was told.

**`Library`.** `KeyedAccess`, `OrderedAccess`, `ObjectLog`, `ReadBack`, `Values`, `QueriedCollection`,
`BenchmarkBaselines` and `Bootstrap` side by side, with what they promise together: `AloneIsAtomic`,
`AnswersAreTrue`, `NothingIsLost`, `ReadsAreAsMeant` and `OnlyTheMeantGoes`,
which are theorems. An operation's record keeps, beside what the code knows, what is needed to judge it when it is over:
the entries or elements it began with and ended with, whether another flow changed them meanwhile,
what each key had while it was at work, and which removals were its own. In the model the keys
that a flow gives to one operation differ, and so do the elements of a collection and those that the
flows bring: an element stands for its place, not for a value that may be there twice.

**`ExplorerServer`, `DebugAdapter`.** Every kind of request with the session it opens; `debugs` has
the keys of the map `activeDebugSessions`, and who closes all of them takes them in any order. `DebugAdapter` EXTENDS the server with the debug adapters of the
extension, each of which holds the identifier of a debug session.

**`ExplorerPage`, `ClassBrowser`, `PageWindows`.** Parts of the page, each with its own state: panes
that load by tokens, the class browser with its editor, and in `PageWindows`, which EXTENDS the class
browser, the debugger and the windows with their stored layout. It states what holds between what
they show (`WindowsBelongTogether`).

**`Workbench`.** The extension's `ExplorerServer` class: `handle` and `starting` are its process and
its start in progress; commands interleave at their awaits, processes boot and end freely.

The MC modules say what an instance is. `MCLibrary`, `MCWorkbench`, `MCTransactions` and
`MCSessionObjects` host several modules that share nothing: a variable `part` says which of them is
at work while the others rest in one state, so that a run is the union of their state graphs.

## 3. Runs

| Run | Instance | Why it is enough |
|---|---|---|
| `pool_leases` | 4 callers, pool of 2, 4 session identities, 2 uses, acquire timers, every release option, every native failure, of logouts one (`MaxOrphans`), `warm(1)`, `close()` | two callers can be queued, so order is visible, while one session is used and one discarded or warmed; both sessions can be lost to waiters that had timed out; two sessions leaving and two counted, or one whose logout failed and three others, need four identities (with five the run passes too, in several minutes) |
| `pool_sweep` | 3 callers, pool of 1, idle sweep and acquire timers, failed logins | a sweep with a waiter and a newcomer around it, a timer at every stage |
| `scope_requests` | 2 requests, 2 sessions, all adapters, policies, providers and failures | hazards are between two requests with one session; with liveness |
| `transactions` | 3 clients, 2 keys, 2 attempts, every fault, eight jobs; a store of 2 keys and 2 values | a client, the one that makes its view stale, and one that comes between its attempts |
| `migrations` | 3 runners, 2 dependent steps, 2 lock owners, with and without the lock, failures and crashes | a runner, one that waits for its lock and one that took it between |
| `session_objects` | 2 sessions with a library each, 3 handles of which two on one object, chains of 3; a proxy with 2 flows, 2 properties, 3 writes, with and without cache | one handle is let go while the other is used; an older and a newer write of a property and one of the other |
| `explorer` | 3 requests, one debug adapter, a signal at any time | two debug runs at once, an action on either, and any other request between them |
| `workbench` | 3 commands, 2 processes; panes with 2 loads each; 2 dictionaries, 2 classes; 2 debug runs; 3 windows | a start, a change of what it was started with and a third command; an older and a newer load |
| `library` | see below | |
| `pool_sweep_race`, `workbench_restart`, `debug_actions` | expected to fail, see section 6 | |

In `library` one part is at work at a time. Dictionaries: two flows, 2 keys, every operation of one
against the bulk operations of the other. Collections and queues: three flows, up to 3 elements. Log:
up to 4 entries. Arrays: any graph of 3 arrays, of 2 items, of 1 and of any number up to 2, within
wide bounds and with each bound narrower (`MCBounds`), one item put while it is read, and any call
failing (`ReadFaults`). Values: OOPs of 12 bits for 64, SmallIntegers of 9 bits for 61, so that
wrapping happens, safe integers of 7 bits for 54, and each of the four calls for an object failing
(`ValueFaults`), in a first reading or a later one. Queried collections: two flows, 3 members, chunks
of 1 and 2. Bootstrap: two runs beside another program. Baselines: 3 commands, one at a time, 3 report
paths. What computes (`ComputesAsMeant`): manifests of up to 3 steps over every dependency graph,
heaps of 2 and 3 objects to depth 3, classes whose lists break off, collections of up to 4 elements,
nil among them, dictionaries of up to 3 names, all forms of import, environments of 3 credential
variables, each with a value of its own, and the variables for the library, processes that know any of
ten messages of the debugger, of which some fail. Each of these bounds is where a second element, a
shared object, a cycle, a tie or a limit first occurs.

What the properties say:

- `EverySessionCounted`: the count is that of the clients logged in and not being logged out, and each
  of them is in one place of the pool, whatever fails, but for two losses that it names: a session
  resolved to a waiter that had timed out is counted and with nobody, and one whose logout failed stays
  on the Stone uncounted and is never leased again. `GrantsAreFit`: a lease starts on a session that is live, clean and not used up.
  `NoOvertaking`, `NoStrandedWaiter`, `EveryWaiterTracked`: the queue is served in order, nobody in it
  waits while a session is free (but for a failed login, `warm`, and a pool all of whose sessions are
  lost to waiters that had timed out), and no waiter is settled twice.
- `FailedStaysOut`, `SuccessMeansCommitted`, `CommittedByItsOwn`: failed requests are not committed, a
  client told of success has its changes committed, and by its own commit. `SessionReturned`
  (liveness): every session taken comes back.
- `UpdatesAreSerial`, `SessionLeftClean`, `BeatenByOthers`: what is committed is as if one after the
  other; a call that is over left no changes behind; one that gives up was beaten as often as it
  tried.
- `TableMatchesData`, `LocksComeBack`, `OneStepAtATime`: the table says what was applied, however
  runners fail and crash.
- `RightSession`, `Protected`, `NothingLeaks`: calls are made in their session, and an object is in
  the export set exactly while it is needed. `FailuresAreTold`, `ReadsAreRegular`, `OwnWritesAreRead`: what
  a proxy does with assignments that nobody awaits. `WritesConverge`: when the queue has nothing more
  to do for a property, the object has the newest value that arrived, or that of a newer write that
  failed after its effect, and neither what is assigned, nor what is cached, nor a read under way that
  will fill the cache says anything else. It is about what reaches the object through the queue only.
- `AloneIsAtomic`: an operation on a dictionary or a collection during which nobody else changed it, and
  no call failed, is as good as one step. `AnswersAreTrue`: what it answered was true at some moment
  while it was at work, two flows never took the same element, and the bootstrap has made what it
  tells. `NothingIsLost`: handles that are not given to the caller are released, and a manifest has
  one baseline of each metadata. `ReadsAreAsMeant`: what is read of a log is what was asked for; what
  is written and read back is the same, exactly within the limits, unless a call failed that was to
  tell what an object is: the property says which values then come back as OOPs, and which failures
  throw; and operations on a queried collection that nobody disturbs are as good as one step, while an iteration misses nothing even if
  the collection grows. `OnlyTheMeantGoes`: what is removed from a log is what was read, a manifest
  loses of what loads only what a prune was given by name, or what a command told to replace puts a
  report of the same metadata in the place of, and roots stay. `ComputesAsMeant`: each function against its
  definition; the operators named `...IsMeant` say which.
- `SessionsAreClosedOnce`, `AnswersTellWhatWasCommitted`, `EndsWithItsSession`, `ShutdownEnds` (liveness):
  the explorer's sessions end, and once; its answers tell the truth about commits; a debug session of
  VS Code ends with the Stone's; a server told to stop does.
- `StartsAreRight`, `CommandsEnd` (liveness): one process is started at a time, with a password that is
  not older than the start; every command ends. `PanesShowNewest`, `WindowsBelongTogether`,
  `EditsAreNotLost`: what the page shows belongs together, and edits go only when the user agrees.

Bounds that are not constants of the code: `MaxWrites`, `MaxLoads`, `MaxFlows`, `MaxRuns`, `MaxZ`,
`MaxPuts`, `MaxLog`, `MaxCommands`, `MaxObjects` cap what is explored; `SweepBound` and
`UsesAssumption` of the pool: one sweep at a time, none once the race of section 6 has made the pool
longer than its size, and use counts and idle sweeping not together; `MaxAsking`, two concurrent
`session()` calls on a scope; `QueueBound`, calls waiting in a chain. With `MaxFlows = 2` the class
browser has 20 million states and the properties hold; with two commands on baselines at once, up to
the first stray entry, 26 million; these were tried by hand, and the runs keep to the smaller ones.
`Faults`, `Timers`, `Options` and `Setups` choose which failures, timers and options an instance has.
Deadlock is checked where flows go round (the pool); elsewhere every flow ends, and the runs say so.

Fairness. `scope_requests`: native calls return and handlers end, weak fairness of each request's
steps, which run on promise callbacks that the event loop never drops. `explorer`: the Stone answers
every call of a request and of the shutdown. `workbench`: the extension host and the SecretStorage
answer, and `waitUntilRunning()` has a timeout; nothing is assumed of the processes. In none of them
is anything assumed of the outcome a call has.

## 4. What is proved

The theorems hold for every value of the constants that the named assumptions allow; a run that
checks the same property is an instance of the theorem.

- `SessionPoolProofs`: `PoolTypeOK` and `PoolTracksWaiters`, for every pool; and for pools without
  idle sweeping, `PoolExclusive`, `PoolGrantsAreFit`, `PoolAccounting`, `PoolCountsEverySession`,
  `PoolNoStrandedWaiter` and `PoolKeepsItsPromise` (the refinement of `Leases`). The invariant
  `Fit` is `Exclusive` and `Ready` with the absence of a sweep: `Exclusive` alone is not inductive,
  because whether a session just logged in is free rests on `Fresh` and on where closed and warmed
  sessions are; `Ready` says that sessions at rest are live and clean, which a grant inherits. To
  count, one needs the queue (`Queued`: those queued are in `waiters` or being served, once), that
  operations at no session have none (`EmptyHanded`), and the sets that are counted, finite
  (`CountsRight`): each step moves one session or one login in or out of them, `close()` all that
  rest. What is lost is in no place of the pool (`LostApart`); a queue without anybody at work then
  means that all that is counted is lost (`FullMeansBusy`). Every lease is on a counted session, which bounds the leases by `maxSize`.
  `PoolNoOvertaking` holds for every pool, with any timers and sweeping: whatever a step does to the
  queue, nobody leaves it, the oldest leaves it, one whose timer fires leaves it, or all do
  (`QueueMoves`). `PoolNoStrandedWaiter`, for pools without timers, is about steps again: when the
  capacity is used up and nothing rests, some operation is still at work that will look at the queue
  (`FullMeansBusy`, from the counting), and every step but a failed login and `warm` keeps it so
  (`AttendedStep`).
- `WebProofs`, request scopes: `ScopeTypeOK`; `ScopeSuccessMeansCommitted`, for all but direct use, Express
  included, from `Kept`: what a scope has changed it still has at its session, or it is saved, or the
  scope will not tell of a success; and for adapters that await their handlers,
  `ScopeConfined`, `ScopeFailedStaysOut` and `ScopeCommittedByItsOwn`. The invariant `Confined`
  has three parts: sessions of requests are apart (`Apart`), each scope has the session its
  handler uses until it is finalized (`Orderly`), and a session has changes of its own request
  only (`OwnChanges`). From the same invariant `ScopeLeasesUsedAsPromised`: what such adapters do to
  the pool is what `Leases` allows its users, whom the pool in turn promises its part.
- `WebProofs`, the page: `PageShowsNewest`, from `PageInv`: the newest load of a pane asked for what is selected
  and filtered now, unless a timer will ask again. `DebuggerSelectsWhatIsOnShow`. `WindowsKeepTheirLayout`,
  from `Layered`: of the windows on show as of those stored at most one is active, it is open, and
  those once focused have heights of their own. `BrowserShowsSelection` and `BrowserKeepsEdits`, from
  `BrowserInv`: what is in the editor matches the selection, or the one flow at work leads to a text
  that does (`Leads`) or replaces the selection (`Replaces`); and while there is an edit each flow that
  would replace it was agreed to (`Agreed`). `PageBelongsTogether` puts the windows together.
- `TransactionsProofs`: `TransactionsTypeOK`, `TransactionsSerial` (the refinement of `Updates`),
  `TransactionsSessionLeftClean` and `TransactionsBeatenByOthers`. The invariant says of each
  client what its stage knows: a view is what was committed at the version it was refreshed at,
  buffers are those of the client's program, and a commit that is not refused is made on the
  newest version, so that its effect is the program's on the committed value.
- `TransactionsProofs`, the buffers: `StoreBuffersTypeOK` and `StoreBuffersKeepPromises` (the refinement
  of `StoreContents`). It rests on `Apart`, a key is in one buffer only, because `get`, `has`, `keys` and
  the final write look into the buffers in four different orders.
- `MigrationsProofs`: `MigrationsTypeOK`, and where locks are neither stale nor forced and an abort
  does not fail (`Careful`), `MigrationsTableMatchesData`, `MigrationsOneRunner`,
  `MigrationsLocksComeBack`, `MigrationsOneStepAtATime`. The invariant relates a runner's in-memory
  table to its session's view (`InSync`), the lock's holder to the stages (`Holder`, `Held`,
  `LockFirst`) and what is missed by a view to what may have changed.
- `SessionObjectsProofs`, sessions and handles: `SerializedTypeOK`; and where every session has a
  library of its own, `SerializedRightSession`, `SerializedLoginsAreOwn`, `SerializedProtected` and
  `SerializedNothingLeaks`. The last two are about order: `CallsKept(q, k, o, e)` says that object `o`
  is exported when call `k` of chain `q` is made if `e` is exported now, and the invariant `OwnInv`
  that every waiting message finds it kept. `Tidied` is the other direction: of the calls about an
  object that wait in a chain the newest one decides whether it stays exported, and that one is an
  addition only while a live handle counts on it, or a removal has failed.
- `SessionObjectsProofs`, object mapping, for every setup: `MappingTypes`, `MappingWritesConverge`,
  `MappingFailuresAreTold`, `MappingReadsAreRegular` and `MappingOwnWritesAreRead`. `MappingInv` is the
  order of the queue (`WritesInOrder`: no write is sent before the earlier ones have ended) with `Told`: `pendingWriteError` is set while a failure has not been thrown. A
  step moves one flow at most (`OneMoves`), and what lets a flow go on past `flushWrites` either
  throws or finds no error, hence nothing untold. That reads are regular (what they return was there,
  or was written, during the read) follows from `FlowInv`, which says of every promise that is kept
  or awaited that it will give a value already seen, and not one older than its reader (`Promised`).
  That a flow reads its own writes holds while no write passes the queue by (`Plain`); `ReadInv` then
  says where each write is: queued ones are in order up to `tail` (`TailOK`), the object holds the
  newest that arrived (`StoredAt`), what is kept as assigned is the newest write of all, on its way or
  arrived (`AssignedAt`), a read is kept only when nothing was written since (`CachedAt`), a flow
  that asks the Stone has awaited the writes before it (`AskedAt`), and one that awaits what is kept
  awaits a value that is not older (`AwaitedAt`). That the writes converge adds `FreshAt` to it: unless
  a write of the property is between its effect and its end, what is cached, or will be by a read under
  way, is what the object has. It is kept because a write under way is the newest the object has
  (`StoredAt`, `WritesInOrder`) and, whatever its end, replaces or drops what was cached.
- `WorkbenchProofs`: `WorkbenchTypesOK` and `WorkbenchStartsAreRight`, from `StartInv`: `starting` is
  the one command that starts, nobody joins but while there is one, and the password of the store
  does not get older. `ExplorerTypesOK`, `ExplorerClosesSessionsOnce` and
  `ExplorerAnswersTellWhatWasCommitted`, and the same under debug adapters
  (`AdaptersKeepTheSessions`), from `ServerInv`: a session is its handler's, kept, or being closed by
  one handler, in this order (`Place`), and what a handler will answer tells of the commit from then
  on (`Told`). `DebugSessionsEnd`, from `DebugInv`: an identifier is told only of a session that was
  kept (`Pursues`), a request that ends a session has done so when it is answered (`Sent`), and an
  adapter whose commands did not overlap holds every session that is kept for it, or has a request
  unanswered that gives it to the adapter or closes it (`InOrder`).
- `LibraryProofs`, for any flows, keys, lists of different keys, elements, positions and limits:
  `OperationsAloneAreAtomic` puts together `KeyedOperationsAreAtomic` and `OrderedOperationsAreAtomic`. An
  operation carries the calls it has still to make, and the invariant says where an undisturbed one
  stands by them. For dictionaries (`Progress`) the entries are those at the beginning with the effect
  of the calls already made (`EffectYet`), and so is the answer (`AnswerYet`); `TodoOK` says which
  calls can be left: each key is put and removed once, and all are removed before one is put, which
  is what makes `replaceAll` come out right. For collections there is a shape for each kind of
  operation (`Stands`): calls left to read, and the elements at the indexes before (`ReadsOn`); what of
  the given elements is appended already (`AddStands`); the put that is left (`PutStands`).
  `AnswersStayTrue` rests on what holds whoever interferes: each key of an answer had this value among
  those seen during the operation (`Told`, kept up by every step of the others), what was taken, what
  is there and what is to be added have no element in common (`NoneTwice`), and a run of the bootstrap
  stores what it has seen as long as nobody has committed since (`Sees`, `Stores`), so that the refusal
  of a commit on an old view is all that keeps two runs apart. `NothingGetsLost` joins
  `KeyedHandlesComeBack` (`Handles`: those held are those of the answer) and `BaselinesAreOneEach`;
  `NothingElseGoes` joins `BaselinesKept`, from `CliOK`: what a command is about to write leaves out
  only what it was told to drop or is missing, or, when it was told to replace, what has the metadata of
  its report (`WillWrite`), and `BootKeepsRoots`. What is
  said of baselines holds until something happens that the code does not guard against (`strayed`).
  `ComparisonIsMeant` is of any two reports and thresholds: what it takes to be worse (`WorseMeans`) is
  an inequality between integers, and a wider limit only adds a multiple of a speed (`MoreRoom`).
- `ReadsProofs`: `ReadsAreWhatIsMeant` and, with the theorems of `LibraryProofs`, `OnlyThatGoes`. They
  are about what loops and recursive calls compute. The library's induction theorems cannot be used
  for this, so the module derives an induction over a *set* of natural numbers (`NatSet`) from the
  well-foundedness of their order, and from it that a fold takes its elements one by one
  (`FoldSteps`, `ChainsAgree`). On that stand:
  - the log, for any entries, levels and limits (`LogInv`: labels grow, and what was read is `Answer`
    of the log as it was). `EntriesAnswer` is the loop of the script: read from the oldest, at most
    limit + 1 rows, so that too many show; from the newest, rows put in front. `RemovalKeeps` is the
    removal: taken from the last position to the first, each is still where it was;
  - queried collections (`QueryInv`): an undisturbed call is halfway (`Halfway`), what it has done so
    far is done to what was there (`WithoutEach` for removals), and an iteration has handed out all up
    to its offset, or the collection ended there;
  - values (`ValuesInv`): what was written is an OOP of its kind (`WrittenAs`), tags tell the kinds
    apart, and the SmallIntegers are the numbers that survive the wrapping; what is read is what the OOP
    stands for, or the OOP if a call was missed that was to tell (`IsReadAs`, `Missed`). The arithmetic is about any
    number of OOPs that the assumption allows, not about 2^64;
  - arrays (`ReadInv`), the longest: the calls in progress are a way through the arrays on which none
    occurs twice, what has been read is what is there, and the places counted in `totalItems` are
    those within what was read or is being read. That no place is refused that should not be, and none
    read that should, rests on the places being finitely many (`PlacesFinite`) and on arrays that hold
    themselves being deeper than any bound (`Endless`). Once a class could
    not be had, what is left of it is that every item read is in its place (`HoldsFor`); once another
    flow has put an item, only the way, which still bounds the depth.
  - queries of one call (`QueriesOfOneCallAgree`): the loops of `search`, `count` and `limit` stand
    alike after each element (`LoopsAgree`), `exists` looks at the first that is found, and after `k` pages what was read are the first `k` times
    `size` elements (`PageFollows`). The doctor (`DoctorDoesAsMeant`): of finitely many files one is the
    last in the order of names (`OneIsLast`), what is told of a field is told by its two names
    (`FieldIsTold`), and the exit and the calls follow from the checks made (`ReportIs`, `WorstIs`,
    `LiveCallsAre`). Assumed is what a program can be given: paths of names, directories of finitely
    many files, variables that are not empty, options that are each set or not.

Type correctness, and `PoolExclusive`, `MigrationsOneRunner` and `ScopeConfined`, are theorems only:
no run checks them besides. (`PoolAccounting` is half of `EverySessionCounted`.)

Checked by TLC only: liveness (`SessionReturned`, `ShutdownEnds`, `CommandsEnd`), which this prover
does not reach; what theorems leave to the instances of TLC by their assumptions, as pools that sweep
while they count; and of what is computed (`ComputesAsMeant`) all but the comparison of reports, the
queries of one call and the doctor: among it are recursive definitions (`Visit`, `DumpOop`), which
would need induction over data in a module the provers can take, and filters of sequences
(`SelectSeq`), of which they know nothing.

## 5. What is assumed of the outside

The Stone, the native library, VS Code and the browser are not in the repository. As the code uses
them:

- a session sees what was committed when it logged in, committed or aborted last, with its own
  changes on top; a commit is refused when it writes something another session has committed
  since, or for a fault; a commit that is refused has committed nothing;
- a login starts a clean session; a logout that succeeds ends it with its uncommitted changes, and one
  that fails may leave it where it is (the pool; elsewhere a session counts as closed when its logout
  was called, as `examples/explorer.ts` swallows a failing logout too, at 935, 1506 and 1992);
- a native library has one active session, in which a call is made; a session that is logged in
  becomes the active one; calls of one chain are made in the order in which they were enqueued;
- one call is one step of the Stone, which fails before it has changed anything, except the bulk
  performs, which may fail half way;
- the file of a GStore exists before clients share it, and each client has a session of its own;
- a child process may boot, fail, hold the port and end at any time; the events of its end come
  later; a browser's storage may refuse to be written to.

## 6. Where the code departs from its documents

Three runs are expected to fail. Each checks what a document of the repository says:

- `pool_sweep_race`: `sweepIdle` awaits logouts and then assigns the list it has built, so a
  session taken meanwhile is put back and leased a second time, dirty.
- `workbench_restart`: a restart signals the process and then probes the port, which the old process
  may still answer: nothing is started, and soon nothing runs. Its messages say that it was restarted.
- `debug_actions`: the debugger's scripts put their messages into nested blocks that are never
  evaluated (`[[process resume]. true]`), so continue and the steps send nothing and say that they
  have.

Known deviations that no property states, or that the instances of section 3 leave out by their
constants:

- Pool. A failed login in `acquire` gives capacity back without looking at the queue, and `warm`
  shelves a session while acquires are queued: a waiter then waits for the next release
  (`NoStrandedWaiter` says that nothing else does this while there is capacity). An acquire timer that
  fires while `serveWaiters` logs in for the waiter loses the session: it is counted for good, with
  nobody to release it, and after `maxSize` such losses nobody is served. A logout that fails is not
  noticed (`src/pool.ts:375`), though its capacity was given back before: the Stone then has more
  sessions than `maxSize`, and as the client counts as logged out (`src/client.ts:1669`) nobody can log
  the session out. A session released while the pool closes is shelved in the closed pool. Newcomers can
  take the capacity a discard frees before those who wait.
- Scopes. In Express the close listener finalizes the scope while the handler may still use the
  session: what it changes later is committed by the next request on it. An Express client that goes
  away while the session is being acquired leaves a lease that nothing releases; a fetch handler that
  throws a successful `Response` hides a failed commit; two concurrent `session()` calls on one scope,
  or `finalize()` during one, leak a session; Express and Fastify answer before the commit.
  `SessionReturned` and `FailedStaysOut` are about the adapters that await their handlers and ask for
  the session once (`Awaiting`), and `SuccessMeansCommitted` about an early answer says only that
  `finalize()` throws.
- Transactions. GStore retries by writing its buffers again, though the callback decided what to write
  on a view that the conflict has made stale: the jobs of `examples/library-books.ts` lend one book
  twice. A conflict listener that throws skips the abort; a write that fails between setting and
  deleting stays in the session; GStore and the retry helper recognise conflicts by different words;
  `normalizeMaxRetries` throws after `#inTransaction` is set (`src/gstore.ts:214`), which closes the
  store for good.
- Migrations. Applied steps are read before the lock is taken and not again, so a lock taken as stale
  or by force applies a step twice. If the abort after a failed step fails, the release of the lock
  commits the step's changes; runners with `--no-lock` mixed with others may apply a step twice; a
  shared lock owner lets one runner release another's lock. Of steps applied in the same millisecond
  the version is the greatest name, and after a downgrade it may be another step if some were applied
  out of order.
- Sessions. Two sessions on one native library, as Bun and Deno load it, activate each other's session
  away between an activation and its call. A retention that fails is counted, so later handles are
  held but not exported (`Protected` excuses it); the error of a failed call is asked for in a second
  call (`src/client.ts:1485`), before which another flow's may come; calls after a logout activate the
  dead session id, and are not modelled.
- Object mapping. With a cache, when an older write of a property fails, or `$clearCache` is called,
  while a newer one is queued, a write that arrives in between fills the cache and reads return its
  value; what was assigned stays kept for good, so that a plain read after `proxy.p.refresh()` returns
  the assigned value, not the newer one just fetched; a read that failed stays in the cache.
  `KeptIsCurrent` says when none of this can happen. A read that is answered from what is kept does not
  report a failed write, though `docs/object-mapping.md` says that the next read does; of several
  errors the first is thrown, to whichever flow waits next. Direct sends pass the queue and the caches
  by.
- Dictionaries. Keys whose value is nil are listed, but `has` and `getOop` say there is none.
  Lists drop empty names and split names with line breaks. Two flows that remove one key may both be
  told that they did (`RcKeyValueDictionary`), or the second one gets an error (the others);
  `removeAll` tells the second of two equal keys that it was not there; `replaceAll` is not atomic.
  A root or a class whose lookup was rejected once stays rejected (`src/persistent-root.ts:347`,
  `src/client.ts:1920`).
- Collections. `exists`, `any` and `none` ask whether what is detected is nil (`src/query.ts:332`): when
  the first element that fits is nil, `exists` says no and `none` yes, though `count` is above 0
  (`QueriesAgree` says exactly when). The position an object log removes by may be stale. An iteration in chunks skips
  elements when others are removed, and those appended after a short chunk; a set may reorder. A bulk
  perform that fails leaves the calls before done.
- Values. An object's OOP comes back as a bigint, like a SmallInteger. When the call fails that is to
  tell whether an object is a Float, or which class it has (`src/client.ts:1452`, `1460`), a Float or a
  String comes back so too, without an error; if the class String could not be resolved at its first
  use, every String does for the life of the session (`1824`: a comment there says so); and an inner
  array whose class cannot be had (`1806`) is read as its OOP. `SurvivesTheStone` and
  `ReadsBackWhatIsThere` say exactly when. Integer-valued floats come back
  as bigints; a bigint beyond 61 bits is wrapped without an error; Bun's and Deno's put functions ask
  for no error.
- Inspection. A print string with several lines cuts a payload short or adds slots to it. `dump` never
  takes an object out of its set, so shared objects, and even equal SmallIntegers, are shown as cycles,
  and an object first met at the greatest depth is not expanded where it is nearer.
- Tools. The doctor's `--live --json` fails after a login that works, for it prints a bigint
  (`src/doctor.ts:163`); the newest library is the last in the order of strings (3.7 after 3.10). The
  bootstrap exits with 1, having committed, when its second audit fails. Two baseline commands at once
  lose entries, and one that is killed between a copy and the manifest may leave two of the same
  metadata; a path written in another form is added twice; a rewritten report can make two equal.
  `compare` exits with 0 for reports that cannot be compared and with 2 both for a regression and for a
  wrong option. The scanner does not know an `Oop` imported under a name that does not end so
  (README.md:284). A sink that throws while a success is told makes a done operation, a commit too, fail
  for its caller.
- Explorer. Lists with names of several lines or none tell wrongly whether there is more; a class that
  is both in UserGlobals and Globals is listed twice; filing out a dictionary leaves class methods out.
  In the class browser, answers of overlapping selections are not told apart; a description is shown in
  the editor; a change of side whose loads fail leaves the other side's source to be compiled on the
  new one; selecting again what is selected drops edits unasked, and so does the answer to a submit
  those made since. Scripts that ask `stackReport respondsTo: #size and: [...]` (1281, 1283, 1452, 1454)
  send a message nobody understands, so a step raises when the process reports its stack, a restart
  after it has trimmed, and a process is never told to be running.
- Workbench. The exit of an old process clears the handle of the new one. An adapter that is given a
  command before the last one was answered leaves sessions open: a launch answered after the
  disconnect, a replay, an answer that takes longer than the 300 s that fetch waits. Debug ids start at
  1 again after a restart of the server, results of terminated runs still carry one, and of two debug
  runs at once both keep sessions. Handles of variables and the selected frame are used again for other
  stacks. An error event of `spawn` is not handled (`extension.js:180`).

The properties excuse exactly these cases, by name where the module has one (`excused`, `alone`,
`AddFailed`, `Awaiting`, `strayed`), and hold in all others.

## 7. What is not modelled

Texts (Smalltalk source, reports, wording), clock values, metrics and events. Benchmarks, which
measure one operation after the other; bridges, which put a call of a session behind a property or a
second name; the native runtimes, which wrap one native function each; the other examples and the
release scripts, which are sequences of file operations above the published interface. Of modelled
parts: creating and removing whole stores, and two stores on one session at the same time; nested
transactions, whose levels are the Stone's; runners with and without the lock at the same time;
retentions and messages after a logout; `options.session` of a scope and the closing of a pool an
adapter owns; value converters; the scripts that inspect frames; deep links, rendering and places of
windows in the page; trees, menus and webviews of the extension. `PROJECT.json` gives the reason for
each part.

## 8. Plan

Done, in this order: the pool and its leases; request scopes on those leases; transactions and the
serial updates they implement; migrations; sessions and managed handles; object mapping; the
explorer's server with the debug adapter above it; the extension's process; the page; dictionaries,
collections, log, queries and values; plans, inspection, baselines, code generation, doctor,
bootstrap, observability; the debugger's scripts; the buffers of a store. Next, in order of use:

1. What is computed, as theorems where it is no recursion over data: lists, comparisons, locks.
2. The mapper that keeps one proxy per session and object, and snapshots field by field.
3. Nested transactions and several stores on one session.
4. Runners with and without the lock at the same time, with what then still holds.
