# WikiBridge: a TLA+ model of its platform and its applications

WikiBridge publishes local services (above all personal knowledge bases) through
frp tunnels.  This directory holds TLA+ modules translated from the code, TLC
configurations that model-check them, and proofs that TLAPS checks.  All paths
below are relative to the repository.

`PROJECT.json` lists the components, the runs, the mutants each property must
reject, the source lines every definition models, the findings, the hazards and
the theorems.  This file explains them.

Run a model with `tlc -workers 2 -config <run>.cfg <module>.tla` and check proofs
with `tlapm <module>_proofs.tla`.

## 1. The system

The repository's README says what is maintained here: `bearfrp/` (the tunnel
platform, Python), `desktop/` (the client, Rust) and the glue around them.  It
ships two applications that the client starts: `llm_wiki/` (the knowledge base,
TypeScript) and `opencode/` (the coding agent, TypeScript).

| Part | State it keeps | Operations | Talks to |
|---|---|---|---|
| Port pool (`bearfrp/backend/port_pool.py`) | range, free ports | allocate, reserve, release, change of range | the operating system (is a port in use?) |
| Store and routes (`models.py`, `routes/user_api.py`, `routes/admin_api.py`) | users with balances, proxies with status, ports, limits, usage | recharge; create, update, stop, start, delete; the administrator's stop, start, delete, range change | port pool, mirror |
| Mirror and range file (`sqlite_persistence.py`, `user_persistence.py`, `persist_config.py`, boot in `main.py`) | SQLite tables, `users.json`, `allocatable_range.json` | save everything, load everything, reserve the loaded ports | store, port pool |
| Poller (`poller.py`) | baseline and usage of each tunnel, its background task | read the lists of frps, charge, stop at the limit | frps, store, mirror |
| Plugin (`plugin_handler.py`) | online flags, token versions | Login, NewProxy, CloseProxy, Ping | frps calls it |
| frps manager and client (`frps_manager.py`, `frps_client.py`) | one child process | start, stop; HTTP reads | frps |
| Accounts (`auth.py`) | sessions, password hashes | register, log in | store |
| Scripts, show API, web pages | none | render, read | store |
| Desktop runtime (`desktop/src-tauri/src/sidecar.rs`, `frpc.rs`, `state.rs`, `local_service.rs`) | child processes, the project they serve, enabled proxies on disk | start and stop frpc, OpenCode, LLM Wiki | platform API, child processes |
| Ingest queue (`llm_wiki/src/lib/ingest-queue.ts`) | tasks, the open project, the running task; a file per project | enqueue, process, cancel, retry, clear, pause, restore | the LLM pipeline (`ingest.ts`), files |
| Run coordinator (`opencode/packages/core/src/session/run-coordinator.ts`) | one entry per session: the running drain, the pending follow-up | run, wake, interrupt, settle | callers, the runner |
| Session inbox and runner (`session/input.ts`, `session/runner/llm.ts`, `session.ts`) | the rows of `session_input` | admit, wake, interrupt, promote, call the provider | coordinator, event log, provider |
| Durable events (`core/src/event.ts`) | the event table, an owner per aggregate, dirty signals | publish, replay, claim, tail | database, tails, other processes |
| Workspaces (`opencode/src/control-plane/workspace.ts`, the sync handlers) | a loop per remote workspace | follow, catch up, move a session | the server of each workspace |
| File lock (`core/src/util/flock.ts`) | a lock directory and a breaker directory per key | acquire, clean up, heartbeat, release | other processes, the file system |

How they interact.  The backend of the platform is one asyncio process.  Handlers,
the plugin and the poller take `store.lock` and do not await anything while they
hold it, so a handler is atomic: interleaving happens between handlers, and inside
a poll round between its reads and its update.  Every mutating user route saves
the whole store in one SQLite transaction before it answers; the administrator's
routes do not save.  frps is another process: it counts traffic, asks the plugin,
and goes on when the backend dies.

The two applications are single-threaded TypeScript: what runs between two awaits
is atomic and anything may run during one.  LLM Wiki keeps its queue in module
variables and writes them to a file through a thread pool.  In OpenCode a prompt is
first committed to the database, then the coordinator is told; the coordinator
starts a fiber that reads the database one statement at a time.  Events of a session
are a log; a tail of it (the stream a client reads) is signalled by commits.  A
control process follows the logs of remote workspaces over HTTP, and moves sessions
between them.  Processes on one machine exclude each other with a lock directory.

What is hard here, and where it is listed with line numbers: `PROJECT.json`,
"hazards".  In short: ports live in two places (records and pool) through crashes,
tombstones and range changes; saves fail before or after their commit; updates
mutate field by field and fail half way; a poll round works with readings of
different moments; counters start again; every await of the queue may return into
another project; a wake, a run, an interrupt and a settlement meet in any order;
streams break while a history is replayed; owners of a lock crash at any step or
are stopped for longer than the lock's life.

What makes each part correct:

* pool: a scan finds a free window whenever one exists, takes exactly it, loses
  no other port;
* store: a public port, a subdomain, a user's proxy name belong to one live
  proxy; mapped ports are reserved and in range; no promise of traffic is made
  that was not recharged;
* mirror: what an owner was told survives; a deletion that was saved stays;
* poller: nothing is charged that was not carried; every full MB is paid once; a
  proxy at its limit gets stopped;
* ingest queue: every task is run to an end, at most three times; the queue never
  comes to rest with work left; the files of two projects are not mixed, and every
  change is saved to the right one;
* coordinator: one drain at a time; no wake after the last interrupt is lost; every
  caller is answered, and told of a success only after an explicit run;
* inbox: what is admitted becomes visible, once and in order;
* durable events: a tail shows the log, in order and complete; a log follows that
  of the workspace that owns the session, and only that;
* file lock: one owner at a time; the lock of a crashed process is taken over.

## 2. The modules

| Module | Models | Composition |
|---|---|---|
| `PortPool`, `PortScan` | the pool: closed forms, and the loop they stand for | `PortScan` checks the closed forms against the loop |
| `Provisioning`, `MCProvisioning` | store, routes, mirror, crashes | uses `PortPool` |
| `UsagePoller`, `MCUsagePoller` | one poll round in detail | details `PollRound` of `Provisioning` |
| `DrainLane` | abstract: what a coordinator promises of a session's lane | |
| `RunCoordinator` | the coordinator | implements `DrainLane` |
| `SessionDrain` | prompts, inbox, runner and provider around the coordinator | extends `RunCoordinator`; implements `DrainLane` |
| `IngestQueue` | the queue of LLM Wiki | |
| `EventTail` | abstract and detailed: a tail of one log | |
| `SessionSync` | the logs of several processes, the loops that follow them, the move | its log and client implement `EventTail` |
| `LeaseLock` | abstract: what a file lock promises | |
| `Flock` | the directory protocol | implements `LeaseLock` |
| `Sums_proofs` | no code: sums over finite sets | used by the proofs of `UsagePoller` and `Provisioning` |
| `Provisioning_proofs`, `SessionDrain_proofs` | the theorems of section 4 | the first also extends `PortScan`, the second reaches `RunCoordinator` |
| the other `*_proofs` | the theorems of section 4 | each extends its module |

### PortPool: the pool as operators

`pool` is `[start, end, available]`.  Each method of the class `PortPool` is an
operator from the pool before, its arguments and `busy`, the ports that other
programs use at that moment, to the pool after: `AfterAllocate`/`Allocated`
(the first window that fits, and the ports a scan discards), `AfterReserve`
(all or nothing), `AfterRelease`, `AfterUpdateRange`, `UnavailablePorts`,
`Unreserved`.  They are closed forms, so that proofs can use them.

### PortScan: the loop they stand for

`allocate_contiguous` step by step: one action per branch of the loop
(`SkipTaken`, `SkipBusy`, `Take`, `GiveUp`).  `LoopMeetsClosedForm` states that
the loop ends with what PortPool's closed forms say.  It is what entitles the other
modules to the closed forms: the run shows it for small pools, `LoopIsClosedForm`
for all.  The names of its variables and of `ScanSpec` differ from those of
`Provisioning`, so that one proof module can extend both.

### Provisioning: users, administrator, poller, crashes

| State | Code |
|---|---|
| `proxies` | `store.proxies`; a total function, status `"absent"` means no such key |
| `counter`, `balance`, `recharged` | `proxy_id_counter`, `User.balance_mb`, `total_recharged_mb` |
| `pool` | `port_pool` |
| `polling` | the poller's task has not ended |
| `disk`, `rangeFile` | the SQLite mirror; `allocatable_range.json` (`NoFile`: missing or torn, both load as the default) |
| `restarts` | crashes so far |
| `told` | history: what the owner of each id was last told; `"unknown"` after an error answer |

One action per route (`Recharge`, `CreateAuto`, `CreateAt`, `CreateHttp`,
`CreateXtcp`, `UserDelete`, `UserDeleteAgain`, `UserSetStatus`, `UserUpdate`,
`AdminStop`, `AdminStart`, `AdminDelete`, `UpdateRange`), one for a poll round with
its traffic as a parameter (`PollRound`), and two crashes (`Restart` between two
handlers, `RestartInRangeSave` in the middle of rewriting the range file).  A
creation with three port modes and three types is four actions because they take
different paths.  A request that is refused is no step unless it changes
something: `UserUpdate` is the route that does, since it assigns name, limit and
subdomain one after another and raises at the first one refused, unsaved;
`CreateAuto` the other, since a scan discards busy ports even when it fails.

A save (`Saved`, `SaveFailed`) succeeds, or raises before the commit (disk as
before) or after it (disk new, answer an error: `users.json` is written last).

What the environment may do is a constant, so that each run and each theorem can
say what it needs: `BusyPorts`, `BootBusyPorts` (ports that cannot be bound),
`SavesMayFail`, `TornWrites`, `AdminDeletable` (which records the administrator
deletes).  Bounds, named as such: `MaxId`, `MaxRecharged`, `MaxDelta`, `MaxUsed`,
`MaxRestarts`.

### UsagePoller: one round in detail

`PollRound` takes the traffic of a round as given; this module has what produces
it.  A tunnel is a name frps lists: a port of a TCP proxy, an HTTP proxy, or the
STCP fallback of an XTCP proxy.  `counter`, `listed` are frps's state (external:
`Connect`, `Carry`, `Reset`); `reading` is what the current round has read.

| Action | Code |
|---|---|
| `ReadList`, `ListFails` | one list of `_list_all_proxy_infos`; without the TCP list the round ends, without another one it goes on as if that list were empty |
| `Apply` | the rest of `poll_once` under the lock: deltas, `_charge_usage`, new baselines, `_apply_stop_rules`, the save; a save that raises ends the task (`stage = 0`) |
| `Connect` | NewProxy as the plugin admits it: active, and traffic left |
| `SetStatus` | stop, start, delete by the user |
| `Restart` | crash and load; frps and its counters go on |

Usage is in bytes, `MB` of them make a MB.  `carried` and `counted` are history:
what each tunnel carried, and how much of that has been charged; the latter is
kept on disk with the usage it explains, so that a crash rolls both back.

A stopped proxy's tunnel stays connected and is charged: `kick_proxy` does
nothing in the code.

### DrainLane and RunCoordinator: who drains a session

`DrainLane` is the promise of the coordinator's doc comment: a lane is idle, queued
or draining; it owes a drain to every wake accepted since the last drain began; it
may not go idle while it owes one; only an interrupt at or after the wake, or the end
of the process, releases it.

| State of `RunCoordinator` | Code |
|---|---|
| `entries` | the `Entry` objects that exist at once: at most one that settles and its successor, so two slots |
| `active`, `boundary`, `closed` | `active.get(key)`, `interruptSeq.get(key)`, the scope's finalizer |
| `callers` | the deferred (`done`, `explicitWaiter`, `settled`) that each call of `run` awaits; `"again"`: it was told of a settlement and calls `run` once more; `forced` is history |
| `unserved` | history: the accepted wakes that no drain began after |

Every transition of the code is synchronous, so each call is one action, named for
the branch it takes: `Wake` (ignored, starts, follows), `Run` (closed, starts, retries
after a stopping entry, upgrades a wake, joins), `Begin` (a successor yields before it
drains), `Settle` (`SettleRestart` in the same entry, `SettleIdle`, `SettleSuccessor`
in a fresh one), `SettleDetached` (of an entry that is no longer the active one),
`Interrupt` (stale, idle, spares a newer wake, stops), `Close`, `Restart`.  A fiber that
was interrupted cannot end with a success (`MayExit`): Effect settles it with the
interruption even when the drain has just returned.

### SessionDrain: prompts, inbox and runner

The module extends `RunCoordinator` and puts the real drain in the place of its
`draining` phase.

| State | Code |
|---|---|
| `inbox`, `latest` | table `session_input`; the sequence of the session's aggregate |
| `calls` | calls of `execution.wake` and `execution.interrupt` whose commit is done and which have not reached the coordinator |
| `body` | where the drain of each slot stands in `SessionRunner.run` and `runTurnAttempt`; `given` is history: what it promoted |
| `promised` | history: woken inputs whose drain neither failed nor was interrupted since |

`Prompt` commits and sends, `RetryPrompt` is the exact retry (it wakes with the stored
sequence number), `RequestInterrupt` publishes and sends, `Deliver` is the arrival.
With `InOrder` calls arrive in the order of their commits.  The drain takes one
database statement per step (`AsksSteer`, `AsksQueue`, `TurnBegins` with the
promotion's cutoff, `PromotesQueued`, `PromotesSteers` row by row, `AsksMore`,
`AsksOpen`), and the provider turn is a choice of outcomes: it goes on, is built anew,
ends, or fails.  Prompts, wakes and interrupts fall between any two.

### IngestQueue: every await a point of interleaving

| State | Code |
|---|---|
| `queue`, `processing`, `active` | the module variables; `currentProjectId` and `currentProjectPath` are always set together |
| `file` | `ingest-queue.json` of each project |
| `fiber` | what each unfinished call awaits, the task object it took, whether that object is still in the queue (`holds`), and the content its write carries |
| `issued`, `ops`, `faults` | ids given out; what the user did; reads and writes that failed |
| `newest`, `kept` | history: the call that awaits the newest save of the open project; whether that save was the last write to reach the file, whole |

Functions that end in `saveQueue` and `processNext` share the awaits `kick` and
`again`.  `processNext` is four awaits (`lookup` of the project, `starting`,
`ingesting`, `ending`), each with an action for the project that was switched
meanwhile (`LookupLate`, `StartLate`, `IngestedLate`), for failures (`LookupFails`,
`StartFails`, `IngestFails`) and for the normal continuation.  `pauseQueue` and
`restoreQueue` replace the task objects, after which a running fiber marks an object
nobody sees: `Detach` says so.  The abort of a run and the run's timeout only make
`autoIngest` throw sooner; it may throw at any time here.  `Exit` ends the process.

Writes land in any order: each is a task of a thread pool, and nobody waits for the
one before.  A write may fail or be cut by the end of the process (`Fault`): the file
stays as it was or becomes unreadable.  `saveQueue` swallows the error, and the queue
goes on.  A file that cannot be read or parsed counts as an empty queue
(`RestoredNothing`), and the next save overwrites it.

`Patient` says that the user lets a project open before acting in it, and does not
close it twice.

### EventTail and SessionSync: logs that follow each other

`EventTail` is a durable tail of one aggregate: the signal (a sliding queue of
capacity 1) is registered before the first read, commits set it, and the tail reads
again whenever it takes it.

`SessionSync` has one session whose log is kept by `Home`, the control process, and
by remote workspaces.

| State | Code |
|---|---|
| `log`, `owner` | the rows of table `event` and `owner_id` of its sequence, at each process |
| `phase`, `stream`, `known`, `batch` | the loop of `syncWorkspaceLoop` (`dead`, `down`, `asked`, `replaying`, `up`), the events on the SSE stream, the history request, the events to replay; for `Home`, the step of `sessionWarp` |
| `warp` | where from and where to |
| `tail`, `shown` | a client's tail of Home's log: an instance of `EventTail` |

`Replay` is `commitSyncEvent` with the branches of the replay (fenced by another owner,
there already, diverging, an id used twice, a gap); `Refused` is what it dies of.
`Connect`, `Answer`, `CatchesUp`, `CatchUpDies`, `CaughtUp`, `Receive` are the loop:
a refused event ends it while it replays history, and is logged and dropped when it
comes from the stream.  `AskFails` and `Restart` are failed requests and the end of
Home.  `Cut` is the two ends of a stream: one that just ends is connected again, one
that fails with an error ends the loop, which stays dead until a client starts it.
`Warp`, `Claim`, `ReadRows`, `Copy`, `CopyDies`, `Steal`, `Aborts`, `Placed` are the
move; a request of it that fails may still have had its effect.  A workspace goes on publishing after the session was moved away (`Write`,
`Lived`): a prompt that started there may run on.

### LeaseLock and Flock: a lock made of directories

`LeaseLock` is one holder at a time, and only the lock of a process that is gone is
taken away.  In `Flock`, `at` is the next call of each process to the file system,
`lock` and `breaker` the two directories: who made them, which files are in the lock,
its token, and which of its files are `old` (older than `staleMs`).  A removal (`rm`,
recursive) is several steps, wherever the code makes one: it lists the directory
(`List`), unlinks by name what it saw, in any order and whoever wrote it (`Unlink`),
and removes the directory if that is empty (`Rmdir`).  `todo` is what it has yet to
unlink.

What nobody keeps becomes old (`LockExpires`, `BreakerExpires`).  A heartbeat makes
itself young again (`Refresh`) and leaves `meta.json` to age while the lock is held
(`HeldLong`); anything becomes old under an owner that is stopped for too long (`Late`).
Which of the two happen is the constant `Slowness`, how often `MaxSlow`.
`Stale` asks the heartbeat, then `meta.json`, then the directory, as the code does.
`Crash` ends a process after any step.  `intact` is history: no process was late, no
breaker was left behind, and no lock was given back that had been held for longer than
`staleMs`; the last because its `meta.json` alone makes it stale once the heartbeat
is unlinked (section 6).  `effect-flock.ts` repeats the protocol in another style.

## 3. The runs

| Run | Question | Instance | Why it is enough |
|---|---|---|---|
| `port_scan` | does the loop compute the closed forms? | every pool within ports 1..5, requests up to 3, every set of busy ports, 42k states | a window of 3 in 5 ports has all alignments: at both ends, around gaps and busy ports |
| `ports` | are ports exclusive and acknowledgements kept? | 2 users, 2 ports, 3 ids, port 2 busy at times, failing saves, torn writes, 1 crash, 303k states | a conflict takes two proxies and one port; a third id allows re-use after a deletion |
| `durable` | what survives crashes when saves succeed? | 2 users, ranges 1-3, 1-4 and 2-3, recharges, 1 crash, 191k states | ranges that grow, shrink and leave the first port out |
| `quota` | is traffic promised once, are names unique, do saved deletions stay? | 1 user, HTTP and XTCP, 2 names, 2 subdomains, limits 1 and 2, an administrator who deletes and purges, failing saves, 1 crash, 265k states | renames need two names and two proxies; a raise and a cut need two limits; an id given out again takes a deletion, a crash and a creation |
| `usage` | is nothing overcharged? | 1 TCP proxy with 2 ports, 4 bytes, 2 bytes per MB, failing lists and saves, 1 reset, 1 crash, 2.9M states | a remainder, a full MB, a balance at 0, and a reset between any two steps |
| `limit` | is a proxy at its limit stopped? | a TCP and an HTTP proxy on one balance, 3 bytes, failing lists, 1 crash, 107k states | a liveness run; two lists, two proxies |
| `session` | are prompts served, callers answered, drains one at a time? | 2 commits (two prompts, or a prompt and an interrupt), 2 calls on their way, 1 retry, 1 caller, shutdown and restart any number of times, 196k states | a follow-up takes a second wake, a suppression an interrupt; joining, retrying and upgrading need one caller |
| `ingest` | does the queue mix anything, rest with work left, lose a change or a task? | 2 projects, each with a task from an earlier session or not, 2 tasks, 2 calls at once, 3 acts of the user, 1 fault, 2 attempts per task, 831k states | open, close, open the other, while a run of the first goes on; a write that fails or is cut, or a file that cannot be read, before or after that |
| `sync` | do moves keep the session where it is looked for, and does Home follow? | Home and 2 workspaces, a session that one of them created, 3 events, 2 moves, 1 failure, 913k states | there and on to the other workspace, or there and home; a cut at any point before, during and after a move |
| `flock` | is the lock exclusive, and taken over when it was left behind? | 3 processes, 2 crashes, 1 late process or 1 lock held for long, 317k states | an owner and a breaker crash, with one survivor; an owner is contended by two while it is slow |
| `lost_wake`, `left_breaker` | refute a statement of the repository (section 6) | | |

Properties.  `TypeOK` in each module; in `Provisioning` it also says that
balances stay non-negative.

* Platform: `PortsExclusive`, `OwnedPortsReserved`, `OwnedPortsInRange` and
  `NoPortLost` relate records, pool and range.  `AckedProxySurvives` relates what was
  answered to what a restart loads; `DeletionSticks`, what was once saved to all that
  may happen to it later, the ids that are given out after a crash included.
  `QuotaCovered` and `NamesAndSubdomainsUnique` speak of requests that fail half way.
  `NeverOvercharged` and `BalanceTracksUsage` compare the history of frps with the
  books of the platform; `OverLimitStopped` is liveness.
* Session: `AtMostOneDrain`, `DemandKept`, `JoinedNotForgotten`, `AnswerMeansForced`
  and the refinement `LaneSteps` of the coordinator, through the whole drain;
  `WakePromotes` (no provider call without an input), `PromotedInOrder`, and the
  liveness properties `PromptServed` and `CallersAnswered`.
* Ingest queue: `OwnFile`, `NothingStranded`, `FileHoldsQueue`, and `TasksSettle`
  (liveness).
* Sync: `FollowsWorkspace`, `WorkspaceHasSession`, `FormerOwnerIgnored`,
  `TailShowsLog` with the refinement `TailSteps`, and `CatchesUpAgain` (liveness: of
  workspaces whose loop has not died).
* Lock: `MutualExclusion`, the refinement `LeaseSteps`, and `TakenOver` (liveness).

Bounds.  Every bound is a constant named `Max...` and explained where it is declared;
none is part of a property.  `MaxRetries` of `IngestQueue` is the code's `MAX_RETRIES`
(2 instead of 3 in the run); when two calls run one task, runs past it are not counted.

Symmetry (users; in `quota` also names and subdomains) is used in runs whose
formulas treat those values alike; the runs with liveness use none.  `quota` has a
VIEW without `told` and with the range file reduced to the range it loads as:
none of its properties, and no guard, depends on more.

`CHECK_DEADLOCK FALSE` appears where the system may really stop: `port_scan` (the scan
has returned), `usage` (the poll task has died and the bounds are used up), `ingest`
(the user leaves the application idle), `sync` (the client stops writing).  Everywhere
else, `session` and `flock` included, deadlock is checked.

For every property of a passing run the project has a mutant: a variant of a
modelled definition with a plausible bug (a dropped balance check, a forgotten
save, a check not repeated after an await, a follow-up looked for only after a
failure, a breaker that does not test again, ...), marked "Mutant" in the modules.
TLC finds the property violated when the variant replaces the definition.

### Fairness

* `UsagePoller`.  `WF(Apply)`: a round whose readings are in runs to its end, for
  nothing blocks it but the lock, which every holder releases.  `SF` on each list's
  `ReadList`: frps may fail to answer any number of times, but not for ever (the task
  retries every interval).  Nothing is assumed of users, who may start a stopped proxy
  again for ever, of traffic, or of crashes.  Saves do not fail in `limit`: if they
  do, the task ends and the property is false.
* `SessionDrain`.  `WF` of the arrival of the call that is first, of a caller told to
  run again, of a queued fiber, of each statement of the drain, of its end and of the
  cleanup after an interrupt: they are fibers and queries of one process.  `SF` of
  `ProviderEnds`: the model may ask for tools, and a turn may be rebuilt, any number of
  times but not for ever (the code bounds neither).  Nobody has to prompt, call
  `resume`, interrupt or stay.
* `IngestQueue`.  `WF` of `Continues`: files and registry answer, and `autoIngest` is
  raced with a timeout.  The user has to do nothing.
* `SessionSync`.  `WF` of the loop of each workspace: while it lives it connects in the
  end (it retries with a backoff for ever) and its requests are answered; failures are
  bounded.  A dead loop need not be started (a stream that fails with an error ends
  one): `CatchesUpAgain` promises nothing of it.  Moves and writes need not happen.
* `Flock`.  `WF` of the steps of an attempt and of the retry after a pause, and of the
  passing of time.  Nobody has to begin or to give the lock back.

## 4. What is proved

The modules `*_proofs` hold theorems for every value of the constants: any number of
users, ports, tunnels, callers, projects, tasks, workspaces, events, processes and
failures.

| Module | Theorem | States | Assumes |
|---|---|---|---|
| `Provisioning_proofs` | `LoopIsClosedForm` | `LoopMeetsClosedForm` of `PortScan` | types |
| | `TypeCorrect` | `TypeOK` | types of the constants |
| | `AcksSafe` | `AckedProxySurvives` | types: saves may fail, writes may tear, the administrator may purge |
| | `NamesSafe` | `NamesAndSubdomainsUnique` | types |
| | `QuotaSafe` | `QuotaCovered` | types |
| | `PortsSafe` | `PortsExclusive` | `FixedRange`: one range, every port bindable at boot, no tombstone purged; or `NothingUnsaved`: saves succeed, no torn file, every port bindable at boot, no deletion by the administrator |
| | `MappedNeverFree` | `OwnedPortsReserved` | `FixedRange` or `NothingUnsaved` |
| | `RangeCovers` | `OwnedPortsInRange` | `FixedRange` or `NothingUnsaved` |
| | `Durable` | `DeletionSticks` | types: saves may fail, writes may tear, the administrator may delete and purge unsaved |
| | `NothingReturns` | `NoResurrection`: a record that is gone comes back only with a mirror its deletion never reached | types |
| | `NothingLeaks` | `NoPortLost` | `BusyPorts = {}`: no other program holds a port while the pool is scanned |
| `UsagePoller_proofs` | `PollerTypes` | `TypeOK` | types; finitely many proxies and tunnels |
| | `ChargesSafe` | `NeverOvercharged` | the same |
| | `BooksBalance` | `BalanceTracksUsage` | the same |
| `SessionDrain_proofs`, on the coordinator | `CoordinatorTypes` | `TypeOK` | types |
| | `OneDrainAtATime` | `AtMostOneDrain` | types |
| | `NoCallerForgotten` | `JoinedNotForgotten` | types |
| | `SuccessMeansForced` | `AnswerMeansForced` | types |
| | `NoWakeLost` | `DemandKept` | `Orderly`: calls arrive in order, or nobody calls `run` |
| | `CoordinatorImplementsLane` | `LaneSteps` (refinement of `DrainLane`) | `Orderly` |
| `SessionDrain_proofs`, on the Session | `SessionUsesCoordinator` | `DrainSpec => Spec`: a Session is a behaviour of the coordinator | types |
| | `SessionTypes` | `DrainTypeOK` | types |
| | `WakesPromote` | `WakePromotes` | types |
| | `AdmissionOrder` | `PromotedInOrder` | types |
| | `SessionKeepsCoordinator` | the first four of the coordinator, for the Session | types |
| | `SessionKeepsLane` | `DemandKept`, `LaneSteps`, for the Session | `Orderly` |
| `IngestQueue_proofs` | `IngestTypes` | `TypeOK` | types |
| | `ProjectsApart` | `OwnFile` | `Patient`; writes land in any order and may fail |
| | `NeverStranded` | `NothingStranded` | `Patient`; writes land in any order and may fail |
| | `RestartLosesNothing` | `FileHoldsQueue` | types |
| `EventTail_proofs` | `TailInOrder`, `TailMissesNothing` | `ShownInOrder`, `NothingMissed` | any events |
| `SessionSync_proofs` | `SyncTypes` | `TypeOK` | types |
| | `SyncImplementsTail` | `TailSteps` (refinement of `EventTail`) | types |
| | `ClientSeesLog` | `TailShowsLog` | types |
| | `FormerOwnersIgnored` | `FormerOwnerIgnored` | types |
| | `RoutedWorkspaceHasIt` | `WorkspaceHasSession` | types |
| | `HomeFollows` | `FollowsWorkspace` | types |
| `Flock_proofs` | `FlockTypes` | `TypeOK` | types |
| | `OneHolder` | `MutualExclusion` | types; the property speaks of what happens while `intact`: nobody late, no breaker left behind, no release after more than `staleMs` |
| | `FlockImplementsLease` | `LeaseSteps` (refinement of `LeaseLock`) | the same |

The named assumptions are not conveniences: dropping a conjunct of one leads to the
counterexamples of section 6.  That proxies and tunnels are finitely many is part of
the model's own assumption: the code keeps both in dictionaries, and the sums of the
poller run over them.

The arguments:

* `LoopIsClosedForm`.  The closed form `Discarded` is the solution of a recurrence over
  the starts of the range, which exists (`DiscardedExists`, by the least start where it
  would not).  `ScanInvariant`: what the loop has taken off the free set is what the
  windows before `start` give up, and no window before `start` fits.  An allocation
  discards busy ports only (`OnlyBusyGivenUp`); `NothingLeaks` uses it.
* `NamesSafe`.  The uniqueness of names must hold of the records on disk too, which come
  back after a crash; creating and renaming look at memory only.
* `QuotaSafe`.  `QuotaInvariant` says of memory and of disk that balance and the limits
  of the paid proxies stay within what was recharged, and that ids not given out yet
  have no record.  What one step adds to the sum of the limits it takes off the balance;
  `Sums_proofs` supplies the law that a sum changes by what its one changed term does.
* `NothingLeaks`.  A port of the range leaves the free set only for the record that maps
  it, and a record that goes gives it back.  With a range change or a boot the free set
  is rebuilt as what no live record maps.
* `PortsSafe`, `MappedNeverFree`, `RangeCovers`.  Exclusiveness of the records in memory
  says nothing of those a crash brings back.  With one range, `PortInvariant` adds that
  the records on disk are exclusive too, that both lie in the range, and that the pool
  has it: then the all-or-nothing reservation at boot cannot fail, and no relation
  between memory and disk is needed.  When every save succeeds, `MirrorInvariant` is that
  relation: the same records are live, with the same ports, in memory and on disk, and
  the range file loads as the pool's range.
* `AcksSafe`.  `AckInvariant` says of memory and of disk separately that they hold
  what the owner was told; a save that fails leaves either snapshot, and what is
  told then is nothing.
* `Durable`, `NothingReturns`.  A step other than a crash makes at most the record with
  the next id live (`LiveAgain`), and the mirror holds what it held or what is in memory
  (`HandlerShape`).  `TombstoneInvariant`: the counter bounds the ids in memory and on
  disk, and what is deleted on disk is not live in memory.  The first part is what a
  crash could break, for the counter is not saved: it is taken from the loaded records.
* `ChargesSafe`.  `ChargeInvariant` says for the pair (baseline, charged) in memory,
  and again for the pair on disk, that charging up to the present counter would
  stay within what was carried; and for a reading, that it can be charged, and that
  it can serve as a baseline afterwards.  The second is what a reset between
  reading and use would break.
* `BooksBalance`.  `BooksInvariant`: the books balance in memory, and separately on
  disk, which is what a crash loads.
* The coordinator.  `IInv` adds to the types that the entry which accepts calls is the
  only one that drains, and that a live entry has a demand.  `JInv`: a caller that
  joined waits on an entry whose fiber will run, or that is stopping and whose successor
  it will be told to join.  `FInv`: such a caller has seen an explicit drain succeed, or
  one is still due before its entry settles.  `DInv` says that owed wakes are followed
  by a demand; out of order but without explicit runs, by a wake at least as new, which
  is what an interrupt compares.  The refinement maps the entries to the lane's state.
* The Session.  A step of the Session is a step of the coordinator or leaves it alone
  (`DrainStepInv`), so the theorems about the coordinator hold of the Session as they
  are.  `InboxInv` says what each statement of a drain may assume of the inbox: a woken
  drain on its way to the provider has promoted an input or has found one that it will
  promote, and only the one live drain could take that away, which is why
  `AtMostOneDrain` is needed.
  `PromotedInOrder` needs that no row is newer than the last event.
* `IngestQueue`.  `OInv`: the tasks of the queue, of each file and of each content on its
  way to a file belong to the project they are for, and who loads or closes a project
  works on the open one, a closing one alone.  `WorkInv`: while a task of the open project
  waits, some fiber will look at the queue again; while the queue is busy or a task counts
  as running, some fiber has it in hand.  `SaveInv`: the call that awaits the newest save
  of the open project writes what the queue holds; it names neither the order of other
  writes nor what became of them.
* `EventTail`.  `TInv`: what is shown is a prefix of the log, and if the signal is clean,
  what the query found, or what was shown, reaches its end.
* `SessionSync`.  A step changes at most one log, by one event.  `CoreInv` says where
  the events of streams, answers and copies come from: a stream carries what its
  workspace published, an answer what is in the workspace's log, the rows of a copy what
  is in Home's.  With it `LogSteps` tells the two kinds of appended events: new ones
  and copies.  The rest is about logs alone: all begin with one event and a place is
  named only by a log whose workspace has named it before (`HasInv`); a workspace
  holds its own events and Home's (`Written`); before the first move Home holds nothing
  its workspace does not (`Unmoved`).
* `Flock`.  `LInv`: as long as `intact`, the directory of an owner is its own, with the
  files it has written, of which only `meta.json` may be old before the release and none
  during it (`OwnersLock`, `OwnersFiles`); a breaker belongs to the contender that breaks;
  what is removed for being stale is the lock of a process that is gone (`RemovesDead`);
  and a removal has listed all that is in the directory, so that its last step hits no
  other's (`RemovesAll`).

The sums over proxies and tunnels of the community modules are folds that take a chosen
element at a time.  `Sums_proofs` proves without an induction scheme that they have a
value: were there subsets of a finite set without it, there would be a smallest one.

The strengthened invariants of `Provisioning` and `IngestQueue` were checked by TLC on
the instances of the runs before they were proved.

Every safety invariant and every action property that a passing run checks is stated by
a theorem.  Left to TLC are the liveness properties (`OverLimitStopped`, `PromptServed`,
`CallersAnswered`, `TasksSettle`, `CatchesUpAgain`, `TakenOver`) and the fairness of the
refinements, which the prover cannot treat; and that the named assumptions cannot be
dropped, which takes a counterexample.

## 5. What is not modelled

* Platform: registration, sessions and passwords, token rotation; read-only routes;
  script rendering; the web frontend, demo server and older desktop fork; fields that
  no decision reads (online flags, speeds, `last_seen_at`, local addresses and ports,
  bandwidth and HTTP options); the plugin except for the admission of a tunnel.  In
  `UsagePoller` users neither create proxies, change limits nor recharge: Provisioning
  has those, with one number per round for all the traffic.
* Desktop client and deployment.
* Coordinator: `awaitIdle`, wakes and interrupts without a sequence number (interrupts
  of sessions that do not exist), two sessions at once (their entries share nothing).
* Runner: tool calls, compaction and the content of a turn; sessions that plugins run.
* Ingest queue: enqueueing several files in one call (it is a sequence of
  `EnqueueNew` and `Enqueue` with one save), the review sweep after a drain and
  `project-mutex.ts`, the counters for display, the content of what is ingested.  The
  cleanup of the files of a cancelled run is left out because it never runs: the list
  it reads (`ingest-queue.ts` 289) is filled only after the run has ended.
* Dedup queue, chat, search and user interface of LLM Wiki.
* Events and sync: local workspaces as places of their own (they share Home's log),
  removal of sessions and workspaces, the copy of a patch with the move, the wait of a
  routed request for its fence, two moves at once, a history of several sessions in one
  answer.  A `session.updated` event that repeats the place its process already knows
  counts as one that does not move the session.
* File lock: the three stats of a staleness test are one step (the comments of `Flock`
  say why), and so is the removal of the breaker, which is always empty.  I/O errors
  other than a file or directory that is there, missing or not empty.
* The rest of OpenCode and LLM Wiki: providers, tools, LSP, permissions, configuration,
  terminal and web interfaces, the generated SDK, LLM prompts and parsers, search.
  They are rendering, parsing and calls of external services, and make up most of the
  repository's lines.
* Time: intervals, heartbeats, backoff and session ages, except as the order of events.

## 6. Where code and documentation disagree

Two runs refute a statement of the repository, quoted in `PROJECT.json`.

| Run | Refuted | What happens |
|---|---|---|
| `lost_wake` | `DemandKept` | a drain is under way; wake 3 arrives and then a call of `run`: `coalesce` turns the pending wake into a run and drops its sequence number; then the call of interrupt 2 arrives, later than the wake it precedes, and clears whatever is pending that has no newer number.  Prompt 3 stays in the inbox and nothing looks at it. |
| `left_breaker` | `OneHolds` | one process crashed with the lock, another with the breaker.  Two contenders find the breaker old; the first removes it, makes its own, cleans up and makes a new lock; the second removes the breaker it tested before, by now another's, makes its own and passes its staleness test, and removes the new lock. |

With calls in order (`InOrder`) the first cannot happen, and that is proved.  With
processes that are never late, no breaker left behind and no lock given back after more
than `staleMs`, the second cannot, which is proved too.

More was seen while modelling.  The first list is what the code does where a run or a
theorem assumes otherwise, or a property is worded so as to allow it; where changing the
constants of a run shows it, that is said:

* `admin_api.py` 240: the administrator purges a record that its user deleted; its
  ports, which another proxy owns by now, are released and given out again
  (`ports` with `AdminDeletable <- AnyRecord` refutes `PortsExclusive`).
* `main.py` 67: one port in use at boot (an frps that outlived the backend) makes the
  single reservation fail: all loaded ports are free (`ports` with
  `BootBusyPorts = {1}` refutes `OwnedPortsReserved`).
* `persist_config.py`: a crash while the range file is rewritten brings back the default
  range, which leaves mapped ports out (`durable` with `TornWrites = TRUE` refutes
  `OwnedPortsInRange`).
* `admin_api.py` 237: the administrator's deletion is never saved, and a restart undoes
  it; theorem `NothingReturns` says that nothing else does, and `Durable` that a deletion
  which a later save has taken along stays.
* `user_api.py` 483: a deletion whose save failed is acknowledged when it is retried,
  without being saved: the record is a tombstone by then.  A restart undoes it.
* `poller.py` 113: a save that raises in a round ends the poll task; nothing is metered
  or stopped any more (`limit` with `SavesMayFail = TRUE` refutes `OverLimitStopped`).
* `ingest-queue.ts` 61 against `llm_wiki/README.md` 120 (the queue survives a restart):
  writes are issued without waiting for the one before, so that an older queue may land
  after the newest one; `FileHoldsQueue` speaks of the newest save that landed last.
* `ingest-queue.ts` 62: the error of a save is swallowed, and nothing tries again: until
  the next change the file is older than the queue, or half written.
* `ingest-queue.ts` 79: a file that cannot be read or parsed counts as no tasks, and the
  next save overwrites it.  With a failed registry lookup no failure of the disk is
  needed: it saves the queue that `restoreQueue` has just emptied, before the file is read.
* `ingest-queue.ts` 396: with `Patient = FALSE` a project that is closed while it is being
  opened leaves its tasks in the file of another one (`ingest` refutes `OwnFile`).
* `flock.ts` 264 against `flock.ts` 227 ("Heartbeat prevents long critical sections from
  being evicted as stale"): a process has held the lock for longer than `staleMs` and
  releases it; nobody is late and nobody crashes.  `rm` unlinks the heartbeat first, which
  leaves `meta.json` as the age of the lock (135-138), and nothing has touched that since
  the lock was made (230).  A contender finds the lock stale, twice, and cleans it up; one
  of the two removals, each by path and by name, empties and removes the new directory of
  the next owner (`left_breaker` with `MaxCrashes = 0`, `MaxSlow = 1` and
  `Slowness = {"long"}` refutes `OneHolds`).  The order of the two unlinks is the file
  system's, as the model has it.
* `workspace.ts` 411: an event stream that fails with an error ends the loop of its
  workspace (489 catches it there); nothing connects again until a client starts it.

The second is what a model with the case left out, or a property not stated, showed on
the way:

* Pool: a busy port found in a scan leaves the pool until a restart or a range change
  (`port_pool.py` 44-48).  Traffic is paid when a proxy is created and deducted from the
  balance again when it is used (`poller.py` 262, against `poller.py` 33).
  `docs/global_document.md` 186-191 says a balance of 0 stops proxies, which nothing does.
* Inbox: a drain that fails leaves the inputs woken before it to the next wake, and
  after a crash nothing wakes pending inputs (`specs/v2/session.md` 161-163 says so).  The
  exact retry of a prompt wakes with the number of the first admission, which a later
  interrupt may suppress.  A caller of `run` that joined a chain gets the exit of the
  chain's last drain, which may be that of a wake.
* Ingest queue: two calls of `processNext` that both wait for the registry run one
  task twice; the timeout of a finished run aborts whatever runs when it fires; tasks
  enqueued while `restoreQueue` reads the file are lost.
* Sync: the workspace that takes a session publishes the steal, and Home the move, with
  the same sequence number: Home's log and the workspace's diverge there, and a later
  replay of history dies of it (`event.ts` 304).  `patch` (`session.ts` 780) reads the
  session and then publishes all of it, so that an update may restore the place from
  before a move.

## 7. Plan

1. **FrpsPlugin**: sessions of frpc with a user and a token version; Login, NewProxy,
   Ping, CloseProxy in any order and delayed; token rotation; stop, delete and the
   other proxy that keeps a session alive.  Composed with UsagePoller's `Connect`.
2. **Port leases**: an abstract specification (a set of exclusive leases, granted and
   returned) that Provisioning implements under `FixedRange`, by a refinement
   mapping; the same for metering (`carried`, `counted`) and UsagePoller.
3. **Desktop runtime**: frpc processes and the enabled set, the OpenCode stack and its
   project id, exits and restarts.
4. **Project lock** of LLM Wiki (`project-mutex.ts`) around the runs of the queue, and the
   dedup queue.
5. **Sync**: patches that read the session before they publish it, two moves at once.
6. **Proofs**: the refinements of 2; `PortsExclusive` under weaker assumptions than
   `FixedRange` or `NothingUnsaved` (ranges that only grow, say).
