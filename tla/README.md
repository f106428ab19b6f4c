# A TLA+ model of oxplow's durable work

Oxplow is a desktop application for working with coding agents. A Tauri shell
owns the windows and starts one `oxplow-daemon` per project; the daemon keeps
everything in one SQLite database with a single writer, records what happens
in an event log, and lets extensions react to it. The hard part of the system
is the work that must survive a crash, a stall or a race: long-running
extension jobs, the delivery of logged events, reactions that reach outside,
the activation of the extensions themselves, and what oxplow hears of the
disk and the processes around it. That is what this project models.

## Inventory

| Part | State | Operations | Hard behaviour | Module |
| --- | --- | --- | --- | --- |
| Extension jobs (`extension_job.rs`, `extension/extension_job_*.rs`, `extension_job_store.rs`) | `extension_job`, `extension_job_attempt`, observations; the scheduler's active set and cursor | enqueue, cancel, scan, claim, renew, publish, confirm, recover, rebind | leases against a wall clock, fencing tokens, two processes on one database, late workers, crashes | `ExtensionJob`, `JobDispatch`, `JobScan`, `JobPromise` |
| Event pump and log (`event_pump.rs`, `event_log_store.rs`, `event_retention.rs`) | `event_log`, checkpoints, dead letters; one lock per async consumer | append, run_sync, run_slot, retry, discard, settle, sweep | at-least-once delivery, order between consumers, handlers outside transactions, check-then-lock | `EventPump` |
| Extension activation (`extension_activation.rs`, `extension_catalog.rs`, `extension_deploy.rs`) | live set, staged change, recorded deployments, the generation boundary | deploy, roll back, enable, disable, boot | a commit and a swap that must look like one; failures in turn; callers that go away | `ExtensionActivation` |
| Effects (`effect_triggers.rs`, `effect_run_store.rs`) | `effect_run` attempts, health | react, retry, backfill, automatic resend, recovery | a step outside oxplow that may or may not have happened | `EffectRuns` |
| Commands, proposals, undo (`commands/`, `proposal_store.rs`) | audit, proposals, undo claims | propose, approve, decline, undo | a claim before an external run, released or lost | `CommandClaims` |
| Paced collectors (`pacing.rs`) | `pending_run` | defer, run when due, clear | an event that arrives while its run goes on | `Pacing` |
| Contribution order (`ordering.rs`, `descriptors.rs`) | none | order, take out what cannot be ordered | cycles, consumers waiting on each other | `ContributionOrder` |
| Filesystem watch (`oxplow-fs-watch`) | watches, pending paths and rescans | route, follow, refilter, take | bounded queues, lost wake-ups, directories that appear and go | `FsWatch` |
| Snapshot capture (`snapshot_capture.rs`) | dirty set, staging, snapshot rows | mark dirty, sweep, take, record | an edit that reaches the disk just before or during a take | `SnapshotCapture` |
| Blob store (`blob_store.rs`) | blobs, temporary files | write, record, clean up | a cleanup with no lock against captures | `BlobStore` |
| Terminals (`terminal_sessions.rs`) | sessions by key, input queues | open, send, close | get-or-spawn, exits, input queued for a process that never comes | `TerminalSessions` |
| Daemons (`daemon_supervisor.rs`, `run.rs`, `windows.rs`) | running daemons, `daemon.json`, the instance lock | open, close, start, stop, lifeline | check-then-spawn, orphans, two apps | `ProjectDaemons` |
| Language servers (`lsp_sessions.rs`) | sessions by key, document mirror | ensure, notify, restart | get-or-spawn without the lock | none |
| Efforts, tasks, streams, threads | their tables | open, close, move | one open effort per thread | none |
| Metrics, facts, hooks, chat, providers, git, frontend | their own | reads, aggregation, external processes | none of their own | none |

The parts meet in the database: a producer's transaction appends events, the
pump delivers them, a consumer enqueues jobs, defers a collector or runs an
effect's commands, a finished job appends `contribution.job.completed`, which
the pump delivers in turn. Activation changes what all of them may run between
any two of their steps. The watch feeds the snapshots.
`PROJECT.json` lists every part with the reason for what is left out, and the
hazards, each at the line where it bites.

## Modules

| Module | What it is |
| --- | --- |
| `ExtensionJob` | the pure lifecycle: the row, `validate`, and each `JobEvent` as a guard (`CanClaim`, ...) and a row (`Claim`, ...) |
| `JobDispatch` | the tables, commands, scheduler, dispatches, recovery, crashes and the clock, over `ExtensionJob` |
| `JobPromise` | the abstract specification: a job waits, works and ends |
| `JobDispatchProofs` | the theorems about `JobDispatch`, that it implements `JobPromise` among them |
| `EventPumpProofs`, `ExtensionActivationProofs`, `EffectRunsProofs`, `ProjectDaemonsProofs` | the theorems about the module of that name |
| `PartsProofs` | the theorems about `CommandClaims` and `ContributionOrder` |
| `SnapshotProofs` | the theorems about `SnapshotCapture` and `BlobStore` |
| `OutsideProofs` | the theorems about `FsWatch` and `TerminalSessions` |
| `JobScan` | the scheduler's pages and cursor |
| `EventPump` | log, checkpoints, dead letters, sync runs, async slots, settle, sweep, crashes |
| `ExtensionActivation` | staging, holding back, publication, readers, the owner, restarts |
| `EffectRuns`, `CommandClaims`, `Pacing`, `ContributionOrder` | what happens to one event beyond the pump |
| `FsWatch`, `SnapshotCapture`, `BlobStore` | from a write on the disk to the bytes of a snapshot |
| `TerminalSessions`, `ProjectDaemons` | processes |
| `MCJobDispatch`, `MCEventPump`, `MCSnapshotCapture` | instances of one module |
| `MCProcesses`, `MCDelivery`, `MCOutside`, `MCSnapshots`, `MCParts` | instances of several |

The last five are sums: components that share no state are checked in one run,
and a variable `part`, chosen in the initial state, says which of them a
behaviour is about. The state space is the union of the parts', not their
product, and each part's properties hold trivially in the initial state the
others keep it in.

### ExtensionJob and JobDispatch

`job[j]` is the row, `attempts[j]` its attempt rows, `sup[d][j]` the dispatch
of job `j` by process `d`. A dispatch is a place in `run_one`, `supervise` or
`finish_completion` and the values those functions hold across an await: the
token, the revision of the row last read, the deployment, whether cancellation
was requested, the last renewal, the completion and the number of CAS rounds.
One action is one transaction or one decision on what a transaction returned:

- `ScanQueued`, `ReadJob`, `RebindJob`, `Authorize`, `ClaimJob`, `Reauthorize`:
  the scheduler's scan and `run_one`. The token is computed from the row that
  was read, before the claim is written.
- `WorkerCompletes`, `WorkerStops`, `PollFenced`, `PollStop`, `PollRenew`,
  `RenewLease`, `StopJob`, `GraceOver`, `Confirm`, `RecoverAfterLease`:
  `supervise` and what it calls. `StopJob` is `request_cancellation`, which
  names the job and not the attempt.
- `PublishRead`, `PublishComplete`, `PublishAbort`: `finish_completion`.
- `RecoverPage`, `DispatchFails`, `Crash`, `Enqueue`, `CancelCommand`: the
  recovery scan, errors, process death, and the commands.
- `Activate` is external: the deployment the live catalog offers changes.
  `Tick` and `StepBack` are the wall clock.

Abstractions. Read-modify-write loops that retry on a revision conflict are
one step at the write that succeeds; the claim, the rebind and the publication
keep the revision they read, because there the race is the point. The
monotonic timers (poll, renewal, runtime, grace) fire at any time. `transition`
runs `validate` before and after every event; the model leaves both calls out
of the guards, and the theorem `RowsStayValid` is what makes that sound.
Requests, results and descriptors are dropped; a lease deadline of 0 is "no
lease".

`JobPromise` is what whoever enqueues a job may rely on: it is waiting,
working or over, one attempt at a time and one in all unless replay is safe, a
request to stop stands, an end is the end. `JobDispatch` maps its rows to it
(`View`: the state's class, the number of attempts begun, the replay class and
whether a stop was asked for) and `KeepsPromise` is the refinement, as a
property of `job_lifecycle` and as the theorem `PromiseKept`.

`JobScan` is the scan that `JobDispatch` takes as fair: pages of the queue in
the order of the rows' last update, a cursor that wraps, few slots, while the
dispatches it starts skip, rebind, claim and end jobs. A job is its id, the
time of an update its number.

### EventPump

`log` is the event log, `checkpoint[c]` a consumer's position, `letter[c][s]`
the state of its dead letter for event `s`, `effects[c][s]` a history variable
that counts the handler calls that took effect. `syncRun`, `slot[c]`,
`retry[r]` and `settle` are the functions in flight, `lock[c]` the slot's
mutex and who holds it.

- `SyncRead`, `SyncDeliver`: `run_sync`. `deliver` is one transaction with a
  savepoint, so a handler that fails leaves a letter and a checkpoint and no
  effect, and a busy one rolls everything back.
- `SlotStart`, `SlotRead`, `SlotNext`, `SlotHandle`, `SlotCommit`: `run_slot`
  and `deliver_async`. The handler is a step of its own between the
  predecessor check and the transaction that moves the checkpoint. Passing
  over events the consumer does not handle has no await in the code and is one
  step with the read; their checkpoint is written later, as in the code.
- `RetryCheck`, `RetrySync`, `RetryLock`, `RetryHandle`, `RetryResolve`,
  `Discard`: dead letters.
- `SettleCall`, `SettlePlan`, `SettleJoin`, `SettleTimeout`: `settle`, level
  by level. After a timeout the spawned run goes on and is no different from a
  loop's.
- `SweepExpire`, `SweepLetters`: retention. `AppendEvent`: any producer.
- `SyncFails`, `SlotFails`, `RetryFails`, `Crash`: storage errors and process
  death.

Wake-ups are not state: every loop also runs after its idle interval, so a
lost wake-up only delays. The log has no gaps, because the database has one
writer and rows are never deleted. A handler's outcome is any of success,
failure and `Busy`.

### ExtensionActivation

A version of an extension is a deployment or the copy that ships; a snapshot
is what is listed, what of it is on, and what its key is a hash of. `act` is
the activation that holds `activating`, `worker` its publication, which runs
on when the caller is dropped.

- `BootStages`, `OwnerStages`, `DeployStages`, `GiveWay`, `Admit`,
  `PrepareHolds`, `PrepareRejected`, `Prepare`, `TakeBoundary`: `activate_kind`
  up to the publication. `Admitted` is `CatalogSnapshot::admitted`: what does
  not load or did not prepare is replaced by its last working version, and
  what requires something that is out drops, until nothing more does.
- `PublicationRejected`, `PublicationHolds`, `Commit`, `CommitFails`, `Swap`,
  `OpenBoundary`, `Panics`, `StorageFails`: the worker. The commit and the swap
  of what is in memory are two steps; between them readers are kept out by the
  boundary, and after a panic by its mark. A commit that fails takes the mark
  away, whoever set it.
- `Pin`, `Unpin`, `Deploy`, `CallerGoes`, `Toggle`, `Told`, `Spawn`,
  `Restart`: readers, people, settings, the process.

Five history variables say what the properties are not about. `choice` is the
deployment last chosen of each extension that ran. `slipped`: an activation
that failed had already taken a deployment out of the live map (`give_way`
does so at once), or a change committed before a panic was held when staged
again. `overlapped`: a caller went away, which releases the lock while its
worker publishes, and another activation began. `spoiled`: the owner's own
publication failed. In each of these the code can lose the choice or the
request, although `.context/extensions-deploy.md` says that a held deployment
keeps its row; the hazards name the lines. `lifted`: a commit failed and with it
went the mark of an earlier panic, and nothing has been published whole since.
Readers may then find the database newer than the maps, which is what the mark
is for (`extension_activation.rs:768`: "so an unwind in either commit or
publication cannot expose mismatched database/memory state"): without
`~lifted` TLC finds `PinnedSeesOne` violated, in a publication that panics
after its commit, a second one whose commit fails, and a reader.

### EffectRuns, CommandClaims, Pacing and ContributionOrder

`EffectRuns` has the attempts of one effect at its events and three runners
over them: the pump, a person and the timer. Each reads the latest attempt,
composes, and then runs in one transaction or claims, sends and records
outside one; oxplow may stop at every point, and the next start ends what was
cut off. A provider keeps idempotent writes or not, as configured, and that
may change. `CommandClaims` is the same question for proposals and undo:
inside a transaction the mark is part of the run; outside, a claim is made
first, and finished, released or lost. `Pacing` is one collector's pending
row, the pass that runs and clears it, and events that move it meanwhile.
`ContributionOrder` enumerates every catalog of three contributions with
lists of at most two and checks `order_catalog` against what could run at all.

### FsWatch, SnapshotCapture and BlobStore

`FsWatch` has the disk, the kernel's bounded queue and its watches, the OS
callback (`Router::handle`), the follower thread that moves the watches, and a
subscriber with its pending set. A file is stale from its write until a
subscriber told of it looks. `upset` records what the properties except:
dropped events, changed rules, directories moved away, and the message that a
directory went which the follower takes only after it was made again (`late`).

`SnapshotCapture` begins where that ends: the watcher task, the dirty set with
what a sweep staged in it, and takes, each with its marker, its drain under
`take_lock`, its reads and its record. `slipped` names the files whose edit
the code lets go: a take that fails between its drain and its record where the
code does not put them back, and a sweep that compared with rows about to be
replaced. `BlobStore` has the write of a blob, the later row that names it and
the cleanup; `quiet` is the history in which no cleanup met a capture.

### TerminalSessions and ProjectDaemons

`TerminalSessions` has the windows that open one terminal by its key, the two
maps of the registry, a forwarder per process, and the input queues with their
drain tasks. `overlap` is the history in which two opens overlapped: both then
find no process and start one each. A call is a request to the daemon, and its
future is dropped when the client goes away (`ipc_handler`,
`oxplow-daemon/src/lib.rs:123`): `OpenDropped`, `KeyDropped` and `CloseDropped`
are an open dropped before or after it registered its process, and a close
dropped between the entry and the key. `left` names the processes whose opening
or closing call was dropped. Nobody knows of such a process, or nobody by its
key, and the next open starts another beside it, although the doc of
`SessionKey` (`terminal_sessions.rs:71`) has two attaches of one key resolve to
the same PTY: without `left` TLC finds `OneProcess` violated by one dropped
open and one that follows it. The properties are about the others, and about
what such a call must not break: the next open, exits, and input.

`ProjectDaemons` has two apps whose calls open and close one project, and the
daemons they start: the instance lock, the handshake, `daemon.json`, signals
and the lifeline. A try at the lock may err, and the daemon then goes on without
it (`guard`, `run.rs:157`): two daemons can serve one project that way, so
`OneBackend` promises of any two that serve only that one of them goes without
the lock. `crossed` is the history in which two calls of one app
overlapped. A process that nobody waited for yet counts as alive, as
`kill(pid, 0)` has it.

## What the runs check

| Run | Instance | Shows |
| --- | --- | --- |
| `job_lifecycle` | 1 job, 1 process, 2 attempts, 2 deployments, 1 activation, the clock set back once, 1 crash | `TypeOK`, `RowsValid`, `AttemptRowsAgree`, `AnnouncedIffEnded`, `RowTriggersHold`; the refinement `KeepsPromise`; `CancelledJobEnds`, `QueuedJobEnds` under fairness |
| `job_race` | jobs: 2 symmetric processes race for 1 job, or 1 works through 2 jobs for one queue place; daemons: 2 apps of 2 calls, 3 daemons, 4 openings, closings and faults, a failing lock among them; 1.7 million states | `TokensUnique`, `LateNeverPublished`, `BoundsHold` (attempts, rounds of the publication, queue places); `NoOrphans`, `OneBackendKept` |
| `pump_delivery` | pump: a projection and two async consumers, one waiting for the other or for the projection by event type, 2 events of 2 types, a retrier, a discard, expiry, 1 fault; activation: 2 extensions of which one requires the other, a copy of each that ships, 2 deployments, 3 requests or faults, 2 failures to prepare; 1.8 million states | `NothingLost`, `PredecessorsFirst`, `DeliveredInOrder`, `WritesMatchPosition`, `HandledOnce`; `PinnedSeesOne`, `ChosenKept`, `RunsWhatCan`, `SettingsServed` |
| `pump_liveness` | the same consumers, 1 event, a settle, a discard, 1 fault | `SettleMeansDelivered`; `SettleReturns`, `LogSettles` (every event delivered, every expired letter cleared) under fairness |
| `outside` | watch: 4 directories, 2 files, an ignore file, 3 watches, a kernel queue of 2, 1 pending path, 4 changes; terminals: 2 windows, 3 processes, 2 messages, 1 dropped call that leaves a process; 4.2 million states | `MissedOnlyUnwatched`, `NothingMissed`, `PendingServed`; `RegistryTrue`, `InputServed` |
| `snapshot` | capture: a watched and an unwatched file, 2 symmetric takes, 2 changes, a rescan, a failure; blobs: 2 paths, 2 contents, 2 captures, 2 rows, a stop; 2.2 million states | `EditsAccounted`, `MarkedTakeSeesEdits`; `QuietRowsReadable` |
| `parts` | effects: 1 event, 3 compositions, a person's retry, 2 faults; claims: 2 deciders, an audited run, 2 proposals, a loss; pacing: 3 deferrals, 3 setbacks; order: every catalog of 3; scan: 3 jobs, pages of 2, 1 slot | `RetriesByItselfSafe`, `OnlyFailedAttemptedAgain`, `RetryResolved`; `DecidedOnce`; `DeferralsAnswered`; `CatalogRight`; `RunnableRuns` |

Some of these are conjunctions of parts that have a name and a comment of their
own in the module (`BoundsHold`, `OneBackendKept`, `RunsWhatCan`, `LogSettles`,
`PendingServed`, `RegistryTrue`, `InputServed`, `RetriesByItselfSafe`,
`CatalogRight`). The type invariants of the other modules say what the variables
range over; the jobs' is the one a run checks, and the theorems prove those
they rest on.

Five more runs end in a violation, each of a statement the repository makes:

- `job_announced_once`: `.context/extensions-jobs.md` says an end is announced
  once. A supervisor that stalls past its lease calls `request_cancellation`
  on a job recovery has already ended `interrupted`; the event is logged
  again. For the same reason, a cancellation that names the job and not the
  attempt, a worker that returns uncertain after its attempt was fenced
  cancels the job recovery queued for the next one.
- `job_lost_lease`: it says an idempotent job cut off by a lost lease runs
  again. When the supervisor notices first, it requests cancellation, and
  recovery does not requeue a cancelled job.
- `pump_retry_twice`: `retry_dead_letter` refuses a letter that is not
  pending so that a handler does not run a second time, but looks at the state
  before it waits for the lock. Two retries of one letter both pass.
- `snapshot_stale_staging`: a take's marker is there so that an edit just
  before it is not missed. When a sweep has staged the file, the edit does not
  displace the staging, and the take records what the sweep read.
- `blob_gc_race`: the newest row of a path is to stay readable for ever. The
  cleanup reads which blobs to keep and removes the others; a capture that
  records its row in between loses its bytes.

### Bounds

Every bound is a constant, a constraint or an initial condition named in its
module. Attempts are 2 (the code has 3): the least in which an attempt is
followed by another and by none. A lease of 1 or 2 ticks and a horizon of 2 or
3 let a lease expire, be renewed and be overtaken by a clock set back. One
crash or failure is placed at every step of a run. Two events are the least
that has an earlier and a later one, a batch of two or a batch boundary, and
an event passed over before or after a handled one. `Horizon` bounds only idle
time: `Tick` stays enabled while a lease or a row's timestamp lies ahead, so
no recovery is cut off by it. The limits of the watch (watches, kernel queue,
pending paths) are small enough to be reached by four changes. `MaxDrops` is 1:
one process nobody knows of, beside two more that are opened in turn. Two extensions,
one requiring the other, and three versions of each (two deployments and the
copy that ships) are the least in which all three can fail in turn, and in which
one gives way for what it requires. Deadlock checking is off because these systems come to rest: every
job ended, every event delivered, every reader waiting.

Three constraints leave out combinations and not cases: `OneOfThem` (two
processes, or two jobs), `LettersOrB` and `TakesOrUncovered` (dead letters or
a second consumer, a second take or an unwatched file); `FewTogether` and
`CForLimit` lower one bound where another is high. More daemons, openings and
faults than the run has are what the theorems are for.

### Fairness

Jobs: the scheduler ticks every second and rescans from the start (`JobScan`
shows that the pages come to every job while arrivals end), a supervisor polls
every 250 ms, `max_runtime` bounds a worker (so `PollStop` and `GraceOver` end
a silent one and no fairness of workers is assumed), and the clock advances.
Pump: the loops run again after `IDLE_INTERVAL` (5 s) at the latest; tokio's
mutexes are first come first served, which is the strong fairness of
`SlotStart`; the sweep is periodic; a handler that was called returns.
Effects: the timer lists what is due every few seconds, and a run that began
goes on. Pacing: a pass every five seconds. Nothing is assumed of producers,
people, activations, crashes or the settle's timeout.

`RegistryTrue`, `InputServed`, `NoOrphans` and `SettingsServed` say what is
true once nothing is left to do, and need no fairness: whoever still owes a
step is named by its guard (`CanGoOn`, `ForwarderGoesOn`, `DrainGoesOn`).

## What is proved

Eight modules of theorems, each about one component or two, for any sets of jobs,
processes, consumers, extensions, people, paths and so on, and any values of
the bounds. TLC checked every invariant below on the runs' instances, or on
smaller ones where the invariant slows a run, before it was proved.

| Module | Theorem | Property |
| --- | --- | --- |
| `JobDispatchProofs` | `TypeCorrect`, `RowsStayValid`, `TablesAgree`, `EndsAreAnnounced`, `TokensStayUnique` | `TypeOK`, `RowsValid`, `AttemptRowsAgree`, `AnnouncedIffEnded`, `TokensUnique` |
| | `TriggersNeverAbort`, `LateStaysUnpublished`, `BoundsAlwaysHold` | `RowTriggersHold`, `LateNeverPublished`, `BoundsHold` |
| | `EndsAreFinal`, `PromiseKept` | `EndIsFinal`; that it implements `JobPromise` |
| `EventPumpProofs` | `PumpTypes`, `PumpOnlyGrows` | `TypeOK`, `Grows` at every step |
| | `PumpLosesNothing`, `PumpDeliversInOrder`, `PumpRespectsAfter` | `NothingLost`, `DeliveredInOrder`, `PredecessorsFirst` |
| | `SettleAnswersTrue` | `SettleMeansDelivered` |
| | `SyncWritesMatch`, `PumpHandlesOnce` (one retry at a time) | `WritesMatchPosition`, `HandledOnce` |
| `ExtensionActivationProofs` | `ReadersSeeOneGeneration`, `WhatCanRuns`, `ChosenStaysRecorded`, `SettingsReachWhatRuns` | `PinnedSeesOne`, `RunsWhatCan`, `ChosenKept`, `SettingsServed` |
| `EffectRunsProofs` | `RetriesStaySafe`, `AttemptsFollowFailures` | `RetriesByItselfSafe`, `OnlyFailedAttemptedAgain` |
| `PartsProofs` | `DecisionsRunOnce`, `OrderFound` | `DecidedOnce`, `CatalogRight` |
| `ProjectDaemonsProofs` | `WindowsKeepTheirDaemon`, `DaemonsEndWithTheirWindow` | `OneBackendKept`, `NoOrphans` |
| `SnapshotProofs` | `EditsReachARecord`, `MarkerBringsEdits`, `QuietRowsStayReadable` | `EditsAccounted`, `MarkedTakeSeesEdits`, `QuietRowsReadable` |
| `OutsideProofs` | `WatchTypeCorrect`, `PendingServedCorrect` | `TypeOK`, `PendingServed` of the watch |
| | `MissedOnlyUnwatchedCorrect`, `NothingMissedCorrect` | `MissedOnlyUnwatched`, `NothingMissed` |
| | `TerminalTypeCorrect`, `RegistryTrueCorrect`, `InputServedCorrect` | `TerminalTypeOK`, `RegistryTrue`, `InputServed` |

The only assumptions are the named ones on constants. Most say that a limit
is a number and which are not zero. The others are facts of the code: `Off` is
no deployment; the sync consumers are registered in an order and there is one
(`SyncRegistered`: `oxplow-app/src/lib.rs:992` builds the pump with its
projections); the values that stand for "nobody" and for the two sweepers that
are no takes are no retrier, app, version or take (`RetriersNamed`,
`HoldersDiffer`, `VersionsNamed`, `SweepersNamed`); a marker is a file of its own
(`MarkersNamed`: `on_batch` tells markers from paths by their name,
`snapshot_capture.rs:838`); the contributions are finitely many, numbered from 1
(`OrderAssumption`), and their lists are finite ones of what a list may name
(`ListsAssumption`); a path is a file, a
directory or the ignore file, one of these (`KindsAssumption`), and the parents
of any path lead to the root (`ClimbAssumption`, which says of the tree what
induction over paths would need: no set of paths holds the parent of each of
its members). Two theorems have a
hypothesis, `OneRetrier`: two retries of one letter do call its handler twice,
which is what `pump_retry_twice` shows.

**Jobs.** The argument has two halves. `StepIsRowEvent` shows that, seen from
one job's row, attempts and announcements, every step is one of nine events (or
none), and `EventKeepsRowInv` that each keeps `RowInv`: `validate`, the
agreement of the tables, the announcement, and two facts without which it is
not inductive (a queued row has an attempt left; an absent one has zero
counters). `StepIsDispatchStep` does the same for one dispatch. `TokenInv` then
says what a token means: before the claim, if the row still has the revision
that was read, the token is the one a claim of it would issue; after the claim,
the token's fence is at most the row's. `EventsGrow` shows that a changed row
has a larger revision and no smaller fence, and a claim a strictly larger one,
so a new token is larger than any held: `StepKeepsTokensUnique`. `Inv` is the
conjunction and `InvInductive` its proof. `PromiseKept` rests on the first
half: each of the nine events, on a row that satisfies `RowInv`, is a step of
`JobPromise` through `View`, or changes nothing of it.

The other three stand on `Inv`. `LateInv` and `PendingInv`: the attempt of an
outcome kept as late is not completed, and whoever still has its token only
stops that attempt. `RunsInv`: the workers started for a job and the dispatches
that have claimed and not started one are together at most its attempts,
counted with the library's lemmas on cardinality. `TriesInv`: while a dispatch
publishes, others change its row by one cancellation and one recovery at most,
so its second round finds the row cancelled and its third finds it taken.
`CapInv` counts the queue: only `Enqueue` adds to it.

**Pump.** `PumpInv` says what a checkpoint, a sync run, a slot, a retry and a
settled letter each know: everything up to the place a run has reached is dealt
with (`SettledTo`), and its batch is what the log holds right after that place
(`Follows`), although payloads expire under it and the checkpoint itself may
lag behind events passed over (`Reached`). `Grows` (no checkpoint goes back, no
event or letter goes away) carries each of these over the steps of everybody
else, so one step per action remains. A settle adds `SettleInv`: a slot's run
is a settle's only while it waits for it, and a consumer it no longer waits for
is past the target unless a run was deferred or failed. How often a handler
succeeds needs `LettersBehind` and `LockHeld` (letters are behind the
checkpoint, and a retry of an async consumer holds the slot's lock) and then
the counts `SyncOnce` and `AsyncOnce`: before the checkpoint passes an event a
sync consumer has no effect of it, an async one at most one per failure.

**Activation.** `BoundaryInv`, for readers: from the commit to the end of the
worker the boundary is marked, and what is committed is the worker's candidate;
without a mark, and unless one was lifted, what is committed is what is in memory.
`ClosedInv` and `AskedInv` for what runs: whatever an activation has admitted
is what `admitted` returns for the present state of what runs
(`AdmittedAs`, with `AdmittedAgain`: admitting again what was admitted changes
nothing), and each extension that is held, gave way or failed was tried
(`TriedSo`). `ChosenInv` for what was chosen: the record is the choice, the live
map is the record whenever nobody activates, and the publication's `chosen`
puts back what giving way had taken out (`LiveIsTarget`). They are about
behaviours without the two histories the runs leave out as well. `ServedInv`,
for the settings: what the owner loaded, what a worker has committed and what
runs are each of the settings as they are, unless somebody is yet to be told
(`Owed`), the owner is at it or it failed; what a worker of a caller that went
away has committed may be older, but then the owner is at it already. It needs
`InStep`, that the boot is over before anybody else activates, because a
change during the boot tells nobody.

**Effects, claims, daemons, blobs.** `EffectsInv` relates each runner to the
rows of its reaction: the attempt it is about to write follows only failed
ones, and what the timer sends was sent and safe in the attempt before
(`RunFits`); a step of another runner only adds to the rows or fails an attempt
(`RowGoes`), which `FitsStill` shows to disturb nobody. `ClaimsExclusive`:
whoever has a claim has it alone, and nothing has run under it yet.
`DaemonsInv`: one process holds the instance lock, whoever goes without it; a daemon an app knows of is
one it started; the calls of an app that never overlapped are made one after
another, so nobody but its own call stops its daemon; and a daemon that nobody
told to stop is the one its app runs, which a call's window has or a call is
about to make or to stop, or a call waits for its handshake (`RunsForWindow`,
`Attended`). `CleanupSparesQuiet`: a
cleanup under way keeps what the rows that met none refer to, and a capture
that has met none has no cleanup beside it.

**Snapshots.** `EditsAccounted` is not inductive, because a walk compares the
disk with rows that a take under way may replace, and a take may record a
reading older than the disk. `EditsInv` adds both facts. `SweptBy`: a walk of
the whole tree that a file counts on still has the last row to compare with, or
has read the file as it is, or finds nothing new in it. `Outdated`: as long as
the dirty set, a drain or the rows of a take hold a reading older than the disk,
the edit that made it old is itself on its way, behind them; so recording the
old reading hides nothing. `LocksAgree` says who may hold such readings: one
take at a time, the one that holds `take_lock`. A step that breaks this for a
file names the file in `slipped`.

`MarkedTakeSeesEdits` follows one marker. `MarkedInv` adds, for each take and
file, the version n the file had when the take was asked for. `Safe` is what
must hold once the marker is back: nothing staged for the file is older than n,
and either the file is dirty, or what is drained and read is not older either
and leads to a row at least as new as n, or the last row is one already
(`HasRow`). Every step keeps it, of any take. Until then (`Marked`) the file
comes before the marker in the watch's queue, or was heard with it or before
it, or a rescan was, or the watcher's walk has the file to read or has read it
(`ReadBy`); the markers of a batch are answered last, so each of these has become
`Safe` by then. At the start this is `EditsInv`, at the version the disk then
has. Of a file the watch does not cover, the take's own walk says the same
between the marker and the lock.

**Watch.** `WatchInv` has one part per promise. `Served`: while a subscriber
sleeps nothing is pending or its permit is there, and the pending set is
minimal and bounded, which rests on lemmas about paths above paths that
`ClimbAssumption` gives without induction. `Accounted`: while no rule changed,
a write in a watched directory is in the kernel's queue, in an overflow, in the
pending set, or in a directory whose cover still owes a rescan. `Followed`, as
long as nothing upset the watch: a directory the follower takes for watched is,
or it will hear that it went; one that is there below a watched one is taken for
watched, could not be, or will be come to. `NothingMissed` is what these say
when all queues are empty, by climbing from the write to the root.

**Terminals.** `Owned` says who answers for a process: the call that started
it until it is registered, then its forwarder; the maps hold none that its
forwarder is done with, unless a dropped call left it. `Single`: while no two
opens overlap the registry holds at most the key's session, and nothing while a
call starts one, again but for those left. `Waits`: a
drain task that sleeps and was not woken has seen the key there is. `InLine`:
of one queue, what was written, what is under way and what waits are in the
order they were typed.

**Order.** The operators of `ContributionOrder` are recursive functions, and what
they return is shown without an induction theorem: a set of numbers has a least
member (`LeastNumber`), so a set with 0 and every successor holds all (`UpTo`),
and steps taken one after another are a function (`StepsTaken`). `PlacedAll`
says that Kahn's algorithm is done after as many levels as there are
contributions: either a level placed nobody, or each placed one more.
`LevelsRise` is what the levels are for. For the cycles, whoever is left has one
left that it waits for (`LeftWaits`), so no walk runs out (`WalkGoesOn`), and
`CycleCloses` finds the repetition: among one more steps than contributions two
are at the same one, and from there the walk goes the same way again.
`OrderInv` carries through the rounds that whoever can run is in, unless both
kinds cross: `RunnableStays` is why a round that refuses cycles keeps them, and
`CompiledIsRunnable` why one that refuses crossings only comes when they do.

### What the proofs found

`NothingMissed` used to hold only because the run had too few changes. The
induction had no step for a directory that goes, is made again and is found by
the walk of a directory above it before the follower takes the message that it
went: `gone` calls `forget_under` whatever is there now
(`oxplow-fs-watch/src/router.rs:318`), which removes the new watch, and nothing
covers the directory again. What is written in it later is missed. TLC finds it
with one more change than the run makes. The model now names the step in
`upset` (`LateGone`), so the property says what the code does keep, and the
hazard tells the line.

`RunsWhatCan` used to say that a deployment gives way to the copy that ships
only when it does not load or prepare, as `.context/extensions-deploy.md:265`
has it. The proof had no step for one that can do both but requires an
extension that is out at that moment; TLC then found the state when both
extensions ship (`pump_delivery` has them so since). `activate_kind` lets every
held extension give way of which nothing runs (`extension_activation.rs:615`),
also when what it requires comes back in as it ships a moment later. The
property now says so.

`DeliveredInOrder` and `NothingLost` are not inductive over the checkpoint
alone, because a slot skips events its consumer does not handle before it
writes its position; `HandledOnce` is not without the number of failures. A
model constant named `Auto` hid a name of the proof library; it is `Timer`.

### Only model-checked

Every invariant and action property of the passing runs has a theorem. What has none:

- Liveness (`CancelledJobEnds`, `QueuedJobEnds`, `SettleReturns`, `LogSettles`,
  `RetryResolved`, `DeferralsAnswered`, `RunnableRuns`): this prover does not
  reason about fairness.

## Plan

1. Done: jobs with their abstract specification, pump, activation, effects,
   claims, pacing, order, scan, watch, snapshots, blobs, terminals, daemons.
2. Done: the theorems above.
3. An at-least-once ordered delivery that `EventPump` implements, and a
   composition of activation with the job dispatch, in which `Activate` is a
   publication.

## Not modelled

- Language servers. `ensure` holds no lock across look-up, spawn and insert,
  so two requests start two servers, a server that dies before it is inserted
  stays registered, and a request to one that died has no end. What could be
  stated would be about runs in which no two requests overlap, which an editor
  never keeps to; the hazards list the lines.
- What a script, a model or a harness computes; network services, OAuth and
  git; SQL aggregation of metrics and facts; event schemas and upcasts;
  efforts, tasks, streams and threads, which are single transactions.
- Snapshots: a walk that cannot read a directory stages the files below it as
  deleted (the model counts such files as `slipped`), and the short cut that
  takes a file with the same size and time for unchanged, which the model has as
  an exact comparison: an edit that keeps both is not seen.
- Effects: a record that fails when the steps have already run, and an answer
  that a person must confirm which comes only then.
- Pacing: triggers that force a run, and several collectors: a pending row that
  errors ends the pass for the rows behind it (`pacing.rs:236`), and
  `DeferralsAnswered` is about one collector.
- Contribution order: cycles through the `after` of the core's own consumers.
- The frontend and the IPC surfaces (but for the calls that end with their client); formatting, logging, pagination of reads.

Most of the repository's 363,000 lines are of these last two kinds, so the
model stands for a small share of them: the parts in which steps interleave,
fail or outlive a process.
