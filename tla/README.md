# A TLA+ model of Stowline

Stowline backs up Windows machines with restic. An *agent* on each machine
decides when to run restic and keeps a durable journal; a *control plane*
(FastAPI over PostgreSQL, with a background worker) records devices, queues
commands, admits uploads and shows whether machines are protected; a *gateway*
stores the repositories. Agents poll; nothing is pushed to them.

This directory models the protocols between those parts, checks the models with
TLC and proves their main invariants with TLAPS. Paths below are relative to the
repository.

* [The system](#the-system): components, state, interactions, what is hard
* [The modules](#the-modules): what is modelled and how it maps to the code
* [The runs](#the-runs): what TLC checks, bounds, fairness
* [The proofs](#the-proofs)
* [What the runs found](#what-the-runs-found)
* [What is not modelled](#what-is-not-modelled) and [the plan](#plan)

Model-check with `tlc -config X.cfg M`, prove with `tlapm M.tla`; the table of
runs names both files. Every run ends within a few minutes.

## The system

### Components

| component | state | operations | what makes it correct |
|---|---|---|---|
| **WAN admission** `server/app/admission.py`, `bandwidth.py` | `site`, `wan_admission_leases` with two UNIQUE key columns | acquire, renew, release, reap; patch, pause and resume of a site; trip of the provider circuit | slots and devices are exclusive; a lease given back stays so; every lease comes back |
| **Lease holder** `agent/cmd/stowline-agent/wan.go`, `main.go` | the attempt's lease, a renewal ticker | ask, hold, renew, give back around a backup or a restore | runs only with a lease; never renews after giving back |
| **Command queue** `server/app/services.py` (`enqueue_command`, `claim_command`, `ack_command`, `expire_commands`) | `command` rows | enqueue, claim, ack, expire, coalesce | one outcome per command, no train of backups, nothing pending for ever |
| **Executor** `agent/internal/control/execute.go` | `consumed_commands` of the journal | `Poll`: flush outbox, heartbeat, policy, claim, dispatch, ack | a result is durable before it is sent; a known result is replayed, not run again |
| **Worker** `server/app/worker.py` | a lease row of its own, `last_push` | `loop_once`: reap, expire, health, gateway limits | one worker acts; a failed step is repeated |
| **Application service** `agent/internal/application/service.go` | the operation flag, the current cancel function | Backup, Restore, Cancel, Reconcile, finish | never false green; every attempt settled |
| **Journal** `agent/internal/adapters/journal/sqlite.go` | `jobs`, `attempts`, `outbox`, `consumed_commands`, policies | one transaction per operation | job and attempt change together |
| **Scheduler** `agent/internal/scheduler` | none (reads the journal) | `Tick`, `Decide` over windows, jitter and slots | one green run a day, retries bounded and spaced |
| **Reports and health** `ingest_attempt`, `refresh_health` | `backup_attempt`, `snapshot`, the device's last success | ingest, heartbeat, health by age | every report kept; the last success never moves back |
| **Snapshot catalog** `services.py`, `agent/.../catalog.go` | `snapshot_catalog`, entries | create, append, finalize, fail | a READY catalog is complete and belongs to its snapshot |
| **Enrollment** `services.py`, `agent/internal/enroll`, `tools/stowline-setup/wizard.py` | tokens, setup codes, devices, credentials, pilot.json and two envelopes | create, enroll, abort, revoke, archive | a token is used once; what reports success can work; what was revoked stays refused |
| **Folder selection** `services.py`, `apply_selection.go`, `source_roots.go`, `localui.go` | `source_roots` and the revision in pilot.json, the panel's `DeviceSelection` | the page's change, the panel's command, start-up report, the read of a backup | a backup has folders, and no secret nobody agreed to |
| **Upgrade and boot guard** `upgrade.go` | files, marker, pending state | stage, swap, confirm, roll back, prune | a runnable agent after every crash |
| **Self-service restores** `localrestore.go`, `localui.go`, `localcaller.go` | a saved list of restores, staging folders | start, cancel, deliver, report | nobody gets another's files; what was restored is not lost |
| **Delivery** `agent/internal/desktop/deliver.go` | the person's folders | copy, report | never overwrites |
| **Qualification runner** `agent/internal/qualification` | request and evidence files | canary backup | shares the operation flag |
| **restic adapter** `agent/internal/adapters/restic`, `process` | none | backup, restore, list; outcome of an exit | only a clean, verified end is a success |
| **Gateway** `gateway/gw` | registry, objects, token buckets, usage | register, put, get, delete rules, limits | append-only objects; a site's cap holds |
| **Windows service host** | the process and its shutdown budget | start, stop, exit | part of the upgrade |
| **Secrets and vault**, **login and rate limit**, **discovery, selection estimates, texts**, **admin panel, desktop window, recovery**, **preflight, operator commands**, **ACLs, paths**, **deployment** | – | – | listed in `PROJECT.json`, no protocol of their own, see below |

### How they interact

```
 desktop page ─┐                       heartbeat, claim, ack,
 scheduler ────┼─> application ─> journal ─> executor ──HTTP──> control plane <── panel
 qualification ┘      service     (SQLite)   (Poll)             (PostgreSQL)  <── worker
                        │                                            │
                      restic ───────────────HTTP──────────────> gateway (limits, objects)
```

* One service loop (`RunOnce`, every minute) polls — flushes the outbox, sends
  the heartbeat, fetches the policy, claims and runs one command — and then
  ticks: Reconcile, then the scheduler. The qualification runner and the desktop
  page call the application service from goroutines of their own; one flag
  (`lockOp`) separates the operations. Reconcile does not take it.
* Every control plane handler is a thread with a database session of its own.
  Between its reads and its commit other handlers and the worker commit; what
  holds is what the UNIQUE columns and conditional UPDATEs enforce.
* The agent gives up a request after a timeout; the server may still execute it,
  after the agent's next request.

### What is hard

Handlers that read, decide and commit in separate steps; renewals that arrive
after the release; a command delivered again while its result is on the way; a
stop of the agent between two journal transactions; Reconcile against running
operations; an outbox whose head is refused for ever; wall clocks that are set
back; a process tree that hangs while it is being stopped; power that fails between
two renames; two accounts and two programs that change the same files. `PROJECT.json` lists each at the line where it bites, with
the properties aimed at it.

## The modules

An agent's or a server's *step* is what no other process can split: one journal
transaction, one database transaction, or the reads of a handler before it.
A mutated form of a definition, kept beside it and named `Definition_How`, is
what a plausible slip in the code would have made of it; the properties are
known to notice each of them.

### WanAdmission — leases, their holders and the reaper

`row` is the lease table by attempt id, `req` the acquire handlers, `run` the
agents, `renewMsg` and `releaseMsg` the calls in flight, `worker` the reaper.
Time is a countdown: `ttl` is `expires_at - now`.

| action | code |
|---|---|
| `AcquireReap`, `AcquireRefuse`, `AcquireAgain`, `AcquireChoose`, `AcquireCommit` | `acquire`: what its reap read; reap committed and decision read; the insert the UNIQUE columns may refuse (`IntegrityError`) |
| `Renew` (`Revivable`), `Release` | `renew` with `_revive`, `release` |
| `ReapRead`, `ReapCommit` | the worker's `reap_expired_leases` |
| `Ask`, `GiveUp`, `SendRenew`, `Finish`, `AgentCrash` | `ctrl.Backup`, `restoreWithAdmission`, `holdLease` |
| `LoseRequest`, `LoseMessage` | the network (`Repeats` delivers a request twice) |
| `ConfigureSite`, `TripProvider`, `FallBehind`, `Tick` | operator, `trip_provider`, ages, time |

`MCWanAdmission` holds the instances and a documented limit the code does not
keep. `peak` is a history variable: the largest limit a site ever had.

### CommandQueue and CommandOutcome — remote commands

`cmd` is the command table; its two clocks are flags (`window`: before
`expires_at`; `lease`: delivered within the last 20 s). `agent` is
`Executor.Poll`, `journal` its `consumed_commands`, `acks` the acknowledgements
in flight, `orphans` the claims whose caller has gone.

| action | code |
|---|---|
| `Enqueue` | `enqueue_command`; a duplicate of an uncounted kind changes nothing |
| `ClaimSelect`, `ClaimUpdate`, `OrphanUpdate` | `claim_command`: the SELECT and the conditional UPDATE, which repeats only part of the condition |
| `AckCommand` | `ack_command`, including the coalescing of queued backups |
| `ExpireCommands` | `expire_commands` |
| `Consume`, `Begin`, `RunEnds`, `FinishCommand`, `SendAck` | `ConsumeCommand`/`CommandResult`, `dispatch`, `FinishCommand`, `AckResult` |
| `AgentFault`, `LoseAck` | stops, journal errors, lost calls: at most `MaxFaults` |

`CommandOutcome` is the abstract specification: the device decides a command
once, the control plane shows that decision or none, a withdrawn command is never
decided. `OneOutcome` is the refinement: `decided` is the durable result in the
journal, `shown` the final state of the row (EXPIRED shows nothing, since a late
result still replaces it).

### AgentJobs — the application service over its journal

Three goroutines (`proc`): the service loop, the qualification runner, the
desktop page. `job`, `att` and `outbox` are the journal; `repo` the attempts
whose tagged snapshot is out; `todo` what a Reconcile has still to look at.

| action | code |
|---|---|
| `Start`, `PrepFails`, `Prepare` | `lockOp` and the durable intent; the checks; `UpdateAttempt` |
| `Publish`, `BackupEnds`, `RestoreEnds` | restic; `Adapter.Backup`, `evaluateBackup` and cancellation decide the result |
| `Finish`, `Report` | `CompleteAttempt`; `AppendOutbox` and `unlockOp` |
| `Cancel` | `CancelCurrent`, the page's cancel, a stop, a deadline |
| `ReconcileRead`, `ReconcileRestore`, `ReconcileMark`, `ReconcileLook`, `ReconcileSettle`, `ReconcileDone`, `Skip` | `Reconcile`, then a tick that runs nothing |
| `Crash`, `JournalError`, `ReconcileError` | at most `MaxFaults` |

How a run may end (`Ends`) and what is made of it (`AdapterOutcome`,
`EvaluateBackup`, `CancelWins`) are operators: exit code, whether the summary
named a snapshot, whether it was read back, whether VSS evidence is there.
`clean` is a history variable: the attempts whose run met every condition.

### AttemptReports — the outbox and `ingest_attempt`

`outbox` holds the unacknowledged rows with their time; `pc`, `rows`, `cur` are
the flush; `req` the report requests, of which the agent waits only for
`req[lost]` — the others were given up and may still be executed; `known`,
`success`, `snaps` are the server's records.

| action | code |
|---|---|
| `BackupEnds`, `QueueCatalog`, `SkipCatalog` | `finish`: the two outbox inserts |
| `SetClockBack` | the machine's clock, which stamps and orders the rows |
| `ReadOutbox`, `SendReport`, `Answered`, `GiveUp`, `FlushEnds` | `UnackedOutbox`, `flushOutbox`, `ReportAttempt`, `AckOutbox` |
| `FlushCatalog`, `RefuseCatalog`, `LoseCatalog` | `flushCatalogEvent` |
| `Load`, `Commit` | `ingest_attempt`: its reads; its commit |

### SnapshotCatalog — the permanent file listing of a snapshot

`state` and `entries` are the catalog's rows; `owed` says who waits for the build
(the outbox event of a backup or the operator's command), `pc`, `nodes` and
`sent` are `buildCatalogFunc`, `req` the requests, of which the agent waits for
`req[lost]` only.

| action | code |
|---|---|
| `Start`, `List`, `ListFails`, `Answered` | `buildCatalogFunc`: create, `ListSnapshotFull`, the batches, finalize, `FailCatalog`; `flushCatalogEvent` and `dispatch` decide whether the build is done |
| `GiveUp`, `Request` | a timeout or a stop; `backfill_missing_catalogs` or the panel's command |
| `Load`, `Read` | what a handler reads: the catalog, then its entries |
| `CommitCreate`, `CommitAppend`, `CommitFinalize`, `CommitFail` | the commits, which write only what the handler changed in the row it had loaded |

`Capture` is how many entries the captured output of restic holds.

### EngineRun and EngineCall — one run of restic

`pc` is the caller's goroutine, from the launch to the judgement; `ctx`,
`parent`, `fired`, `left` and `silent` are what may end a run early; `root` and
`helper` are restic and its rclone child; `pipe`, `text`, `chunks` and `cut` are
the bounded capture; `stage`, `own`, `shadowed` and `repo` are what restic really
did. restic and rclone are external: they print, publish, hang, ignore
Ctrl-Break and exit with any code, at any step.

| action | code |
|---|---|
| `Refuse`, `LaunchFails`, `Start` | the checks of a request (`validate.go`, `args.go`, backend bindings), the runner's checks and start |
| `Engine` | restic and its helper |
| `Runner` | `runWindows`: Ctrl-Break, grace period, closing the job object, draining the pipes |
| `WatchFires`, `Expire`, `Stop`, `Tick` | the stall watchdog, the deadline, the caller |
| `Judge` | exit code, summary, readback, VSS evidence → outcome |

`EngineCall` is the promise AgentJobs is written against: one outcome, nothing
better than a failure without a snapshot in the repository. `ImplementsCall` is
the refinement (`written` is `own # None`).

### AgentHost — the service process and its upgrade

`live`, `aside`, `staged`, `failed` and `marker` are files; `loaded`, `at`,
`tick`, `want`, `pending`, `mine` belong to the process; `pin` is the build the
control plane wants. Builds may be broken (they start and never reach a heartbeat)
or dead (they cannot print their version). `beaten` is a history variable: the
installed build has had a heartbeat of its own.

| action | code |
|---|---|
| `ScmStart`, `Guard`, `Dies`, `StopRequested`, `Stopped`, `BudgetOver`, `UpgradeExits` | the service control manager, `guardUnconfirmedUpgrade` with its rollback and prune, the shutdown budget, the exit for an upgrade |
| `Heartbeat`, `NoHeartbeat` | `OnAgentPin`, `confirmUpgradeHealthy` |
| `Fetch`, `Upgrade`, `InstallFails`, `MarkFails` | download and self-check, the renames, the marker |
| `BackupStarts`, `TickEnds`, `PageRestoreStarts`, `PageRestoreEnds` | what a restart waits for |
| `PowerFails`, `SetPin` | between any two of these; the operator |

### Schedule — when a backup is asked for

A day has `DayLen` units. `job` is the journal's job per slot, `last` the slot of
the latest success, `next` the ticker, `accepted` the policy the journal keeps.
The pure part follows `slots.go`, `decide.go` and `policy.go` operator by operator
(`ScheduleOK`, `PolicyOK`, `BackendOK`, `Due`, `BootDelay`, `Closed`, `BackingOff`,
`Missed`, `Decide`); the actions are `Tick`, `Succeeds`, `Fails`, `OnPolicy`,
`Stop`, `Boot` and `Pass`. `Tick` asks `BackendOK` at every run, behind a WAN or not
(`refuseWANStart`, `main.go:483`); `OnPolicy` and `Boot` ask less. `clear` is a history variable: since when nothing
disturbed the schedule.

### DesktopPage — a person's restores

`jobs` and `saved` are the list in memory and on disk, which a save that fails
(`unsaved`) lets part, `run` and `cut` the
restore's goroutine and context, `timers` and `sending` the delayed reports,
`copies` and `files` the desktop program and the person's folders.

| action | code |
|---|---|
| `StartAs`, `Restore`, `Cancel`, `Timer`, `Send` | `Start`, `run` with `restoreWithAdmission`, `Cancel`, `reportOnce` |
| `DeliverStart`, `Copy`, `Delivered`, `DeliveredReports`, `EndsDelivering` | `deliver.go`, then `Delivered` on the page |
| `Ends`, `Starts` | the process ends anywhere; `loadRestoreJobs` |

`Visible` and `MayRestore` are `localcaller.go`: which paths of a snapshot an
account sees, by profile. A selection is two things: its `Key`, the path
`mayRestore` checks (`snapshotPathKey`), and what it `Picks`, the paths restic restores
when the selection, as it was sent, is its include pattern (`args.go:247`). The two are
independent constants; a selection that picks only what is at or below its key is
`Literal`. `lapsed` is a history variable: the restores that were reported when the
process ended, with a file that had no mark of it.

### FolderSelection — what is backed up

`file` is pilot.json, `startup` the list loaded when the service began, `post` the
page's request of each account, `cmd` an `APPLY_SELECTION`, `reports` and `shown`
the panel's record. A change of the page reads the others' folders
(`PostReads`) and writes them back (`PostWrites`); `Apply` replaces; `Backup` reads,
and falls back to `startup`; `Arrives`, `AdminSaves`, `Restart` and `Lost` are the
reports. Folders are names: what is asked about a name (is it sensitive, is it
another's) is asked of it as it was sent, and `Cleaned` is what `applySelection` then
makes of the list and writes. `consent` and `unasked` are history variables: the
sensitive folders someone agreed to, and those that were written for a name its writer
did not take for sensitive. The page tests the names `isSensitivePath` knows, the
control plane those of `PanelSensitive`: it takes the last element of a path by the rules
of its own system, so on another than Windows a whole path is one element (its
extension is found, its name is not).

### Enrollment — codes, tokens, devices and the files of a computer

`code` are setup codes and their sessions, `tok` enrollment tokens, `req` the
enrollment handlers and their gateway call, `dev` devices, `rev` revocations and
aborts, `gate` the gateway's registry, `comp` and `disk` an installation and what
it wrote.

| action | code |
|---|---|
| `StartInstall`, `SetupCodeLogin`, `Reuse`, `MintToken` | the wizard: sign-in, `_enrollment_still_valid`, the token |
| `EnrollByHand`, `Ask`, `Answered`, `Seal`, `SealFails`, `Persist`, `PersistFails`, `Abort`, `Aborted`, `WriteConfig` | `enroll.go`, `config write` |
| `EnrollReads`, `EnrollCommits`, `RevokeCommits`, `EditLoads`, `EditCommits`, `RevokeCode`, `AdminRevokes` | the handlers, a read and a commit |
| `NotifyOk`, `NotifyFails`, `PutRecord` | the call to the gateway after the commit: answered, lost, or executed after it was given up |
| `Stop` | the wizard or the agent is ended, with a file half written |

`strays` is a history variable: devices an installation went past or could not
abort, and revoked ones that were archived all the same.

### ObjectStore and SiteCaps — the gateway

`store` holds the objects of a repository in either kind of store, `post` the
requests under way; requests of one name overlap, and a client that gave one up
posts again. `Look`, `Compare`, `Create`, `Fill`, `Sync`, `WriteFails`, `Remove`
and `Put` are the steps of the two `write_exclusive` (local disk: exclusive create,
write, fsync, removal by name; rclone: a listing, a copy over whatever is there),
`Delete` is DELETE with its rule, `Restart` the end of the process. `answered` and
`undone` are history variables.

`SiteCaps` follows the upload cap of one site: `Patch`, `PatchSends`, `PatchFails`,
`PatchCommits` are `admin_site_patch`, which calls the gateway before it commits;
`PushReads` and `PushSends` are `push_site_limits`; `LateCall` is a call that was given
up and is executed all the same; `Restart` forgets every cap.

### The compositions and the MC modules

`WanDaily` (leases and a schedule), `WanGateway` (leases, objects and caps),
`ReportsHost` (reports and the service's process), `CatalogEngine` (an upload and a
run of restic) and `Computer` (installation, page and folders) put components that
share no state into one specification: the variable `part` is chosen at the start
and only the actions of that part are taken, so the behaviours are those of each
component by itself, and each fairness formula is that of the component in its own
part. That this is so is proved for each of them (below). What the components
promise each other is checked inside each (`EngineCall`, the lease that is granted
or not in Schedule, the outcome a run may have in AgentJobs).

`MCWanDaily`, `MCWanGateway`, `MCHost`, `MCCatalogEngine` and `MCComputer` give
these to TLC and assert the assumptions of the instantiated components;
`MCWanAdmission` and `MCAgentJobs` hold instances of one component, `MCJobs`
of AgentJobs twice; `MCDesktopPage` and `MCValues` hold values.

## The runs

| run | module, cfg | shows |
|---|---|---|
| `wan_races` | MCWanDaily, WanRaces | Two devices of a site, three attempts, the operator moving the limit, pausing the site and unsetting its measurement: slots and devices stay exclusive, a lease given back stays so. Schedule: three days with denials, failures, restarts and a policy change; an undisturbed day is covered |
| `wan_liveness` | MCWanGateway, WanLiveness | A repeated seed request, an open circuit, an overdue neighbour: the lease of a run that ended is eventually released for good. Objects: what a client was told is stored stays. Caps: a measured site is capped again after restarts, failures and late calls |
| `wan_seeds` | MCWanAdmission, WanSeeds | violation, see below |
| `queue_races` | CommandQueue, QueueRaces | One outcome per command; only open commands run; one live backup; results arrive and commands settle |
| `jobs` | MCJobs, Jobs | The service loop with retries, a click and a panel restore, two faults; or a slot, a qualification run and a page restore that compete: only a clean end is green, every attempt that began is settled |
| `jobs_reconcile` | MCAgentJobs, JobsReconcile | violation |
| `catalog_engine` | MCCatalogEngine, CatalogEngine | A READY catalog is whole and stays READY, the upload ends. Engine: an outcome rests on evidence, no printed summary is lost, every call returns and keeps EngineCall |
| `catalog_capture` | SnapshotCatalog, CatalogCapture | violation |
| `reports_host` | MCHost, ReportsHost | No report lost, the newest success shown, catalogs servable until the clock is set back; only a catalog the entries table cannot hold stops the outbox. Host: a broken build is replaced, a proven one stays, the rollback copy is there and the pin is reached |
| `upgrade_guard` | AgentHost, UpgradeGuard | violation |
| `computer` | MCComputer, Computer | Page: nobody sees another's files or restores them by the path that was checked, cancellations hold, nothing restored is lost or overwritten, also when a save of the list fails. Folders: no backup is empty; a secret in it was agreed to, or came under a name nobody is asked about. Installation: a token makes one device, what reports success works, what was revoked stays refused |
| `restore_cancel` | MCDesktopPage, RestoreCancel | violation |

### Bounds, and why they are enough

* **Wan**: one site (two for the global seed), two devices, two or three
  attempts, limits up to 2, TTL 1. Every property relates two leases; three
  attempts give a device two of them and its neighbour one, so a lease can
  expire, be overtaken and be revived. With TTL 1 a tick separates live from
  expired. Budgets are 0 (unmeasured) or 10, and a share is a job count. The runs
  differ in which freedoms they combine (`Repeats`, `FlakySites`, `LateDevices`,
  `SiteConfigs`).
* **Schedule**: days of eight units with a tick every second one, so the eligible
  time, the window, the hard stop, a jitter and a boot delay all fall on different
  instants, some of them between two ticks; three days, because a missed day is
  one that lies between a success and today; two mishaps, so that the attempts of
  a slot can be used up; a revision that makes every optional field zero or unset,
  one whose runs reach into the next window, six with one flaw each, and one that the
  heartbeat and a start accept and no run does (no limit, not of a laboratory).
* **Objects and caps**: a pack, a lock and `config`, of which only the last is posted
  with two contents; three posts (one that creates, one that overlaps it, one
  repeated) and one fault. Two rates, two changes of the operator, two faults.
* **Queue**: two commands in two kinds (one deduplicated, one counted) are what
  coalescing, expiry and claim need; two faults repeat a delivery and lose the
  acknowledgement of its repetition.
* **Jobs**: three jobs, so each goroutine or each kind of caller has one; two
  attempts for the slot, so a retry meets what the first left; the attempt
  number runs one past the budget so that a miscount is visible. The mixed
  instance has one attempt and one fault.
* **Reports**: two attempts and one request given up, which is still handled next
  to its repetition and next to the following report (the proofs hold for any
  number); six instants for four rows; a clock set back once, at any point; a
  batch of two rows.
  `TooLong` holds the attempts whose catalog the entries table cannot hold.
* **Catalog**: three entries in batches of two (a full one and a rest), two
  requests given up, so that a late append and a late finalize or fail can meet
  the next build, and one command after the outbox's build.
* **Engine**: a call of every kind and one refused request for every check; three
  snapshots, of which an old one has the short name of the new one; a capture of
  two chunks, so that it overflows; a deadline of two ticks and a watchdog that
  fires after the first silent one; five exit codes, one undocumented.
* **Host**: four builds, one of each behaviour and a predecessor; one unconfirmed
  boot, so that the guard acts at the second; one copy kept and five names, three
  pins, one page restore, two faults (power, stops, failed renames, clock). With
  two faults the second can hit the recovery from the first.
* **Page**: two accounts, one with its profile on another disk; five paths (the
  folder of profiles, a profile, one of an account that is gone, another disk and the
  profile there); selections of what the page lists and one that picks every path
  under a key of the person's own; a list of one restore, two starts, two copies, two
  folder names in a minute, one end of the agent and one save that fails (the mark that
  is lost needs that and an end, the second report needs a second save).
* **Folders**: two accounts with four names, one of them sensitive, one the same with
  a blank behind it and one malformed; a good command and a bad one; two changes and
  two faults (a stale start-up list needs a change, a restart and a failed read).
* **Installation**: one computer that is installed again and again, one code of one
  use, two tokens, two devices, one revocation, one archived device at a time, two
  faults. A second computer adds only a second user of the same code, which
  `reading` already allows; the proofs hold for any number.

Counters that would grow for ever are capped in the guards by the constants
marked *bound* in the modules. Every run but `wan_seeds`, `jobs` and
`jobs_reconcile` has a part that stops when all is delivered or the bounds are used
up, so their configurations do not check for deadlock; those three do.

### Fairness, and why the code justifies it

* Wan: time passes; the worker loops every 15 s; a handler that started ends; a
  message is delivered or lost; a run ends (each backup and restore has a
  deadline, `holdLease` stops with it). No fairness for asking, renewing or
  operators.
* Queue: handlers end; the agent polls and its handlers return; redelivery leases
  lapse; the worker loops. That a command's window closes is not part of the
  fairness (a result must arrive without it); `CommandsSettle` assumes it.
  Faults and enqueues are not fair; faults are bounded, so a time
  without them comes.
* Jobs: weak fairness of each operation's next step (deadlines) and of the tick,
  which the service loop starts every minute. `Publish`, `Cancel` and faults are
  not fair.
* Reports: weak fairness of the flush (every Poll) and of request handling.
  Choosing the same disjunct of `Flush` for ever is impossible, each one consumes
  a row or ends the flush.
* Catalog: weak fairness of the build (every Poll, restic has a deadline) and of
  each handler. Losses are bounded and not fair; the command is not fair.
* Engine: weak fairness of the runner's goroutines, of the judgement, of the clock,
  the deadline and the watchdog. Nothing is asked of restic, its helper or the
  caller: `RunEnds` holds although they may hang for ever.
* Host: weak fairness of the process, of Windows restarting it (the recovery
  actions) and of restores, which have deadlines; strong fairness of a heartbeat
  while nothing runs, of the download and of the upgrade's goroutine finding
  nothing running, because each is tried every minute and what disables it comes
  and goes.
* Caps: the worker loops, handlers end, a call that was given up is over in the end.
  Objects, Schedule, Page, Folders and Installation are checked for safety only.

## The proofs

TLAPS checks these for every value of the constants, from the named assumption
of the module (`ConstantAssumption`, `QueueAssumption`, `ReportAssumption`,
`CatalogAssumption`, `JobAssumption`, and the definitions `EnrollmentAssumption`,
`PageAssumption`, `FolderAssumption`, `HostAssumption`, `EngineAssumption`,
`ObjectAssumption`, `ScheduleAssumption`: types, finiteness, positive bounds —
nothing about sizes). The latter are definitions because their modules are
instantiated: the MC modules assert them of the values the runs use.

A proof module is about one composition, and has the theorems of its components.
`ComputerImplementsParts`, `ServiceImplementsBoth`, `RunImplementsBoth`,
`GatewayImplementsParts` and `DailyImplementsParts` say that the composition is,
for each component but SiteCaps, the specification of that component: initial
states map to initial states, and a step to one of the component or a stutter. So
what is proved of a component holds of the composition that TLC runs.

**WanDailyProofs, the leases.** `LeaseInv` is inductive: `TypeOK`, `HoldsExclusive`,
`RowShape` (slot and share of a row were chosen under a limit the site had),
`ReqShape` (the same for a row that waits to be inserted, and that no site is
set above its peak), `RunShape` (only a finished run gives back).
`HoldsExclusive` is not inductive alone for nothing in it says that a row which
comes back carries a slot within the peak; that is what `WithinPeak` needs and
`RowShape` supplies. From it: `TypeCorrect`, `HoldsAreExclusive`,
`LeasesWithinPeak` (a counting argument: slots are injective into `1..peak`),
`SharesCoverSlots` (the first free slot is at most one more than the number of
live leases), `RunningHasLease`, `GivenBackStays`.

**WanDailyProofs, the schedule.** `DayCovered` speaks of the moment a window has
closed; what leads there is a fact about the ticker. `DayInv` says: values have
their types and the ticker is at most a period ahead (`Shapes`); a job that is
under way is the run of a service that is up (`JobsOK`); a run is of a slot of the
policy in force, and the ticker has not left its night (`RunOK`); and `Attended`: if
the agent is idle, undisturbed, and today's slot has been `Wanted` (due, or again
after a failure) with a period of its window to spare, the ticker has not gone a
period past that instant, and has yet to tick or ticks now. A tick keeps `Attended`
because it starts the slot: nothing in `Decide` can refuse it then. A run that ends
keeps it because the run was today's, or was over before today's slot was due. For
the latter the runs must fit: a policy without a hard stop whose run may last until
the next window is open (`RunsFit` fails) lets an agent that is busy with yesterday's
slot miss today's. `Validate` asks this of no policy, the default satisfies it with
its runs of four and eight hours, and without it TLC has a counterexample; it is a
premise of `DayCovered` therefore, not an assumption. So is `BackendOK`: a policy that
the heartbeat accepted and each run refuses gets no day backed up, and `Undisturbed`,
the premise of `Attended`, asks it of the policy in force on every repository. The lemmas are about the
calendar (`DayOf`, `NewDay`), the policy (`PolicyTimes`, `DueInWindow`: `NextSlot`
never leaves the window) and the ticker (`NextTick`). It gives `DaysCovered` for
any length of a day, period, policies, hashes and number of mishaps.

**CommandQueueProofs.** `QueueInv` is `TypeOK`, `AgentShape` (where `Poll` is
says what the journal holds), `LedgerShape` (the table and the network know only
results the journal holds; a cancelled command was never delivered) and
`OneLiveBackup`. From it: `QueueTypeCorrect`, `BackupsDoNotPileUp`,
`OnlyOpenCommandsRun` and the refinement `QueueImplementsOutcome`: every step of
the queue decides, reports or stutters in `CommandOutcome`.

**ReportsHostProofs, the reports.** `KeptInv` (`TypeOK`, `FlushShape`, `ReportsKept`)
is inductive however often the clock is set back, and gives
`ReportsTypeCorrect` and `ReportsAreKept`. Until the clock is set back,
`OrderInv` adds `EventShape` (rows are stamped as they are appended and a flush
holds the oldest ones), `OrderShape` (what was sent or is known is never newer
than what is queued, and a request never read a success newer than the record)
and `SuccessShape`; `ClockInv` states that condition, and gives `NewestIsShown`,
`CatalogIsServable` and the action property `SuccessMovesForward`. The condition
is needed: after a clock was set back, two reports that both read the device
before either commits move the last success back.

**ReportsHostProofs, the service's process.** `RollbackKept` (an unproven build has
the copy it would be replaced by) is about one instant of a swap that spans two
processes. `HostInv` adds what makes it hold: no swap is under way in a process
that is not serving, and `SwapInv`, which places the marker against the steps of a
swap: until it is written there is none, for a swap starts after a heartbeat and a
heartbeat removes it; the copy named by the marker is there exactly as long as the
build was neither confirmed nor replaced. Pruning is the step that matters, and
`Keeps` protects the copy the marker names. From it: `RollbackCopyKept`, and the
action property `ConfirmedBuildStays`, because a guard that puts back saw a marker
no heartbeat had removed. For any builds, pins, names, boots and power failures.

**CatalogEngineProofs, the catalog.** `ReadyComplete` is not inductive: a finalize that has
compared the totals writes READY later, when nothing in the state says what it
compared them with. `CatalogInv` adds `BuildShape` (the agent waits for the
request it sent, and uploads from a whole listing) and `ListingShape` (requests
and rows hold entries of the listing only, and a finalize that will succeed found
all of them, of which no handler ever removes one). From it:
`CatalogTypeCorrect`, and `ReadyIsComplete` under `Capture >= Nodes`. `FailShape`
gives `ReadyIsKept`: only a handler that had loaded the catalog before it was
READY takes it back.

**CatalogEngineProofs, the engine.** For any requests, snapshots, exit codes, watchdog,
deadline and size of the capture. `ResultIsEvidence` is about the verdict, which is
drawn from text that passed through a pipe and a bounded buffer. `EngineInv` says
what that text is worth: `Evidence` (each line, in the pipe or read, that names a
snapshot names this run's, and each shadow copy it reports was made; the line that
names the snapshot is somewhere unless the buffer was full) and `Progress` (a
snapshot has a name exactly from its publication on, the pipe is empty once it was
drained, and the readback is asked for after a clean end only). From it:
`ResultRestsOnEvidence`, `PrintedSummaryReturned`, and the refinement
`RunKeepsPromise`: a step of EngineRun begins a call, publishes, returns or stutters
in EngineCall, which is all AgentJobs assumes of restic.

**AgentJobsProofs.** Two layers. `SafeInv` is inductive by itself and holds for
every caller of the service: `TypeOK`, `ProcShape` (a goroutine works on attempts
of its own that began, has a success in hand only after a clean run, and
Reconcile settles what it found as less than a success), `TriedShape` (attempts
are numbered without gaps and stay within the budget) and `GreenIsClean`, which
is not inductive without `ProcShape`: nothing else says what a result that waits
for its commit rests on. It gives `JobsTypeCorrect`, `OnlyCleanIsGreen` and
`BudgetKept`. On top of it `JobInv` adds what only the service loop, alone with
its jobs, may rely on: `OwnPast` (every attempt of a job but the latest has
ended) and `OwnHand` (the unfinished attempt is the one in hand, a reported one
has the result that was reported, and outside Reconcile nothing is left to
reconcile). `JobMirrorsAttempt` and `ReportsMatchJournal` need both: a terminal
record of an attempt that is not the latest, or that has ended before, would
break either. It gives `MirrorKept`, `ReportsKept` and, as each step keeps a
green row of the loop, the action property `GreenSlotKept`. For the jobs
of the other goroutines the first two do not hold: Reconcile may record a result
under an operation that is still running, as `jobs_reconcile` shows.

**ComputerProofs, the installation.** For any number of computers, codes, uses, tokens, devices,
revocations and faults, and whether the gateway's failures are ignored (`LabMode`)
or not. `EnrollInv` is `TypeOK`, `SingleUse` and the shapes that carry the other
two properties: `CodeShape` (the sessions a code opened are its uses), `ReqShape` (a
device exists exactly when its request passed the conditional UPDATE, its token is
then used, and an answered request has told the gateway), `DevShape` (whoever is
active or archived without credentials is a stray), `RevShape` (a revocation that
was committed took the credentials; one that counts found its enrollment answered,
so no registration of that device can follow its own call at the gateway),
`CompShape` (where the wizard is says what its request has become) and `DiskShape`
(a configuration that is no stray's is whole, or its device is being aborted or was).
`InstalledWorks` is not inductive: that a *reused* configuration is whole is
something only `DiskShape` remembers; and `RefusedForGood` needs `RevShape` because
its premise becomes true one step after the gateway was told. It gives
`EnrollInvariant`, `TokensAreSingleUse`, `InstallationsWork`, `RevokedStayRefused`.

**ComputerProofs, the folders and the page.** `FolderInv` asks of every list a backup
may be made from (the file, the list of the service's start, what a request of the
page has read and will write) what `BackupHasRoots` asks of the backup: it is not
empty, and its sensitive folders were agreed to or are `unasked` (`Agreed`). A list is
cleaned each time it is written, also the others' folders a change of the page takes
over: `InForm` says that a sensitive name in a list stays what it is when that happens
(`CleanedInForm`), and `AskedOrNot` that each sensitive name of a cleaned list comes from
one somebody was asked about or from one nobody was. It gives `BackupsHaveAgreedRoots`,
from `FolderAssumption`: the installation selected a folder, and cleaning a sensitive
name a second time does not change it. The theorems of DesktopPageProofs are taken over
by an instance of that module: `ComputerShowsOwnFiles`, `ComputerHonoursCancel`,
`ComputerLosesNothing`, `ComputerReportsOnce`, `ComputerKeepsCopies`.

**DesktopPageProofs.** For any accounts, profiles and paths, any keys and picks of
selections, and any number of restores, copies, ends of the agent and saves that fail;
of paths it is assumed that they are sequences and that no profile is the empty one
(`PageAssumption`). That an account is shown no file of another and that a literal
selection restores none (`RestoresOwnFiles`) rests on one lemma about prefixes, that two
prefixes of one path are prefixes of each other, and on `Owns`, that the key of every
listed restore passed `MayRestore`. `PageInv` adds `RunShape` (a restore with a goroutine
is running, and what it made is in its folder), `SavedInv` (the file may be older than
the list, but each of its rows is one the agent can go on from: it passed `MayRestore`,
is running as long as it has a goroutine, and if it is done its files are staged or
with the person), `ReportShape` (whatever was reported is marked in memory and, while
the agent is down, in the file, unless it lapsed) and `CopyShape` (a copy under way has a
file of its own, one that ended well a whole one). `NothingLost` is not inductive:
a delivery removes the staging folder because the copy in hand ended well, which
only `CopyShape` ties to a whole file, and a start reads `done` from a file that may be
several changes old, which only `SavedInv` ties to files that are there. `SaveKept` says
that a save keeps it whether it works or fails. `StepKept` also says that no step
replaces a whole copy. From these: `PageInvariant`, `CancellationsCount`,
`RestoredFilesStay`, `DeliveriesNeverOverwrite`, `RestoresReportedOnce`.

**WanGatewayProofs.** For any names, contents, requests and faults, in both kinds of
store, when no content is an empty place or half a file (`ObjectAssumption`).
`StoreInv` adds `OwnKind` (which steps belong to which store) and `OwnFile` to
`ObjectsKept`: while a request writes its file, the file holds half of what it posted
and nobody was answered for it, unless it may be deleted or was removed. `Careful`
names what a step may do to an object that is there, and `CarefulKeeps` that such a
step disturbs neither the files of the others nor what was answered. From it:
`StoreInvariant`, `AnsweredObjectsStay`.

The type invariants, `WithinPeak`, `ShareCoversSlot`, `RunningLease`,
`RetriesBounded` and `SuccessForward` are proved and in no configuration: what TLC
had to say of them, and of the inductive invariants, it said while the proofs were
prepared. Every safety property of a passing run, invariant, action property or
refinement, is a theorem.

Only model-checked, in the bounds above: liveness, which TLAPS does not handle under
fairness (`SlotComesBack`, `CapRestored`, `ResultsArrive`, `CommandsSettle`,
`MixedSettles`, `OnlyLongPathsBlock`, `UploadEnds`, `RunEnds`, `BrokenReplaced`,
`PinReached`). SiteCaps has no other property than its liveness.

## What the runs found

| run | what happens | against |
|---|---|---|
| `wan_seeds` | Two sites' seeds pass the global check before either inserts its row; no UNIQUE column covers the seed slot | `admission.py:219` "global seed admission is 1 until Stage 2" |
| `jobs_reconcile` | The tick's Reconcile records a restore the desktop page is running as failed | `service.go:476` "An interrupted restore" |
| `catalog_capture` | A listing longer than the 8 MiB the runner keeps is uploaded and finalized as if it were whole | `db.py:304` "A complete, permanent, agent-built listing" |
| `upgrade_guard` | While the restart waits for a restore, a heartbeat of the old process removes the marker of the new build, which then starts unguarded | `upgrade.go:84` "maxUnconfirmedBoots is how many times a freshly installed binary may start" |
| `restore_cancel` | `restoreWithAdmission` names no folder with an error, so a cancelled restore's partial files stay | `localui.html:581`, which says they were deleted, and the test of `localrestore_test.go:85` |

Met while modelling, each described at its definition or excepted in a property:

* A stop between the terminal commit and the outbox append loses a report
  (`service.go:581` says it can be reconstructed).
* After the clock was set back, a stale success, or a catalog row that sorts before
  its report, is refused for ever and blocks the outbox (`execute.go:352`, `366`).
* A lease keeps the share it was granted when later ones divide the budget again.
* The end of a backup cancels queued requests made after it began.
* A `fail` or an `append` that loaded a catalog before it became READY takes that
  back (`ReadyStays` excepts exactly these).
* Two overlapping changes of the folders lose the others' (`localui.go:408` says they
  stay exactly as they were); a read that fails drops them.
* A setup-code session of another code is shown no device (`installer_may_touch`), so
  a reinstallation with a new code goes past a valid enrollment and makes a second
  active device, against the purpose of `wizard.py:548`.
* `archive_device` and `unarchive_device` test the lifecycle when the row is loaded
  and write over a revocation committed since: the device is active again in the
  panel (`services.py:1850` "a revoked one never does"), without credentials.
* `setup_code_login` does not look at `revoked_at` again in its UPDATE.
* The registration call of an enrollment may reach the gateway after the operator's
  revocation of that device, unless the enrollment had been answered
  (`RefusedForGood` says `settled`).
* At the gateway, a part left by a killed process refuses its name for ever
  (`store.py:163`); a failed fsync removes by name what an identical request was told
  is stored (`store.py:183`); through rclone a listing that fails counts as no object,
  and the copy goes over `config` (`ObjectsKept` excepts both). `registry.json` is
  written in place. A site set back to unmeasured keeps its last cap.
* No check of a policy relates its longest run to its window (`policy.go:86`,
  `wan.go:83`): without a hard stop, a run that is cut off only after the next window
  has opened makes the agent miss that day (`DayCovered` asks `RunsFit`).
* A policy that limits no upload and is not of a laboratory passes `Validate`, so the
  heartbeat accepts it (`execute.go:409`), and so does a start on a repository that is
  not behind a WAN (`main.go:385`); each run then refuses it (`main.go:483`,
  `policy.go:77`), and no day is backed up until another comes (`DayCovered` asks
  `BackendOK`).
* `mayRestore` checks the key of a selection and restic is given the selection as it was
  sent, as an include pattern (`localui.go:555`, `args.go:247`). A name without a leading
  slash, a wildcard or a `..` picks other paths than the one checked; the page itself
  sends paths as it lists them. `OwnFilesOnly` excepts restores by such a selection
  (`Literal`); what is shown has no exception.
* `saveLocked` ignores each of its errors (`localrestore.go:117`): a restore that was
  reported, with its mark in no save that worked when the process ended, may be
  reported again (`ReportedOnce` excepts it as `lapsed`). Nothing restored is lost by it.
* Consent is asked for a name before it is trimmed and cleaned (`localui.go:396`,
  `apply_selection.go:34`, `46`): one with a blank or a `\.` behind it becomes a sensitive
  folder nobody was asked about; and a control plane that does not run on Windows takes
  a Windows path for one name, of which only the extension is tested
  (`discovery.py:207`). `BackupHasRoots` excepts both as `unasked`.
* `notify_gateway` returns without a word when no gateway is configured
  (`services.py:567`): an enrollment or a revocation is then answered as if the
  gateway had been told. The installation's preflight refuses to go on unless the
  control plane says that its gateway is configured (`network_preflight.py:94`), and
  Enrollment takes that for given: `InstalledWorks` and `RefusedForGood` are about
  deployments with a gateway.
* Between the two renames of an upgrade no program is at the path Windows starts
  (`PinReached` excepts it as `Stuck`).

## What is not modelled

* Within modelled components: the browse cache and the restore-request row that
  `ack_command` also writes; manifest hashing and drill verification of
  restores; job rows and health ages of a report; the expiry of setup codes and
  tokens, which is a refusal like any other; the excludes that go with the folders;
  the token bucket of a site, listings and ranges at the gateway, and its usage count.
  A denied renewal is ignored by the agent, which goes on uploading next to the new
  holder: the model allows it, no property forbids it.
* The worker's database lease (a row with an expiry that the next worker takes
  over) and `refresh_health`, which recomputes ages from rows.
* Cryptography (vault, DPAPI) and its one-shot migration, sign-in counters, user
  interfaces, the recovery tool, preflight and operator commands, pure functions
  over files and texts, operating-system calls and deployment files: one actor that
  reads once and decides, so there is no interleaving that a model would add to.
* The text order of outbox timestamps (trailing zeros trimmed) is abstracted to
  distinct instants.
* Hazards of the second rank are not in `PROJECT.json`: the marker of an upgrade
  written in place (`upgrade.go:104`), a qualification backup that `busy` does not
  count, a report lost with its in-memory timer (`localrestore.go:215`), restores
  that leave the list of 20 with their folders on the disk, a due instant behind the
  last tick of its window (`slots.go:44`), a policy revision that forgets which days
  succeeded (`decide.go:105`), restarts that renew the boot delay (`decide.go:154`), a
  deadline at a hard stop that has passed (`wan.go:96`), a redelivered
  `APPLY_SELECTION` that overwrites a newer change. The models contain each of
  these steps but the second and the deadline of a click.

## Plan

1. Lemmas towards the liveness: what one step of each does (`Lapsed` of CommandQueue
   removes, `NextTick` of Schedule advances), as action properties.
2. A safety property of SiteCaps: which caps the gateway may hold of a site.
3. The worker's database lease with two workers, and health by age.
4. Compositions over shared state: AgentJobs with AttemptReports over one journal;
   WanAdmission's lease around an AgentJobs backup.
