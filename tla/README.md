# Formal model of toolu-runner

TLA+ modules for `toolu-runner`, a self-hosted GitHub Actions runner in Rust:
the compute daemon that keeps job containers on one box, the listener that takes
a job from GitHub and reports it, the engine that runs its steps, the cache
service they use, and the commands that put registrations and machines on a box
and take them away. Each module translates the source; `PROJECT.json` maps each
definition to its lines. TLC checks the modules on small instances, and TLAPS
proves part of the results for every value of the constants.

To repeat a check, in this directory:

    tlc -workers 2 -config MachinePoll.cfg Machine
    tlapm MachineProofs.tla

## 1. The system

### Components (under `src/crates/`)

| Part | State it keeps | Operations | Here |
|---|---|---|---|
| `daemon` gate | admitted jobs, queued or running | admit, try_start, unstart, adopt_running, release | `Gate` |
| `daemon` registry | per job: creating, created, reap tombstone | begin, finish, abandon, reap, forget, prune | `JobRegistry` |
| `daemon` routes, backend, reaper | requests, detached tasks, start queue, created map | create, destroy, reap, tick, adoption, image pull | `Daemon`, `StartQueue` |
| `listener` lifecycle, renewal, watchdog | session, token, cursors, cancel tokens, lock | connect, poll, acquire, watch, renew, report, clean up | `Listener` |
| `listener` forwarder, step reports, log uploads; `wire` live feed | collector, streamers, queues, spools | forward, upload, annotate, drain | `Reports` |
| `toolu-runner` run loop, supervisor, register, remove; `config` lock file | loops, `.lock`, `.stopped`, `.pending_remove` | run, rescan, drain, re-mint, register, remove | `Runner`, `Lockfile`, `LoopDecision` |
| `toolu-runner` pairing, claimed jobs, boot | host token, claim, deadline, exit code | pair, poll, claim, heartbeat, complete, revoke | `Pairing`, `Machine` |
| `toolu-runner` setup and services | plan, registrations, units | plan, register, replace, roll back, install, retire | `Onboard` |
| `execution` engine | rows, posts, containers, conclusion | steps, composites, posts, hooks, services | `Job` |
| `execution` workspaces | directories, mappings, leases | claim, create, age, sweep | `Workspace` |
| `execution` orphan clean-up | tracked groups, process table | spawn, drain, scan, verify, kill | `Orphans` |
| `execution` action fetcher, Node runtimes | cache directories, single flights | resolve, download, stage, promote, validate | `Fetch`, `NodeRuntime`, `Staging` |
| `execution` commands, matchers, file commands | dispatcher, registry, masker | dispatch, match, mask, read back | `Commands` |
| `execution` build context; `expressions` | none | walk, parse, evaluate, hash | `BuildContext`, `HashFiles`, `Expressions` |
| `cache` store, front ends, collector | chunks, manifests, index, uploads | reserve, upload, commit, look up, read, collect | `Cache` |
| `observability` journal | one file per job | append, rotate, retain, tail | `Journal` |

Not modelled, with the reasons in `PROJECT.json`: stateless conversions and wire
types, the network settings, `doctor`, `check`, `status`, `login`, `create-app`
and the prompts, artifacts (their back end is used by tests only), the OIDC
server, the shadow record, and the proxy to GitHub's cache.

### How the parts interact

GitHub and toolu.sh are external. The **daemon** turns `POST /jobs` into a
container that runs `boot`, which runs one listener lifecycle; a **machine**
does the same on a host for the jobs it claims from toolu.sh; a **registration**
runs one lifecycle after another under the supervisor or in the foreground. A
**lifecycle** long-polls the broker and, once it has a job, shares a few tokens
and channels among five activities: the job future, the cancel watcher, the lock
renewal, the engine and the reporting tasks. The **engine** claims a workspace,
starts containers, fetches actions and Node, runs the steps, whose output goes
through the dispatcher and one event channel to the **forwarder**, and sweeps
orphans and the cache when the job is over. Processes of one box share only
files: the lock of a registration, the leases of workspaces, the action and
runtime caches.

### What is hard

- Check-then-act over several locks in the daemon, and decisions on old listings.
- Docker calls, requests and reports that fail after they had their effect.
- A process death between any two steps, with only files or labels left.
- A kernel lock that belongs to an inode while everybody finds it by its path.
- Three reasons to stop a job (shutdown, GitHub's cancellation, lost lock) that
  race each other and its end, each of which must be reported differently.
- A claim that is revoked, lapses or is taken by another machine while its
  heartbeat, its completion retries and its deadline are in flight.
- A sweep that re-reads what it is about to delete, beside jobs that take it.
- Pids and group ids that are given out again while they are being killed.
- Staging, renaming and removing in one cache directory by several processes.
- A collector that runs beside the next job's cache server.
- Two output streams, a shared masker and bounded queues that must all drain.

`PROJECT.json` lists the hazards that matter most, each at its line, with the
properties that cover it.

## 2. Modules

    Gate  JobRegistry  StartQueue        LoopDecision  Lockfile   Pairing
        \     |       /       \               |    \    /        /
             Daemon -- (Host)                 |    Runner -- RunnerProofs
            /      \                          \               /
     MCDaemon    DaemonProofs                  ---- Machine --
        |             |                                |
    MCDaemonReap  BudgetProofs   Listener            MachineProofs
                                    |
                              ListenerProofs

    Onboard  Workspace     Job  Fetch NodeRuntime  HashFiles  Expressions
        \      /  \          \     \     /         /          /
         MCBox  WorkspaceProofs    (Staging)  (BuildContext) /
                               MCJob  ----------------------
    Cache -- MCCache       Commands, Reports, Journal -- MCLogs       Orphans
      |                                                                  |
    CacheProofs                                                     OrphansProofs

An `MC` module that combines several components has a variable `part` or `scene`
that selects the one at work; the others keep their initial state. They share
nothing in the model, as they share nothing in the code at that moment.

**Daemon.** `Gate`, `JobRegistry` and `StartQueue` are the pure states of the
three locks. `Daemon` composes them with Docker; the unit of atomicity is one
critical section or one Docker call. A request is a record in one of the `Tasks`
slots that moves through its handler and its detached task. `release` is three
actions because it takes three locks; the tick decides in one critical section
and acts afterwards. `Faults` selects what Docker and clients may do wrong.
`Host` is the abstract specification: a container starts at most once, and only
when it fits beside all that run.

**Listener** is one call of `GitHubListener::run`, every await a boundary
between actions. `main` is the position in `run`; `cancel`, `drain`, `jobCancel`
are the tokens; `renewal`, `loss` the lock; `queue`, `flight` the step-report
channel; `ghJob` what GitHub recorded. `biased` selects are guards; unbiased
ones are plain disjunctions. An unanswered `complete_job` may have landed. The
engine is reduced to the order in which it looks at the two tokens.

**Lockfile** models `acquire` system call by system call (`lk[u]` is the phase a
caller is in) over inodes and one path. **Runner** is one registration and its
users: the loops of the supervisor (two tasks are enough for one that finishes
and its successor), a foreground `run`, and the commands. `pc[d]` is the place
in `RunLoop::drive`, `cfg[d]` the configuration that pass has loaded. A
lifecycle is what it returns: idle, job, error after the acquire, conflict,
authentication failure, other. A clean-up that cannot ask GitHub wipes the local
record all the same (`SkipsUnregister`). `LoopDecision` holds the two decision
tables.

**Pairing** is `setup --toolu`, refresh and `remove` of a machine; **Machine**
extends it with the poll loop, the claim watcher beside the lifecycle, the
completion with its retries, and `boot` with its watchdog. toolu.sh's job rows
are external: a claim is fenced by its epoch, and a lapsed lease puts the row
back.

**Onboard** is `setup` for GitHub, from the answers to a plan, from the plan to
credentials, registrations and one machine unit. Every request, command and
write may fail, and the process may be killed between two writes.

**Workspace** is the claim of a pipeline directory (mapping and lease) or of a
fresh one, its creation, and the sweep each job starts. File times are ages:
young or old. **Orphans** is one job's processes, a kernel that reuses pids and
group ids, and the sweep with its deadline and backstop. What `kill_verified`
reads of a candidate and of the leader of its group, the check, and the signal to
whoever has the pid by then are steps of their own (`TakeCandidate`, `ReadLeader`,
`Verify`, `KillOne`), between which the thread may be parked.

**Job** is the engine from preparation to `JobCompleted`; a child, a download or
a Docker call is `work` whose outcome is open. **Staging** is the commit of a
tree into a shared cache directory; **Fetch** and **NodeRuntime** extend it.
**BuildContext**, **HashFiles** and **Expressions** are the pure parts, each
compared with a reference definition of what they should compute.

**Cache** is the store with its index, both protocols, scopes and trust, and the
collector, with torn and lost writes. When a client goes away its handler is
dropped, but the chunks or the manifest it has handed to the blocking pool are
written to the end, the server's shutdown notwithstanding (`Stray`). **Commands** is the dispatcher of a step's
two streams, the matchers and the file commands; **Reports** the forwarder and
everything it feeds; **Journal** the writer and a reader that follows it.

Properties are bundled: a conjunction of named parts, each stated with its own
comment in the module. Each part has a mutant.

## 3. Runs

| Run | Instance | Shows |
|---|---|---|
| `daemon_requests` | 2 jobs, 2 concurrent requests, failing creates, disconnects | no overcommit; every running container is in the books; an answered reap is final |
| `daemon_restart` | 1 job, 2 requests, a crash, failing creates, starts, pulls, reap listings | implements `Host`; loses no slot and no container; gives every admission back |
| `daemon_redelivery` | 1 job posted twice, 2 containers, a crash, an expiring tombstone | never two runners for a job, nothing runs behind a tombstone, no ghost entries |
| `listener_session` | 2 messages, 2 attempts, 2 reports, 2 updates | what GitHub records, what `run` returns, the order of the last calls, the token; shutdown, drain and cancellation take effect |
| `runner_loops` | 2 supervisor tasks, foreground run, register, remove, one trouble, a leftover lock | one driver; no stranded runner; true `.stopped`; loops and services end |
| `lock_takeover` | 1 task, the system calls of `acquire` interleaved | **violation** of `OneDriver`, section 6 |
| `machine` | 1 job row, 2 tokens, 2 claims, 2 faults | claims, revocation, done rows and exit codes are true; deadlines and stops end things |
| `box` | `setup` for 2 targets and 2 names, 1 mishap; 3 jobs of 2 registrations, 2 sweeps of one root beside a job of the other, 1 fault | a reported success is right, nobody else's runner or unit is touched; no shared or swept workspace |
| `orphans` | 2 pids, 2 steps, 4 spawns, clock 0..2 | nobody else is killed but in two named races, a clean report is true, steps and sweep end |
| `job_steps` | small plans; then fetch, Node, walks and expressions | rows, posts, verdict, containers; sound caches; agreement with the references |
| `job_logs` | scenes of commands, reports and journal | output complete, in order and masked; nothing waits for ever |
| `cache_store` | 2 jobs, 2 clients, archives that share a chunk, 1 loss | restores are sound, no poisoning, no garbage but late writes of uploads without a client |

Runs that may come to a natural end (all budgets used) switch the deadlock check
off; `listener_session` keeps it, `Quiet` being its only legal end. `Reports`
is acyclic, so "the forwarder never hangs" is stated as an invariant
(`NeverStuck`: a state in which nothing can move has sent its outcome).

### Bounds

- *Daemon.* Every job takes the whole vCPU budget, so any two compete, and two
  request slots give every pair of operations. `MaxPosts` counts admitted
  deliveries; `ReapIsFinal` and the agreement of the maps are claims about a job
  delivered once, as redelivery is examined by its own run. One crash: each ends
  in the same empty memory. `QueueMax`, `U32Max`, `PullAttempts` are the code's
  constants made small.
- *Listener.* Two messages hold the job and one that races it. `Threshold` is
  the outage window in ticks. `MaxReports = 2` is one retry.
- *Runner.* Two task names: a loop that is finishing and its successor; a third
  successor needs a name that is free again. `MaxMints = 2`: the configuration
  in use and the one that replaces it. `MaxTrouble` counts failures, crashes,
  signals and forced or foreground commands together.
- *Machine.* One row is claimed twice, so a stale claim meets a newer one of the
  same row; the inductive invariant is checked on two rows as well.
- *Box.* `MaxWork = 2` is enough because `Init` already contains boxes on which
  earlier runs registered any subset. Three jobs are one more than the two that
  can collide; two sweeps race each other.
- *Orphans.* Two pids force reuse. `Slack = 0` makes the clock's unit the code's
  second.
- *Fetch, Node.* Two processes with two calls on one cache; the redirect limit,
  download and validation attempts are the code's.
- *Cache.* A chunk of two bytes and one of one byte, `MaxBytes = 2`, so that
  both TTL and capacity evict.
- *Expressions.* Inputs of up to six tokens over small alphabets, one per
  grammar level.

### Fairness

- Daemon: weak fairness of each request's step, the tick, start-up and the
  passing of a deadline. Nothing is assumed of starts; no container need exit.
- Listener: of the lifecycle, watcher, renewal and the engine's set-up and
  wind-down; HTTP calls carry timeouts. A job may run for ever; only a
  *cancelled* one is assumed to conclude (`job_cancellation.rs` enforces it).
- Runner: of each driver's step and each acquire; a session ends by itself only
  when it is cancelled or refused. Nothing makes `register` or `remove` finish.
- Machine: of the loop, watcher, watchdog and deadline; a listener that was
  cancelled returns, except under `boot`, where the watchdog is for the one that
  does not.
- Job, Fetch, Orphans: of the engine, of each call, of the sweep and its join,
  of timers. A process left alone may run for ever.
- `box`, `cache_store`, `job_logs`: safety only.

## 4. Proofs

All hold for every value of the constants, from the constants' named assumptions
only (TLC evaluates those in the runs) and the hypotheses named here.

| Theorem | States | Hypothesis |
|---|---|---|
| `DaemonProofs!TypeCorrect` | `TypeOK` | |
| `DaemonProofs!NoGhosts` | `NoGhostEntry` | `docker start` does not fail |
| `BudgetProofs!BoxIsNeverOvercommitted` | `NoOvercommit` | `Reliable` |
| `BudgetProofs!DaemonImplementsHost` | `ImplementsHost` | `Reliable` |
| `BudgetProofs!WhatRunsIsCharged` | `RunningIsAccounted` | `Reliable` |
| `BudgetProofs!BooksAlwaysBalance` | `BooksBalance` | `Reliable` |
| `BudgetProofs!NothingIsLost` | `NothingLost` | `Reliable`, and no create is lost |
| `ListenerProofs!ListenerTypes` | `TypeOK` | |
| `ListenerProofs!CancelledIsRequested` | `CancelledOnRequest` | |
| `ListenerProofs!ReportIsLast` | `SettledBeforeReport` | |
| `ListenerProofs!OutcomeIsTrue` | `AnswersTruthfully` | |
| `ListenerProofs!CleanupIsFresh` | `FreshToken` | |
| `RunnerProofs!OneDriverHolds` | `OneDriver` | `Overlap = FALSE` |
| `RunnerProofs!RecordsStayTrue` | `RecordsAreTrue` | `Overlap = FALSE` |
| `MachineProofs!MachineTellsTheTruth` | `ClaimsAreTrue` | |
| `MachineProofs!RemoveIsSafe` | `RemoveRevokesFirst` | |
| `WorkspaceProofs!WorkspacesStaySafe` | `WorkspacesAreSafe` | mappings can be read |
| `WorkspaceProofs!SweepsTakeOnlyTheirOwn` | `OnlyItsOwn` | mappings can be read |
| `OrphansProofs!SweepsAreSafe` | `SweepIsSafe` | |
| `CacheProofs!NobodyIsPoisoned` | `NoPoisoning` | |
| `CacheProofs!EntriesAreTrue` | `TypeOK` and `NoLyingEntry` | |
| `CacheProofs!IndexMatchesStore` | `StoreIsSound` | |

**Daemon.** `TypeInv` adds which program points hold a container. `GhostInv`
splits the exception "a release is in flight" by lock: a queue entry is excused
until `ReleaseQueue`, a created entry until `ReleaseCreated`. The hypothesis is
exact: `requeue_after_failed_start` queues a job again whose destroy has been
settled in between.

**Budget.** What the gate charges and what Docker runs are two things; between
them lie the start requests of a tick, creates and reaps whose answers are on
their way, and whatever a crash forgot. `BoxInv` says what each of these may be,
in one part per place:

- `Fresh`, `OneCreate`, `OneBorn`: a job not delivered has left no trace; a
  delivered one has at most one create in flight and one container.
- `MakeInv`, `MemoryInv`, `QueueInv`: what a request, a map or the queue knows of
  a container is true, and nothing queued has run.
- `StartInv`, `StartingInv`: a container about to be started is charged, and is
  neither queued nor in a list of removals; while the daemon starts up, nothing is.
- `ReapInv`, the delicate one: a reap that is about to release a job leaves
  nothing that could run. Each container is gone, about to be removed by it, or
  never started (`Swept`), and a create in flight will not be remembered
  (`Barred`, and `Guarded` for each pair of requests).
- `SnapInv`: what a tick saw stays true enough until it reconciles.
- `RunningIsAccounted`: what runs is charged, or about to be removed.
- `BudgetInv`: what is charged fits, counting containers about to be removed.

The sum is a cardinality (`Load` counts the units a set of jobs needs), so that
`PromotedFit` and the lemmas it rests on need no induction over data except over
the length of the queue, which is a fact about numbers. `ReconcileKeeps` is the
longest step: three passes in one critical section. `DaemonImplementsHost` then
shows that `TickStarts` is `Begin` of a container that fits, that a removal or an
exit is `End`, and that every other step stutters.

`Reliable` says that each job id is delivered once (`MaxPosts <= 1`) and that
Docker's listings, inspections, removals and starts do what they report. A failed
or lost create, a failed start, a failed listing of one job, a lost image, a
client that disconnects, an ageing tombstone and any number of crashes are allowed.
Each part is needed: TLC finds `NoOvercommit` violated with any one of the faults
`list`, `inspect`, `remove`, `start_lost` and one crash, and with `MaxPosts = 2`
(section 6, Observations). Before it was proved, `BoxInv` was checked by TLC as an
invariant of four instances (0.2 to 2.0 million states): two jobs with the allowed
faults split in three, and one job with two containers, all of them and two
crashes.

**Books.** `LedgerInv` is inductive relative to `BoxInv` and says who is responsible
for each slot and each container:

- `SlotInv`, `RecordInv`: an admitted job that waits is in the queue, in a create
  or a release in flight, or about to be queued again by the tick; an admitted job
  without a created entry has a request that will record or release it, and an
  entry without an admission has a release that will drop it.
- `Letting`, `Linked`: a release that has passed the gate is not overtaken by a new
  admission of its job, unless the reap came before the delivery (`Futile`): then
  the tombstone refuses the create, which leaves nothing behind. Hence what is
  queued or about to start, and still admitted, has its container on record.
- `RunsOnce`: a created container whose job counts as running is one of the
  tick's starts, and a start given up as vanished is not of a container that is
  still there. Without it a job could be charged as running for ever.
- `SeenInv`: what a tick saw exited has not come back, and a deadline it read has
  passed; with it the pass that decides removals dooms nobody innocent.
- `Owned`: a container that has not been started is in start-up's hands, doomed,
  recorded for an admitted job, or held by a request that will record or remove
  it. This part alone needs that no create is lost (`create_lost`: Docker creates
  the container and the daemon gets an error, so nobody knows of it).

TLC checked `LedgerInv` on small instances before it was proved. The hypotheses
are those without which the statements fail: TLC finds `RunningIsAccounted`, a
part of both, violated with any one of the faults `list`, `inspect`, `remove` and
`start_lost` and one crash, every part violated with `MaxPosts = 2`, and `NoOrphan`
with `create_lost` and one crash.

**Listener.** One inductive invariant `Inv`. `Phases`: the job's tasks are alive
only while the lifecycle awaits the job; without it a renewal could report a
loss after the conclusion was fixed. `Blame` carries the reason of a cancellation
from the watcher or the renewal through the verdict and the override to GitHub.
`Drained` carries the drain's result to the report. `Truth` relates what GitHub
recorded, the answers of `complete_job` and the result. `Fresh` orders the copies
of the broker token: the one the watcher published and the session's own.

**Runner.** `RInv` starts from the kernel lock. `Gripped`: who holds it is on the
file the path names, and that file is not old, unless the holder has just removed
it or is on its way out. `Trying`: a contender has opened the file the path names.
So a contended lock is never judged stale, and `OneHolder` is inductive. `Placed`
and `Commanded` say what of the lock goes with each phase of a driver and of
`remove`, and that a runner is unregistered, or waived, before its record goes
(`waived` names the four ways in which nothing is asked of GitHub: `--force`, a
`remove` that does not unregister, a `register` that failed after GitHub's answer,
and an unverified clean-up that met a runner registered during its job).
`Recorded` and `Marked` relate the files to the drivers: a loop records its stop
only when the registration is gone or no loop drives it any more. The hypothesis
is that the activities named in `Brief` (a call of `acquire`, a reload, the end of
a loop) are not interleaved with others, and that `register` and `remove` run one
at a time; a foreground run starts only beside none of them. For `OneDriver` it is
needed: without it the run `lock_takeover` finds two drivers. For `StoppedIsTrue`
too: a loop may then record its stop after its successor has started.

**Machine.** `MInv` adds to the types: `Paired`, which of setup, credentials and
configuration may exist together (and that only one of the commands holds the
token); `Watched`, which phases of watcher and listener go with which phase of
the loop; `Silent`, that a 401 makes every later step send nothing; `Claimed`,
that the claim at hand is not newer than the row, and that a lifecycle which ran
a job under the row's epoch is on record; `Answered`, what is behind each exit
code. `DoneIsDone` is inductive only with `Claimed`: a completion under an old
epoch must be known to be refused.

**Workspace.** `WInv` follows the locks: `RootHeld` and `LeaseHeld` say which
phase of a job or sweep holds which lock, `JobLeaseHeld` the same for fresh
directories, `Placed`, `Present` and `Started` what a job at a phase may rely on,
`Mapped` and `OneMappingPerDirectory` that a mapping names one directory,
`SweepHolds` and `Covered` that whatever a sweep is about to remove was not
claimed since it took the lease. A consequence is that a sweep never reaches the
removal of an old directory that has no mapping. The hypothesis is needed: a job
whose own mapping cannot be read takes a fresh mapping and leaves its old
directory without one; two sweeps and a job that creates it again can then meet
between the age check and `remove_tree`; and a claim that cannot read another
repository's mapping may choose its directory.

**Orphans.** `SweepInv` has two halves. `Kernel` ties the process table to the
groups the job registered: start times only grow, so a pid and a start time, or a
group number and its making, name one process or one incarnation for ever, and a
group number is given to nobody but its leader while it has members (`Grouped`,
`Registry`). Without it a candidate found in one scan could be somebody else when
it is signalled. `Reading` follows a candidate from its second reading to the
signal: what was read of it and of its group's leader is who was there then, what
passed the check and still is that process is the job's, or in a group whose number
was given out again, and whoever has taken the pid since has started later than
what was read. `NoInnocentKilled` therefore excepts two races: a pid given out again
after its last reading (`same` of a kill is FALSE), and a member of a reused group
whose leader has exited. `Attempted` is the argument of the sweep: a candidate that was
looked at has lost the evidence it was looked at for, or was signalled; so a pass
over everything with nothing new to attempt has settled everything, and settled
processes stay settled.

**Cache.** Two invariants. `CacheInv` says who wrote what, and holds across power
losses and overlapping collectors: an entry, in the index or held by a collector
to be written back, was saved by a job of its scope that may write, and describes
an archive with its size (`EntriesSound`); a staging file holds the first chunks
of an archive, and the file of a v2 upload is never empty (`Uploading`), so that
the size check tells a complete upload from another one even when `finalize` takes
the file of another upload of its key. That step uses `SizesTellAssumption` (no
proper prefix of an archive has the size of one): the size is all that is checked.
`StoreInv` holds as long as nothing overlapped and
no write was lost (`Quiet`): a collector then runs alone (`Alone`); a save's chunks
and manifest are there before its entry is (`Written`); while logs are rewritten,
each is as it was or as it will be and what will not be kept is excused
(`Rewriting`); the sweep spares exactly the manifests of the index and their chunks
(`Sweeping`), and what it finds beyond them was written after a server stopped by
an upload whose client had gone (`late`, the garbage `Collected` allows until the
next pass). `Evictions` cuts the oldest records and no more than it must, so an
evicted record and those not older than it exceed the capacity
(`EvictedAreExcused`); the lemmas on `SizeOf` count bytes as places, which makes
them facts about cardinalities. `SavedIsFound` alone is not inductive: in the
middle of a pass it needs what the plan excused. The sums and the filter of the
plan are therefore written as a cardinality (`Size`, `SizeOf`) and as a recursive
function (`Kept`).

Only model-checked, and why:

- Liveness (`StopsEnd`, `MachineEnds`, `RequestsTakeEffect`, `SlotComesBack`,
  `NothingHangs`, `CancelledEnds`, `CallsEnd`): fairness and `ENABLED` are
  beyond the prover.
- Sums and folds over sequences and trees: `WalksAreExact`, `ExpressionsAgree` (a
  recursive module), and of `RestoresAreSound` the part `RestoredIsFaithful` (the
  bytes of a range are a fold over the plan of its chunks; the other two parts are
  `EntriesAreTrue`). They would need induction over data, whose theorems take an
  operator as a parameter.
- `OneLife`: its run delivers a job twice, which `Reliable` excludes, so that it
  cannot build on `BoxInv` and would need an induction of its own.
- `JobIsTold`, `NothingLeft`, `FetchIsSafe`, `NodeIsRight`, `SetupIsTrue`,
  `OthersAreKept`, `OutputIsRight`, `ReportsAreComplete`, `JournalIsExact`: not
  attempted (section 8).

## 5. Mutants

Each part of each property has a mutant: an operator beside the original with a
plausible slip (an unlocked check, a dropped release, a missing priority, a
stale copy), under which TLC finds the property violated. They are named
`Mutant_...` and used by no action.

## 6. Where the code and its documentation disagree

`lock_takeover`: `lockfile.rs:5-6` promises at most one live `run` per data
directory. A process that takes the lock over the file of a killed one holds the
kernel lock before `write_body` has replaced the old body. A second `acquire`
that meets it for its ten tries (27 ms) reads the dead pid and the old mtime,
judges the lock stale and unlinks the path (`lockfile.rs:192`), also after the
holder has written its body; a third creates and locks a new inode.

### Observations

Seen while modelling; no run states them.

*Daemon.* `snapshot` turns a failed listing into an empty one, and reconcile then
releases running jobs, whereas `docker.rs:287-290` says nothing is released off
an empty snapshot (`docker.rs:302`). A failed start re-queues under two locks and
can leave a queue entry for ever (`docker.rs:442`). Adoption skips a container on
any inspect error and the box can be overcommitted (`inventory.rs:121`). A
redelivered create admitted between the locks of `release` loses its created
entry (`handlers.rs:313`). A destroy or reap of the first delivery that reaches
`release` only when the redelivered job runs gives back the budget of the latter,
and the box can be overcommitted. The reap tombstone is in memory, so after a crash in
a create adoption starts a container whose reap was answered. Promotion passes
over jobs that do not fit, so a large one may wait behind small ones. A start
that times out after taking effect gives back budget in use.

*Listener.* A drain of the step queue that times out logs its updates as dropped,
but its task may still send them, also after `complete_job`; hence `expired` in
`SettledBeforeReport`. A broker migration during a job is never applied. A
`JobCancellation` is not compared with the running job. If the answer of
`acquire_job` is lost, GitHub holds the job as assigned.

*Runner.* `remove --force` during a re-mint lets the re-mint write the
configuration again. A re-mint writes back the configuration loaded before the
lifecycle, so edits made meanwhile are lost. An ephemeral clean-up can delete a
registration that was registered again meanwhile; without a bearer, or for a URL
no runners API can address, it asks GitHub for nothing and deletes the record all
the same (`ephemeral.rs:88-95`, `:107-112`), so that the runner registered again
stays behind (`waived` says so). A loop may record `.stopped`
after its successor started. A failed `remove` leaves `.pending_remove`, which
keeps a runner that is registered again from starting. A shutdown message of the
broker cancels the loops of all registrations.

*Machine.* The deadline is not watched while the report of the dispatch is in
flight (up to 30 s late). A lost answer to a claim keeps the row until its lease
lapses; a lost answer to a pairing leaves a machine nobody has the token of. A
`setup` killed between credentials and configuration leaves a valid token that
the next one overwrites. After SIGTERM the boot watchdog stands down.

*Setup.* Confirming one colliding target sets `replace` for all. A failure
between mint and save makes an unattended re-run exit 2 asking for `--replace`,
although `apply.rs` says that re-running resumes. A failed `--replace` followed
by `--no-service` says "already registered" although GitHub has no runner. A
rollback restores a configuration whose runner was deleted. A kill between
`config.toml` and `credentials.json` leaves half a registration that the next
run calls done (`torn`). `remove_service` deletes the unit file even if stopping
it failed (`forsaken`). Online polling matches by name only.

*Jobs.* A composite that is refused for depth leaves the depth counter raised
(`action_exec.rs:380`). An action container whose creation is not acknowledged
leaks. A failed dump of a service's log fails a green job. The log of a step may
end before its late lines. A job that evaluates its defaults with an error leaves
the prefetch running. A completed hook of a cancelled job is killed at once.

*Workspaces and orphans.* A mapping that cannot be read is ignored by a claim but
protected by the sweep. A host that was suspended between the sweep's scan and
its clock may sweep a workspace in use (`Ages` excludes it). A crash in a removal
leaves a half-deleted workspace to the next job. A pid that is given to a fork of
the same job within one sweep escapes it. `kill_verified` says that it guards
against the reuse of pids (`orphan_cleanup.rs:497-500`), but it signals by pid after
the check (`:523`): a pid given out again in between gets the signal, and a leader
that was replaced after it was read makes a stranger's group look owned. A sweep
parked between its deadline check and the signal can kill after `JobCompleted`.

*Fetching and Node.* The last re-check of `promote_staging` and its
`remove_dir_all` are not atomic (`late`). After a failed attempt `evict` lets two
calls download one revision. A malformed `uses:` switches the prefetch of the
whole job off. A dropped fetch leaves its staging directory. The cache name of a
runtime has neither system nor architecture.

*Cache.* An upload whose client goes away leaves the blocking write of its chunks
or manifest behind (`store.rs:120`, `:139`); nothing waits for it, and what it writes
after the collector has looked stays until the next pass. A line appended behind a torn one is lost. A torn chunk is taken for a
stored one. A missing manifest makes every collection fail until its entry
expires. `finalize` may take another upload's staging file. A collector beside
the next job may drop an entry just written (`execution/src/lib.rs:93-97`), so
`IndexedIsStored` and `SavedIsFound` exclude it.

*Logs.* A line on stderr may be dispatched before an `add-mask` printed earlier on
stdout. A matcher of four patterns could use a stale capture. Lines lost by a
failed live send shift those after them. Spools of a crashed runner are not
swept. The same job acquired again within a second appends to the same journal.

## 7. What the models leave out

- Bodies, encodings, backoff lengths, wording, logging; HTTP is an answer, a
  refusal or a loss.
- Daemon: panicking tasks, a container Docker creates after the daemon died,
  unlabelled containers, authentication, the container spec.
- Runner: the supervisor's own lock (one supervisor per home); several
  registrations (they share the process and its token only); `acquire` calls
  that overlap, outside `lock_takeover`.
- Machine: `--skip-unregister`, `remove --force`, commands that overlap.
  `BootReturns` reads the flag and stops the watchdog at once
  (`boot_cmd.rs:65`, `:158`).
- Setup: system scope as the target, symbolic links, `--no-activate`, `--print`.
  `UnitPresent` looks at the machine unit alone; `machine_unit_present`
  (`stage.rs:293-309`) is also true when a unit of the system scope exists, or when
  the supervisor or the home directory cannot be determined.
- Job: container options, mounts, path translation, registry login; variables
  and contexts are built by pure conversions.
- Workspace: file times within an age.
- Orphans: other users' processes that cannot be signalled are merged with those
  that need not be. Of the kernel it is assumed that a pid is free only when no
  process and no group has it, that it is not given out again within the second in
  which it was given out (a start time has that resolution, and two processes of one
  pid and one second could not be told apart), and that the job's own forks do not
  come round to a pid the sweep has acted on (Observations). The lowest free pid is
  given out first.
- Commands: background writers to a later step's files.
- Journal: `scan_jobs`, and a flush that fails when the file is rotated
  (`writer.rs:122`), which loses what was buffered.
- Node: the look at the file and the `--version` run of one validation are a step.
- Cache: bearer checks, JSON, chunk boundaries and hashes; the second tier is
  never attached by the program.
- Expressions: number formatting, JSON conversion, the lexer's number rules; the
  display form drops the parentheses of an indexed negation (`Shaky` excludes
  it). HashFiles: following symbolic links, absolute patterns.

## 8. Plan

Theorems to add, in this order: `JobIsTold` of `Job`; `SetupIsTrue` of `Onboard`;
`JournalIsExact`.
