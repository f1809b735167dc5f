# TLA+ models of encode-system

encode-system is a farm for video encodes. A **controller** (one Go process, or
several replicas over one Postgres database) keeps the jobs and the nodes; an
**agent** on each encoding machine asks it for work by heartbeats, runs the
rendered scripts and reports how they ended. The controller is never the one to
call: all that a node does, it does in answer to its own last heartbeat.

This directory models what is hard to test in that arrangement: request
handlers on several replicas that interleave between any two of their database
statements, rows read early and written back late, replies and reports that are
lost or late, agents and machines that restart, and files and manifests that
are replaced while others read them. TLC checks the models on small instances;
TLAPS proves the most important results for every size of farm.

Paths below are relative to `src/backend/internal/` unless they say otherwise.

## 1. Inventory

| Component | State | Operations | Modelled in |
| --- | --- | --- | --- |
| Job dispatch (`api/handlers.go`, `store/store.go`) | `jobs`, `nodes` tables | heartbeat, completion, assign, orphan sweep, automatic retry; operator's create, retry, cancel, delete, patch | `Dispatch` |
| Job lifecycle promised by the store (`store/store.go`, `model/model.go`) | a job's status and node | the edges of the status graph | `JobLifecycle` (abstract) |
| Agent (`agent/agent.go`, `agent/jobs.go`) | registry of jobs, task counter file, syncing flag | heartbeat ticker, execute, complete, reboot, sync | `Dispatch`, `NodeCycle`, `Updates`, each its own view |
| Node administration (`api/handlers.go`) | `nodes` rows | patch, delete, reboot request | `Dispatch`, `NodeCycle` |
| Reboot and maintenance cycle of a node | `tasks_since_boot`, `reboot_pending`, `reboot_issued_at`, agent counter, the machine | limit, reboot instruction, proof of return, grace period | `NodeCycle` |
| Update store (`update/update.go`, `api/handlers_publish.go`, `agent/agent.go`, `agent/extract.go`) | payload files, `manifest.json`, manifest in memory; a node's binary, library and tools folder | publish, rollback, load at start, offer, sync, extract | `Updates` |
| One job on the agent (`agent/agent.go`, `agent/steptrack.go`, `agent/s3transfer.go`) | the job's directory, output, trackers, the release bucket | stage, download, run, capture, upload, report | `JobRun` |
| Singleton loops (`store/leader.go`, `cmd/controller/main.go`) | advisory lock, session, loop goroutines | acquire, keepalive, release, shutdown | `Leader`, abstract: `Election` |
| Scanner (`scanner/`, `api/retention.go`) | episode folders, `jobs` | scan, check, create; prune | `Scan`, on top of `Leader` |
| Live log stream (`api/logstream.go`) | hub of subscribers, one channel each | publish, subscribe, snapshot, re-check, end | `LogStream` |
| Notifications (`notify/`, `api/node_alert.go`, `api/disk_alert.go`) | baseline, cooldowns, digest buffer | observe, push, drain, post | `Alerts`, on top of two `Leader`s |
| Accounts (`api/auth_handlers.go`, `api/handlers_users.go`, `api/tokens.go`) | users, sessions, tokens | login, logout, create and delete user, change and reset password | `Accounts` |
| Flows and step templates (`api/handlers.go`, `api/handlers_ext.go`, `api/handlers_templates.go`) | flows, templates, a series' flow, a job's flow | create, update, duplicate, import, flag, delete, seed | `Catalog` |
| Pairing, provisioning (`api/handlers_templates.go`, `provision/`) | one-time codes, nodes, runs | issue, pair, consume, roll back; the stages of a run, reconciliation | `Enrol` |
| Backup and restore (`api/backup.go`, `api/backup_pg.go`) | dump files, the database | dump, prune, delete, restore | `Admin`, on top of the three above |
| Text of flows (`flow/`) | none | rendering | not modelled: whether a job renders is the constant `Renders` of `Dispatch`, and follows from its templates in `Catalog` |
| Shares, settings | rows | create, read, update, delete | not modelled: no interaction of steps |
| Statistics, metrics, ETA | none | queries | not modelled: read-only |
| SQL dialects, schema, SQLite import | none | query rewriting | not modelled: its effect is in the statements of the models |
| `encodectl`, web interface, deployment files | none of the system's | | not modelled; `Restart=always` and the restart policies of the compose file justify the restarts that the models allow |

### How the parts interact

* agent to controller: `POST /api/agent/heartbeat` with the registry, the task
  counter, the syncing flag and the versions; the reply carries one instruction
  (`job`, `reboot`, `update`, `none`). One heartbeat at a time per agent process.
* agent to controller: `POST /api/agent/job/{id}/complete`, once per job, from the
  job's goroutine, with a deadline of 30 s, never repeated.
* agent to controller: downloads, which do not take the update store's lock.
* replicas among each other: the shared database, and the shared directory of
  update payloads; nothing else. Each replica has its own manifest in memory.
* operator to controller: requests that write the same two tables.

### What is hard, and what makes each component correct

*Dispatch.* A heartbeat is about a dozen statements without a transaction around
them. Correct means: a job is with one node at a time (`EncoderOwnsJob`), no node
gets more than its cap although several requests count at once (`CapacityHolds`,
`NoOvershoot`), what is terminal stays so (`TerminalSticks`), an outcome comes
from the owner (`OnlyOwnerFinishes`), retries stay in budget although the count
is read early (`AutoRetryCounts`), columns that statements write separately go on
agreeing (`OwnerFollowsStatus`), and every queued job gets an outcome
(`EveryJobSettles`). `JobLifecycle` says the same as a machine.

*Node cycle.* Controller and agent each act on what the other said last, and the
agent's own goroutines on what they find when they run. Correct means: nothing is
encoded when the machine accepts a shutdown (`RebootAcceptedIdle`) or while binaries
are swapped (`NoJobMidSwap`), with the exceptions the properties name; the limit is
overrun by no more than what the agent holds and one reply brings (`TasksBounded`),
and not forgotten (`LimitLeadsToReboot`); there is no reboot without a cause
(`RebootHasCause`), and neither updates nor jobs are held up for ever
(`UpdateArrives`, `NeverLockedOut`).

*Updates.* Files and manifest change one after the other, a write may fail between
two of them, and a download may come there. Correct means: the files that are
served have the checksums the manifest gives, and the rollback slot holds the
release that the manifest says, with its checksum, until a rollback or a publish
that failed (`PayloadsMatchManifest`); a node that gets jobs has whole tools
(`WorksWithWholeTools`), it installs what it was told of and nothing else
(`InstallsWhatWasOffered`), and the nodes come to run what is offered
(`FleetConverges`).

*Leader, Scan, Alerts.* A session dies without the replica's knowing, and the lock
goes to another one. Correct means: a leader on a sound session has the lock, and
leadership passes through nobody (`SoundLeaderHasLock`, `IsAnElection`); a scanner
gives an episode one job, and two scanners do so but across a session that one of
them lost (`NoDuplicateByScanner`), and every ready episode gets one in the end
(`ReadyIsQueued`); an outcome is told once, whatever buffer it passed through
(`NothingDropped`); a change of a node is told once, with the same exception, and one
that nobody told was missed for a reason (`AlertsHaveCauses`).

*LogStream.* Row, hub and connection are on different sides of three gaps. Correct
means: a stream is not told an end that is taken back by an automatic retry
(`OnlySettledIsFinal`), and it ends when its job has ended (`StreamEnds`).

*JobRun.* Output arrives in pieces, transfers fail in the middle, and an attempt
finds what the one before left. Correct means: what the operator sees is what was
printed (`OutputIsTold`), done means that all which a run left is released
(`DoneMeansReleased`), and nothing is released that no successful run left
(`OnlyWholeRunsPublished`).

*Accounts, Catalog, Enrol, Admin.* Handlers check and then write, without a
transaction around both. No property that such a check is for holds outright:
correct means that it fails through the overlaps it must fail through and through
no other sequence of requests, cut-off requests and restarts included
(`LastAdminStays`, `SessionsFollowPassword`, `DefaultFlowStays`, `FlowsRender`,
`CodeIsOneShot`, `RestoreSparesQueue`, `DumpsCanBeRestored`). Two hold without
exception but for a restore: a pairing that was served to its end leaves no node
without an owner (`PairingLeavesNoResidue`), and a run that shows as running runs
(`RunsAreAlive`), if it was among the newest at the restart.

## 2. Modules and plan

| Module | What it is | Status |
| --- | --- | --- |
| `Dispatch` | jobs, nodes, heartbeats, completions, agents, operator, faults | done |
| `JobLifecycle` | abstract life of a job; `Dispatch` refines it | done |
| `MCDispatch` | instances of `Dispatch` for TLC | done |
| `Dispatch_proofs` | types, capacity, ownership, for every farm; the refinement of `JobLifecycle`, who encodes and who finishes a job, retries, for every farm of a kind | done |
| `NodeCycle`, `MCNodeCycle` | one node's counter, reboots, updates, work | done |
| `NodeCycle_proofs` | all its safety: types, work mid-swap, reboots that begin idle and with a cause, the limit's bound | done |
| `Updates`, `MCUpdates` | the update store with its three packages, and the nodes | done |
| `Updates_proofs` | its types for any number of replicas; all its safety for one replica and any number of nodes | done |
| `Leader`, `Election` | supervision of a singleton loop, the election it implements | done |
| `Scan`, `MCScan`, `Scan_proofs` | the scanner under `Leader`; the proofs of the election and of when an episode gets two jobs | done |
| `Alerts`, `MCAlerts`, `Alerts_proofs` | digest and node alerts, each under an instance of `Leader`; nothing is dropped, alerts have causes | done |
| `LogStream`, `MCLogStream`, `LogStream_proofs` | the live log of one job; types, final events | done |
| `JobRun`, `MCJobRun`, `JobRun_proofs` | one job on one agent; what done means, and what its log is | done |
| `Requests` | a pool of handlers in service, for the next three | done |
| `Accounts`, `Catalog`, `Enrol` | the management plane by statement | done |
| `Admin`, `MCAdmin` | the three together, with backups, restore and restart | done |
| `Admin_proofs` | all its safety, for any number of requests in any mixes | done |

Dispatch came first because the rest of the system exists for it, and because it
is where most interleavings are. `NodeCycle` abstracts from what `Dispatch` details
(the statements on the jobs table) and details what `Dispatch` leaves to a choice
(`HbHold`: reboot, update, disk, drain); `JobRun` details the encode that is one step
in `Dispatch`; `Scan` has dispatch and encode as one step.

Worth doing next: an abstract specification of a farm with late reports and restarting
agents, as `JobLifecycle` is one without them; an abstract register of releases for
`Updates`, and two replicas over one directory;
the series pause in `Dispatch`'s queue; the login throttle.

## 3. Modules and code

### Dispatch

| Variable | Code |
| --- | --- |
| `status`, `owner`, `retryCount`, `gate`, `lastFailed`, `priority` | columns of `jobs`; `gate` is `next_retry_at`: not set, in the future, or reached |
| `registered`, `enabled`, `slots`, `busy` | the rows of `nodes`; `busy` is `status = 'busy'` |
| `work` | the agent's registry: encoding, or reporting the outcome |
| `awaiting` | the request whose reply the agent's heartbeat loop waits for |
| `hb[h]` | the local variables of one `handleHeartbeat` in flight |
| `report[n][j]` | the completion request in flight for that job, and the retry count its handler read |
| `ops`, `faults` | budgets of the instance |

Each statement of a handler is an action, and the handlers' locals (`copy` of the
row, snapshot of the active jobs, free slots, retry count) are kept in the record,
so they may be stale when used. The order of statements is that of
`handleHeartbeat`: reports (`HbReadReported`, `HbMarkRunning`), the orphan sweep
(`HbReadActive`, `HbFailOrphan`, `HbReread`, `HbRetryOrphan`), the write of the node
row together with the answer or the start of the assignment loop (`HbHold`,
`HbOffer`), and per free slot a pick, a rendering and `AssignJob` (`HbPick`,
`HbRefuse`, `HbBind`). Statements that are one transaction in the code
(`AssignJob`, which locks the node row, `FinishJobWithReport`) are one action.

Abstractions: an encode (download, script, upload) is one step that ends well or
badly; `CancelJob` with the release of its node is one step, and so is
`PatchNode`; the gates of a reboot, an update, a full disk and drain mode are the
choice between `HbHold` and `HbOffer`; group routing is the constant `Routable`; the
pause of a series and a change of a job's flow are left out; single statements do
not fail by themselves (a replica may die instead, at any of them). At most one
completion of a job by a node is in flight. `GateOpens` waits until no report is
under way: the backoff is a minute or more, the agent's deadline 30 s.

### JobLifecycle

Two variables, one action per edge, no handlers. `Dispatch` implements it with
`status` and `owner` mapped to themselves: the point is that no interleaving of
statements produces an edge that is not there.

### NodeCycle

| Variable | Code |
| --- | --- |
| `row` | `tasks_since_boot`, `reboot_pending`, `reboot_issued_at` (unset, within the grace period, older) |
| `job` | the jobs table as far as it concerns the node |
| `release`, `installed` | the manifest's version and the agent's |
| `update`, `syncing` | the goroutines of `handleUpdate`, each with its stage, and the one flag they share |
| `counter`, `work`, `machine` | the counter file, the registry, whether a shutdown was accepted |
| `hb` | the request in flight: what it reported, its copy of the row, its answer |
| `admin` | the row `handleRebootNode` has read and will write back |
| `disowned`, `landed`, `crossed`, `ordered` | history: jobs cancelled after they were handed out, encodes of heartbeats that left without the flag, a shutdown that crossed an update, a reboot an operator asked for |

A heartbeat is sent, recorded (reports, orphans, proof of return, grace period,
`UpdateNode`), decided (`HbReboot`, `HbUpdate`, `HbNone`, `HbAssign`, in the code's
order of priority) and answered. The jobs statements of one request are one step
here. Heartbeats go out whatever else the agent has to do: while a report has been
answered and its count is due (`Complete`, then `BumpCounter`, `agent/agent.go:586`),
and while an update has been begun by a reply and has not set its flag yet
(`HbReply`, then `UpdateBegin`). An update that finds work puts itself off
(`UpdateCheck`); its end clears the flag, whoever else still needs it (`UpdateEnd`).
`FailEarly` is a failure before the script (`agent/agent.go:443`, `:488`, `:496`, `:508`,
`:513`), reported and never counted; `Cancel` takes an assigned job away without the
agent's knowing; `Accepts` is the registry with its cap. The machine goes down some
time after the shutdown was accepted; the code asks for 30 s, heartbeats are 15 s
apart. The node is enabled throughout. A job id may be used again when its job is
over, which stands for the next job; the queue need never run dry. A power failure
without a shutdown is not modelled.

### Updates

Files have contents, and the content of release `v` is `v`, which is also its
checksum and the version the program reports. A copy or an extraction that was cut
short is `Junk`. `PublishAgent` and `RollbackAgent` are taken apart at every change of
a file, as a crash may come between any two, or a write may fail: the best-effort
copy to the rollback slot (`RotateFails`), the payload after it (`InstallFails`), the
manifest (in `Persist`: a temporary file, renamed, so it changes as a whole or not at
all). `PublishLib` and `PublishBin` are one pair of actions over the set
`Tools`: their versions only go up and there is no rollback. A replica's lock is
`op[r]`: heartbeats wait for it (`Manifest` takes it), downloads do not. `Crash` starts
the replica again with `loadFromDisk`.

| Variable | Code |
| --- | --- |
| `file`, `prev`, `swap`, `toolFile` | the payload, its rollback slot, the name a rollback moves it through, the other two packages |
| `disk`, `mem`, `op` | `manifest.json`, each replica's copy, the operation that holds its lock |
| `runs`, `folder` | what a node has on its disk |
| `claims`, `saved` | the versions the agent reports, and the file `bin-version` |
| `sync` | `handleUpdate`: its manifest, and which of the three steps is next |
| `upset`, `astray` | history: what became of the rollback slot since a publish filled it, and what had become of it when a rollback took from it |

A node syncs library, tools and agent in the code's order, each on its own, and a
step that fails is left to a later heartbeat. `HalfExtract` is a locked file in the
middle of the zip; `AgentRestart` is a restart in the middle of anything. One
platform is modelled: `scopeManifestForNode` gives a Linux node a manifest without
library and tools, which is `Tools = {}`, and the other platform's slot has files
and fields of its own.

### Leader and Election

`lock` is what the database says, `conn` what became of the session, `phase` where the
supervisor is: `standby`, `leading`, `draining` (the keepalive has failed and the body
is being waited for), `stopping`, `down`. A session may break while its replica goes
on; the database ends it (`SessionEnds`) before or after the replica notices
(`KeepaliveFails`). `Release` is the end of the body, with the unlock. `Election` has
one variable, the leader; `Leader` implements it with the leader on a *sound*
session, and `Scan_proofs` proves that it does.

### Scan

A folder is a set of file names, and the two inspections are one fold over the
listing, with `Look` for their switch; what differs is the file the stability gate
looks at (`GateFile`). `ChoiceIsBest`, an assumption TLC evaluates, compares the fold
with a definition of the best source and script for every set of files. A pass is
`StartPass` (the listing), then for each candidate `ReadSeries`, `CheckEpisode` and
`CreateJob`, each a statement; all of them stop when `Live` does, as the loop's context
is cancelled. A row remembers which replica's scanner queued it and whether that
replica had its session (`by`, `sound`). The environment copies files in, lets them settle, encodes, cancels,
retries, deletes, prunes, holds a series, and creates jobs by hand.

### LogStream

`row` is the job with the number of ends it has had, an end being whatever brings it
to a terminal status. `beat` is the handler that publishes progress, `finish` has the
two that record outcomes, the completion (`FinishJobWithReport`, guarded by the
status) and the orphan sweep (`FinishJob`, which writes over any status), each read,
written, decided (`shouldAutoRetry`) and published in steps of its own, on any
replica. `stream[s]` is a connection: `Open` (the row is read), `Subscribe`, `Relay`,
`Keepalive` (every 15 s, the row again), `Leave`. A channel holds `Cap` events and loses
what does not fit. A replica that restarts loses its handlers, its hub and its
connections; an agent that restarts loses the encode, which the sweep then finds.
A job in its backoff may be given out at any time. History: `retried` has the ends
that an automatic retry took back, and whether its own handler did.

### Alerts

Two instances of `Leader`, one for the digest loop and one for the node alert loop,
on the same replicas: what terminates a process terminates both. An outcome goes
`JobFinished` (which replica served the completion), `Notify` (mute, digest or now),
`Push` or `Post`; `Drain` and `Flush` are the two halves of `FlushDigest`. `Flip` is the
node's coming and going; the changes are numbered, and the node is online after
every second one. `prev` is the change that a replica's baseline knows, `Tick` the
comparison with it, `Send` the post. `missed` is history: the changes that came while
no loop had a baseline, were undone before a look, were found with alerts off, or
were lost with their loop or by Discord. `CheckDisk` has the cooldown of a node on each
replica. Sessions of both loops may break.

### JobRun

`Output` is what the script prints, in tokens; `Emit` gives the observer any prefix of
what is left, and `ProcessLine` is what the observer makes of one line: ring, step,
durations, metrics (`MaxMetrics` of them). A release has `Parts`, files that the script
writes at any time (`WriteFile`); a script that ends with 0 (`Exit`) has printed its
output, and whether it wrote any file nobody checks. `Capture` flushes the text and
builds the report's log from the run log's end, `Upload` visits the files in the
release directory one by one, whoever wrote them, and may fail at each,
`CompleteJob` reports once. `left` is history: what was in the directory when a script
ended with 0. Time is the number of tokens printed. `Crash` is the agent's death; the job comes
back by `Accept`, to the directory as it was left.

### Requests, Accounts, Catalog, Enrol, Admin

`Requests` is a pool of handlers: what each does, at which statement it is, what it
has read. Rows are named by the request that inserted them, so histories need no
counters. `Mixes` names sets of operations that share data; the requests of one
behaviour come from one mix, so that the pool can be three deep. Each handler is
`...Arrives`, the reads it makes before its first write, and a step for each later
statement that something may come before. The database is PostgreSQL at READ
COMMITTED. `Accounts` has users, sessions and one API token, `Catalog` flows, templates,
the series' flow and jobs' flows, `Enrol` codes, nodes and provisioning runs with the
stages of `execute`; `Admin` puts them behind one pool, adds the dump that reads table
after table and the restore that replays one, and `Restart`, which cuts all handlers
off and seeds (`seedStepTemplates`, `seedDefaultFlow`, `seedAdminUser`,
`ReconcileStaleRuns`). `ClientLeaves` is a request whose context is cancelled at one of
its statements.

Abstractions: one custom template and one built-in; one series; a password is the
number of times it was changed; flows other than the default one that the boot
seeds come back like it and are left out; a provisioning run is of the Windows
kind, the only one the API can ask for; restored rows keep their ids.

## 4. Runs

Twelve runs: eleven show what holds, one shows where the code and its documentation
disagree about the core of the system. The configurations of the other
disagreements (section 6) are kept beside them.

| Run | Instance | Distinct states | What it shows |
| --- | --- | --- | --- |
| `Handoff` | 2 nodes, 2 handlers, 1 job, 1 retry, 1 operator request of any kind, 2 deaths | 338 thousand | one job changes hands under every interleaving; refines `JobLifecycle` |
| `Slots` | 1 node, 2 handlers, 2 jobs, 1 change of node or priority, 1 restart or late report | 4 million | the cap holds when two requests of one node assign at once |
| `Settles` | fair; 1 node, 1 handler, 3 jobs (one never renders), cap 1 or 2, 1 retry | 82 thousand | every job reaches an outcome; encodes within slots |
| `Cycle` | 2 jobs, 2 slots, an agent's cap of 2, limit 1, 2 updates at once, 1 request (reboot or cancel), 1 release, 1 lost reply or early failure | 8.2 million | safety of counter, reboot and swap |
| `Converges` | fair; 2 jobs, 2 slots, limit 2, 1 update at once, no request, 1 release, 1 lost reply or early failure | 359 thousand | reboot and update come |
| `Updates` | fair; 1 replica, 1 node, 3 releases, 2 versions of library and tools, 3 publishes, 3 troubles of any kind | 1.3 million | files, manifest and fleet agree |
| `Scan` | fair; 2 replicas, 2 episodes, 1 broken session, shutdown or crash, 1 operator request, 5 rows | 1.3 million | when an episode gets two jobs, and that it gets one |
| `Alerts` | 2 replicas, 2 loops, 2 outcomes, 2 changes of a node, 1 broken session, shutdown or crash | 2.6 million | election; nothing dropped, doubled or forgotten |
| `Stream` | fair; 2 replicas, 1 stream, channel of 2, 1 retry, 3 attempts, 1 operator request, 1 restart | 4.5 million | the end is told when it is one, and comes |
| `Encode` | 2 attempts, 3 steps, 1 metric of 2 kept, an unended line, 2 objects, a release of 2 files, 1 crash | 451 thousand | output, release and report agree |
| `Admin` | 3 requests of five mixes, 1 restart | 2.9 million | what check-then-write can break, and what it cannot |
| `LateReport` | `TerminalSticks` | violation | section 6 |

Why the bounds are enough. A hazard of `Dispatch` needs one job and at most two
parties that disagree about it: its two nodes, or two requests of one node, so two
handlers are enough for any pair of requests, and a completion is a third party
that needs no handler. Two deaths allow one reply and one report to be lost, or a
replica to die twice in one job's life. Capacity needs two jobs against a cap of
one and of two, both of which the initial states contain. With three jobs, two
slots and one retry, a queue, a full node and a backoff coexist. In `NodeCycle` two
jobs fill two slots and the registry, one ends and is queued again while the other
one's count is due, and with a limit of one every task that goes out before the
first is counted is past it; two updates are what it takes for one to clear the
other's flag. In `Converges` the limit of two lets a node work, be full and reach it.
`Updates` needs three releases, for current, previous and next; nodes do not meet,
so one stands for all. Its three troubles are any of a rollback, a failing write, a
crash, a half extraction and a restart, so a rollback may follow a failed publish, a
rollback another one, and a third trouble come on top. Leadership
passes between two replicas, and one fault makes it pass twice. A channel of two
is full with one event left over and the end to come; three attempts are a first
one, its automatic retry and an operator's, or a sweep's. A file of an earlier
attempt needs two attempts, and an upload that fails halfway two files. A race of the management plane has two parties, and the third request is
the one that shows it, or the dump that froze it. That does not cover everything:
with a fourth request, a deletion can overlap a restore of a dump that a third one
made. Trying to prove the properties brought four such cases up, TLC
confirmed that of `FlowsRender` on an instance of four requests of one mix, and the
properties name them now (a template deleted on what was read before a restore, an
administrator counted who was then put away by one, a login that read the passwords
a restore replaced, a run outside the list of a restart); the theorems of
`Admin_proofs` hold for any number of requests.

Bounds by name: `MaxOps`, `MaxFaults`, `MaxRetries`, `MaxSlots`, `MaxLocalJobs`
(Dispatch), `MaxLocalJobs`, `Updaters`, `MaxRequests`, `MaxReleases`, `MaxFaults`
(NodeCycle), `MaxRelease`,
`MaxVersion`, `MaxPublishes`, `MaxTroubles` (Updates), `MaxFaults` (Leader), `MaxOps`,
`MaxJobs` (Scan), `MaxFlips` (Alerts), `Cap`, `MaxRetries`, `MaxAttempts`,
`MaxOps`, `MaxCrashes` (LogStream), `RingLines`, `FullLogCap`, `MaxMetrics`, `MaxAttempts`,
`MaxCrashes` (JobRun), `MaxRequests` (Requests), `KeepRuns`, `ListedRuns` (Enrol), `MaxBackups`,
`MaxBoots` (Admin). `MaxSlots`, `MaxLocalJobs`, `MaxRetries`, `Cap`, `RingLines`,
`FullLogCap`, `MaxMetrics`, `KeepRuns`, `ListedRuns` and `MaxBackups` are limits of the code, most of
them smaller here; the others are of the instance. Symmetry (handlers, nodes, jobs,
outcomes) is used in runs without liveness only; jobs are not symmetric in
`Dispatch`, where the queue is ordered by id. Deadlock checking is off where the
system may stop: an only node may be deleted (`Handoff`), publishes, faults, attempts
and requests run out (`Updates`, `Alerts`, `Stream`, `Encode`, `Admin`).

### Fairness

* `SendHeartbeat`: the agent's ticker (`agent/agent.go:251`).
* `HandlerStep`, `ReportStep`, `Controller`, `HbReply`, `RebootRequestWrite`, `ReplicaStep`: a
  goroutine serving a request goes on, or its replica dies, which is a fault of its
  own.
* `AgentFinish`, `AgentForget`, `EndEncode`, `Complete`, `BumpCounter`: a script
  ends and the deferred functions run (an encode that hangs is cancelled by nobody).
* `GateOpens`, `GraceExpires`: time passes.
* `HbOffer`, `HbAssign`: *strong* fairness. A heartbeat that may assign may also
  find a low disk or drain mode; these do not last for ever, but nothing says at
  which heartbeat they end.
* `UpdateEnd(u, TRUE)`: strong fairness; a download that is tried again and again
  succeeds at some time. `UpdateBegin`, `UpdateCheck` and `UpdateEnd` of either outcome
  are weakly fair: the goroutine runs, and the agent gives a sync 30 minutes.
* `PowerCycle`: a shutdown that was accepted takes place.
* `Heartbeat`, `NodeStep` (Updates): the ticker, and the 30 minutes.
* `Proceeds` (Scan): weak fairness of the replicas and the database *together*: tickers
  of loop, keepalive and supervisor go on, in whatever order.
* `Serve` (LogStream): the loop of a connection takes what is in its channel or the
  tick of its keepalive.

Nothing makes the operator, the publisher, or a fault happen. `Alerts`, `JobRun` and
`Admin` have no fairness: only safety is claimed of them.

## 5. Proofs

The theorems hold for every value of the constants that satisfies the named
assumptions of the modules: finite sets of job ids, `NoNode`, `NoJob` and
`NoHandler` outside the sets they stand beside, limits that are numbers. TLC
evaluates the same assumptions in every run.

**`Dispatch_proofs`**

* `TypeCorrect`, `TypesHold`: `TypeOK` is not inductive by itself. A handler at
  `bind` indexes the jobs table with `cur`, which `TypeOK` allows to be `NoJob`; so
  the invariant `TypeInv` adds `Shape`, which says what a handler has filled in by
  each of its statements.
* `NeverOvershoots`: an action property. Every step but `HbBind` leaves each node's
  active jobs a subset of what they were (`WritesBringNoWork`, `HandlerWork`,
  `StepWork`: the owner of an active job does not change, and no status becomes
  active except from active), and `HbBind` has counted in the same transaction
  (`NodeGains`).
* `CapacityAlways` follows: a set that does not grow keeps its cardinality, one that
  grows is within its cap, which is within the clamp, and the caps stay what they
  are until an operator acts (`CapsStay`).
* `OwnerAlwaysFollows`: `OwnerFollowsStatus` needs to know also that a job not yet
  created has no owner (`UnbornUnowned`), or its creation would break it.

The rest of `Dispatch_proofs` is about farms (`Quiet`) whose faults are broken connections
and dying replicas (`"kill"`), whose operators create, cancel, retry, delete and change
anything, but do not send a job they cancelled back to the queue (they use one of the
two actions, or act once at most), and where a job renders on all the nodes it may be
offered to, or, if nobody cancels, on all of them or none (`RendersAlike`). The run
`Handoff` is such a farm. Of them all, of any size:

* `CalmAlways`, from which `TerminalAlwaysSticks`, `OwnerAlwaysFinishes` and
  `LifecycleImplemented` follow. `Calm` says what a heartbeat handler may rely on
  although its statements interleave with everything. An agent waits for one
  request at a time (`Serves`), and only that request can bring its node work. So a
  job of the node that the agent's registry did not have when the request was sent
  stays unknown to the agent, running, and the node's until this request fails it
  (`KnowsReported`, `SweepsSoundly`); no completion of it can be under way, because a
  job being reported is in the registry, and its owner is still the reporter when
  the outcome is recorded (`ReportCalm`). A job that a handler is about to refuse is
  one that no node can be given, so it waits, has been refused before, or is gone
  (`RefusedIsIdle`); and what was cancelled stays out of the queue (`NoneCancelled`).
  With that, every statement is one move of one job (`Moves`), and each move is an
  edge of `JobLifecycle`.
* `EncoderAlwaysOwns`, where no cancelled job is deleted (`NoDeletes`). `Tidy` adds to
  `Calm` that a completion still to be recorded is the holder's (`ReportsHeld`), and
  that what a request carries is held by its node and not yet encoded
  (`BringsOwned`); a job back in the queue may linger in its old agent's registry, but
  only as a report that no longer counts.
* `RetriesAlwaysCount`, where operators do not retry (`NoRetries`): the count that is
  written back is still the row's, as a failed job is in the hands of the one
  request that failed it (`Counted`). A retry by hand sets the count to zero under
  such a request, which then writes back the old one.
* `EncodersAlwaysWithinSlots`, where no operator cancels a job or changes a node
  (`NothingTaken`): what is encoded is held (`Tidy`), nothing is cancelled
  (`NoneCancelled`), the caps are what they were (`WithinCaps`), and what is held is
  within them (`CapacityAlways`).

The assumptions are needed. TLC finds `TerminalSticks` violated when reports may be
late, or when a job that renders nowhere is cancelled between its pick and its
refusal; `EncoderOwnsJob` when an agent may restart while its request is served, or
when a job is cancelled and then queued again or deleted while its node encodes it;
and `OnlyOwnerFinishes` when a job renders on one of two nodes only.

**`NodeCycle_proofs`**

* `CycleTypes`: type correctness.
* `RebootsBeginIdle`, from the invariant `Knowledge`: what a request in flight has read
  stays true enough. What the agent has not reported yet, but for jobs cancelled
  under way (`Held`), is active in the table, and a request that decided on a reboot
  found nothing active and nothing reported; while it is served nothing new starts,
  as one request is served per agent at a time and only its reply brings work.
* `NeverMidSwap`. A request that is served while an update is under way left with the
  flag, or left early (`SyncKnown`), and one that left with the flag brings no job; an
  update begins to swap only when the registry is empty. Hence an encode that meets
  a swap came with an early heartbeat, of which `landed` keeps the jobs. That the
  flag may be cleared by another update, or not be set yet, is part of what is
  assumed of `early`, and not excluded.
* `TasksAlwaysBounded`, by counting. Counter and registry together, while a request is
  served, are no more than what it reported and the agent's cap; a task is counted
  by leaving the registry, so only a reply that brings jobs adds to the sum, and
  only after a report below the limit (`TasksKept`). Hence the bound, for any number
  of jobs: the limit less one, the registry, and one reply's worth. The code counts
  after it has reported, and nothing keeps heartbeats from going out in between.
* `RebootsHaveCause`. Until an operator asks, or a shutdown crosses an update, a pending
  reboot is due to the limit and finds the agent with nothing to do (`PendingIsDue`,
  `PendingIsSeen`), so the first report after the counter was reset is lower than the
  row and ends it (`RebootIsDue`); what a request knows of the row is right, as nobody
  else writes it (`RowIsKnown`).

**`Updates_proofs`**

* `TypesHold`, for any number of replicas over one directory. `TypeOK` does not say that
  an operation on the way has a release (`OpShape`), without which the next statement
  would write none.
* `ManifestIsTrue`, `ToolsAreWhole`, `NodesInstallTheOffer`, for one replica (`Alone`) and
  any number of nodes, releases, publishes and troubles, from the invariant `Inv`.
  `Checksums` holds whatever dies, as `loadFromDisk` computes the checksums again: those
  in memory are the files', except of the file that the operation under way has
  replaced, which is the one it is about, and unless a rollback was misled
  (`Misled`). What is known besides is *which release* lies where: `Slots` says it for
  the file, the rollback slot and the swap file at each statement of a publish and
  of a rollback, until a replica dies or a slot that a failed publish overwrote is
  rolled back to; `Named` says that a release goes with its own checksum, until a
  rollback follows another one or a failed publish (`Known`). `ToolSlots` is the same
  for the tools. What a node was told is a manifest that fits together and is not
  ahead of the replica's (`ToldRight`); and a version that it claims is on its disk, or
  older than the one on offer, so that it will be replaced (`NodeHonest`). Hence a
  node whose extraction broke off needs the tool still, and gets no job. Two replicas
  over one directory do not have these properties (section 6).

**`Scan_proofs`**, for `Leader` and for `Scan`

* `LeaderInvHolds`: the invariant ties the three points of view together. A session
  that lives has the lock (`LivingSessionHasLock`), and a replica has a session only
  while its body runs (`SessionIsForBody`). Neither is inductive without the other: a
  release must know that the session is its own.
* `SoundLeaderAlwaysHasLock` and, from it, `SupervisionIsElection`: a step is mapped
  to an election, an abdication or a stutter; two sound leaders at one time are
  excluded because the lock has one holder, so a change of leader passes through
  nobody.
* `ScannerIsSupervised`, `ScannerIsElected`: `Scan` as a whole refines `Leader`, and with it
  `Election`. (`Alerts` does not refine its two instances literally: they share one
  count of faults. `Alerts_proofs` therefore proves the elections directly.)
* `ScannerNeverDuplicates`, under every fault. A replica that runs the loop's body has
  a session, be it broken (`BodyHasSession`), and a pass is in progress only there
  (`PassIsOfLeader`). At an insert every job that counts for the episode is an
  operator's, or another replica's while one of the two has lost its session
  (`CheckStands`): of two replicas with living sessions one leads (`LeaderInv`), and what
  its own check found still stands, whatever shutdowns and crashes come between.

**`LogStream_proofs`**

* `StreamTypesHold`, for every size of channel.
* `OnlySettledIsEverFinal`: ends are numbered as they are written, and nobody knows of a
  later one than the row has (`EndsInOrder`); a handler that is about to publish will
  not take its end back, and one that may still do so makes whoever reads the row
  now an early reader (`FinalsSettled`). The statement covers channel, keepalive and
  snapshot alike, and restarts of replicas and of the agent.

**`JobRun_proofs`**

* `DoneIsReleased`, for every script, every set of files, and wherever uploads and attempts
  are cut off. Neither the directory nor the bucket gets older (`NothingGetsOlder`), and
  no file is of a later attempt than the one under way (`NothingAhead`); what the
  upload has passed is in the bucket (`UploadInOrder`); a report says "done" only when
  the upload is through (`ReportInOrder`).
* `OnlyWholeRunsAreEver`, from the same invariant: an upload visits what was in the
  directory when the script ended with 0. That this may be another attempt's file is
  not excluded: `LeftOvers.cfg`.
* `LogsEndTheOutput`, the half of `OutputIsTold` that is about the report's log, for every
  output and every cap. `CapturesTheEnd` is the lemma about `captureRunLog`: whatever the
  text, what it keeps is its end, within the cap, and the cut line is dropped if there
  is an end of a line in what was kept. Nothing is printed between the script's end
  and the report (`LogInv`).

**`Alerts_proofs`**

* `NothingIsEverDropped`, for any number of replicas, outcomes and faults, broken
  sessions included. The invariant is a conservation law (`Conserved`): of every
  outcome that came about, the request that carries it, the buffers that have it,
  the flushes that drained it, the posts of it and its loss with a process add up to
  one.
* `AlertsAlwaysHaveCauses`, for any number of replicas, changes and faults, broken
  sessions included (`NodeInv`). A replica has a baseline only in the loop's body
  (`Baselines`), it knows no change that has not come, and the alerts it made are of
  changes up to the one it knows (`Knowledge`), so it makes none twice; two with
  living sessions are never in the body together (`SoundLeadersHaveLocks`), and a
  baseline that is made anew alerts only of later changes. For the disk alerts, a
  replica is in its cooldown, or has not alerted, or lost the cooldown with its
  process; the fault that ends a process is counted before the cooldowns go, so it
  pays for the alert the process may have sent meanwhile (`DiskInv`, with `LastWords`).
* `SoundLeadersHaveLocks`, `DigestIsElected`, `AlertLoopIsElected`: both loops have one leader on
  a sound session or none, and none between two, though they share processes,
  `SIGTERM`s and crashes, and sessions of both may break. The argument is made once,
  for a lock, connections and phases that are parameters (`Held`, `Supervised`,
  `LoopKeeps`, `LoopElects`), and each loop's steps are shown to be supervised ones.

**`Admin_proofs`**, for any number of requests, in any mixes, with dumps, restores,
clients that leave and restarts

* `TypeCorrect`. `Types` says what each kind of handler has read by each of its statements
  (`ArgsOK`), and that no dump has a table without those before it (`FilesOK`).
* The other theorems share one argument. A step serves one handler (`Serves`), which
  keeps its operation and what was in service when it came; so an overlap, once there,
  stays, and what excuses a property never goes. What is left is to say, for as long as no
  excuse has come up, what each handler and each *dump* still knows of the rows, as
  the dump may be put back at any later time:
  - `LastAdminIsKept`: the rows have an administrator, and so has every dump; who is
    about to delete one has another one beside, as roles are for life (`RoleInv`,
    `AdminInv`).
  - `SessionsFollow`: sessions, logins in service and dumps are not older than the
    passwords, or their change crossed them (`SessionInv`). A session's rows are read
    after the users', so a dump is compared with what its users were (`PasswordDump`);
    that a user is not made while it has sessions is `MadeInv`.
  - `DefaultFlowIsKept`: one flag (`FlagInv`), and no handler is about to touch the
    default flow's row (`DefaultInv`).
  - `FlowsAlwaysRender`: rows, handlers that checked, and dumps that have read the flows and
    not yet the templates (`RenderInv`).
  - `DumpsAreRestorable`: no row lacks the row it refers to, in the tables and in the part
    a dump has read, with what it still has to read (`ReferInv`).
  - `QueueIsSpared`: an unfinished job that stands after the count is by a request that
    came between (`SpareInv`).
  - `CodesAreOneShot`, `NoResidueIsLeft`: without restores, a code that was answered is
    used (`CodeInv`), and a node is told, or is being paired (`ResidueInv`).
  - `RunsStayAlive`: inductive with the types.

The type invariants are in no run. Those of `Dispatch`, `NodeCycle`, `Updates`, `Leader`,
`Alerts`, `LogStream` and `Admin` (with `Requests`, `Accounts`, `Catalog` and `Enrol`) are
proved; those of `Scan` and `JobRun`, which say what a fold over a listing or an output
yields, were checked with TLC on the instances of section 4, and the proofs use the
parts that they need.

Only model-checked: all liveness (`EveryJobSettles`, `LimitLeadsToReboot`, `UpdateArrives`,
`FleetConverges`, `ReadyIsQueued`, `StreamEnds`), which under fairness stays with TLC in
any case, and the trackers' half of `OutputIsTold` (`TrackersFollow`): what a fold over
the output computes needs induction over sequences, as does what the folds of `Scan`
choose.

## 6. Where code and documentation disagree

The run `LateReport` is part of the project's runs:

* `LateReport`. `FinishJob` has no condition on the status (`store/store.go:986`; item 4
  of `api/ha_notes.go` says it has). A report takes longer than the agent's 30 s; the
  agent forgets the job; the next heartbeat reads it as running and unreported; the
  report commits `done`; the sweep writes `failed`, and with a retry budget the
  episode is encoded again. `TerminalSticks` holds in `Handoff`, without late reports.

The following configurations are expected to fail, with the trace that shows why
(`tlc -config X.cfg` on the MC module; the property is the one the file names):

* `LostReply` (`MCDispatch`, `EveryJobSettles`). Between `AssignJob` and the agent's
  reading of the reply, a replica or connection dies. The job is `assigned`; the
  orphan sweep looks at `running` jobs only; nothing ever takes the job back, and it
  occupies a slot.
* `StaleNodeRow` (`MCDispatch`, `EnabledByOperatorOnly`). `UpdateNode` writes all columns
  of the row that authentication read: an operator's disable in between is undone.
* `RebootKillsEncode` (`MCNodeCycle`, `RebootSparesEncodes`). The agent resets its counter
  when `shutdown` is accepted, the machine goes down 30 s later; the heartbeat in
  between shows a counter that dropped, which is taken for the return, and the node
  gets a job.
* `MidSwap` (`MCNodeCycle`, `NoJobEverMidSwap`). The flag that holds jobs back is set by
  a goroutine that the reply starts (`agent/agent.go:335-336`, `:819-821`), so a heartbeat
  may go out before it, start a second update, and be handed a job; the first update
  to end clears the flag under the other. `agent/agent.go:807` says "no job lands
  mid-swap". (`NoJobMidSwap` excepts just these heartbeats.)
* `LockedOut` (`MCNodeCycle`, `NeverLockedOut`). Reboots follow the settings' limit,
  assignment the configured one: a node between the two gets neither.
* `RollbackTwice` (`MCUpdates`, `RollbacksConverge`). "Rolling back twice returns to the
  original state" (`update/update.go:250-251`; `update/rollback_test.go:101-113` looks at
  versions). `RollbackAgent` records the outgoing release with the checksum of the
  incoming one (`update/update.go:284`), so the second rollback offers a release with
  the other's checksum, which no download has: the nodes never come to run it.
* `FailedPublish` (`MCUpdates`, `ReleaseIsKept`). A publish copies the current release to
  the rollback slot, and then the new payload cannot be written
  (`update/update.go:222`, `:230-233`): the publish fails, the manifest goes on naming the
  release before the current one, and the slot has the current one. "One release of
  history, enough to undo a bad publish" (`update/update.go:201-202`) is lost, and a
  rollback serves the current release under the older one's name.
* `Failover` (`MCScan`, `ExactlyOneScans`). A session breaks; the lock goes to the other
  replica before the first one's keepalive notices (`store/leader.go:153`), and both
  scan, and may create a job each for one episode. `cmd/controller/main.go:195` says
  "exactly ONE replica".
* `DoubleAlert` (`MCAlerts`, `OneReplicaAlerts`). In the same way two replicas tell one
  change of a node; `api/node_alert.go:57-58` says "exactly one replica alerts per
  transition".
* `EarlyFinal` (`MCLogStream`, `RetriedIsNeverFinal`). A failure is in the row before it
  is decided that it will be retried; a stream that opens in between, or whose
  keepalive looks at the row then, ends with `failed`, although the job goes on.
  `api/handlers.go:586-588` calls the failure "NOT terminal — the stream stays open".
* `LeftOvers` (`MCJobRun`, `NothingPartialPublished`). A failed attempt leaves its files
  in `jobs/<id>/release`, and the next attempt that ends with 0 uploads them with its
  own, when the flow names files by their checksum, or instead of its own, when it
  wrote none. `agent/agent.go:567-568` says "a failed encode must not publish partial
  artifacts".

Seen while modelling, without a configuration of their own.

Dispatch and nodes:

* a job picked by an unlocked read and then found unrenderable is failed whatever
  became of it since (`api/handlers.go:356`): with a farm of two dialects it may be
  running on the other node, and one that renders nowhere may have been cancelled.
  `Handoff` has every job render everywhere;
* a completion checked against the owner is written after a cancel, a retry and a
  new assignment of the same job (`store/store.go:1116` has no condition on the
  node), so the new owner's job is finished by the old owner's report;
* `DeleteNodeIfNotBusy` (`store/store_ext.go:260`) deletes a node below its cap with
  a job running, which the comment at `api/handlers.go:937` excludes;
* `handleCancelJob` of an assigned job (`api/handlers.go:1236`) gives the slot away
  while the agent may have accepted the job and encode it to the end; the heartbeat
  passes its report over as terminal (`:118`), so the node counts as idle and may be
  told to reboot under it;
* an agent that restarts while its request is served comes back with an empty
  registry and sends another; the first one's job and the second one's sweep then
  disagree about the node's work, and the job may be encoded twice;
* an operator who cancels a job that is being encoded and queues it again, or deletes
  it, leaves an agent encoding a job that is somebody else's or nobody's;
* a registry at its cap (`agent/jobs.go:48`) drops an assigned job with a log line;
  the job stays assigned, as in `LostReply`;
* the retry budget is compared with a count read before the job was finished
  (`api/handlers.go:616`): with an operator's retry in between, the count that is
  written back is one of the old budget;
* the bulk cancel of an assigned job does not release its node
  (`api/handlers_bulk.go:93`), which shows as busy until its next heartbeat;
* `shutdown /r /t` is refused on Linux (`agent/agent.go:754`), so a node at its limit
  asks for ever: `ShutdownWorks = FALSE` breaks `NeverLockedOut`;
* a reboot that crosses an update is not recognised by the first report, which has the
  syncing flag (`api/handlers.go:146`), and not by a later one, as the counter drops
  once: the node is rebooted again after the grace period;
* a manual reboot of a node whose counter is 0 is never proved by a decrease
  (`api/handlers.go:146`): the instruction goes on after the reboot until the grace
  period has passed;
* a heartbeat in flight writes back the row it read over a manual reboot request,
  and the request is gone (`Docs/md/Operations.md:28` says "issues reboot instruction
  on next heartbeat").

Updates:

* two replicas over one update directory: the replica that did not publish keeps
  offering its old manifest from memory, and its checksum matches no file any
  more, until it is restarted. `Replicas` with two elements breaks `FleetConverges`
  (`Docs/md/Deployment.md:495-498` recommends the shared directory);
* a crash between a payload's rename and the manifest's: `loadFromDisk` takes the
  checksum of the file that lies there under the old version's name, so nodes that
  run "the old version" never get the new file. `FleetConverges`,
  `WorksWithWholeTools` and `InstallsWhatWasOffered` exclude crashes for this reason;
* a crash in the middle of the rotation leaves a truncated file in the rollback
  slot, and `loadFromDisk` gives it a fresh checksum: a rollback then serves it.
  `PayloadsMatchManifest` says after a crash that the slot has its checksum, and not
  which release it holds;
* a node whose tools package never extracts to the end is offered the update at
  every idle heartbeat and gets no job (`api/handlers.go:303`).

Leader, scanner, alerts, stream:

* a scan requested on a replica that does not lead stays buffered until it does
  (`api/server.go:437-441` calls it a no-op);
* a job that was cancelled does not count for its episode: the scanner queues the
  episode again, and a retry of the cancelled one makes two. `handleCreateJob` never
  looks for another job of the episode;
* the gate of a bucket looks at the time of an `.mkv` listed after a raw source,
  though the raw source is what is used (`scanner/s3scan.go:73-98`), and the two
  scans fill in the type of a script in different case;
* the alert baseline starts empty on every failover (`api/node_alert.go:68`): a change
  around it is not reported;
* digest entries of a replica that does not lead wait until it does
  (`Docs/md/Operations.md:70`, `:264`), and are lost with its process;
* a heartbeat publishes its progress also when `UpdateJobStatus` matched no row
  (`api/handlers.go:131-135`);
* a late sweep writes over an outcome that was told (as in `LateReport`), and may queue
  the job again after its stream has ended;
* the stream of a deleted job is never ended by the server.

Agent:

* `agent/agent.go:544` says "Verify the expected mux artifact actually exists"; nothing
  does.

Management plane:

* two administrators who delete each other both count two (`api/handlers_users.go:186`);
* a login that read the old hash inserts its session after a password reset's
  revocation, and a cancelled request skips the revocation, though the comment at
  `api/handlers_users.go:250` says it "invalidates every prior token";
* under PostgreSQL two pairings may both find a code unused (`store/store_ext.go:840`);
* the rollback of a pairing uses the request's context: a client that goes away
  after `CreateNode` leaves a node whose token nobody has;
* the default flow is protected by its name (`api/handlers.go:1382`): renamed, it can be
  deleted, and no flow is the default until the next boot; `SetDefaultFlow` racing a
  deletion of its flow leaves none flagged, too;
* an import that races a creation of the same name overwrites it, and the creation
  of a template with a built-in's key overwrites the built-in;
* `flow/render.go:333-335` speaks of the exact checks `Render` applies; it refuses more;
* a dump reads its tables one after the other (`api/backup_pg.go:72`; the comment at
  `api/backup.go:42-44` speaks of a consistent snapshot), so a row may lack the row it
  refers to and the restore fails as a whole; a dump that was cut off can be restored,
  and counts among the 24 that are kept; a restore gives out the ids of lost rows
  again;
* of two backups of one second, the name of the second sorts as the older;
* `ReconcileStaleRuns` fails the runs of another replica that is alive, and looks at
  the newest 25 only; Linux provisioning stages the Windows binary, and no request can
  ask for it;
* a chunk of a run's log that failed to be appended is queued again and may end up
  after a later one (`provision/engine.go`, `streamCommand`).

## 7. Not modelled

Text (rendering, dialects, wording of alerts, logs of provisioning runs), the media
tools, queries and statistics, shares and settings, the SQLite import, the web
interface and the command line: they keep no state that steps of two actors could
disagree about. The login throttle and the expiry of sessions; the pause of a series
inside the queue; groups of nodes. Errors of single database statements: the
handlers log them and go on or answer 500, which a death of the replica at the same
statement (`Dispatch`) or a client that goes away (`Admin`) covers where nothing is
written after it, and is left open where something is. More than one process in
`Admin`: requests interleave by statement whatever process serves them, but the
throttle, the engine's lock and the start-up seeds are one process's. Two replicas
over one update directory (section 6).
