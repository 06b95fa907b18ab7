# Stoker: a TLA+ verification

Stoker generates synthetic machine data with a fleet of workers. A FastAPI
control plane (`src/server`) owns runs, leases, packs, accounts and drivers;
each worker process (`src/worker/stoker_agent`) claims one slot of one run,
warms an engine, waits for a shared T0 and generates until it is told to stop.
Workers only pull: the whole protocol is four POSTs (`claim`, `ready`,
`heartbeat`, `final`) and a bundle download, and commands travel in heartbeat
replies.

This directory holds models of the system, the TLC configurations that check
them and the proofs that TLAPS checks. `PROJECT.json` has the map from every
definition to the lines it models, the list of hazards, the mutants and the
findings; this file says what is modelled, what is shown, and what is left.

## 1. Inventory

| Component | State | Operations | Interacts with | Hard behaviour | What makes it correct |
|---|---|---|---|---|---|
| Run lifecycle, `server/lifecycle.py` | run row (state, end reason, T0, degraded, paused time), one lease row per slot, audit events | `claim_lease`, `mark_ready`, `record_heartbeat`, `record_final`, `evaluate_release`, `maybe_complete_run`, stop, pause, resume, scale, rescale | agent and operator endpoints, supervisor, drivers | requests of many workers interleave with the supervisor; lost replies; lapses | a slot has one holder; nobody starts before T0; a run ends once, with its right state |
| Supervisor, `supervisor_tick`, `app.py` | none of its own | lapse, provision timeout, duration, auto-abort, backpressure, drain reaping, terminal reaping | every run | deadlines race late requests; a driver call fails half way | drains end, fleets are destroyed, dead fleets end their run |
| Launch and boot, `provision_run`, `reconcile_on_boot`, `server/drivers` | run rows, workloads, token Secrets | submit, create rows, `driver.create`, commit, stop, reap, orphan, stray sweep | orchestrator APIs, every session | a crash or a boot sweep between two commits; a call that succeeds and whose answer is lost | no workload without a run, no live run swept, the cap of a target holds |
| Sizing, `routes/api.py` `run_spec`, `server/engines`, `confrewrite.py` | share and fleet size on both sides | submit gates, ceilings, largest remainder, sharding, conf rewrite, retarget | launch, scale, worker | two copies of one number, changed at different times; rounding | what is admitted fits; counts are partitioned exactly |
| Totals and roll-up, `fold_totals`, `live_totals`, `metrics_lifecycle.py` | totals, samples, lease states | heartbeat, final, forced stop, lapse, scale, roll-up, prune | finals, heartbeats, maintenance loop | counters of superseded workers; a final sent twice; a roll-up meanwhile | nothing counted twice, nothing forgotten |
| Agent endpoints, `routes/agent.py` | none | authenticate, call the lifecycle, commit | workers | a processed request whose reply is lost | retries are harmless |
| Worker agent, `agent.py`, `control.py` | phase, `_last_ack`, fence, hold, drain reason, watchdog | claim to final, run loop, fence, dead man, retarget, drain | control plane, engine, HEC | one thread does everything and blocks in calls | a fenced worker stops, a lost worker leaves, a drain is bounded |
| Data path, `sockserver.py`, `pacing.py`, `hec_client.py`, `engine.py` | connections, bucket, queue, batches in flight, counters | read, pace, enqueue, batch, retry, flush, abort, hang up | engine, HEC | several readers and senders, a put under way when the drain begins | every event is in one place; catch-up is bounded |
| Engines, `worker/engines/metrics`, `worker/engines/rawreplay` | shard, tick, place in the recording | load, connect, grid, backfill, loop, cadence | agent's socket, the clock | each engine is late by its own amount; fleets are replaced and scaled | the matrix is covered once; times are in order and not ahead |
| Run tokens, `crypto.py`, `maybe_refresh_jwt` | expiry, last answer | mint, present, roll | every worker request | answers are lost while the token runs out | a worker that still hopes is not refused |
| Bundles, `bundles.py`, `stoker_agent/bundle.py` | pack directories, bundle files and rows | lint, merge, fetch a dataset, tar, write, download, unpack | packs, launch, worker | two builds of one digest, a directory that changes while it is read | a worker unpacks what was built, and can load it |
| Git sync, `server/gitsync` | repo row, clone, pack rows, snapshots | clone, fetch, index, snapshot, build | packs, bundles | two syncs on one clone, a push meanwhile | verdict and content are those of the pinned commit |
| Pack library, `packsource.py`, upload, builder save, rename, delete | rows, directories, bucket | upload, create, save, rename, publish, delete, seed, import at boot | bundles, object store | three stores without a transaction; a crash between two of them | a row's directory is its own; the mirror is true |
| Shared configuration, `configio.py`, `configsource.py` | targets and specs of an instance, the copy, `_state` | export, import, pull, push loop, carried rows | object store, operators | edits while a push is under way; two keys | skipped rows stay; the loop never rests behind |
| Accounts, `auth.py`, `routes/auth.py`, `routes/tokens.py` | users, sessions, API tokens | setup, login, proxy accounts, user and token management | every request | two requests that both pass a check | one setup; an admin remains |
| Pack builder and pseudonymisation, schemas, settings, UI, tools | see `PROJECT.json` | | | | sequential text processing, validation, no state of a run |

## 2. Modules

| Module | Models | Instance for TLC |
|---|---|---|
| `RunLifecycle` | one run: its rows, its workload, the worker processes that talk about it, the supervisor, the operator calls, restarts and the passing of deadlines | `MCRunLifecycle` |
| `LeaseContract` | what the lease table promises: the life of one slot's grant (the abstract specification `RunLifecycle` implements) | |
| `WorkerAgent` | one worker process on a discrete clock, against any control plane | `MCWorkerAgent` |
| `Launch` | several runs from submit to the end of their workload, step by step between sessions and driver calls, with the boot pass beside them | `MCSubmission` |
| `FleetSizing` | what each worker is given: gates, ceilings, shares, the conf it writes, retargets | `MCSubmission` |
| `Generators` | the metrics and replay engines of a run on one clock | `MCAccounting` |
| `DataPath` | the threads of one worker between its engine and Splunk | `MCAccounting` |
| `RunTotals` | what a run is said to have delivered | `MCAccounting` |
| `Bundles` | linters, merge, the content-addressed store, the download | `MCContent` |
| `GitSync` | clone, index, snapshot and the build at a pinned commit | `MCContent` |
| `PackLibrary` | rows, directories and bucket of the pack library | `MCPackLibrary` |
| `ConfigShare` | the configuration of several instances and its one copy | `MCAdministration` |
| `Access` | accounts, sessions, API tokens | `MCAdministration` |
| `RunTokens` | the bearer token of one worker on a clock | `MCAdministration` |
| `RunLifecycleProofs`, `WorkerAgentProofs`, `PackLibraryProofs` | the theorems about the module of that name | |
| `ContentProofs` | the theorems about `GitSync` and `Bundles` | |
| `SubmissionProofs` | the theorems about `Launch` and `FleetSizing` | |
| `AccountingProofs` | the theorems about `DataPath`, `RunTotals` and `Generators` | |
| `AdministrationProofs` | the theorems about `Access`, `RunTokens` and `ConfigShare` | |
| `SumTheorems` | what sums over finite functions do, for the three modules that count | |

`MCSubmission`, `MCAccounting`, `MCContent` and `MCAdministration` each put
models that share no state into one instance. Their variable `half` (or
`part`) chooses which of them a behaviour belongs to, so the states add up and
do not multiply; the idle part stays in one initial state.

A definition named `X_Variant` is a deliberately broken `X`, used only by the
mutation test: with `X` replaced by it, the named property must fail.

The modules cut the system where its parts meet through a narrow interface:
`RunLifecycle` takes a launched run as given (`Launch` has the way there),
treats every handler as one step, and knows of counters only whether something
was delivered (`RunTotals` has the numbers and the overlapping sessions);
`WorkerAgent` treats the control plane as free to answer anything;
`DataPath` takes the commands of the agent as they come.

### RunLifecycle

State: `run` (the `runs` row with the deadlines that have passed for it),
`lease` (the `worker_leases` rows by slot, "absent" when deleted), `fleet` (the
driver's workload and whether the `fleet_destroyed` event was written),
`worker` (the processes), `booting` (inside `BOOT_GRACE_S`).

| Code | Model |
|---|---|
| `claim_lease`, `_next_claimable`, `_reapportion_on_takeover` | `Claim` with `next_claimable`, `IssueLease`, `reapportion_on_takeover` |
| `mark_ready`, `evaluate_release` | `Ready`, `evaluate_release` |
| `record_heartbeat`, `_heartbeat_command` | `Heartbeat` with `Restored`, `heartbeat_command`, `Promoted`; the worker's reaction is `Obeyed` |
| `record_final`, `maybe_complete_run`, `_terminal_state_for` | `Final`, `maybe_complete_run`, `terminal_state_for` |
| `supervise_run` and the checks it calls, in their order | `SupervisorTick`, one operator per check; each takes rows and returns rows, so a tick is their composition |
| `_reap_terminal_fleets` | `ReapTerminalFleet` |
| `stop_run` (also forced), `pause_run`, `resume_run`, `scale_run`, `rescale_run` | `StopRun`, `PauseRun`, `ResumeRun`, `ScaleRun`, `RescaleRun` |
| `reconcile_on_boot` | `RestartControlPlane` |
| worker crash, container restart, a workload that ends by itself | `WorkerDies`, `WorkerRestarts`, `WorkloadEnds` |
| clock comparisons | `HeartbeatAges`, `T0Arrives`, `ProvisionTimeout`, `DurationEnds`, `StopGraceEnds`, `BootGraceEnds` |

Abstractions. A handler, an operator call and a supervisor pass are one step
each: the code reads the rows, computes and commits in one session. What two
overlapping sessions do to each other is in `Launch` (launch against stop and
boot) and `RunTotals` (finals against a forced stop); overlapping claims of one
slot are not modelled. A `lease_id` (a uuid) is a per-slot counter, so it is
fresh by construction of the uuid, not of the protocol. A heartbeat's age is
null, fresh, past the lapse or past the abort window. The driver's calls
succeed or fail (`ok`). Whether anything was delivered is chosen when a final
or a forced stop is folded. A heartbeat may report `auth_failed` as the
contract allows; the present worker drains before it would send one. Shares
are the equal split of an integer rate every worker count divides.

### WorkerAgent

State: the phase `pc` of `Agent.run`, `ack` (time since the last acknowledged
request), `call` (how long the thread has been blocked in a heartbeat or an
engine restart), `timer` (what the phase waits for), `bucket`, `fenced`,
`held`, `engine` with the watchdog's memory, `auth`, `drain` (the reason) and
`slice` (what `claim` returns).

| Code | Model |
|---|---|
| `_claim`, preparation in `run`, `ready`, `_post_with_backoff` | `Claim`, `Prepare`, `SetupFails`, `Ready`, `GivesUp` |
| `_await_release`, `_wait_until`, the start at T0 | `AwaitPoll`, `AwaitReply`, `AwaitMissed`, `Start` |
| `_run_loop`, check by check | `DurationComplete`, `EngineGone`, `StallDrains`, `StallRestarts`, `Restarted`, `Pass`, `Rest` |
| `_check_fencing` | `bucket_fenced`, `check_fencing` |
| `_apply_command`, `_operator_pause`, `_operator_resume`, `_retarget` | `Reply`, `operator_resume`, `Retargeted` |
| `SupersededError`, the drain event | `Superseded`, `Interrupted` |
| `_shutdown` with `SocketServer.stop`, `EngineRunner.stop`, `flush_and_stop`, `final` | `DrainSocket`, `DrainEngine`, `DrainFlush`, `DrainReport` |
| signals, engine exit, 401/403 from HEC, time | `Sigterm`, `EngineExits`, `HecAuthFails`, `Tick` |

Abstractions. The control plane may give any reply at any time, or none. One
attempt of a POST takes at most `Timeout` and a heartbeat makes at most two.
The retry loops of `claim` and `ready` give up exactly at the dead-man window
(the code may overshoot by one attempt and one back-off sleep). The end of a
bounded slice comes at any moment it is not held. Standalone mode, exit codes,
telemetry values, the rate shape and the refusal of an unknown protocol version
are left out. A live metrics engine is restarted on resume in the code; such a
run is `count_interval`, which the pause endpoint refuses, so that branch
cannot be reached and is left out. The same holds of the branch of
`_operator_resume` for a fence that is still closed: the acknowledgement that
carries the command has just lifted it.

### Launch

`row` (the committed row of each run), `job` and `secret` (what the driver
has), `req` (the submit a client's session serves), `boot` (the reconciliation
of this process with what its session has read). A submit is `run_spec`
(admission against the cap of the target), `provision_run` (first commit),
`create_secret`, `create_workload`, `_adopt_secret` or
`_delete_secret_quietly`, and `commit_launch` or `commit_failure`, each a step.
Beside it run `stop_run`, `_destroy_fleet`, `delete_run`, and the boot:
`reconcile_on_boot` with `probe_run` for each run and `commit_verdicts`, then
`list_run_ids`, `_live_run_ids`, `_sweep_stray_fleets`, `_destroy_stray`. A
driver call may fail or succeed with its answer lost (`MaxFaults`), the process
may die anywhere (`MaxCrashes`). `trail` remembers the runs whose property is
excused, by name in the comment of each property.

### FleetSizing

`insert_run` applies the gates of `run_spec` in their order with the ceilings
of `server/engines` (layers, suggestion), `largest_remainder`, the equal shares
and the series shards; `claim`, `replace` and `_retarget` are the worker's side:
what it writes into the engine's conf for its slice (`confrewrite.py`), which
retargets stay in the band and only move the bucket, and which restart the
engine. Rates are exact fractions, so no rounding of floats is modelled; the
integer counts are the code's.

### Generators

`unit` is the engine process of each slot with its agent's socket, `stream` what
the process has sent, `job` the kind of run, `fleet` the worker count the next
slice will carry. `load_config` (or `load_replay_config`), `_connect` and
`run_engine` start a process; `_run_grid`, `_run_backfill`, `_run_rate`,
`cadence_sleep` and `_run_cadence` are its loops, one line a step, so a send that
blocks is a step that comes late; `_idle_until_closed` is a worker without
series. The agent's side is `build_engine`, `restart_engine`, `replaced`,
`drained`, `scale_fleet`. A line of a recording is what a reader of times finds
in it (`parse_time`, `_parse_builtin`); a value is its place in the random stream of
its series. Times are whole seconds.

### DataPath and RunTotals

A step of `DataPath` is what one thread does between two points where another
can run: accept, read, the test of `_stopping` and the put after it, one call
of the bucket, the reservation of `put_lines`, taking a batch, one attempt of a
POST, each stage of the drain. Lines are well-formed, undecodable or not
serialisable again. `RunTotals` has one counter for the seven of the code; a
final and a forced stop load the run and commit in two steps, the roll-up
replaces samples by buckets, and history variables keep what was really
accepted.

### Bundles and GitSync

`Bundles` keeps three conversions by what they do (sanitised names, flattened
paths, stanza namespaces: names are sequences of words, so two of them meet
exactly when the strings would) and abstracts the rest of a pack to its files,
stanzas and metric definitions. A launch is `gate`, `parse`, `tar` (with the
fetch of a dataset over redirects), `open_tmp`, `write_tmp`, `replace_tmp`,
`find_row`, `insert_row`, `download`; `edit` replaces a directory meanwhile.
`GitSync` has the steps of a sync (fetch, checkout, index each root, prune,
record the head) for several threads over one clone, pushes, spec references,
deletion of the repo, and builds that extract a snapshot of their pinned commit
or fall back to the clone.

### PackLibrary, ConfigShare, Access, RunTokens

`PackLibrary`: each handler is a sequence of steps on rows, directories and
bucket; handlers interleave, a crash ends all of them, a write to the bucket
may be refused, and the boot seeds built-in packs and imports archives.
`ConfigShare`: two instances with different master keys, one of which writes; a
pull is read and apply, a push is settle, compare, put and mark; `synced` and
`carried` die with the process. `Access`: a request of user or token management
resolves its caller and makes its checks in one step and commits in another.
`RunTokens`: the token's expiry against the last answer, the turn of the
worker's loop and the drain.

## 3. What the runs check

Every run has `CHECK_DEADLOCK FALSE`, because a run really ends, a worker
process really exits and the request bounds run out.

| Run | Instance | Properties |
|---|---|---|
| `churn` | 2 workers, 2 slots, 2 claims per slot, crashes and in-place restarts | `FencedHolder`, `CompletionQuiescent`, `ReleaseDiscipline`, `SupersededIsInert` |
| `operators` | 1 worker, 2 slots, 2 claims, 2 rates, strict release, lost replies, auth reports; stops, forced stops, scales, rescales, restarts, vanishing workloads | `UniformShares`, `StopEndsStopped`, `StrictReleaseComplete`, `TerminalAbsorbing`, `LeaseProtocol` |
| `fair` | 1 worker, 2 slots, bounded, backpressure, crash, stop, pause, under fairness | `DrainTerminates`, `TerminalFleetReaped`, `RunsEnd`, `PauseReachesWorkers` |
| `worker` | five kinds of slice, an engine that feeds or not, under fairness | `NothingBeforeT0`, `HoldsKept`, `DrainWithinBudget`, `NoReplayAfterPause`, `WorkerLeaves` |
| `submission` | a grid of specs around the ceilings with two changes after the submit; two submits of a k8s and a swarm run, one crash, one driver fault | `AdmittedFits`, `CountsPartitioned`, `NothingLeftBehind`, `CapHeld`, `LaunchSurvivesBoot` |
| `accounting` | two readers, one sender, a queue of one, both envelopes and a cadence replay; a fleet of two engines, a matrix of one or three series, recordings with blank, mute and backward lines; two slots with lapses, forced stop, roll-up and prune | `Conserved`, `CleanFlushComplete`, `CatchUpBounded`, `NothingCountedTwice`, `TotalsKept`, `StreamsWhole` |
| `content` | two syncs, a build, pushes and failing git; two launches over four packs whose directories change | `PinnedVerdict`, `BuildsPinnedCommit`, `MergeSound`, `DeliveredWhole` |
| `packs` | two clients, three requests of nine kinds, one crash, a bucket that may refuse | `OwnContent`, `MirrorTrue` |
| `administration` | two request threads over two names; two instances with two keys; one worker's token for 50 ticks | `SetupOnce`, `AdminRemains`, `NeverRestsBehind`, `CarriedKept`, `TokenOutlivesWorker` |

What they say, in short:

* `FencedHolder`: at most one process passes a slot's `lease_id` check, across
  lapses, take-overs, container restarts (and, by its proof, retried claims and
  scaling as well). `SupersededIsInert`: the other one changes no row by
  anything it still sends.
* `ReleaseDiscipline`: nobody starts before T0, T0 is set once, by a step that
  leaves no slot pending, and a partial release is flagged.
  `StrictReleaseComplete`: a strict run is never released around a straggler.
* `CompletionQuiescent`, `StopEndsStopped`, `TerminalAbsorbing`: what the run
  ends as agrees with its leases and its recorded reason, and stays.
* `UniformShares`: outside a degraded run every row, live or not, carries the
  same share, so take-overs keep the aggregate rate.
* `LeaseProtocol`: the lease table implements `LeaseContract`.
* `RunsEnd`, `DrainTerminates`, `TerminalFleetReaped`, `PauseReachesWorkers`:
  what must happen does.
* `NothingBeforeT0`: a fence that lifts before the release opens the bucket;
  the parked anchor still holds everything back.
* `HoldsKept`, `NoReplayAfterPause`: fence and operator pause share one bucket;
  the hold survives the fence and its duration is not replayed. A gated worker
  sends for at most `FENCE_PAUSE_S + max(2 * timeout, interval) + restart`
  after its last acknowledgement; with the defaults 30 + 60 + 17 s against the
  30 s the contract names, because the fence is looked at once per iteration of
  a loop that a heartbeat or an engine restart blocks.
* `DrainWithinBudget`: the drain takes at most its budget plus the larger of
  the sender joins (4 s) and one retry sleep (2 s), inside the 45 s of the
  contract; `WorkerLeaves`: it happens, and so does the dead man.
* `AdmittedFits`, `CountsPartitioned`: an admitted spec has a share under its
  ceiling and work for each worker; workers that agree on the fleet size split
  each stanza's count exactly.
* `LaunchSurvivesBoot`, `NothingLeftBehind`, `CapHeld`: the sweep takes only
  what is over; a reconciled control plane has no unwanted workload or Secret;
  concurrent admissions keep the cap. The excuses are part of the statements: a
  failed driver call, two submits between check and commit, a run that was over
  before its launch committed.
* `Conserved`, `CleanFlushComplete`, `CatchUpBounded`: every line a reader took
  is in exactly one of queue, reservation, batch, counters; a flush that says
  TRUE left nothing; no instant releases more than the catch-up window.
* `StreamsWhole`: of a tick that every engine of a fleet of one size has been
  through, however late, each series has exactly one point; times never go back
  and never lie ahead of the clock; a recording is played line by line with its
  gaps.
* `NothingCountedTwice`, `TotalsKept`: the totals never exceed what was
  accepted and never lose what they had, through lapses, repeated finals and
  roll-ups. Excused, by name: a forced stop that folds a slot it does not
  finalise, and a slot that scaling brings back.
* `PinnedVerdict`, `BuildsPinnedCommit`, `MergeSound`, `DeliveredWhole`: see the
  comments; they follow a pack from its commit into a worker's directory.
  Excused, by name: a row or build that met another sync on the clone, a token
  file that is its pack's own conf or `pack.yaml`, two kinds of pack whose bundle
  does not load.
* `OwnContent`, `MirrorTrue`: rows, directories and bucket agree after every
  completed request and after a crash, but for the two windows the comment of
  `OwnContent` names.
* `SetupOnce` and `AdminRemains`: the first on PostgreSQL, whose advisory lock
  the code takes; the second with user management one request at a time
  (`Serial`), as the code has no lock there. `NeverRestsBehind`, `CarriedKept`:
  with the pulls and pushes of one instance not overlapping
  (`Overlap = FALSE`). In both cases the other value refutes the statement
  (below).
* `TokenOutlivesWorker`: a worker answered once is never refused for its token.

### Bounds

Two workers and two slots are the least with which a slot can be taken over
while a sibling runs, a release can be partial and a completion can wait for
somebody. Two tokens per slot give a first holder and its replacement, or a
deleted and re-seeded slot. Counters saturate (`HeartbeatAges`) or are capped in
a guard (`MaxClaims`). `operators` and `fair` have a single worker so that the
number of operator events, and the fairness graph, stay small; the interplay of
two workers is in `churn`. `Rates` are multiples of every worker count. In
`worker` the order of the real limits is kept: heartbeat interval below fence,
fence below the dead man, watchdog window above one interval, and the drain
stages in their proportions (sockets 5, engine 10 + 7, flush 20 + 4, budget 40).

`submission`: two runs are needed for the cap and for a sweep that must tell
them apart; one fault and one crash are enough to interrupt each pair of
commits. The grid has a rate below, at and above every layer of ceilings, and a
stanza list of each shape. `accounting`: a queue of one makes every put contend;
three lines of two kinds fill it; two ticks and a catch-up of one let a backlog
exceed its cap; the connections are interchangeable (`SYMMETRY`). Three ticks of
the grid, three engine processes for two slots and one scaling let a late engine
meet a replaced one; the window of the past starts off its grid. Three instants
put samples before, in and after a roll-up bucket, and two samples are enough
for one that is rolled up and one that is newer. `content`: two threads for each shared name; a second commit moves the
branch once; the contents reach every branch of linters and merge. `packs`: two
clients and three requests let two handlers meet in a third one's path.
`administration`: three user ids give two admins and a third account; 50 ticks
are two lifetimes of the token and more than two rolls.

### Fairness

`RunLifecycle`: the supervisor loop runs every two seconds and catches its
exceptions; clocks advance; a worker that is up keeps polling and starts at T0;
`ReapTerminalFleet(TRUE)` says that the driver answers a destroy within the
window in which it is retried (`TERMINAL_REAP_WINDOW_S`). Nothing is assumed of
operators, crashes or a worker finishing. `WorkerAgent`: time passes and the
thread does what is due; nothing is assumed of the control plane. `GitSync` (only
for `PushReachesIndex`): a request is served and asked for again.

### Refuted statements

Each of these is a sentence of the documentation, a docstring or a comment that
the code does not keep; `PROJECT.json` quotes the lines. Three have a run:

| Run | What happens |
|---|---|
| `lost_release` | A worker awaits its release, its lease lapses, the others are released, it heartbeats again: `_heartbeat_command` restores the lease to `running` before testing for a release, and the worker is answered `continue` for ever, warmed and paused. |
| `fenced_watchdog` | The zero-output watchdog excuses an operator pause, not the agent's own fence: a control-plane outage makes a healthy worker restart its engine and drain as failed well before the dead man; a backfill sweep is lost at the first window. |
| `boot_spares` | A launch commits its run before `driver.create` gives it a reference; the boot pass takes it for an orphan and fails it while the request goes on to create the workload. |

The others are defined beside the properties of their module. To see one
refuted, put it in the place of the properties of the named configuration.

| Statement | Configuration | What happens |
|---|---|---|
| `AggregateWithinRate` | `LostRelease.cfg` | A straggler of a partial release comes back with its old share; only the claim path re-apportions. |
| `ShareReachesWorker` | `RunOperators.cfg` | A retarget answered before T0 clears its marker; `_await_release` knows only `release` and `drain`. |
| `DeadFleetEnds` (property) | `RunFair.cfg` with `Bounded`, `Backpressure` FALSE, `Ops = {"crash"}` | Lost leases that once heartbeated are counted against all leases: with half the slots never claimed, a dead fleet is never aborted. |
| `FenceHoldsOutput` | `WorkerAgent.cfg` | The readers of a `count_interval` slice never ask the paused bucket. |
| `StopHeeded` (property) | `Submission.cfg` | `provision_run` writes its stale row over a stop that was committed during `driver.create`. |
| `SupplyMeetsShare`, `HistoryKept`, `SuggestionSuffices` | `Submission.cfg` | Two retargets inside the band leave the engine short; a retarget beyond it drops the backfill window; the suggested fleet is computed from the share and refused again. |
| `NoOverlap`, `ValueFollowsTick`, `CounterGrows`, `WithinWindow` | `Accounting.cfg` | A running metrics engine keeps the stride of the fleet it was built for; its random streams and counters start with the process; a backfill starts at its start rounded down. |
| `FinalsSummed`, `AbortedCounted` | `Accounting.cfg` | Two overlapping finals lose one; an aborted flush leaves queued events in no counter. |
| `NeverPartial`, `NeverHalfSnapshot`, `VerifiedIsAuthored` | `Content.cfg` | Two builds share a temporary name; a second extraction removes a snapshot that is being read; a synthesised `pack.yaml` is taken for the author's at the next sync. |
| `PushReachesIndex` (property, `FairGitSpec`) | a module extending `GitSync`: one sync, no builds, no failures, two commits, `packs/a` first without and then with a `pack.yaml` | The synthesised file is untracked, and checkout refuses to overwrite it for ever. |
| `ImportedOnce` | `PackLibrary.cfg` | The archive's slug is compared with names. |
| `ReadableStays` | `Administration.cfg`, `MaxEdits = 3`, `Targets = {t1}` | A document carries its exporter's fingerprint also for secrets under another key. |
| `NeverRestsBehind`, `CarriedKept` | `Administration.cfg`, `Overlap = TRUE` | `_state` is read, settled and written without a lock. |
| `AdminRemains` | `Administration.cfg`, `Serial = FALSE` | Two requests that each remove another admin both count first. |
| `SetupOnce`, `SessionIsItsOwner` | `Administration.cfg`, `Dialect = "sqlite"` | Two setups read a count of zero; the id of a deleted last user is given out again. |
| `ProjectedTokenValid` | `Administration.cfg` | The token in a container's environment is minted once, for an hour. |

Smaller divergences met while modelling:

* `check_auto_abort` aborts at `max(1, total // 2)` auth reports, which is one
  of three workers; its docstring says at least half the fleet.
* The release branch of `_heartbeat_command` precedes the pause branch, so a
  worker that comes to its release while the run is paused is started and held
  only from its next heartbeat; the comment there says it holds too.
* `reconcile_on_boot` orphans every unfinished run whose workload is gone, a
  stopped one that drains included, and so records an operator's stop as a
  failure.
* A signal that arrives during a blocked heartbeat, or in the retry loop of
  `claim` or `ready`, is looked at only when that call ends, so the time from
  SIGTERM to exit can exceed the 45 s of the contract although the drain
  itself is within its budget.
* A lease re-issued between the release and T0 starts at once.

## 4. What is proved

Every theorem holds for every value of the constants that its module's named
assumption admits: any number of workers, slots, claims, rates, threads,
commits or requests, and any setting of the timers within the hypotheses given
below.

| Module | Theorem | Statement |
|---|---|---|
| `RunLifecycleProofs` | `TypeCorrect` | `Spec => []TypeOK` |
| | `Fencing` | `Spec => []FencedHolder` |
| | `Quiescence` | `Spec => []CompletionQuiescent` |
| | `EqualShares` | `Spec => []UniformShares` |
| | `ImplementsContract` | `Spec => LeaseProtocol`: refinement of `LeaseContract` |
| | `EndIsFinal` | `Spec => TerminalAbsorbing` |
| | `Invariance` | `Spec => []FullInv`, on which the others rest |
| | `StopIsKept` | `Spec => []StopEndsStopped` |
| | `StrictIsWhole` | `Spec => []StrictReleaseComplete` |
| | `ReleaseInOrder` | `Spec => ReleaseDiscipline` |
| | `SupersededChangesNothing` | `Spec => SupersededIsInert` |
| `WorkerAgentProofs` | `SilentUntilT0` | `Spec => []NothingBeforeT0` |
| | `HoldsAreKept` | `Spec => []HoldsKept` |
| | `HoldIsNotOwed` | `Spec => NoReplayAfterPause` |
| | `DrainKeepsBudget` | `Spec => []DrainWithinBudget` |
| | `AgentInvariant` | `Spec => []AgentInv`, on which the others rest |
| `ContentProofs` | `VerdictIsPinned` | `GitSpec => []PinnedVerdict` |
| | `BuildsArePinned` | `GitSpec => []BuildsPinnedCommit` |
| | `GitInvariant` | `GitSpec => []GitInv`, on which both rest |
| | `BundlesArriveWhole` | `BundleSpec => []DeliveredWhole` |
| | `MergeIsSound` | `BundleSpec => []MergeSound` |
| | `StoreInvariant` | `BundleSpec => []StoreInv`, on which the first rests |
| | `BundleInvariant` | `BundleSpec => []BundleInv`, on which all three rest |
| `AdministrationProofs` | `OneSetup` | `AccessSpec => []SetupOnce`, on PostgreSQL |
| | `LastAdminStays` | `AccessSpec => AdminRemains`, on PostgreSQL, management serial |
| | `AccessInvariant` | `AccessSpec => []AccessInv`, on PostgreSQL |
| | `TokensLast` | `TokenSpec => []TokenOutlivesWorker` |
| | `PulledSpecsKept` | `ConfigSpec => CarriedKept`, without overlap |
| | `CopyNotBehind` | `ConfigSpec => []NeverRestsBehind`, one writer, without overlap |
| `SubmissionProofs` | `SweepSparesLaunches` | `LaunchSpec => LaunchSurvivesBoot` |
| | `NothingLeft` | `LaunchSpec => []NothingLeftBehind` |
| | `CapKept` | `LaunchSpec => []CapHeld` |
| | `LaunchInvariant` | `LaunchSpec => []LaunchInv`, on which the three rest |
| | `AdmissionFits` | `SizingSpec => []AdmittedFits` |
| | `CountsDealtOut` | `SizingSpec => []CountsPartitioned` |
| | `SizingInvariant` | `SizingSpec => []SizingInv`, on which both rest |
| `AccountingProofs` | `EventsConserved` | `PathSpec => []Conserved` |
| | `CleanFlush` | `PathSpec => []CleanFlushComplete` |
| | `BurstBounded` | `PathSpec => []CatchUpBounded` |
| | `PathInvariant` | `PathSpec => []PathInv`, on which the three rest |
| | `CountedOnce` | `TotalsSpec => []NothingCountedTwice` |
| | `TotalsNeverForget` | `TotalsSpec => TotalsKept` |
| | `TotalsInvariant` | `TotalsSpec => []TotalsInv`, on which both rest |
| | `StreamsAreWhole` | `GenSpec => []StreamsWhole` |
| | `EngineInvariant` | `GenSpec => []EngineInv`, on which it rests |
| `PackLibraryProofs` | `DirectoriesOwned` | `Spec => []OwnContent` |
| | `BucketMirrors` | `Spec => []MirrorTrue` |
| `SumTheorems` | `SumPlus`, `SumUpdate`, `SumPad`, `SumLeq`, `SumAppended`, `SumBeheaded` | sums over finite functions and over the lengths of a queue |

**The lease table.** From `ConstantsAssumption`. `FullInv` is `TypeOK`, that at
least one row exists (`Rows(lease) # {}`, without which a share would divide by
zero), `Uniform`, `Quiet` and `Fenced`. `FencedHolder` is not inductive: nothing
in it says that a stale process cannot hold the token a later claim mints, or
that two processes do not share one. `Fenced` adds that no process holds a token
above its row's, that two processes of one slot hold different tokens, that the
current token is only ever in the hands of the row's holder, that a polling
holder's row is past `claimed`, and that a row in use no longer carries the
seeded token; minting a token then separates the new holder from everyone.

The argument has three layers. (1) The supervisor is a composition of row
operators; each is shown to be a *stage*, a relation between rows that keeps the
types, the shares and the completion rule and moves every lease only along
`Pairs`. Stages are reflexive and transitive, so a whole tick is one
(`SuperviseStage`). (2) Every request moves one row and then applies stages
(`MoveThenStage`), which gives the invariant and the step of `LeaseContract`
together. (3) The steps that are neither, `Claim`, `ScaleRun` and `StopRun`,
are treated alone.

**The release.** The second part of `RunLifecycleProofs` adds to `FullInv` the
invariant `CourseInv`:
`InOrder` on the rows (an operator's stop is draining or stopped, a run without
T0 has nobody past the release), `Waits` (processes that were not released
wait) and `Blank` (an idle process holds no token). `StrictReleaseComplete` had
to be strengthened: it says nothing before the release, so `InOrder` also keeps
that a strict run which may still be released has given up no unclaimed slot.
Each row operator keeps `InOrder`; each action is then shown to make a legal
turn, which yields the invariant, the gate of T0 and the inertness of superseded
processes together.

**The worker agent.** From `AgentAssumption` and two hypotheses on the settings:
`RestartFits`, one engine restart fits in the fence window and the longest call,
and, for the drain only, `BudgetFits`, the joins of sockets and engine fit the
budget. Both hold of the defaults (fence 30, timeout 30, budget 40, joins
5 + 10 + 7). `AgentInv` is `TypeOK`, the ranges of the timers, `Early` (until T0
the bucket is parked and only a gated engine is warm), `Closed` (hold and fence
each close the bucket) and `Timed`: the age of the last acknowledgement is
bounded by the timers that run beside it, phase by phase. `FenceBound` alone is
not inductive, because what bounds the age differs between the rest of an
iteration, a blocked call and a restart. `DrainKeepsBudget` adds `Spent`, what
of the budget is left at each stage.

**Git.** From `GitAssumption` (what a tree may hold). `GitInv` says that a pack
row is sound wherever it is, in the table, in a sync about to commit it or in a
build that has read it; that commits are only appended; that the SHA a sync
recorded is the tree it checked out unless another sync moved the clone; and
that a snapshot present under a commit's name is of that commit. The theorem
leaves two things to the statements themselves: a row written while another
sync moved the clone, and a build that fell back to the clone.

**Bundles.** From `BundleAssumption` (a request names at least one pack) and
`ContentsAssumption` (a directory has one file at a path, a stanza has the keys
the model reads).
`BundleInv` says what a launch holds at each step: what was parsed alone has
passed the lint, and what was built of a directory that stayed as it was parsed
loads, or is of one of two kinds of pack. The first attempt at this proof failed
on the second kind: the lint follows a symlink and `_iter_pack_files` skips it,
so a pack whose `default/eventgen.conf` or dataset is a symlink passes the lint
and its bundle has no conf. No directory of the instance had such a link.
`LoadsOnWorker` now names this case, and the instance has it. What a worker
holds is the digest of its launch because the digest is checked at the
download and a launch that has started keeps it; the file of the digest may
meanwhile be partial.

That it does not stay partial is `StoreInvariant`. Builders of one digest share
one temporary name, so one may truncate and refill a file that another has
renamed into place, and `NeverPartial` is false. But a name, temporary or final,
leads to an inode no other name leads to, and whoever has an inode open writes
the digest of the names that lead to it. A file that is not whole therefore has a
writer, and that writer's last step makes it whole.

`MergeIsSound` needs what a merge has been through: every pack is of the
eventgen engine, namespaces are distinct and no two flat sample names collide
(`Merges`). With distinct namespaces no two packs contribute a stanza of one
name, so the conf of a namespaced stanza is that of its pack. With no collision
a flat name has one source, so the lookup of a sample or a token finds the file
the rewriting moved there. The order of a request does not matter because
namespaces depend on the set of packs and the inputs are put in an order that
depends on their set, as the code's sort by distinct namespaces does. The first
attempt failed here too: a pack's own bundle carries `default/eventgen.conf` and `pack.yaml`,
the merged one does not, so a token file that names either resolves alone and is
missing after a merge. `MergeKeepsMeaning` names this case and the instance has
a pack with it; nothing in the repository's packs uses one.

**The pack library.** From `ConstantsAssumption`. `OwnInv` speaks of what each
thread has still to do: one about to register has its own files at the path it
placed and no row knows the path, unless it was freed under a row; one about to
replace a directory remembers whose it is; what a boot has imported and not yet
committed holds its own files too. `MirrorInv`, relative to it, says of every
pack that nothing contests that a thread knows the name and the pack of its row,
that one between the write of the new key and the removal of the old still finds
its archive under the new, that a delete which has removed the archive leaves
only reported ones, and that an id about to be registered is no pack's yet. The
first attempt failed for a good reason. A save frees the path, an upload of the
old name takes it, the save cannot put its own directory back, and the next
publish of the saved pack exports the *other* pack's files over its archive.
That takes more requests than the instance has; `Clash` noted only the pack
whose files were exported, and `MirrorTrue` was false of the pack that lost its
archive. `Clash` now contests both.

**Accounts.** `AccessInv` says that the advisory lock is held by the one setup
under way, which saw no earlier account, and that ids are never used twice; both
are facts of PostgreSQL, so `Dialect = "postgresql"` is a hypothesis.
`SerialInv` adds that one management request is in progress and that a removal
which has passed its check spares another admin. Section 3 shows what happens
without either hypothesis.

**Tokens.** From `TokenAssumption`: dead man + heartbeat interval + drain fit in
the refresh margin, which is below the lifetime. The defaults (lifetime 3600,
margin 720, dead man 600, interval at most 65 with its retries, drain 40) satisfy
it. `Slack` says that what is left of the token covers what is left until the
worker has given up and reported.

**Launch and boot.** From `LaunchAssumption`. None of the three properties is
inductive. `LaunchInv` says, for every submit, what it has left at the driver at
each of its steps (`Requests`, `Distinct`, `Secrets`, `Fresh`), that a live run
which once ended was brought back by its launch (`Revived`), and for the boot
(`Booting`) that a workload nobody launches, wants or will reap, and that
nothing excuses, lies ahead of the sweep: its run was loaded without a reference
and will be failed, or its driver is still to be listed, or it has been listed,
or it is held for a stray, and that whatever is held for a stray is over. The
second part is what `LaunchSurvivesBoot` needs, the first what
`NothingLeftBehind` needs when the boot ends. For the cap (`Capacity`) the runs
that no race let in fit under it, together with each submit that has passed its
check alone.

**Sizing.** From `SizingAssumption`, which says of a metrics spec that it has a
series (`metrics_series_count` counts from 1). `SizingInv` says that the verdict
kept with a run is the one the gates give, that lease rows are those of the
fleet, that every share in a row *and* every share a worker still paces itself
at has been through the ceiling check of the run's own mode (a worker that has
not yet heard of a retarget holds an older share, so the row alone is not
enough), and that a worker's counts are those of its own copy of slot and fleet
size, which a scale does not update. `AdmittedFits` then needs that the submit
checks the rate the run is launched with (a backfill replaces both mode and
rate), and that `check_sharding` counts the same zero counts and series that
the workers compute. `CountsPartitioned` needs what `largest_remainder` does
with equal weights (`EvenSplit`): the first `t % n` get one more than
`t \div n`, shown from division with remainder and the sum of such a stair
(`SumStair`).

**The data path.** From `PositiveBounds`, `DatasetAssumption`,
`RunModesAssumption`. `PathInv` has three balances as equations: what was
received is queued, in a batch or resolved; the reservation counter is what is
queued and what is reserved for; what the bucket released is with the readers,
received or refused. `Conserved` needs the third because a reader between bucket
and queue belongs to no other counter. `Shape` says who may hold a batch.
`SummaryTrue` is what the flush left, kept for ever after. `Paced` bounds what
an instant has released together with what it could still release: the bound on
the first alone is not inductive.

**Totals.** From `TotalsAssumption`. `NothingCountedTwice` compares the total
with what was accepted; a handler that loaded the total before another one
committed can write an old value, and a sample of a superseded worker may still
be added. `Ceiling` therefore says slot by slot what may be in a total by now,
and `Capped` that the total and each copy a handler has loaded are within the
sum. `TotalsKept` needs the opposite bound (`Foldings`) and that the newest
sample of a live slot covers what was acknowledged.

**The engines.** From `GeneratorsAssumption` and `JobsAssumption` (what a
recording and a line of it are). `EngineInv` has one part per kind of engine.
`Swept`, for the matrix: the points sent are exactly those of the shard that lie
before the place the engine has come to, tick by tick and series by series, in
strict order. "Each series once per tick" alone is not inductive: inside a tick
it is true of the series already sent only, and catching up needs that every
tick since the first was visited, which is where the grid comes in (two points
of it are a step apart). That the shards of a fleet agreeing on its size are
disjoint and cover the matrix then follows from division with remainder.
`Looped`: the place in the recording is the number of lines sent, modulo its
length. `Played`: what the engine sleeps is the gap between the line it last
sent and the next, although it keeps only the last time it could *read*; hence
`Resting` and `Sleeping` relate `prev` to the recording on either side of the
sleep, and `base + offset` never runs ahead of the clock once a line is sent.
The filter that drops blank lines is a recursion; `PicksExist` shows that it has
a solution.

**Shared configuration.** From `ConfigAssumption` and the hypothesis
`Overlap = FALSE`; for `CopyNotBehind` also `OneWriter` and `NoDocument` (the
marker `Nothing` is none of the documents). `CarryInv` says that what a pull
skipped is among the rows carried, in every document a push has prepared, and
that one pull or push of an instance is in progress; `SyncInv` adds that what
the writer has noted as synced is the copy or nothing.

**Sums.** `Conserved`, `NothingCountedTwice`, `TotalsKept`, `CapHeld` and
`CountsPartitioned` sum over connections, senders, slots and runs. The library defines its folds by a
recursive function that `CHOOSE` picks, and its induction theorems cannot be
instantiated here. `SumTheorems` gets round both by a smallest counterexample: a
finite set has a minimal subset at which a statement about *given* functions
fails, and removing one element leads to a contradiction. This shows that the
recursion has a solution, that solutions agree, and then what the proofs use: a
change in one place changes the sum by the difference (`SumUpdate`), sums add up
(`SumPlus`) and are monotone (`SumLeq`). `KeptExists` and `PicksExist` do
the same for the recursions that drop malformed and blank lines.

**Only model-checked.** Liveness (`RunsEnd`, `DrainTerminates`,
`TerminalFleetReaped`, `PauseReachesWorkers`, `WorkerLeaves`): fairness and
`ENABLED` are outside the prover's reach. Every invariant and every action
property of a passing run is a theorem, under the conditions section 4 names.

## 5. Not modelled, and why

* **Pack builder and pseudonymisation**: field analysis, tokenisation and word
  lists are sequential functions from text to text; only the storing of a built
  pack is modelled (`PackLibrary`). Previews read and keep nothing.
* **Schemas and settings**: validation of bodies and environment variables; the
  models take only values that pass it.
* **Worker configuration, rate shape, gauges**: values the control flow treats
  as given. The daily shapes and noise of metric values (`patterns.py`) are data.
  The eventgen engine is vendored; how it connects, sends, stalls and exits is
  modelled.
* **Orchestrators, object store, git server and HEC** are external: they appear
  by how they can answer, fail or lose an answer.
* **Parts of modelled components**: `seed_fleets`, stored engine reports and log
  tails, the health probe of a target, list and log views, manifests and
  authentication towards orchestrators, the emission of Stoker's own metrics,
  and standalone mode.
* **Operator UI, tools, harness, infrastructure, packs, dashboards**: no server
  state, or none of the system's logic.
* **Overlapping sessions of one run's handlers**: `RunLifecycle` takes each
  handler as atomic. Overlaps are modelled where they were judged to matter
  most (launch against stop and boot, finals against a forced stop, accounts,
  packs, git); two claims of one slot in overlapping sessions are not.

## 6. What is left

1. `RunSessions`: two handlers of one run in overlapping sessions, with the row
   versions each has read.
2. The overlap of two holders of a slot in time, from the lapse of
   `RunLifecycle` and the `FenceBound` of `WorkerAgent`.
