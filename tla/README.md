# AETP in TLA+

AETP is a Python program that runs as a *master* and as *slaves* of an automated test
platform. Both are assembled from plugins on one asyncio event loop per process; slaves
know masters, masters do not know slaves in advance. This directory holds TLA+ modules for
the parts of the program where ordering, failure and restarts decide correctness, TLC
configurations that check small instances, and TLAPS proofs.

All line numbers refer to `src/` of the repository. `PROJECT.json` maps every definition that
models code to its lines.

## 1. Inventory

| part | code | state | operations |
|---|---|---|---|
| comm delivery core | `common/plugins/comm/service.py`, `outbox.py` | `_records` (the queue), each record's state / attempts / acks / backoff / save task, the batch wake event, background row writes, the table `comm_outbox` | report, send_to, broadcast, pump, delivery, poll, ack, maintenance, eviction, recovery, stop |
| comm link | `comm/service.py`, `transport.py` | known nodes and their last poll, poll waiters, the pull loop, handlers by topic | ingest, poll with hang, ack, relay to a further master, pull loop with backoff |
| flow service | `flow/service.py`, `store.py` | runs in memory and their tasks, events and step rows in the tables, idempotency keys, user flows and the cache of them | start, cancel, resume, recovery after a delay, retention, save, delete, revalidate |
| flow executor | `flow/executor.py`, `resolver.py` | cursor of a run, attempts, interruption reason, data of the run | run a node, retry, branch, loop, timeout, cancellation |
| flow remote jobs | `flow/remote.py` | hub: a record per job with node, nonce, lease and budget; worker: job table, slots, results | place, lease, judge, cancel, execute, prune |
| flow step registry | `flow/registry.py` | step records and their running attempts | register, replace, drain, close |
| flow definitions | `flow/preflight.py`, `resolver.py`, `flow_contracts.py` | none (pure) | validation, overrides, choice of providers |
| heartbeat sender | `slave_plugins/heartbeat/monitor.py`, `plugin.py` | sequence number, digest the master has, state of the master | beat, wait for it, capability upload |
| heartbeat registry | `master_plugins/heartbeat/registry.py` | one entry per node: number, run of low numbers, time of the last beat, status, capabilities and their digest | accept a beat, sweep, remove, select |
| capability envelopes | `common/capabilities.py` | none (pure) | digest, selection |
| plugin manager | `webapi/plugin_manager.py` | installation records in memory and table, running plugins, directories | install, replace, enable, disable, configure, uninstall, restore at boot |
| web server | `webapi/uvicorn_web_service.py` | the application and its serve task | start, stop |
| web routing and auth | `webapi/router.py`, `pipeline.py`, `auth.py` | route table, mounted routes, hooks, verifiers | register, remove, match, authenticate |
| database service | `db/service.py`, `db_registry.py` | sessions, schema claims and migration versions, the ambient session of a task | claim, create, migrate, drop, sweep of orphans, transaction |
| logging | `log/plugin.py`, `store.py`, `export.py` | a buffer of lines, the lock of the flush, a failure counter, a table | export, flush, report, query, delete, trim |
| configuration | `appconfig/`, `config_base.py` | `config.ini` and its values | read, write back |
| hook chain | `common/hook_chain.py` | ordered hooks | run with error isolation |
| node runtime | `common/node_runtime.py` | started plugins, stop event | assemble, run, stop |
| API statistics, contracts, database page, flow page, web UI | various | counters or none | views and declarations |

How they interact. Every plugin talks to others through services found by name on one event
loop: a call is a step, or several steps where it awaits. Between processes there is only the
comm service: a slave posts `report`s to its master (*uplink*), and polls it for what is
addressed to it (*downlink*); a master fans a broadcast out into one record per known node
and one for itself. Heartbeats and capabilities are uplink reports without retries, flow jobs
and their results travel as at-least-once messages. The comm service and the flow service
write to the database, and read it once when they start.

What is hard about it.

- *Interleaving.* The pump, save tasks, row writes, HTTP handlers and senders change the same
  record at their awaits; the flow executor, cancel, resume and recovery change the same run.
- *Failure.* A request may be lost, or its reply; a database write may fail; a process may
  crash between a row write and the network call it announces.
- *Ordering.* Row writes are independent transactions; retries overtake; a cancel may arrive
  before what it cancels; a heartbeat after a restart looks older than the last one.
- *Time.* Backoff, ack deadlines, ttl, step timeouts, poll hangs and the delay before recovery
  race the events they guard against.

What makes the parts correct, in one line each.

- comm delivery core: a message whose row is written is delivered or settled, never forgotten;
  never sent after it is settled; never sent more often than its cap; the queue stays bounded.
- comm link: a message confirmed to its sender is in the receiver's hands; a poll that nobody
  reads costs a deadline, not a message; a busy node is served in the end.
- flow: a run ends once, in one state, which memory and table agree on; a node that succeeded is
  not run again; a cancelled run stays cancelled across restarts; at most one task drives a run.
- flow remote: a dispatch is executed once, a result is credited to the dispatch it belongs to, the
  call returns with a verdict for every job, and a job of unknown fate interrupts the run first.
- flow catalog: a plan keeps what its template requires, what runs are started from is what is
  stored, an idempotency key stands for one run.
- heartbeat: a node that beats is online, a silent one is lost, a restart is noticed,
  capabilities become current.
- plugin manager: records, directories and running plugins agree after every operation, a failed
  one included. Database: a table is claimed while it exists; each migration step runs once.
- web: what is registered is what is served, and a failing interceptor costs a caller nothing.
- Logging: a line that was written is in the buffer or the table or counted as lost; a page sees what was there before it asked.

`PROJECT.json` lists the parts under "components", the single points where this can go wrong
under "hazards", each at its line.

## 2. Plan

| module | models | state |
|---|---|---|
| **CommOutbox**, CommPromise, CommOutboxProofs | the delivery core; all other parts rely on it | checked, all but liveness proved (section 3) |
| **FlowRun**, FlowLife, FlowRunProofs | executor, service and store of one run, with cancel, resume, crash and recovery | checked, all but liveness and `OneDriver` proved (section 4) |
| **FlowRemote**, RemotePromise, FlowRemoteProofs | a run_remote call: hub, workers and the messages between them | checked, all its properties proved (section 5) |
| **Heartbeat** over NodeRegistry over Capabilities, HeartbeatProofs | slave, link and registry | checked, all but liveness proved (section 6) |
| **PluginManager** over DbSchema, PluginManagerProofs | packages, records, running plugins and the data they own | checked, all its properties proved (section 7) |
| **FlowCatalog** over FlowPlan, FlowCatalogProofs | templates, steps, user flows, the cache, and what a run will do | checked, all its properties proved (section 8) |
| **WebApi** over HookChain, WebApiProofs | routes, hooks, verifiers, the server and its requests | checked, all its properties proved (section 9) |
| **LogSink**, LogSinkProofs | the log plugin on top of comm's queue | checked and proved (section 10) |

Each row is a composition: the module in bold holds the variables and the actions, the ones behind
"over" are the operators on one record (a node, an owner's data, a plan, a call) that its actions apply.
PluginManager composes two services, Heartbeat two processes and the link between them, FlowRemote
a hub and its workers. The MC modules give the instances.

Left: a module of the HTTP link of the comm service (pull loop, limit on a response, relay to a further master).

## 3. CommOutbox: the delivery core

`CommOutbox.tla` models one node's comm service together with its table. One action is what
runs between two awaits.

| variable | code |
|---|---|
| `phase` | "opening" from `init()` until `_recover()` is over, then "running" |
| `records`, `stamp`, `clock` | the keys of `_records` and their insertion order |
| `rec` | the `_Record` objects: state, attempts, acks, whether the backoff or deadline is over (`due`), `immediate`, `saved`, `save_failed` |
| `saving` | records whose `save_task` has not finished |
| `disk` | the rows of `comm_outbox`, with the columns recovery uses |
| `jobs` | row writes spawned by `_patch_row` and `_drop_row` and not finished |
| `pump` | where the pump task waits: idle, gathering a batch, delivering, in a local handler, in the uplink request |
| `held` | downlink deliveries a polling node got and has not confirmed |
| `aged` | groups whose ttl is over |
| `fate`, `tries`, `wins` | history: what became of a message, how often it was really sent, how often a delivery was really confirmed |

| action | code |
|---|---|
| `Enqueue` | `report` / `send_to` / `broadcast` down to `_enqueue`, with the eviction of the oldest |
| `SaveRow`, `SaveRowFails` | the end of `_save_row` |
| `JobDone`, `JobFails` | a background row write ends |
| `PumpOnce` | `_pump_once` up to its first await: `_maintenance`, `_persist_pending`, the choice of a batch |
| `CloseBatch` | the batching wait is over |
| `BeginDispatch`, `EndDispatch` | the two sides of the await of a local handler |
| `Post`, `PostOk`, `PostNetworkError`, `PostRejected` | the uplink request and its three outcomes |
| `Poll`, `Ack` | the handlers that a polling node calls |
| `Tick`, `Age` | a backoff or deadline, a ttl runs out |
| `Crash`, `Cleanup`, `Recover` | the process dies; the cleanup returned by `init()`; the end of `init()` |

Abstractions.

- Payloads, topics and HTTP are gone; a message is a model value with its policy as constants.
- Time is two flags per record and group. A flag may be raised at any later time, so every
  order of timeouts and events is covered.
- The `state` column of a row is left out: recovery only compares it with DONE, which is never
  written, since a group that is done leaves the queue in the same step.
- A save task writes the values its record had when the task started; the model lets it write
  either those at enqueueing or the present ones. Row writes are separate transactions and end in
  any order; recovery reads rows in any order, since the query has no ORDER BY.
- Finished record objects are reset; nothing looks at them again.
- `_recover` is one step, and before it nothing is saved. In the code the store is open a little earlier (`service.py:204`), while recovery
  awaits the rows: what is sent in that window gets its save task at once, in the model the first `PumpOnce` after recovery starts it. What the model
  does not have: a row of that window is read back and replaces its record, and a record of that window that is evicted comes back while its row is being removed.
- A poll's request and reply are one step; a lost reply is a delivery that is never confirmed.

`CommPromise.tla` is the abstract specification: messages are accepted, sent, confirmed and closed;
a group closes at once for all its members, as done only after `min_success` confirmed
deliveries, and nothing that is settled is sent. `KeepsPromise` states that CommOutbox implements
it under the mapping that forgets where an open message is (`fate` "queued" or "stored" is "open").
It is checked without restarts: with them the code does not implement it, see the divergences.

### Runs

`MCCommOutbox.tla` gives the instances. A policy is a function of the message, so that a run can mix
reports with retries, heartbeats and broadcasts.

| run | question | instance |
|---|---|---|
| `outbox_hub` | do polls, acks, deadlines and the ttl in any order keep the cap, settle groups at once, keep the promise, and empty the queue in the end? | broadcast to two nodes and itself, immediate, 2 attempts, a ttl |
| `outbox_crash` | does a message with a row survive failing writes, a crash and a stop, do counts read back from rows stay honest, and does the report arrive? | uplink report that needs two confirmations, local message without any, room for one record, so each evicts the other |

Bounds. `CountBound` saturates the counters; it is above every cap and not below any quota of the instance, which
the assumption `OutboxAssumption` requires, so saturation never hides a
comparison. `CrashBound` and `StopBound` of one give two restarts of either kind in a row, the second on rows that
recovery and its aftermath have patched. Two nodes are enough for a group whose
targets disagree, two messages and one place for an eviction while the other record is saved, sent or recovered.
What two records of each kind do to the table at once is left to the proof of `DurableInv`, which holds for any number of them.

Fairness (`FairSpec`). The pump, recovery, save tasks and row writes are asyncio tasks that the event
loop resumes (`service.py:221-225`, `758-770`), and timers fire. This is weak fairness of each.
It includes that a local handler returns: the pump awaits it without a timeout. Nothing is assumed of
nodes, so `TtlSettles` does not depend on them. `AtLeastOnce` has the one further premise it needs,
as its left-hand side: an uplink that is tried again and again answers 2xx at last (`SF_vars(PostOk)`).

### Proofs

`CommOutboxProofs.tla` proves, for every set of messages and nodes, every policy and every value of the bounds. The assumptions on the
constants: `OutboxAssumption` (types, and `CountBound` large enough), `FreshIdsAssumption` (ids are fresh uuids, so no call gives a
message twice) and `GroupsAssumption` (only a broadcast makes a group of several records, all under the policy of that call:
`report`, `send_to` and `broadcast` in `service.py`).

| theorem | states | under |
|---|---|---|
| `TypeCorrect` | `[]TypeOK` | |
| `DurableAlways`, `StoredKeepsRow`, `StoredStaysQueued` | `[]DurableInv`, and its parts that speak of stored messages | |
| `SendsSaved` | `SavedBeforeSent` | |
| `DoneIsEnough` | `[]DoneMeansEnough` | |
| `Refines`, `SettledStays` | `KeepsPromise`, `SettledIsFinal` | `Uninterrupted` |
| `CapIsHard` | `[]HardCap` | `Uninterrupted`, `OneSuccess` |
| `FailedLeave` | `[]FailedGroupsLeave` | `Uninterrupted`, `Roomy`, `Answered` |

The last column names what the code does not promise, each with its place under the divergences below: `Uninterrupted` (no crash and no stop)
since a restart forgets attempts and brings back rows that were to be dropped; `OneSuccess` (a capped message needs at most one
success) for `service.py:653`; `Roomy` (no eviction) for `service.py:623`; `Answered` (fire-and-forget records are local) for
`service.py:669`. The runs check the same properties on instances that satisfy the same conditions.

None of the properties is inductive.

- `DurableInv`: a row vanishes by a remove job that was spawned long before, so such a job exists only for messages that are settled
  or evicted; a row appears when a save task ends, possibly after its message was settled, so a saved message cannot become
  "queued" again; recovery makes records of rows, so a row belongs to a message that was sent. Its proof has one step per action;
  `Finish`, the one place where groups are settled, is treated once, in lemmas that the acks, the failures and the maintenance share.
- `SavedInv`: once the pump has waited for the save tasks of its batch, every record that needs a success is saved, could not be, or is still
  being saved, and it stays so until the request leaves, whatever is enqueued or recovered meanwhile.
- `AcksInv`: no record, row or pending patch counts a success that was not confirmed, so what recovery reads back is honest. `DoneMeansEnough`
  speaks of a sum over a group; the lemmas about sums (a larger summand, equal ones) go by a least set for which they
  would fail, since a sum is a recursive function on the subsets of the group.
- `LifeInv`: while the process lives the queue is what is open, and the batch of the pump holds nothing that is settled. Every step of CommOutbox then is one of
  CommPromise or leaves its variables alone (`StepPromise`, one lemma for each action that settles).
- `CapInv`: `attempts` of a record is what was really sent, and below the cap for every record that may still be chosen, in the batch or out of it.
- `GroupInv`: a failed record is in the queue only while its group can still succeed, and no open group has its successes together: the step that decides a group ends it.

Only model-checked: `TtlSettles` and `AtLeastOnce` (liveness is outside the prover).

### Divergences

TLC shows these with the module under other constants; no run is kept for them.

- `service.py:751-756`: `_drop_row` skips a record whose save task is still running; its row is written afterwards
  and stays, so the message is delivered again after a restart. `outbox.py:7` promises that a row is removed as soon as
  the message is delivered. (`SettledIsFinal` fails with one local message and `CrashBound = 1`.)
- `service.py:235-263`: the cleanup cancels save tasks instead of awaiting them, although `outbox.py:5` promises a row
  for every accepted at-least-once message. (`EnqueuedSurvives` fails with one report and `StopBound = 1`.)
- `service.py:623`: an evicted record no longer counts for its group. When the other records of a group have failed
  and the last open one is evicted, the failed ones stay in the queue with nothing to settle them.
  (`FailedGroupsLeave` fails with the calls `<<d1, d2>>` and `<<l1>>` and `QueueMax = 2`.)
- `service.py:869`: the attempts column is patched in the background after the request left. After a crash the count
  starts lower, and the message is sent more often than `max_attempts`, which `interface.py:25` calls a hard cap.
  `HardCap` is therefore checked without crashes.
- `service.py:653`: with `min_success` > 1 a first success queues the record again without a look at
  `max_attempts`. `HardCap` is checked with `min_success` of at most 1.
- `service.py:669`: a failed fire-and-forget record never satisfies "fewer successes than required" and stays in the
  queue as FAILED until evicted. `FailedGroupsLeave` is checked where messages need a success, or are local.
- `service.py:644`: an ack that arrives after the deadline failed its target is ignored while the group is
  still open; the broadcast can fail although a node has it. The plugin's README (line 42) says any ack suffices.
- `service.py:727`: each record backs off on its own, so later messages of a topic overtake; the plugin's
  README (line 49) promises the order of a topic.
- `service.py:798`: the test for immediate records is made before the batching wait; one that
  arrives during the wait waits with the others. The comment at line 793 says it is sent at once.
- `service.py:297`: recovery adds records without the test of `queue_max`, so after a restart the queue is longer than the bound that `config.py:26` states until the next call enqueues.

## 4. FlowRun: a run of a flow

`FlowRun.tla` models one run on the master from `start()` to its end, through restarts. A `Run` object
together with the task that executes it is a *driver*; the service creates one per start, resume and recovery.
An action is what happens between two awaits that matter: a transaction of the store, the handler, a wait.

| variable | code |
|---|---|
| `row`, `steps`, `finished` | the tables: `runs.state`, the attempts of each node, its last node-finished event |
| `run` | the `Run` objects: node states, attempt offsets, cancelled, interruption, and the place and locals of the task (`_run_node`, `_run_provider`) |
| `current` | the object that `_runs` holds for the run |
| `starting`, `calls`, `cancelling` | `start()`, `resume()` and `cancel()` calls between their awaits |
| `sweep` | `_recover_later` of this process: waiting, marking a run as interrupted, done |
| `blind` | history: nodes whose attempt a crash cut off, until a resume call |

| action | code |
|---|---|
| `RunStarted`, `RunFinished` | `execute` / `_advance`: slot, run-started; run-finished |
| `Resolved`, `Unresolved` | `_resolve_with_wait`, `_handle_missing` |
| `AttemptStarted`, `CallEnds`, `AttemptFinished`, `Retry` | `_attempt`, `_invoke`, `_run_provider` |
| `NodeFinished`, `NodePassed` | `_finish_node` and the next turn of the loop, which `Visit` computes |
| `StoreFails` | any of these transactions raises: store_error, or suppressed at the end |
| `RemoteLost`, `LossRecorded` | `_interrupt_for_remote` |
| `Start`, `Started`, `Cancel`, `Cancelled` | the two sides of the await of `start()` and `cancel()` |
| `Resume`, `ResumeRun`, `ResumeSkip`, `ResumeAbort`, `ResumeFails` | `resume()`: the check of the state; then the three modes |
| `Crash`, `Cleanup` | the process dies; the cleanup of `init()`, which cancels the tasks |
| `SweepNothing`, `SweepResume`, `SweepDoubt`, `SweepMark`, `SweepFails` | `_recover` for the run; `Rebuilt`, `CutOff`, `Resumed` are `_rebuild_run` |

Abstractions. A node is its number, its options are constants; outputs, inputs and their size limits are gone.
Whether a step is idempotent is a constant of the node, in the code it is recorded with each attempt.
The reads of `_rebuild_run` are one step, and so are the records of `resume(skip)`. Events other than
node-finished decide nothing and are left out. Timeouts, backoffs and slots are waits of any length. There is one run:
idempotency keys and retention are in FlowCatalog, the semaphore shared with other runs is in no module. An object whose task has ended
keeps only its state. `Cleanup` cuts a task off at its await; the code swallows the cancellation if it arrives
while the task awaits a handler it has itself cancelled (`executor.py:509`), then the task goes on until it
ends. That case is left out, and so is a
handler that ends with a CancelledError of its own making, which the code counts as cancelled.

`Careful` names what callers take care of, since the code does not: to start and resume only after the sweep
("sweep"), to make one resume call at a time ("single"), to resume only after the task of the run has
ended ("idle"). The passing runs and the theorems assume all three; the divergences say what happens without.

`FlowLife.tla` is the abstract specification, the life of a run as its initiator sees it: created, running, perhaps
interrupted, over exactly once; only nodes whose end is not known are attempted; an end other than failed leaves no
node open or unknown. `KeepsLife` states that FlowRun implements it, the tables being the abstract state.

### Runs

| run | question | instance |
|---|---|---|
| `flow_run` | in one process life, does the run end once, succeed only if it is done, and keep `FlowLife`, whatever providers, remote jobs, the store and callers do? | required node with a retry, optional remote node with two providers, clean-up node; a cancel, a resume; drains and failing transactions |
| `flow_crash` | do two restarts at any point keep one driver, the record before the act, and the human decision about steps in doubt, and does the run come to an end? | idempotent required node with a retry, disabled, optional and clean-up nodes; two resume calls; no cancel, drain or failing transaction |
| `two_drivers` | violation: a run started before the sweep is driven twice | two drivers, no crash, callers do not wait for the sweep |

Bounds. Two drivers are enough to see a second one; three nodes give a node before, at and after the interesting one, and each
option (required, always, disabled, remote, two providers, retries) is on in one of the runs. Two crashes let the second
one hit the recovery from the first. One cancel and one or two resume calls suffice, since a call leaves nothing behind but the
state of the run.

Fairness (`FairSpec`): each task goes on when it can (asyncio), a handler returns or reaches its step timeout (`executor.py:495`,
with a timeout configured), and the sweep runs after its delay. `RunEnds` is checked where the store does not fail: a
suppressed failure of the last record leaves the row unfinished until a restart.

### Proofs

`FlowRunProofs.tla` proves, for every flow, every bound and callers that take the care above (`Care`; `TypeCorrect` without it):

| theorem | states |
|---|---|
| `TypeCorrect` | `[]TypeOK` |
| `FinalStateStays` | `EndsOnce` |
| `RecordedFirst` | `[]WroteFirst` |
| `NobodyRepeats` | `HumanDecides` |
| `SuccessIsComplete` | `[]SucceededMeansDone`, under `Calm` |
| `LivesByTheBook` | `KeepsLife`, the refinement of FlowLife, under `Calm` |

The invariants build on each other.

- `TypeInv` adds to the types what the place of a task says of its locals (`PlaceOK`): the node it stands at, that it is pending there, an attempt that is counted.
- `Serial` (`SerialAlways`) says how the ways into a driver exclude each other: while a start, a resume call or the sweep is on its way no driver is
  alive, a resume call sees an interrupted row until it is over, and a row that is final or not there has no driver. No UPDATE of the
  store looks at the state it replaces, so this exclusion is all that protects a final state. It is an assumption about callers as much as a fact
  about the code, which lets each of the three be broken; `two_drivers` and `two_resumes.cfg` show what then happens. `OneDriver` is therefore no theorem of its own.
- `Written` ties the one driver to the tables: its attempt is the last row of the node and not ended, what it takes for the end of a node is
  what the node-finished event says or that is not written yet, and a step in doubt is one the driver steps over (`BlindOK`).
- `Complete` says how the loop computes the end of a run: nodes behind the driver have ended, a failed required one is in `failed`, a cancelled one
  goes with `cancelled`, an unknown one with `lost`; and `Closed`, what the chosen end then says of all nodes.

Each way through `_run_node` and `_run_provider` has a lemma of its own (`Went`, `Tried`); the actions of drivers share them.
All of them were checked with TLC on the instances of the passing runs before they were proved.

`Calm` is what the code takes for granted when it counts the nodes of a run it resumes: either no crash and no clean-up node that
is remote, or no remote node, no cancel and no drain. The runs are instances of one half each. The divergences say which run ends "succeeded" outside of it.

Only model-checked: `RunEnds` (liveness), and `OneDriver`, in `flow_crash` under the care above.

### Divergences

Shown by a run:

- `two_drivers`: `_recover` (`service.py:1004`) takes each unfinished run of the table for one of the previous
  process, also a run this process started during `resume_delay` (15 s). The design (line 785) has a run executed serially.

Shown by a configuration of `MCFlowRun` that is kept beside the runs, one property and one small instance each; TLC reports the violation:

- `two_resumes.cfg` (`OneDriver`): the row stays "interrupted" until the new task has its slot (`service.py:780`), so a second `resume()` after the first has
  returned starts a second driver.
- `lost_retried.cfg` (`UnknownWaits`): the retry loop of a node (`executor.py:413`) does not look at the interruption, so the task goes on with the node while the row says
  "interrupted". The design (lines 848, 903) has the node unknown and the rest waiting for `resume`; a resume call now would start a second driver.
- `unknown_passed.cfg` (`SucceededMeansDone`): a lost remote job leaves a node-finished event "unknown". `_rebuild_run` (`service.py:984-993`) takes it for the end of the
  node and neither reports nor resets it, `_advance` steps over it, and the run succeeds. The design (line 739) leaves an unknown node to a
  human. Here the crash comes before the run is recorded as interrupted; a crash after `resume(retry)` gives the same.
- `cancel_forgotten.cfg` (`SucceededMeansDone`): `_rebuild_run` does not restore a cancel request (`service.py:941`). A run cancelled before a crash goes on after it, and as its
  nodes that ended "cancelled" count for nothing, it ends "succeeded", where the design (line 741) has "cancelled".

Found with the same module under other constants, without a configuration of their own:

- `executor.py:216`: of the finished nodes of a rebuilt run only failed ones count; a required node stopped by a drain counts
  before a crash (line 234) and not after it (`SucceededMeansDone` fails with a drain and a crash).
- The same lines (`executor.py:216`, `service.py:941`) need no crash: a cancel, after which node 1 is recorded "cancelled" and the
  job of a remote clean-up node is lost, interrupts the run; the run that `resume` makes counts the cancelled node for nothing and
  ends "succeeded" (`SucceededMeansDone` fails with two nodes, the first required, the second remote and always run, one cancel and one resume).
- `service.py:690-699`: `cancel()` returns True for a run that ended while the request was recorded; its docstring says False.

## 5. FlowRemote: remote jobs

`FlowRemote.tla` models one `run_remote` call: the hub on the master, a worker runtime on each slave, and the
messages between them. Everything between two awaits is one step; placing the jobs of a round is
cut into one step per job, and nothing else moves while `call = "place"`.

| variable | code |
|---|---|
| `job` | the `_Job` records of the call: state, attempts, retries left, node, nonce, lease, excluded and avoided nodes, since when it finds no node |
| `call`, `cursor`, `telling`, `seen` | where `_coordinate` stands, the job `_place` looks at, the lost jobs the round has still to report, the time the round read |
| `interrupted` | the jobs reported to `FlowService._interrupt_for_remote` |
| `net` | run, cancel and result messages ever sent, leases under way |
| `work`, `loose` | per worker its `_jobs` entries and how far `_execute` has got; handlers whose entry was cancelled |
| `online`, `offering` | what the nodes service offers; where the step is registered |
| `began`, `done`, `forgot` | history: handlers begun and succeeded, entries a worker no longer knows |

| action | code |
|---|---|
| `Round`, `Tell`, `Place`, `PlaceNowhere`, `PlaceNot`, `RoundEnds` | `_coordinate` with `_reap`, `on_unknown`, `_place`, `_finalize` |
| `Cut` | the executor cancels the step |
| `OnResult`, `OnLease` | `_on_result`, `_on_lease` with `_verify` |
| `OnRun`, `OnRunAgain`, `OnCancel` | `_on_run` with `_prune`, `_on_cancel` |
| `Begin`, `Slot`, `HandlerEnds`, `TimesOut`, `GraceEnds`, `SendLease`, `LooseEnds` | `_execute`, `_invoke`, `_lease_loop` |
| `Tick`, `Restart`, `Churn`, `Unregister` | time, a restart of a slave, changes of the node list and of the steps |

Abstractions. A nonce is fresh with each dispatch, and so is its attempt number, which stands for both. Run, cancel and result
messages are never taken out of `net`: they are delivered any number of times, in any order, at any later time, or not
at all. What a job computes is gone; a result is one of five words. Time is counted in ticks of any length.

`RemotePromise.tla` is the abstract specification, what a step may rely on: a verdict stands, the call returns only when
all jobs have one, and a job of unknown fate has interrupted the run before. `KeepsCall` states that FlowRemote implements it;
nodes, leases, messages and workers do not occur in it.

Run `remote`: two jobs, two slaves with room for one, the step idempotent on one of them, either without retries or with one
and a job that is too big to send; two ticks, and one fault of a slave. Two slaves are needed for a result of a lost node to
meet a second dispatch; `LeaseTimeout` 0 lets every lease run out within the deadline of two ticks; `Memory` 2 makes a third entry push out
a finished one. Handlers succeed or fail in a way that may be retried: the other outcomes are verdicts with no way back. There is no fairness:
that the call ends is the safety property `DeadlineEnds`, no round that has seen the deadline goes on waiting.
`RetryMax` bounds the retries of a call and so the attempts there are entries for; the proofs hold for every value of it.

### Proofs

`FlowRemoteProofs.tla` proves, for every number of jobs, workers and faults, every capacity, deadline and number of retries
that satisfies `RemoteAssumption`, what the run checks:

- `CallKeepsPromise`: `Spec => KeepsCall`, the refinement of RemotePromise.
- `AttemptsAlwaysBounded`, `ExecutedOnceAlways`, `SuccessAlwaysReal`, `DeadlineAlwaysEnds`: the four invariants; `TypeCorrect`: the type invariant.

They follow from one inductive invariant, `IInv`. The budget is not inductive: a placed job must be on a node that is not excluded
yet, so that losing it buys the attempt that comes next, and a queued job must have an attempt left (`JobOK`). A second execution
is prevented by what the entry of a worker says before the handler begins (`WorkOK`). A success is real because a message that
reports one is sent by the handler that had it (`NetOK`), and `_verify` compares all three parts of its key. The promise needs
that the jobs a round has lost and not reported yet are exactly the ones in `telling` (`CallOK`). Each operator on a record has a lemma of its
own, each step of the hub one that shows both the invariant and the step of RemotePromise it is; the steps of the workers leave
the hub alone (`HubIdle`).

Divergences.

- `remote.py:589`: the design (line 930) has a node never have more jobs in flight than its step's `max_concurrency`, the rest waiting
  in the hub. The capacity only weighs the choice of the node, and `_place` sends more than it holds, which then wait at
  the worker. (`NodeCapacity` fails with `remote.cfg`, also with `Timeout = 1`.)
- `remote.py:660`: a job that is placed when the time is up is sent with `deadline_s` 0, which the worker takes for no limit.
- `remote.py:326`: a cancel takes the slot from the task at once and only signals the handler, which may go on (`loose`); no result is
  reported, and the entry answers no later delivery of the same dispatch.
- When the call is cut off or the deadline is over, workers are not told and finish what they have.

## 6. Heartbeat: a slave, the link and the registry

`Capabilities.tla` has the operators on envelopes: what of a bucket is sent, its digest, what the master keeps; finding them by kinds and labels is left out. `NodeRegistry.tla` has
the record of a node and what a beat (`Accepted`) and a sweep (`Swept`) make of it. `Heartbeat.tla` composes them with
the slave's loop and with comm's link as fire-and-forget records see it.

| variable | code |
|---|---|
| `seq`, `sent`, `waiting`, `link`, `config` | slave: `_seq`, `_caps_sent_digest`, the beat `_wait_settled` waits for, the state of the master, the parameters in force |
| `bucket` | what the slave's plugins put into a collection |
| `queue`, `posting`, `ghosts`, `inbox` | the slave's comm queue, the POST under way, requests the client gave up that still arrive, tasks of `_ingest` |
| `node` | the entry of the registry with its run of low numbers |
| `outbox`, `pushed` | the hub's records for the slave, the master's parameters |
| `last`, `base`, `newest`, `strays`, `process` | history |

| action | code |
|---|---|
| `Beat`, `PostSucceeds`, `WaitTimesOut` | `beat_once`, `_send`, `_wait_settled` |
| `Post`, `PostFails`, `Ingest`, `IngestLate`, `Deliver`, `LosePoll` | the link: `_deliver`, `_ingest`, `_poll`, `_pull_loop` |
| `OnBeat`, `Sweep`, `RemoveNode` | `_on_beat` with `accept`, the push and the request for capabilities; `sweep`; `_node_delete` |
| `ChangeBucket`, `RestartSlave`, `RestartMaster` | plugins that come and go, the two processes |

Abstractions. An envelope is a kind, an id and a rank in the canonical order; a digest is the bag of the entries, so it
is equal exactly when they are. A beat that failed stays in the slave's comm queue as FAILED and is never sent again, so it
does not appear. The way down hands over all there is at once, as `_poll` does.

Run `heartbeat`: numbers up to 4, two processes of the slave, two buckets (none; two versions of one entry and a bad one), one disturbance out of:
a lost request or answer, a late request, a wait that ends too early, a lost poll, a change of plugins, a restart of the master, a removal. The restart of the slave comes on
top. Time passes together with the sweeps: what a sweep makes of an age is checked, how sweeps and beats lie to each other is not. Four numbers are the fewest with two low ones below a baseline that is itself moved on; timeouts are chosen so that the sweep, the beat interval and both limits fall apart.

Fairness (`FairSpec`): the loops of both sides go on, which are asyncio tasks that sleep and continue (`heartbeat/plugin.py`,
`service.py:221-225`), and a beat that is gone is waited out. Disturbances are bounded, so that `Settles` says: after the last
of them the record has the slave's capabilities, the slave knows so, and applies the master's parameters. Sweeps are not
assumed fair.

### Proofs

`HeartbeatProofs.tla` proves, for any timeouts, any highest number and any sequence of losses, repetitions and restarts, `TwoBeatsAlwaysSettle`,
`RestartAlwaysReal`, `OnlineAlwaysFresh` and `ArchiveAlwaysTrue`. The first two are action properties; each follows from one part of the inductive invariant `BeatInv`:
the last number that came is the record's or is remembered below it (`Follows`), so a higher one ends the run of low numbers; and what is
remembered was older than the newest beat, unless the record follows another process than that beat (`Suspects`). That the digest of the record is that of its
capabilities (`ArchOK`) needs that every beat on its way, in a queue, a request or among the stragglers, carries a whole collection or none (`BeatOK`).
`NumberedFields` is the case distinction of `accept`.

`DigestAssumption`: collections of the buckets with one digest are equal. In the model a digest is the bag of the entries, which `capabilities.py:154` and `:229`
sort by the same canonical form; in the code it is a hash, so a collision is taken not to happen. TLC evaluates the assumption on the buckets of the run.

Only model-checked: `Settles` (liveness).

## 7. PluginManager: packages, records, plugins and their data

`DbSchema.tla` has what the database keeps of an owner (the claims row, the table, its structure, its migration version) and the transactions
of `DbService` on it. `PluginManager.tla` composes them with the plugin manager: one operation holds the lock, and `op.at` says
before which of its awaits it stands.

| variable | code |
|---|---|
| `records`, `stored` | `records` in memory; `plugin_records` in the database |
| `fibers` | `fibers`, by the version of the code that runs |
| `dirs` | `install_root`, by the version of the code in it |
| `db` | per owner the claims row, the migration version, the table |
| `op` | the locals of the operation that holds `_operation_lock` |
| `boot`, `todo`, `marked` | the boot: sources still to look at; the loop of `restore_enabled` |
| `recheck`, `doomed` | `_recheck_consumers` and what it found |
| `imported`, `sweep` | owners with models in this process; the list `self_check` has read |
| `torn` | history: records that a crash or a failed rollback left with another version than their directory |
| `stranded` | history: plugins whose rollback failed as well, until their record is next written or the node starts again |

| action | code |
|---|---|
| `Install`, `Land`, `Record` | `_install_archive` without a record |
| `Replace`, `Swap`, `ReRecord`, `Undo`, `UndoRecord` | `_replace_install` and its rollback |
| `Enable`, `EnableRunning`, `EnableMissing`, `EnableStarts`, `Loaded`, `EnableFails` | `_enable`, `_rollback_failed_enable` |
| `ClaimTable`, `EnsureTable`, `RunMigration`, `Notice` | `sync_schema`, a transaction each |
| `Disable`, `UpdateConfig` | `_disable`, `_update_config` |
| `Uninstall`, `DropData`, `DropTable`, `UnclaimTable`, `ReleaseOwner`, `RemoveFiles`, `Forget` | `_uninstall`, `drop_owner` |
| `EnsureSource`, `RestoreBegins`, `RestoreMarks`, `RestoreSkips`, `RestoreEnables` | the boot in `node_runtime.py` and `plugin_manager_plugin.py` |
| `RecheckReads`, `RecheckDisables`, `SweepReads`, `SweepDrops` | the recheck of consumers, `self_check` |
| `Crash` | the process ends; `_reconcile_disk_state` and `_read_registry` at the next start |

Abstractions. A package is a plugin and a version; the checks of archives are over before the model begins. Migration numbers are versions. An owner
has one table, whose structure is the version of the model it fits. Configurations are gone, their writes are not.

Run `plugins`: a preinstalled plugin with a table and three versions, a plugin that reads the table, two operations of the
page, two faults. A fault is a crash, or a failed write, file operation, migration or load. Two of them hit an operation and
its rollback, or an operation and the restart after a crash. The boot and the recheck are not counted, they happen whenever the code does them.

Two configurations kept beside the runs show violations, with one plugin, two versions and one operation: `plugins_rollback.cfg` (one fault)
and `plugins_stranded.cfg` (two faults), see the divergences.

### Proofs

`PluginManagerProofs.tla` proves `TablesAlwaysClaimed`, `StepsAlwaysInOrder` and `RunningAlwaysRecorded` for any plugins, versions and needs, and any bounds. None of the
properties is inductive.

A table is created and migrated in transactions that come after the claim, so the invariant `DataInv` says that the claim stands while an operation is before
one of them, which holds because a sweep waits for the schema lock; and that an owner whose claim is about to be taken back has no table any more. A migration run starts
from the stored version, so `StepsOK` says that the version is that of the last step as soon as there is one. The operators of DbSchema have a lemma each, and so has
each action that touches the data; all others leave `db` alone.

`RunningIsRecorded` is about rest: records, fibers and directories differ during every operation. `RunInv` says for each stage of the operation and of the boot which
difference is there (`StageOK` for the plugin it is about, `PluginOK` for all others, `RecordsOK` for memory and table) and who will remove it: a replacement has
stopped the old version and has yet to write, a plugin that the boot has marked is enabled and does not run. A rollback restores what the old record
says, which is right because the old directory held that version; a crash brings the table back, and `torn` names the records whose directory it left behind. Where the restoring of
the files fails, the rollback ends there (`Undo`): the record stays as it was, the directory is the old one, the new one or gone, and nothing runs. `stranded` and `torn` name such
plugins; that they are the only exceptions, and how they are mended, is part of `RunInv`.

### Divergences

A replacement is to be rolled back to the old version whatever step fails (`plugin_manager.py:568`, `619`). Two configurations of `MCPluginManager` show that it is not.

- `plugins_rollback.cfg` (`RolledBack`), `plugin_manager.py:594`: when `_swap_install` raises after the old directory was put aside, `moved` is still False; the
  rollback deletes the directory (line 689) and leaves the old one to the clean-up of the staging area.
- `plugins_stranded.cfg` (`EnabledRuns`), `plugin_manager.py:622`: when `_restore_files` raises in turn, the rest of the rollback is skipped. The plugin was
  stopped at line 583 and stays recorded as enabled with nothing running; the error of the file operation reaches the caller in place of the first one.

## 8. FlowCatalog: flows, and what a run will do

`FlowPlan.tla` has the pure part: validation, overrides and their merge, the choice of providers, preflight, and `Sound`, the reference definition
of a plan that keeps what its template requires. `FlowCatalog.tla` has the state.

| variable | code |
|---|---|
| `templates`, `steps`, `drained`, `attached` | what plugins have registered (`registry.py`, `service.py`) |
| `defs`, `cache` | the rows of `flow_defs`; `_user_flows` |
| `jobs` | calls between two awaits: save, delete, revalidate, start |
| `runs`, `memory` | `flow_runs` with the plan each run was given; `_idempotency` |
| `behind` | history: a refresh overlapped another write, or a write had none |

| action | code |
|---|---|
| `Define`, `Undefine`, `RegisterStep`, `CloseStep`, `DrainStep`, `Declare`, `Withdraw` | registration and the fiber's clean-up |
| `PutFlow`, `Insert`, `ReadBack` | `save_flow`, `save_def` |
| `PutAttachment` | `set_attachment_enabled` |
| `DeleteFlow`, `DeleteRows`, `Pop` | `delete_flow` |
| `Read`, `BuildToFlag`, `Flag`, `BuildRest` | `_revalidate_user_flows`, `set_def_flags` |
| `PostRun`, `Lookup`, `Plan`, `Create` | `start()` down to `record_run_created` |
| `Retain`, `StoreFails`, `Restart` | retention, a failing statement, a restart |

Abstractions. Label maps, parameters and schemas are single values. Two roles stand for the permissions in front of the
handlers. The life of a run after it was created is FlowRun. A job keeps the rows that it has read, as the code does.
Inserts are parsed: one that `_parse_insert_node` refuses is reported as `unknown_slot` by `apply_overrides` and never reaches a plan, so it is left out.
`Taken` gives the accepted inserts by their places, where the code collects them in a loop: an insert is refused for the id of any insert before it with a
slot, because of several with one id the first is taken or the template has the id.

Run `catalog`: a template in two versions, of which the second has lost a node and moved a slot, a user flow that extends it, one with the template's own
name, a step, its successor and a rival, four operations or faults, two calls at a time. Four suffice to save, upgrade the template, and start with overrides of
its own while a refresh is under way. `CacheFollows` does not say that the cache is right while refreshes overlap:
it is not, and stays so until the next one (`service.py:1102`); the history variable marks these cases.

### Proofs

`FlowCatalogProofs.tla` proves, for any flows, steps, overrides, keys and any number of calls:

| theorem | states |
|---|---|
| `KeyAlwaysOnce` | `[]KeyOnce` |
| `CacheAlwaysFollows` | `[]CacheFollows` |
| `PlanSound` | a flow and overrides of which `preflight` reports no error make a sound plan |
| `PlanAlwaysSound` | `[]PlanIsSound` |

Two calls may both find no run and both insert; the unique column refuses
the second. The invariant `KeyInv` adds what `KeyOnce` needs to be inductive: an entry in memory is written in the step that inserts the row, and a row that retention has taken
never counts again.

For the cache, a call at an await holds rows that may be old by now. `CacheInv` says of a refresh that nobody overtook (`FreshOK`) that what lies before its place was built of
the latest rows and what lies after it was read from them; and that a flow whose entry is not `Right` is covered by a call that is still to refresh it, or `behind` is set.
`FlowIdsAssumption`: `latest_defs` gives one row of each flow, in some order. `BuiltTo` names the entry it replaces with a function constructor, since the prover has no definition of `@@`.

`PlanSound` is about the operators alone. Every check of `preflight` has its part in it, and `Sound` is written without any of them: the ids of the plan are distinct, hence those
of the template are, and a node found by its id is the node meant; an edited node is not locked; a closed one is neither locked nor required; an insert
that is taken has a slot, a new id and an open anchor. What is left is where things lie: `Flattens` says at which place of the flattened sequence each group of a
template node and its inserts begins and that there is nothing else. It is proved by induction over the number of groups (`AllReached`, from the least number), and
`Where` takes its elements by the same lemma. For the sake of this proof `FlowPlan` picks elements with `Where`, a use of `FlattenSeq`, since the prover
has no definition of `SelectSeq` and cannot reason about a fold for every input.

`PlanInv` carries it through the system: templates, rows, entries of the cache, and what calls hold of them between two awaits are flows and overrides as parsing gives them,
however they were merged (`OverridesMerged`), attached (`AttachKeeps`) or built (`EntryBuilt`), and a call at the insertion holds a sound plan. The plan and the check that
start makes of it see the same templates, because there is no await between them; what happens to the template afterwards changes no plan.
`ShapesAssumption`: what plugins and requests bring along is parsed, that is, nodes are records with the fields of `NodeDef`.

Divergences.

- `service.py:1064`: the docstring of `_resolve_flow` puts templates before user flows, the code user flows before templates. Saving under the id of a
  template is refused, but a template may be registered under the id of a user flow, which then hides it.
- `service.py:1110`: unloading a template checks nothing again, and a flow whose template is missing is rebuilt with an empty base; it
  is startable in so far as its flag is not set, and gives a run without nodes.
- `service.py:600`: switching an attachment saves a new version of the flow without its `enabled` mark, so a disabled flow is enabled.
- `store.py:563`: retention deletes by age and number, also rows of runs that are not over.
- `service.py:676`: entries of `_runs` and `_idempotency` are never taken out: a key is answered with a run whose row is gone.

## 9. WebApi: routes, interceptors and the server

`HookChain.tla` has one call through the chain of interceptors, as a state that each move of a hook or of the handler changes. `WebApi.tla` has the registered
and the mounted routes, hooks and verifiers, the plugins that own them, the server, and the requests.

| variable | code |
|---|---|
| `server` | the life of `UvicornWebService`: `start`, the serve task, `stop` |
| `routes`, `mounts` | `RouteRegistry.routes` and `statics`; the routes of the attached application, in order |
| `hooks`, `verifiers` | the pipeline of the service, the chain of `AuthContext` |
| `loaded`, `effects` | plugins, and what each fiber has still to undo |
| `calls` | requests inside an endpoint |
| `displaced` | history: what another registration or the end of the service took out |
| `unserved` | history: static records whose directory was missing when they were to be mounted |

| action | code |
|---|---|
| `Register`, `RegisterFails`, `RemovePath` | `route`, `static`, `remove` with the overlap rule; `static` of a missing directory |
| `Use`, `AddVerifier`, `SetVerifier` | `pipeline.use`, `auth.register`, the setter of `auth.verifier` |
| `Load`, `Unload`, `Undo` | a plugin comes; it goes, and its effects are undone one by one |
| `Start`, `StartFails`, `Started`, `Stop`, `Stopped` | `start`, `stop`, `_detach_app`; `attach_app` with a missing directory |
| `Arrive`, `HookStep`, `HandlerStep`, `Cancel` | the middleware, the router, `HookChain.run`, the end of the grace period |

Abstractions. A path is a value: patterns with parameters, and the prefix of a static mount that shadows longer paths, are gone. A reply is told apart only
by who gave it. A hook calls `next()` and awaits it; one that schedules it as a task of its own, lets go of it and fails (`hook_chain.py:153`) can have
the handler run twice, which the model leaves out. Order numbers of hooks are equal, so phase, owner and registration decide.

Run `web`: two plugins that want one path with methods that overlap or not (two records fit side by side, and a third displaces both) and a static directory that may be missing, hooks of both failure modes in three phases, two verifiers, one
request, six operations. Six are enough for two plugins to load, register over each other, start the server, unload one and send a
request through. A hook may answer, break, pass on, let through, or call next() again, at any time. Requests do not touch each other's state, so one is enough.

### Proofs

`WebApiProofs.tla` proves both properties of the run, for any plugins, offers, interceptors, requests and any number of operations.

- `FailAlwaysOpen`: `Spec => []FailOpen`. `OnItsWay` says where a call may be: it descends, and all hooks above have called `next()` or were skipped, all below are
  untouched, and the handler was not entered; or it rises, and the hook in control holds the handler's outcome, as a result or as an error; or it is over. As long as nobody
  meddled, that outcome is the handler's word (`Told`). Each move of a hook has a lemma; `BackRight` and `FailRises` are the two ways a call goes up.
- `ServesAlwaysRegistered`: `Spec => []ServesRegistered`. The mounted routes are a bijection to the records that are to be served (`Served`, `Lists`), which each of `Start`, `Register`, `RegisterFails`, `RemovePath` and `Undo` keeps;
  ids are fresh, and an effect is that of one plugin (`EffectsInv`), so undoing it takes nothing that a loaded plugin counts on.

Chains and mounts are put in order by `InOrder`, which says of each place how many elements come before the one that stands there: the prover has no definition of the
sorting and filtering operators of the library. `InOrderLists` proves that it lists a finite set, each element once, for every strict total order.

Divergences.

- `auth.py:147`: assigning `auth.verifier` clears the chain, also of verifiers that other plugins have registered (`displaced`).
- `router.py:371`: `static()` with a missing directory raises after the record was entered in `statics`, the former one is unmounted by then, and no effect
  removes the record when its plugin goes (`RegisterFails`). `ServesRegistered` excepts such records by `unserved`.
- `uvicorn_web_service.py:412`: the dispose of a health provider goes by name, and takes a later provider of that name with it. Not in the model.

## 10. LogSink: the log plugin

`LogSink.tla` models the log plugin of a node with its table, and of the comm service the queue and its eviction. A call to the logger is
synchronous: the exporter buffers the line and reports it, comm's `_enqueue` may evict and log a warning, and that is a call to the logger
again. `work` is the stack of what such a call has still to do; while it is not empty nothing else runs, as in the event loop.

| variable | code |
|---|---|
| `work` | the Python stack of exporter, `_enqueue` of the plugin and of comm |
| `queued` | the number of comm's `_records` |
| `pending`, `failed` | `_pending`, and whether `_store_failures` is above 0 |
| `lock`, `job`, `batch` | `_flush_lock` with its waiters; where the flush loop, a request and the cleanup stand; what each took out and has not written, one set of lines for each node |
| `rows`, `trimming`, `up` | the table, the trim task, the plugin |
| `lines`, `asked`, `removed`, `cut` | history: the lines so far, of which those behind `LineBound` are one, those a request must see, those deleted or trimmed, those whose writing was cut off |

| action | code |
|---|---|
| `Export`, `Evict`, `Insert` | `export`, the loop and the insertion of `CommService._enqueue` |
| `Log`, `Send`, `Settle`, `Receive` | a line; any other message; a record leaves the queue; `_on_log_batch` |
| `Asks`, `Takes`, `Writes`, `WriteFails` | `_flush_pending` up to the lock, the swap of the buffer, one transaction for each node |
| `Reads`, `Deletes` | `query` and `delete` with its entry in the audit, each after a flush |
| `Trim`, `TrimFails`, `Stop` | retention, its end, and `cleanup` |

A line is a number and the node it came from, and the table a set of lines, for nothing that is stated depends on the order of rows; a filter or an age selects any subset of the rows, since nodes have clocks of their own. Clamping of
timestamps, the file exporter, the start of the plugin and a node without database are left out.

| run | question | instance |
|---|---|---|
| `log` | does a request see every line that was there when it came, and is a missing line always a counted one? | lines of two nodes, a buffer of 3, a queue of 1, 4 lines, one failing statement, errors reported |
| `log_overflow` | does a call into a full queue return? (no) | the same with warnings reported, 2 lines |

Bounds. Four lines overflow the buffer of three and fill two batches of which one is under way while the next is buffered. One fault decides
between a failed batch of one node, of the other, and a dead trim task. One request is enough: requests share nothing but the lock and the table.

Proofs. `LogSinkProofs.tla` proves both properties of the run for any limits, levels, requests and faults. The invariant `SinkInv` says
more than they do: `LockOK`, that nobody writes but who is at the head of the lock, and that a batch is taken out exactly while it is
written; `AskedOK`, that what a request must see has left the buffer once it writes, with its own batch if not before. So nothing is taken out when a request
gets the lock (`OneWriter`), and a line that is buffered later is none that was asked for. `TakenOut` is about the queue of the lock: when the
cleanup takes the flush loop out of it, who holds the lock keeps it. `WrittenStep` says that a transaction takes exactly its own lines out of
what is held; the rest is one lemma for each action.

Fairness (`FairSpec`, for `log_overflow` only): a call that runs goes on to its end.

The finding. `service.py:623` tests the bound again after each eviction; the warning about the eviction (`service.py:627`) reaches the exporter, which
reports it with `comm.report`, and the report takes the place that was freed. `report_level` is "info" by default, so a full queue on any
node with the log plugin stops its event loop. TLC shows it as a cycle of `Evict`, `Export`, `Insert`. The run takes from the logger that exporters are called at once,
as `test_log.py` relies on.

Divergences, which the model shows and no property excludes.

- `log/plugin.py:154`: the cleanup cancels the flush loop in the middle of a transaction and flushes the buffer afterwards; the batch the loop had taken out
  is lost and not counted, although the comment at line 160 says the buffer is written as far as possible. `LostIsCounted` therefore excepts `cut`.
- `log/plugin.py:286`: the trim loop catches nothing; one failing statement ends retention for the life of the process, with one line in the log.

## 11. Not modelled

The parts with status `not_modelled` in `PROJECT.json`: the web UI and the pages (presentation), contracts (declarations), configuration (text processing), and API statistics (a counter without interaction).

Of the parts that are modelled in part:

- the comm link: the pull loop acks a batch after merely spawning its dispatch (`service.py:976`); ingest answers 2xx before the rows are saved
  (`service.py:1029`); the client gives a poll up while the hub still hangs on it (`transport.py:30`); a response above the limit is refused whole, so
  the same batch comes again (`transport.py:139`); the idempotency test of ingest looks among ids that a fan-out has replaced (`service.py:1016`). These need
  a module of two nodes and the link, with records that are kept;
- the order of one topic (`service.py:727`), the test for immediate records (`service.py:798`) and handlers that never return (`service.py:858`) are in CommOutbox, and no property is stated of them;
- the comm service: `outbox_max` (`config.py:35`), which no code reads; the ambient database session (`db/service.py:603-622`), which a caller
  inside a transaction would lend to a save task;
- the slots that several runs share, the size limits of outputs, statistics and queries of the flow service;
- closing a step waits for its attempts (`registry.py`), which FlowRun only has as a drain;
- of logging: see section 10;
- of the registry: the history table, the events, and the selection of nodes by their capabilities;
- of the web server: TLS, ports, the threads of uvicorn; of the database: sessions, dialects, columns and indices.

Proofs exist for all modules in bold. What stays with TLC: liveness (`TtlSettles`, `AtLeastOnce`, `RunEnds`, `Settles`, and the `SendReturns` that is violated), and `OneDriver`, which the code leaves to its callers.
