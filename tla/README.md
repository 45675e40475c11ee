# A TLA+ model of lucx-ui

lucx-ui is a panel, written in Go, that manages an Xray core on its own host and
any number of child panels ("nodes").  This directory holds a TLA+ model of the
parts of it where several actors act on shared state, the TLC configurations
that check the model on small instances, and proofs of what holds for every
instance.  `PROJECT.json` lists components, runs, the mapping from definitions
to source lines, the disagreements found, hazards and theorems.

Check a run with `tlc -config X.cfg M`; check a proof with `tlapm M.tla`.

## 1. The system

| Component | State | Operations | What is hard |
| --- | --- | --- | --- |
| Serial database writer (`service/traffic_writer.go`) | one goroutine, a bounded queue, a context and a done channel per start | start, stop, submit | restarts between a caller's steps, draining, a full queue, timers |
| Node config sync (`service/inbound_node.go`, `runtime/remote.go`, `job/node_traffic_sync_job.go`, `service/node.go`) | the master's and the node's inbounds, a dirty flag with a time stamp, push fingerprints, tag aliases | edits, live pushes, reconcile, snapshot, merge, restart | two databases, HTTP calls in flight, state read before a call and used after it |
| Xray lifecycle (`service/xray.go`, `xray/process.go`, `job/check_xray_running_job.go`, `runtime/local.go`) | the desired config in the database, the config recorded with the process, the core's own users, two flags | restart, hot apply, stop, watchdog, pending restart, live add and remove of users | the core is changed live and by restart at once |
| Node traffic accounting and resets (`inbound_node.go` from line 231, `node_reset_queue.go`, `client_traffic.go`) | counters, per-node baselines, persisted reset rows | delta per tick, reset, deliver, drop | falling counters, late snapshots, lost answers, crash between delivery and removal |
| Client membership (`client_crud.go`, `client_inbound_apply.go`, `client_link.go`, `client_locks.go`, `client_sync_orphan.go`) | records, links, settings, tombstones, orphan marks, fingerprints | create, attach, detach, delete, merge, reap | late snapshots against timeouts, calls that fail half-way |
| Local traffic and disabling (`service/inbound_traffic.go`, `inbound_disable.go`) | client counters | add, disable, renew | two transactions, effects on the core after the commit |
| Tunnel sidecars (`lucx/tunnel`, `service/tunnel.go`, `job/tunnel_job.go`) | child processes, records, files, a lock per key | ensure, remove, reconcile, sweep, stop all | processes that outlive the panel, calls beside the reconcile |
| TUIC server (`internal/tuic`, `job/tuic_job.go`, `tuic_journal.go`, `service/tuic_traffic_receipt.go`) | registrations, counters, pending traffic, journal files, receipts | register, count, collect, add, journal, replay | retired users, ambiguous commits, crash between commit and removal, shutdown |
| Event bus (`internal/eventbus`) | bounded channels | publish, subscribe, stop | dropping, stop against publish |
| Login limiter (`controller/login_limiter.go`) | bounded table of failures | fail, succeed, prune | windows and a full table |
| Websocket hub, tunnel monitor, MTProto, AmneziaWG and WireGuard managers | queues, child processes, devices | per component | see the notes in `PROJECT.json` |
| HTTP controllers, subscriptions, settings, bots, frontend, tools | - | request by request | no protocol of their own |

How they interact: controllers, bots and jobs call services; services write the
database through the serial writer (`runSerializedTx`, `submitTrafficWrite`) or
in a transaction of their own; after the commit a service applies the change
live through `runtime.Runtime`, which is `Local` (the Xray gRPC API) or `Remote`
(the node's HTTP API).  Cron jobs poll the core and the nodes and repair what a
live call did not deliver.  The models follow these boundaries.

## 2. Modules

    WriteService        abstract: what a submitted write may do
    TrafficWriter       the writer, refines WriteService
    NodeConfigSync      master panel, one node, and the network between them
    XrayLifecycle       the panel's own Xray core and everything that changes it
    NodeTraffic         a client's counters over the nodes, and their resets
    ClientMembership    on which inbounds of which nodes a client exists
    SidecarManager      the supervisor of tunnel processes
    TuicTraffic         what the embedded TUIC server counts, down to the rows
    MC*                 instances
    *Proofs             theorems, one module per component
    SumTheorems         what the sums of the traffic modules obey

### TrafficWriter

A write is one call of `submitTrafficWrite`.  `call[w]` is its program counter
(`new`, `lock`, `offer`, `wait`, `inline`, then `ok`, `full` or `stopped`, the
three ways the function returns); `ok` means that the closure ran and its own
result was returned.  Each `StartTrafficWriter` that finds no running writer
begins a generation with its own queue, context and done channel, because a
caller keeps using the channels it captured.  `writer[g]` is the goroutine:
`select`, `apply`, then after cancellation `drain` and `drainApply`, `closed`.
`twMu` is a variable only where the code holds it across a blocking offer.

Properties: `OneWriter`, `NothingLeftBehind`, `HonestAnswer` (safety),
`EveryCallReturns`, `StopReturns` (liveness), `ImplementsService` (refinement of
`WriteService` under `AnswerOf`).  Fairness is that of a Go scheduler: a runnable
goroutine runs.  Nobody is obliged to start, stop or call the writer.

### NodeConfigSync

One master, one node.  An inbound is a function from `Slots` (independently
editable parts) to versions; each edit writes a version newer than all before,
so "lost" means that a version went down.  Admin calls are in `opPC`/`opArg`;
the sync tick is the record `tick` with its program counter and locals; HTTP
requests are messages in `net`, applied by `NodeApply` at any later moment and
answered in `answers`; with `LateCalls` the node may apply a request whose caller
gave up.  Fingerprints are modelled by the payload they were taken of.

What each action stands for: `EditForm`, `AddInbound`, `DelInbound`,
`ReadClients`/`CommitClients`, `ReadToggle`/`CommitToggle` are the services;
`PushDone`/`PushFailed` their live pushes; `TickStart` to `MarkAdopted` are
`syncOne` in order: `ReconcileRead`, `ReconcileList`, `AdoptAlias`,
`ReconcileSkip`, `ReconcilePush`, `ReconcileSweep`, `SweepDelete`, `SweepSkipped`
(the list call that should resolve the id fails and `Remote.DelInbound` reports no
error), `ReconcileAnswer`, `ReconcileFailed`, `ListFailed`, `ClearNodeDirty`,
`FetchSnapshot`, `FetchFailed`, `SampleDirty`, `MergeBegin`, `MergeCommit`.

`crossed` is a history variable: the inbounds at which one of the races has happened
that the code has no answer to.  Section 3 lists them.

Abstractions: which remote ids a `Remote` has cached is left out, so that a list call
may be needed at any time; the enable switch of an inbound is fixed by `Disabled` as far
as adding it and the merge's removal rule are concerned; the degraded-snapshot guard, selected
sync mode, tombstones, the per-client lifecycle merge and errors inside the
merge are left out.

### XrayLifecycle

One local inbound.  `db` is what `GetXrayConfig` would generate now: the set of
clients and a `shape` that stands for every section the core cannot change at
runtime.  `proc.cfg` is the config recorded in the process object, `core` the
users the core really serves, `live` the clients with an open connection.  The
panel compares `db` with `proc.cfg` and never asks for `core`; live edits change
`core` and not `proc.cfg`.  That gap is what the properties are about.

`call[o]` is a live edit (`CallCommit` on the writer, `CallPush` through the API,
`CallFlag` in the controller).  `who[a]` says where each caller of `RestartXray`
stands (cron, poll, watchdog, operator), `rx` holds the one inside `lock`:
`RxEnter` or `RxRefuse`, then `RxDeplete` and `RxDepleteApply` (the `AddTraffic` that
`GetXrayConfig` begins with), `RxRead`, and then one of `RxUnchanged`,
`RxHotApply`, `RxHotFails`, `RxMustRestart`, `RxDown`; `RxStop`, `RxStart`,
`RxStartFails`, `RxFinish` replace the core, `RxFail` is every other error
return.  `PollCommit`, `PollApply`, `PollReport` are the traffic job;
`CronSwap`, `CronRearm` are `ApplyPendingRestart`; `WatchTick` is the watchdog,
which restarts a core found down twice in a row.

`crossed` is a history variable: the clients one of whose edits has been missed, by one
of four races that section 3 lists.  `Mends` takes a client out again when a new core is
started or a hot apply carries it, with nothing of it outstanding and the config that is
loaded in agreement with the database.

Properties: `ManualStopStands` (a step property), `ServedIsWanted` and
`SessionsEnd` (what holds once nothing is pending), `Recovers` (liveness).

### NodeTraffic

One client, hosted by several nodes.  `row`, `base`, `queue`, `dirty` are the
master's tables; `node[n]` is the client's row there.  `deliver[d][n]` is
`DeliverNodeResets` of one deliverer (an API call, or `Job`, the sync job) for one
node: `wait` for the node's lock, `call`, `drop`; `job[n]` is `syncOne`:
`Reconcile`, `JobDelivers`, `Fetch`, `Merge`.  `SingleReset`, `BulkReset` and
`Restore` are the reset calls; `Deplete` and `NodeDepletes` the two panels' own
disabling; `NodeRegresses` stands for an edit on the node, a restored backup or a
call that arrives late.  The merge is `Frozen`, `Delta`, `DisableIsStale`,
`Latches` and `Lifts` in the order of `setRemoteTrafficLocked`.  Time stamps of
the queue are the number of the reset.

Two things about the statements: `NeverOvercounts` compares with the usage since
the reset, or since the fetch of the node's snapshot when one was out at that
moment, because the code cannot tell the two apart; it bounds the charge from
above only (usage between a reset's two deliveries is lost).  `AgreesAgain` says
"again and again" (`[]<>`), not "for good": a node that undid every push before
the same tick's snapshot would be pushed to for ever.

### ClientMembership

One client (an email) on numbered inbounds.  `settings`, `links`, `record`,
`mark`, `dirty` are tables, `tomb` and `fp` the master's memory (the tombstone,
the push fingerprints reduced to what they say of this client), `holds` what the
nodes' inbounds list.  `call` is `Create`, `Attach`, `Detach` or `Delete`, which
visits its inbounds in steps of its own: `AddToInbound`, or `FindInInbound` and
`DelFromInbound`; then `Push`; then `Finish`.  `job[n]` is `syncOne` with the
reconcile as one step; `Merge` applies `Seen`, `Degraded`, `Adopted`, `LinksAfter`,
`MarkAfter`, `ToRepair`.  `ListOrphan` and `Reap` are the two halves of
`ReapSyncOrphans`.  `Pass` lets a tombstone's life pass; a snapshot is merged or
given up before one is over.

### SidecarManager

`cores[k]` is the manager's record of a key with the process it owns, `stray[k]`
counts live processes nobody knows, `file[k]` the files of the key, `wish` the
inbounds' rows.  `th[t]` is a thread: an API call (`Edit`, `Answer`), the boot
reconcile, or the cron's.  One `Ensure` is `Begin` (lock, the sweep once per
panel), `KillStrays`, `Converged` or `ToStop` and `Halt`, `Conclude`; one `Remove`
`BeginRemove`, `EndRemove`; a reconcile visits the wanted keys, then `ListOrphans`
and `SweepFiles`.  `Shutdown`, `StopOne`, `Exit` are the server's stop;
`PanelCrashes` turns every owned process into a stray.

Simplifications: one multi-instance core, the legacy singletons only as the
reason why every reconcile ensures something, no outbounds, routing, probes or
traffic; a panel-only stop (SIGHUP), which leaves manager and processes alone, is
no action.

### TuicTraffic

One inbound's server and what its registrations (`User` objects) count.  `reg[u]`
is `none`, `active` or `retired`; `Converge` is `Ensure` or `Remove` for a list of
registrations, from an API call or a reconcile; `BeginCollect`, `Take`, `Check`,
`EndCollect` are `CollectAllTraffic`, one counter after the other beside the
sessions.  `th[Job]` is `TuicJob.Run` (replay, reconcile, collect, add), `th[Flush]`
the shutdown's `FlushStoppedTraffic` (collect, store, replay up to three times).
`files` and `content` are the journal, `receipts` the table that makes a replay
harmless.  A lost answer of the database is the second disjunct of `CommitFails`
and `AddFails`: the transaction holds, the caller hears an error.

Simplifications: upload and download are one counter; the inbound's list may be
any set, so that callers may be as late as they like; `Close` ends the sessions
and waits for them before the counters are drained, in one step.  The shutdown waits ten
seconds for API calls (`web.go:874-876`): `Ensure` may come at any time while the panel
is alive, and one that starts a server after `StopAll` sets `late`.

## 3. Runs

All bounds are constants named in the modules (`MaxGen`, `QueueSize`,
`MaxNodeEdits`, `MaxFaults`, `MaxRestarts`, `MaxDepletions`, `MaxForces`,
`MaxSaves`, `MaxStops`, `MaxCrashes`, `MaxUses`, `MaxResets`, `MaxCalls`,
`MaxEdits`, `Grace`, `Quota`) or the size of a set of calls.  Deadlock is checked in
`tuic`, whose job runs for ever; the other instances come to rest when their calls
and faults are used up, so their `.cfg` says `CHECK_DEADLOCK FALSE`, and
their liveness properties say what must have happened by then.

| Run | Shows |
| --- | --- |
| `writer` | `TypeOK`, `OneWriter`, `NothingLeftBehind`, `HonestAnswer`, `EveryCallReturns`, `StopReturns`, `ImplementsService` |
| `sync_wishes` | `WishKept`, `EditNotLost` with two inbounds, a form edit, an add and a delete, a failed call, an edit or removal on the node, a master restart, and marks that may share a millisecond |
| `sync_converges` | `TypeOK`, `MergeSeesEdits`, `EditNotLost`, `Converges` with an inbound of two slots that the node may list under another tag, a client edit and a toggle, late requests, a failed call and a restart |
| `xray_safety` | `TypeOK`, `ManualStopStands`, `ServedIsWanted` with `restartXrayOnClientDisable` off, so that dropped clients are hot-applied |
| `xray_settles` | `ServedIsWanted`, `SessionsEnd`, `Recovers` with the setting on |
| `traffic` | `TypeOK`, `OwedUntilHeard`, `NeverOvercounts`, `ResetStandsUnlessOvertaken`, `AgreesAgain`: one node, two resetting calls beside the tick, quota 2, three units of usage, two resets, one fault |
| `membership` | `TypeOK`, `DeletedStaysDeletedUnlessSlipped`, `ReapsOnlySweptUnlessCarried`: two inbounds on two nodes, one of them with other clients, two calls, one fault |
| `membership_settles` | `SweptEnds`, `AgreesInTheEnd`: the same on one node, with fairness |
| `sidecars` | `TypeOK`, `OnePerKey`, `NothingLeft`, `Undisturbed`, `Settles`: one key, two configs, a call that edits twice, both reconciles, two faults |
| `tuic` | `TypeOK`, `EachInOnePlace`, `ShutdownLosesNothing`, `BilledInTheEnd`: a client with two registrations, two units, two edits, four faults, two journal files |
| `sync_advance`, `delete_undone` | one property each, violated: see section 6 |

Why the bounds are enough to be interesting.  The writer runs with a queue of one
and three calls, so that a call waits for room, another waits for `twMu`, and a
third is being applied while two controllers stop and start a second generation.
The sync runs have two edits around one tick and its successor: every known way
to lose an edit needs one edit that leaves the mark, one that is missed, and the
tick between them; a fault and a restart may fall at any step.  The Xray runs
have a live add (and in `xray_settles` a live drop), one depletion, one manual
stop, one failure and one crash, and `xray_safety` a forced restart and saved
settings; each of these may fall between any two steps of `RestartXray`.  (With the
setting off, both calls and a forced restart `ServedIsWanted` passed as well: 2.4 million
states.  With a coarse clock `EditNotLost` passed for the client edit and the toggle, too:
3.8 million states.)
Two resetting calls and the job are all the deliverers that can meet at one
node, and nodes share only the master's row: instances of `traffic` with two nodes
and fewer calls passed as well (1.5 and 1.7 million states, three minutes each).
Two calls are enough to delete a client and create it again, or to attach it while
it is marked, around merges of two nodes at different steps.  Two edits lead a
sidecar to another config, off, or away, while a crash and a timed-out stop happen.
Four faults allow a shutdown whose three replays all fail, or two crashes around
a replay with lost answers.

No run and no theorem restricts the interleavings: each is about `Spec` or `FairSpec` of
its module.  Where a race makes the code break a promise, a history variable records
that it happened, and the property holds in every other behaviour (`overtaken`,
`slipped`, `carried`, `late`, `escaped`, `lost`, `doubled`, `unstored`, `crossed`).
Section 6 says what each of them stands for; `crossed` is set as follows.

In `NodeConfigSync`, for one inbound, when

- an edit falls into the millisecond of the mark that the running reconcile has loaded
  (`SharesMark`);
- the enable switch commits, off the writer, while the merge is between its read and its
  commit (`CommitToggle`);
- a disabled inbound is added, which marks nothing, under a tag that the node has or has
  just reported (`AddInbound`);
- a request arrives out of turn (`OutOfTurn`): the reconcile's full push takes back what
  a fingerprint or an answered live push says the node holds; a live push takes back
  what the node holds or re-creates what it has not; a delete meets a tag that the
  master holds again;
- an alias is adopted for an inbound that was edited before (`AdoptAlias`);
- the sweep is left out because the node's inbounds are not adopted yet
  (`ReconcileSweep`), or skips a delete without an error (`SweepSkipped`).

In `XrayLifecycle`, for one client, and until it is made good, when its edit

- is committed between a generated config and the core made from it (`MidRestart`);
- is committed while another's edit of the same client is still to be applied
  (`Unapplied`);
- is a depletion inside a `RestartXray` whose caller, the watchdog or the operator,
  forgets a failure (`forgotten`);
- asks for a restart when the record already says of the client what the database says,
  so that the restart finds nothing changed (`ApplyCrosses`).

None of these exceptions is idle: without any one of them TLC refutes `EditNotLost` or
`WishKept`, or `ServedIsWanted` or `SessionsEnd`.  The toggle commits off the serial
writer, so `MergeSeesEdits` speaks of the other edits.

Each checked property has a faulty variant of a definition beside it in its
module (`StartAlways`, `ExitUndrained`, `ClearNodeDirtyAlways`, `RxStopAsync`
and so on) under which its run fails; `PROJECT.json` pairs them.

## 4. Fairness

`TrafficWriter`: weak fairness of a writer's, a caller's and a stopping
controller's next step.  `twMu` is not granted fairly, and the properties hold
without it because each call in an instance is made once.  `NodeConfigSync`: the cron keeps
starting ticks, a call that was started returns (every HTTP call has a timeout),
and the node answers what it was asked; failures are bounded by `MaxFaults`.
`XrayLifecycle`: the same for calls, poll, cron and watchdog; strong fairness for
entering `RestartXray`, because a waiter for a Go mutex is handed the lock after
a millisecond of starvation while other callers come and go.  Nobody is obliged
to edit, stop, force a restart or crash.  `NodeTraffic` and `ClientMembership`:
the cron keeps starting ticks, every tick, delivery and call runs to its end, both
panels poll their own traffic, the reaper runs; time passes under strong
fairness, since a tombstone's age only waits for snapshots in flight.
`SidecarManager` and `TuicTraffic`: threads run, the cron starts the job, a
shutdown that began ends, and a panel that went down is started again: after a
crash by its service unit (`Restart=on-failure` in `x-ui.service.*`), after a stop by
the operator, since a panel that stays down promises nothing.  TUIC clients need not connect, leave or
send.

## 5. Proofs

The proofs are for every value of the constants; the assumptions used are those
named in the modules (`NobodyAssumption`, `MaxGenAssumption`, `InitialAssumption`,
`NoneAssumption` and their like: a sentinel is not an element, bounds are natural
numbers).

- `TrafficWriterProofs`.  `IInv` joins `TypeOK` with `Lifecycle` (which
  generations are born, running, closed), `OfferUnderLock` (a caller that
  offers holds `twMu`, so its generation cannot be cancelled under it),
  `Requests` (a queued or busy request belongs to one waiting caller) and
  `Outcomes` (what has been applied by the caller's place).  `OfferUnderLock` is
  what makes `NothingLeftBehind` inductive: without it a request could be queued
  after the drain.  From `IInv` follow `TypeCorrect`, `AtMostOneWriter`,
  `DrainIsComplete`, `AnswersAreHonest`; and each step is a step of `WriteService`
  or a stutter (`Refinement`).
- `NodeConfigSyncProofs`.  `SyncTypeCorrect` (types, and that the tick only uses
  rows it has loaded); `MergeIsInformed`, by the invariant `EditKeepsDirty`: while
  the tick is between its snapshot and the end of its merge, an edit committed
  since the snapshot was fetched keeps the node dirty.  `EditsAreKept` (`EditNotLost`)
  and `WishesStand` (`WishKept`) are about `Spec` and every value of the constants, all
  kinds of calls, late requests and both clocks included; they speak of the inbounds
  outside `crossed`.  `Books` is what holds whatever happens: every request in flight is
  the one its sender stands waiting for (`Asked`, `Intends`), a reconcile runs while the
  node is dirty under a mark no newer than the row's (`Clock`), `Sweeping`, `Known`, and
  no version is newer than the newest (`Bounded`).  `Sound(i)` is what holds at an inbound
  outside `crossed`: the node holds what a fingerprint, an answered call or a report says
  it holds (`PrintHeld`, `CallsHeld`, `ReportHeld`), a clean node holds what the master
  holds or newer (`CleanHeld`), and while the mark the reconcile has loaded stands, what it
  has read is the master's and what it has dealt with is on the node or swept
  (`PlanStands`, `PlanHeld`, `StillThere`, `SweptAway`).  A merge that will not be frozen
  then has a report with all that the master knows (`ReportFull`), which is the theorems.
- `XrayLifecycleProofs`.  `TypeCorrect` (types, one holder of `lock`, a new core
  only after the old one); `ManualStop`, by the invariant `LockedIsWanted`:
  whoever is inside `lock` has taken the manual stop back on the way in, and
  `StopXray` cannot get in.  `ServesWhatIsWanted` (`ServedIsWanted`) and
  `ServiceEndsSessions` (`SessionsEnd`) are about `Spec` and follow from `KInv`, which says
  `Kept(c)` of every client outside `crossed`.  The panel's record
  is what ties the core to the database: where the record agrees with the database so
  does the core (`Tracked`), every edit makes them disagree, and whatever is wrong is an
  edit still to be applied, or a restart is due (`Owed`).  The rest
  supports that: an unwanted connection is one the next config will drop (`Recorded`), a
  config on its way into the core is the database's (`Fresh`), what a call is about to
  apply is still wanted (`Aims`), so are removals (`Depletes`), and the poll reports what
  it needs (`Reports`).
- `NodeTrafficProofs`.  `TypeCorrect` includes that no counter or baseline becomes
  negative.  `ResetsReach` (`OwedUntilHeard`) rests on `QueueInv`: stamps in the
  queue and in deliverers' hands are not newer than the last reset, a deliverer
  that is to drop a row has made the node obey the reset it read, and so a row it
  finds unchanged is not owed any more.  `NothingOvercounted` (`NeverOvercounts`)
  rests on `ChargeInv`: per node, what is charged and what the baseline still lets
  the next merge, or the snapshot in hand, add to it stay within the usage.
  `VerdictsBorneOut` (`ResetStandsUnlessOvertaken`) adds `LatchInv`: a node that owes no
  reset, and a snapshot that may still switch the client off, count no more than was
  used since the reset, or the node is marked, or a reset has overtaken the snapshot.
- `ClientMembershipProofs`.  `TypeCorrect`; `DeletesHold`
  (`DeletedStaysDeletedUnlessSlipped`) from `Kept`: links are within the settings
  (`Linked`); while a client is being deleted or gone and has not slipped, every node
  inbound that still lists it is either still in the call's hands or one the next
  reconcile will push without it, and a snapshot in hand that lists it is held back
  by the tombstone, the mark or the call (`Accounted`); and once it is gone no table
  and no call has it (`Over`).  `ReapsAreDue` (`ReapsOnlySweptUnlessCarried`) from
  `Due`: what a mark has left to run and the time since a merge took the last inbound
  make at least the grace period.
- `SidecarManagerProofs`.  `TypeCorrect`; `NoTwins` (`OnePerKey`) from `TypeOK`, `Locks`
  (a key's lock and the thread that holds it name each other, and a process taken
  out of the map is in that thread's hands), `Down` (a panel that is down has swept
  nothing and runs no thread) and `Clean` (after the sweep, unless a process escaped
  its stop, no key has a stray).  `NoNeedlessStop` (`Undisturbed`) adds what a thread
  under a key's lock knows of the row and the record it compared, `ShutdownIsClean`
  (`NothingLeft`) that a swept panel without late threads has every process in a record.
- `TuicTrafficProofs`.  `TypeCorrect` with what each thread may hold at each step;
  `NothingCountedTwice` (`EachInOnePlace`), one accounting step per action, over sums of
  registrations and of journal files; `ShutdownIsLossless` (`ShutdownLosesNothing`), by
  `Drains` (a stopped server has counted nothing) and `Closing` (in a shutdown that is not
  `late` the job is over, no server runs once all were stopped, and what was collected is
  stored).
- `SumTheorems`.  The sums are `SumFunctionOnSet` of the community modules, a fold.
  The induction theorems of the library cannot be instantiated, so that each lemma
  takes a smallest counterexample among the subsets of a finite set (the library's
  well-foundedness of strict inclusion): a sum of naturals is one, takes out any
  element, depends only on and grows with its terms.

Proving found two defects of the model, both corrected: the second bullet of `WishKept`
was out of line, so that the formula the run checked said only that a deleted inbound
is not imported back (the whole property now runs and is proved), and `Adopted` was a
`CASE` with overlapping guards, whose choice the language leaves open.

## 6. Disagreements between code and its documentation

Two are runs that TLC ends with a counterexample; quotes are in `PROJECT.json`.

- `sync_advance`: the push fingerprint advances over an older payload in flight.
- `delete_undone`: a merge between a delete's tombstone and its transaction makes
  the delete skip the inbound, and after 90 seconds the client is back.

The others are reproduced by checking the named property, which is defined in the
module but belongs to no run, or by taking one exception out of a property:

- `TrafficWriter.NeverConcurrent` (with `PanelSpec`, one controller, two writes, one
  generation): during a stop a caller applies its closure beside the writer that
  is still draining (`traffic_writer.go:117-121` says never).
- `NodeConfigSync.DeletionStands` (`WishKept` for deletions, with nothing excused; one
  inbound, one delete, one failed call): `Remote.DelInbound` returns nil when the list call
  fails that should resolve the id (`remote.go:491-496`), so the sweep reports no error,
  the node is marked clean and the next snapshot imports the deleted inbound back;
  `inbound_node.go:100-101` says that `ReconcileNode` returns "the failures joined", and
  `DeleteUser` beside it surfaces the same failure "instead of silently dropping the
  delete and letting the next snapshot resurrect the client" (`remote.go:680-682`).
- `NodeConfigSync.EditNotLost` without `crossed`: adopting an alias (`Aliased`) stamps a
  payload that was never pushed; with `FineClock = FALSE`, two edits in one millisecond
  (`node.go:1072`) share one mark, and the reconcile clears it; with a client edit, what
  `sync_advance` shows; with a toggle, the push of an inbound read earlier.
- `NodeConfigSync.OnboardingSafe`: `syncOne` marks a node's inbounds as adopted
  although the merge was frozen by an edit and adopted nothing; the next reconcile
  sweeps the node's own inbounds (`node_traffic_sync_job.go:444`).
- `XrayLifecycle.ServedIsWanted` without `crossed`: a client added while a restart is
  under way reaches neither core; the poll may disable a client between the commit of
  the call that adds it and that call's `AddUser`, after which the core serves a disabled
  client; a depletion inside a failed restart of the watchdog is forgotten.
  `SessionsEnd` without it: a client added live and deleted
  again is not disconnected, because the flag is down and the config equals the
  recorded one.
- `NodeTraffic.ResetStands`: "until the node applies a reset it owes, only usage may
  move" (`inbound_node.go:1153`) is kept by looking at the queue; a call that
  delivers its reset between the job's snapshot and its merge leaves no row there,
  and the old verdict switches the client off (`overtaken`).  The next merge lifts it.
- `ClientMembership.ReapsOnlySwept`: the reaper deletes by the list it made, and by
  a mark that attaching does not take away (`carried`), so it also deletes clients
  that were linked again ("no later merge reclaimed", `client_sync_orphan.go:45`).
- `SidecarManager`: the first ensure marks the sweep as done before it kills, so a
  second one may start a core that the sweep then kills, although the sweep is said
  to run "before any of our own cores are started" (`manager.go:228`); the next
  reconcile starts it again.  `NothingLeft` without `late`: what the boot reconcile
  or a slow request ensures after the shutdown's `StopAll` stays behind.
- `TuicTraffic`, action `Check`: bytes a retired user's last session counts between
  the swap of its counter and the look at its sessions are forgotten (`lost`).
  Action `AddFails`: traffic whose commit held but was reported as failed is put
  back and billed again (`doubled`); only the journal has receipts.
  `ShutdownLosesNothing` without `late`: the boot run is no cron job, so a
  shutdown does not wait for it ("Call it after scheduled jobs have stopped",
  `tuic_job.go:108`), and a request is waited for ten seconds only, after which it may
  start a server that `StopAll` does not see.

### Hazards beyond the list of `PROJECT.json`

`PROJECT.json` lists the forty that matter most.  Covered by the same properties are:
a node that reports nothing or drops a disabled inbound from its report
(`inbound_node.go:1042`), the alias stamp (`remote.go:611`), a hot apply that stops
half-way (`xray.go:2578`), a failed restart that must be asked for again
(`xray.go:2732`), a late delete that meets a re-created inbound of the same tag
(`inbound_node.go:191`, booked in `crossed`), a reset delivered twice (`node_traffic_sync_job.go:388`), a
delete that fails on one inbound of several (`client_crud.go:1088`), a live add whose
answer is lost (`remote.go:635`), a `Remove` whose stop times out
(`tunnel/manager.go:335`).  Covered by none are:

- the enable switch's push of an inbound read before its transaction
  (`inbound.go:1991`);
- `_ = process.Stop()` with a core that survives SIGKILL (`xray.go:2362`);
- attaching a marked client leaves its mark (`client_sync_orphan.go:28`);
- a panel whose reconcile has nothing to ensure never sweeps strays
  (`tunnel/manager.go:225`; the model follows an installation with a legacy core's
  blob, whose reconcile always ensures something);
- one unreadable journal file stops the replay of all later ones
  (`tuic_journal.go:93`);
- the gate between the TUIC server and Xray's SOCKS inbound (`relay_gate.go`).

## 7. What is only model-checked

Every liveness property (`EveryCallReturns`, `StopReturns`, `Converges`, `Recovers`,
`AgreesAgain`, `SweptEnds`, `AgreesInTheEnd`, `Settles`, `BilledInTheEnd`), which the proof
system does not cover.  Every invariant and action property of a passing run is
proved of `Spec`, without assumptions on its behaviours.  The properties of the two
violated runs are false.

## 8. What is not modelled

`PROJECT.json` lists every component with the reason.  In short: the event bus, the
login limiter, the websocket hub and the tunnel monitor have a small protocol and are
planned below; the MTProto manager has the sidecars' shape with one process;
the managers of kernel interfaces are sequences of system calls; configuration
generation, subscriptions, link formats, settings, validation, migrations, bots,
the frontend and the installers are data, conversion or I/O: they make most of the
code, and nothing in them happens between two actors.

Inside the modelled components: renewal and expiry of clients, the sums pushed
down a tree of nodes, bulk variants of client calls, port conflicts, the relays of
TUIC inbounds in Xray's config, sidecar outbounds and routing, and the QUIC
protocol itself.

## 9. Plan

1. `EventBus`, then the websocket hub as an instance of the same shape:
   non-blocking publish, per-subscriber queues, stop; abstractly, a lossy FIFO
   per subscriber.
2. `LoginLimiter`: failure window, cooldown, bounded table.
3. Renewal: `autoRenewClients` and `disableInvalidClients` on the panel and on its
   nodes, on top of `NodeTraffic`.
4. The TUIC relays: the gate, the SOCKS accounts in Xray's config and the reconcile
   that keeps them together, composed with `XrayLifecycle`.
5. `NodeConfigSync` with the database's isolation and remote ids as parameters,
   and a composition of it with `NodeTraffic` in one tick.

Theorems to come: an abstract specification of a replicated inbound that
`NodeConfigSync` implements outside `crossed`; `OwedUntilHeard` for an abstract
reset queue that `NodeTraffic` implements.
