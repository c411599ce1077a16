# Status sync of a leaf hub, in TLA+

`leaf-hub-status-sync` runs on a leaf hub, a cluster that manages other
clusters. It collects the status of the hub's resources in *bundles* and sends
the bundles that changed to the hub of hubs, over Kafka or the Edge Sync
Service. This directory holds TLA+ models of that program, the TLC
configurations that check them, and theorems about them that TLAPS checks.

Contents: [the system](#the-system) · [the plan](#the-plan) ·
[the modules](#the-modules) · [what the runs check](#what-the-runs-check) ·
[what is proved](#what-is-proved) · [what is not modelled](#what-is-not-modelled)

## The system

| component | code | state | operations |
|---|---|---|---|
| policy compliance bundles | `pkg/bundle/grc` | `Objects`, `BundleVersion`; the delta-state bundle also its base's version, records of every policy's status and a transportation id | `UpdateObject`, `DeleteObject`, `GetBundleVersion`; delta: `Reset`, `SyncState`, `GetTransportationID` |
| hybrid sync manager | `pkg/controller/generic/hybrid_sync_manager.go` | active mode, count of sent deltas | the entries' predicates; callbacks for attempt, success and failure |
| generic status sync controller | `pkg/controller/generic` | lock, ordered bundle collection with each entry's last sent version | `Reconcile` (finalizer, update or delete in every bundle), `periodicSync`/`syncBundles` |
| policies controller | `pkg/controller/policies` | none of its own | wires the four bundles, the manager and the predicates together |
| Kafka producer | `pkg/transport/kafka` | event subscriptions, delivery channel | `SendAsync`, delivery report handler, `Start`, `Stop` |
| sync service | `pkg/transport/sync-service` | message channel | `SendAsync`, sender goroutine, `Start`, `Stop` |
| generic status bundle, and the controllers that only use it | `pkg/bundle/generic_status_bundle.go`, `managedclusters`, `placement`, `apps`, `localplacement` | objects as they are, version | `UpdateObject`, `DeleteObject` |
| local policies controller | `pkg/controller/local_policies` | three bundles, no delta | as the generic controller |
| config controller | `pkg/controller/config` | the hub-of-hubs config object, shared with all predicates | `Reconcile` decodes into the shared object |
| sync intervals | `pkg/controller/syncintervals` | three durations, shared with the tickers | `Reconcile` stores parsed values |
| control info | `pkg/controller/controlinfo` | a version | incremented and sent at every tick |
| process start | `cmd/manager/main.go` | the incarnation config map | read, increment, patch; leader election |

**How they interact.** Watches queue objects for `Reconcile`, which hands each
to every bundle of the collection, in order, under the controller's lock. A
periodic goroutine goes over the collection under the same lock: an entry whose
predicate holds and whose version is newer than the last sent one is marshalled
and handed to the transport, which calls back the hybrid sync manager
synchronously (attempt, or failure when the producer refuses). Delivery reports
come back on a channel, and a third goroutine calls the manager with success or
failure; it takes the manager's lock and the delta-state bundle's lock, and
*not* the controller's. The predicates read the config object, which the config
controller overwrites without a lock.

**How policy statuses travel.** A policy's status says for each of its clusters
whether it is compliant. Four bundles carry it:

* the *clusters-per-policy* bundle, the full state, which gets a new version
  only when a policy or a cluster comes or goes;
* the *complete-state* compliance bundle, which lists the clusters that are not
  compliant, and leaves out policies that have none;
* the *delta-state* compliance bundle: the changes since the last bundle, of
  the complete-state bundle that was the base when delta mode began;
* the *minimal* bundle, counts only, for another aggregation level.

The manager starts in complete mode. After a complete-state bundle is sent it
goes to delta mode; after `COMPLIANCE_STATUS_DELTA_COUNT_SWITCH_FACTOR` deltas,
or a failure, it goes back.

**What makes it correct**, and what is hard about it: every bundle leaves
something out, because another bundle is supposed to convey it. That promise
spans three goroutines with different locks, callbacks that go by the manager's
mode and not by the message they are about, reports that come late or never,
and messages that are flushed before they are delivered. `PROJECT.json` lists
these hazards at their lines. Per component:

* bundles: they agree on every policy; a delta's records and pending changes
  are up to date; the keys of the deltas of one base differ;
* manager: deltas build on a base that was sent; a run of deltas is bounded;
* controller: a base is sent before what is based on it; what was not conveyed
  can still be made good; in the end the hub of hubs knows every status;
* transports: order and outcome of messages are as promised; `Stop` does not
  block (it may panic, see [what the runs check](#what-the-runs-check));
* restarts: versions of a later process are newer; a deletion is not forgotten.

## The plan

1. `ComplianceBundles`, `HybridSync`: the policies controller at work. **Done.**
2. `Feed`, `GenericStatusSync`: one generic status bundle with finalizers,
   failing API calls, retries, crashes and restarts under a new incarnation; the
   abstract feed of versioned snapshots that it implements. **Done.**
3. `Incarnation`: instances that start together or one after the other, the
   config map, leader election. **Done.**
4. `Transport`, the contract of a transport; `SyncService` and `KafkaProducer`,
   which implement it: channels, `Start` and `Stop` against senders and
   callbacks. **Done.**
5. `SyncIntervals`: the config map's reconciler; `Process`, which composes the
   transports and the intervals with the tickers' goroutines, the control info
   and `doMain`. **Done.**
6. `LocalPolicies`: the local policies' collection with its shared object, and
   the two controllers that share out the policies. **Done.**
7. Proofs of what the runs check, for every value of the constants: every
   invariant, the action properties and both refinements. **Done**; liveness is
   left to TLC (see [what is proved](#what-is-proved)).

Each module has its parameters as `CONSTANTS` with named assumptions, one action
per operation, and an `MC` module; runs stay at one or two policies and clusters,
which is what the smallest counterexample of each mutant needs.

## The modules

### ComplianceBundles

The four bundles as data: pure operators, one per method, on records. A
policy's status is three disjoint sets of clusters instead of a list of
(cluster, state) pairs; a bundle's `Objects` slice is a map by policy id. The
order within lists and slices, which no code depends on, is abstracted away.
`BundleVersion` is its generation: the incarnation is constant in a process.

| operator | code |
|---|---|
| `CppUpdate`, `CppDelete`, `ClusterListChanged` | `ClustersPerPolicyBundle` |
| `CompleteUpdate`, `CompleteDelete`, `Failing`, `FailingChanged` | `ComplianceStatusBundle` |
| `DeltaUpdate`, `DeltaDelete`, `Changed`, `Recorded`, `Pending`, `Override` | `DeltaComplianceStatusBundle`: records cache and pending objects |
| `DeltaReset`, `DeltaSyncState` (`DeltaSyncVersion`, then `DeltaSyncRecords`) | `Reset`, `SyncState` |
| `MinimalUpdate`, `MinimalDelete`, `Summary` | `MinimalComplianceStatusBundle` |

`Override` stands for both ways the delta-state bundle moves a cluster from one
list to another: the removal and addition in the records' sets
(`getChangedClusters`) and the map in `updatePolicyComplianceStatus`.

### HybridSync

The state machine. Its steps are those of three goroutines:

| actions | goroutine and code |
|---|---|
| `BeginUpdate`, `BeginDelete`, `Reconcile` (one bundle a step) | the reconciler: `updateObjectAndFinalizer`, `deleteObjectAndFinalizer` |
| `BeginSync`, `CheckEntry`, `Marshal`, `MarshalBase`, `TakeKey`, `Produce`, `Attempt`; or, where it fails, `FailToMarshal`, `FailToCompress`, `Reject` | `periodicSync`, `syncBundles`, `SyncToTransport`, `SendAsync` |
| `HandleReport`, `SyncBaseVersion`, `SyncRecords` | `deliveryReportHandler` and the manager's callbacks |
| `SetLevel` | the config controller |

`holder` is the owner of the controller's lock, `at` the entry its loop has come
to, `phase` how far the pass is with it. `handler` tells whether the report
handler is within `switchToDeltaStateMode`: `Reset`, the base's version and the
records are steps of their own there, as the reconciler and the pass may run
between them. The same switch by the sync pass is one step: it holds the
controller's lock and the manager's, so nobody who could tell runs in between.
The manager's lock is held while `handler # "waiting"`, the delta-state bundle's
lock while `handler = "syncing"`.

* `SyncRecords` reads the clusters-per-policy bundle's `Objects` without that
  bundle's lock (a data race): while the reconciler is at that bundle, each of
  the policy's three lists may be seen old or new, and an addition or a deletion
  seen or not (`UnlockedCppObjects`). A slice header torn between its words, and
  entries seen twice or not at all while a deletion shifts several, are not in
  the model.
* A bundle is marshalled without its lock. The delta-state bundle is the only one
  that can change before its message is produced (the others are written under
  the controller's lock): its `Objects` (`Marshal`), its base's version
  (`MarshalBase`) and the id for the message's key (`TakeKey`) are read one by one,
  into `payload`. A slice header torn between its words is not in the model: the
  encoder may crash on it, which ends the process.
* The three ways a message fails to leave are told apart. If the bundle cannot be
  encoded `SyncToTransport` returns an error and the pass ends with the version
  unsent (`FailToMarshal`); if the message cannot be encoded or compressed the
  producer drops it, tells nobody, and the version counts as sent
  (`FailToCompress`); if `ProduceAsync` returns an error the failure callback is
  invoked, and the version counts as sent (`Reject`). `Unmarshallable`,
  `Incompressible` and `Rejectable` are the entries to which this may happen. The
  other modules do without the first: a bundle that is alone in its pass might as
  well have had no tick, and where there are several, a config that switches the
  rest of the pass off leaves the same state.
* `Produce` fixes the broker's answer at once and appends it to `reports`, the
  delivery channel with the reports the broker still owes, in order: one report
  a message, as for messages that are not split. The report may be handled
  before `Attempt`, the synchronous callback.
* `MessageKey` is the key `SyncToTransport` gives to a message and by which
  reports look up the subscription. The transportation id in a delta's key is
  never part of a subscribed id, so one token stands for all of them there.

`line` is history: the base and the id of every delta produced since the last
complete-state message. `DeltaRunIsBounded` and `DeltaKeysDiffer` are about those
messages, not about the manager's count or the bundle's id. A key is
`<message id>@<transportation id>`, without the base, and ids start at 0 again
with the next base: keys do return then, and only those of one base differ.

`received` is history: the status of each policy the hub of hubs will know once
the messages under way have arrived. The hub of hubs is not in this repository;
its part (`Known`, `StatusFrom`, `ReceivedComplete`, `ReceivedDelta`) is modelled
from how the bundles are built: a clusters-per-policy bundle replaces what is
known, the other two only change states of known clusters, the complete-state
bundle by implication. A check of base versions on that side is not modelled:
`DeltaBuildsOnSentBase` and `BaseSentFirst` state what such a check needs.

**`TimelyReports`.** A success report that comes when its manager went through a
whole run of deltas, and is back in complete mode, switches to delta mode once
more, on a base that was never sent, and starts counting again: the run of deltas
goes on past `SwitchFactor`. Two things lead there. The report takes longer than
`SwitchFactor` passes; the code excludes this by time only. Or a delta is rejected,
which ends delta mode at once: if the complete-state message of that pass, or of
one shortly before, is still unreported, no time is left for its report, and
nothing in the code excludes this but that `ProduceAsync` hardly ever returns an
error. With `TimelyReports` the model has neither (no report on a complete-state
message is outstanding when the manager leaves delta mode), which for a rejected
delta is an assumption and no more; without it nothing is assumed of the reports'
timing, and run `Late` shows what still holds then. There both happen with its
switch factor of 2: the switch to a base that was never sent, and the flush of a
delta (line 112 of the manager) whose delivery then fails.

**Bounds.** `MaxChanges` counts reconciliations in a behaviour, `MaxReports` the
reports outstanding; generations, counts and ids are bounded by them. Neither is
in the code.

**Fairness** (`Fairness`): weak fairness of the reconciler's loop, of the
ticker's pass, of each pass's steps and of the report handler: they are
goroutines that never wait for one another for ever (locks are held for finite
loops). Policies need not change, the config need not change, and of the broker
nothing is assumed but that it answers.

### GenericStatusSync and Feed

One controller with one generic status bundle, from the API server to the hub of
hubs, in a process that restarts.

| actions | code |
|---|---|
| `Create`, `Modify`, `RequestDelete`, `ReleaseByOthers` | other programs that write objects |
| `Watch`, `Resync` | controller-runtime: the cache follows the API server state by state, and requests are queued |
| `Reconcile` | `Reconcile` up to its first write: a cached read and the choice of a branch |
| `AddFinalizer`, `UpdateObject` | `updateObjectAndFinalizer`: the API call, then the bundle under the lock |
| `DeleteObject`, `RemoveFinalizer` | `deleteObjectAndFinalizer`: the bundle under the lock, then the API call |
| `Sync` | `syncBundles`, one step as it holds the lock all along |
| `Deliver` | the hub of hubs, which ignores what is not newer |
| `Crash` | the end of the process and the start of the next |

`log[n]` holds all states of object `n`; a state's index is its resource version,
so `seen[n]` tells which state is cached and the reconciler's object is a name
with a resource version. A UID is the name with the version of the object's
first state. An API call (`Update`) takes effect if the object is still as it was
read, conflicts otherwise, or fails with or without effect; then the request is
queued again. A failing cached read changes nothing but the queue, to which it
returns the request, and is left out. A request that is served again on an old
state of the cache is real: events arrive after the cache has been written, and
controller-runtime resyncs. The predicate of the entry is left out: it is always
true, or (managed clusters) true once the config has been read, and a pass may
be late in any case. `Lossy` lets a message be lost, which the code counts as sent.

`Feed` is what this comes to for the hub of hubs: every snapshot that arrives is
newer than the known one, so that none is discarded, and no object goes back to
a state older than one that was ever known of it, nor to an earlier object of its
name. A crash may cut off the end of the feed. `ImplementsFeed` is the
refinement, `channel` being `inFlight`; `latest` and `newest` are history
variables of both.

**Fairness**: the informer, the reconciler's goroutine, the ticker and the
transport go on (weak fairness). The reconciler serves its queue in order, so a
request that is in the queue again and again is served (strong fairness of
`Reconcile(n)`; the queue is a set). Nothing is assumed of other programs, of
resyncs or of crashes; errors and crashes are finite in number (bounds).

### Incarnation

`getIncarnation` and `createHohLocalNamespaceIfAbsent` with one action per API
call, leader election, and instances that end at any point. An API call that
fails ends the process (`End`). `overlap`, fixed at the start, says which
instances may run together: the deployment asks for one replica, but a rolling
update runs two, and leader election is there for more. The config map is never deleted.

`BundleVersion` is the version type of the data types module, with its order.

### Transport, SyncService, KafkaProducer, SyncIntervals and Process

One process from `doMain` to its end, with either transport. A bundle is only
its generation here; what matters is which goroutine waits for which, over which
channel, and what becomes of a message. `Process` instantiates both transports
over the same variables for what was handed over, which callbacks were invoked
and what arrived, so that one refinement (`ImplementsTransport`) is about either.

| actions | goroutine and code |
|---|---|
| `StartTransport`, `AddController`, `CreateManager`, `Lead`, `Cancel`, `ManagerReturns`, `StopTransport`, `Exit` | `doMain`, `createManager`, `AddControllers`, the deferred `Stop` |
| `NewTicker`, `SyncBundles`, `AttemptCallback`, `SendReturns` | `periodicSync` of a generic controller |
| `NewTicker`, `SyncBundle`, `AttemptCallback`, `SendReturns`, `ContextDone` | `periodicSync` of the control info |
| `UpdateBundle` | `Reconcile`, as far as it makes a new version |
| `S!Receive`, `ReceiveStop`, `ReceiveNil`, `UpdateObject`, `UpdateObjectData`, `Report` | `sendMessages` of the sync service |
| `K!Poll`, `Answer` | the Kafka client and the broker |
| `K!ReceiveReport`, `HandleDeliveryReport` | `deliveryReportHandler` |
| `S!Stop`, `K!Stop` | each transport's `Stop`, channel by channel |
| `ChangeConfigMap`, `ReconcileIntervals` | other programs; the config map's reconciler, interval by interval |

* `policies` stands for the policies controller with the compliance bundles it
  sends; with Kafka a message of its may be a delta, whose key is not its ID
  (`KeysOf`). The attempt callback is looked up by ID and the outcome's by key
  (`InvokeCallback`), so that of a delta no outcome is ever told.
  `events[i]` is what a subscriber of message i's ID would be told; whether
  anybody subscribed makes no difference to the producer.
* A goroutine that is parked in a `select` or at a channel is not told from one
  that is about to get there. It can do the same things, but closing `msgChan`
  or `deliveryChan` panics only who is already parked, or sends later: `CloseMsgChan` and
  `CloseDeliveryChan` panic whoever is at the channel, `SendAsync` and `Poll`
  whoever comes afterwards.
* A closed `stopChan` can be received from as well as the token in it, and a
  closed `msgChan` yields nil: after `Stop` the sender's `select` has a choice
  (`ReceiveStop`, `ReceiveNil`).
* What a closed Kafka client does with a message is undefined: `ProduceOnClosed`
  fails or panics.
* `SendReturns` covers what the goroutine does without anybody able to see it in
  between: `lastSentBundleVersion`, the end of the pass, the unlock and the new
  ticker period. Taking the lock and the first entry are one step as well.
* A manager that is cancelled waits for its runnables for a limited time only, so
  that reconcilers may go on during `Stop` (`UpdateBundle`). Generic controllers'
  passes have no context and always do.
* `SetSyncInterval` is a step for every interval, as the tickers read in between.
  Intervals are whole seconds; `Invalid` is what `time.ParseDuration` refuses. A
  cached `Get` that fails otherwise changes nothing and is left out. What the
  config map is while the process does not lead is not looked at.
* `panicked` ends the process: no goroutine recovers. `unfit` is history: whether
  somebody configured an interval that is not positive.

**Bounds.** Versions, failures and changes of the config map have each a bound,
and `MaxEffort` one for all of them together.

**Fairness**: every goroutine goes on (weak fairness of `doMain`, of each
`periodicSync`, of the transport with the broker or service behind it, and of the
reconciler). There are finitely many messages, so a `select` is not asked to
choose among its channels for ever. The broker and the service answer in the
end, with success or failure: the client times out. Nothing is assumed of
signals, leases, statuses and other programs.

### LocalPolicies

The policies and the local policies controller on the same objects, from the
API server to the local policies' bundles. The API server and the cache are as
in `GenericStatusSync`, with a log of states for each name; there are no failing
calls but conflicts, and no restarts, which that module has.

| actions | code |
|---|---|
| `Create`, `SetStatus`, `ChangeOwner`, `RequestDelete` | other programs that write policies |
| `Watch` | the informer; each controller's event filter decides whose queue the name enters |
| `Reconcile`, `AddFinalizer`, `RemoveFinalizer` | `Reconcile` of either controller, one API call a step |
| `UpdateLocal`, `DeleteLocal` | the three bundles under the local policies controller's lock |
| `UpdateGlobal`, `DeleteGlobal` | the policies controller, as far as one bundle tells: `extractPolicyID` and its early return |
| `SyncEntry` | `syncBundles`, an entry a step |
| `SetConfig` | the config controller |

* `StatusFor` is the sharing: all bundles of the collection are handed one
  object, whose status `cleanPolicy` clears for the spec bundle. What an entry
  finds depends on the order of `Collection`.
* The two reads of the config by one predicate are one step; a config that is
  decoded in between, or is half decoded, is what two `SetConfig` make of it.
* Policies with a root-policy label pass neither filter and are left out. The
  same pair of filters shares out placement rules and local placement rules.
* `received` is what the hub of hubs was told, as in `HybridSync`.

**Bounds.** `MaxChanges` counts writes of others and config changes together.

## What the runs check

The first table is of `MCHybridSync`. `Timely` has one policy on two clusters, four
reconciliations and a switch factor of 2, so that a base, a delta, a further
delta and the return to the complete state all happen, with changes in between
(7.2 million states, a minute); one cluster would not tell a list that is
replaced from one that is extended.

| run | assumes | shows |
|---|---|---|
| `Timely` | timely reports; the broker takes every message; sending a delta may be rejected; any bundle may fail to be encoded | `NothingLost`: when nothing is left to send, the hub of hubs knows every status. `RecordsAreCurrent`, `PendingIsCurrent`: deltas are computed against, and convey, current states. `DeltaBuildsOnSentBase`, `BaseSentFirst`: the order of versions. `DeltaRunIsBounded`: at most `SwitchFactor` deltas are produced from one complete-state message to the next. `DeltaKeysDiffer`: they have different keys |
| `Late` | two policies; nothing of the reports' timing; deltas may be rejected, dropped or undelivered | `TypeOK`. `CompleteCanRepair`: what the hub of hubs misses is still in a bundle with an unsent version. `BundlesAgree`: the full-state bundles agree on every policy |
| `Settles` | fairness; timely reports; deltas may be rejected; the level changes between full and minimal | `Converges`: once policies stop changing at full level, the hub of hubs comes to know, and keeps knowing, every status |

`Settles` has a single policy and cluster and three changes, enough for the
status to change while a pass is under way and after it. Its bundles can be
encoded and compressed: one that never can is never sent, whatever the passes do,
and one that is dropped as incompressible counts as sent.

With `MCGenericStatusSync` and `MCIncarnation`:

| run | assumes | shows |
|---|---|---|
| `Restarts` | two objects, four writes by others; one error; one restart; messages may be lost | `TypeOK`. `FinalizerGuards`: what the bundle reports cannot go unnoticed. `CaughtUp`: with nothing left to reconcile the bundle holds what exists. `OnlyDeletedDisappear`: nothing else leaves what it knows, but for a restart. `ImplementsFeed` |
| `Finalizer` | fairness; one object, which may have finalizers of others; no message is lost | `NothingLost`: with nothing left to reconcile or send the hub of hubs knows what exists. `DeletionCompletes`: the finalizer never holds up a deletion for ever. `Converges`: the hub of hubs comes to know what there is |
| `Starts` | two instances, six starts | `TypeOK`. `MessagesAreMoreRecent`: with one instance at a time a leader's messages are newer than all before. `IncarnationsDiffer`: with one start at a time no incarnation is taken twice |

Four writes are enough to create an object, delete it and create it again while
the other exists, with the cache behind. `NothingLost` and `Converges`
leave out a bundle that is still at its first version, or a hub without objects:
such a bundle is never sent, and run `Forgotten` shows what that costs. Six
starts of two instances let each wait, lead and end while the other starts.

With `MCProcess` and `MCLocalPolicies`:

| run | assumes | shows |
|---|---|---|
| `Process` | fairness; one generic controller beside the control info, either transport; two versions of each bundle, one failure, two changes of the config map, three of these in all | `TypeOK`. `ImplementsTransport`: order and outcome of messages are as `Transport` says, also during `Stop`. `VersionsAdvance`: what arrives later from a sender is newer. `PanicsAreExplained`: only `Stop` and unfit intervals make a goroutine panic. `IntervalsSettle`, `ConfigTakesEffect`: no configured interval is lost. `SendsReturn`: no sender waits for the transport for ever. `AttemptsHaveOutcomes`: the attempt of a message whose key is its ID has an outcome. `ShutdownEnds`: `Stop` does not block; a panic is an end, too |
| `Local` | one name, two policies that may have it one after the other, two statuses; five writes or config changes | `TypeOK`. `LocalBundlesAgree`: the shared object does no harm. `OwnerReports`, `OthersDoNot`: a policy is reported by the controller it belongs to and no other. `NoneStuck`: the shared finalizer holds up no deletion. `LocalNothingLost`: the config loses nothing |

Three efforts let two goroutines have a message under way while one more fails
or an interval changes, which is what the mutants need; every step of both
`Stop`s meets every state of such a process. Five changes are enough to create a
policy, change its status or its owner, delete it and create another of its name,
with the caches behind.

Four runs show where the code does something else than a comment says; each
refutes one property, with a behaviour of a few steps (`PROJECT.json`,
"findings"):

| run | the comment | the code |
|---|---|---|
| `FailedDelta` | callbacks are for messages with the subscribed id | a delta's report is looked up by a key that is never subscribed |
| `UnlockedRead` | records hold the full status at all times | a late report's switch may keep a torn or stale status |
| `Forgotten` | an object that is not found needs nothing | deleted last, with a restart before the next pass, it stays known for ever |
| `StandbyLeads` | an instance's messages are newer than all others | not those of a standby that started before the last leader |

Other divergences from comments can be read off the models without a run of
their own:

* a message the producer refuses counts as sent (`Reject`), though "do not update
  last sent generation in case of failure";
* `Reset` flushes "after delivery", but is called at the attempt
  (`HandleAttempt`): if the delivery fails after that, the flushed changes are
  known to nobody until the next complete state, which `CompleteCanRepair` says
  will have them;
* "no need to send in the same cycle both clusters per policy and compliance":
  both are sent (`CheckEntry` looks at one entry at a time);
* "if a cluster was removed, object is not considered as changed": it is
  (`FailingChanged`);
* a level that becomes full in the middle of a pass has a compliance bundle sent
  before its base (`BaseSentFirst` fails when the level changes);
* two instances that start together may take the same incarnation, as
  `PatchConfigMap` writes whatever the config map has become since it was read;
* "delete from policy records": a deleted policy's records stay unless it has a
  pending change (`DeltaDelete`);
* a namespace is "created if absent": the start that creates it fails, around an
  error that is nil, and the next one goes on (`EnsureNamespace`);
* a policy that changes hands stays in the former owner's bundles until a
  restart, and a queued request may put a policy into the wrong controller's
  bundles when its name has meanwhile gone over: `Reconcile` does not look at the
  event filter (`OthersDoNot` is about the other names only);
* an interval of zero, or a negative one, is no interval that a ticker takes, but
  `setSyncInterval` stores it and the process panics (`SetTicker`);
* `Stop` may panic: the Kafka producer closes `deliveryChan` before the client
  that sends to it, the sync service closes `msgChan` under its senders and then
  receives nil from it (`PanicsAreExplained` excepts a process that stops);
* a message that the producer cannot compress is dropped without any callback,
  and its version counts as sent (`Refuse`).

Every property of a passing run has a mutant: an operator beside the one it
mutates ("Mutated form"), a plausible slip in that code with which the run fails.

## What is proved

Every invariant and action property of a passing run, and both refinements, are
theorems that TLAPS checks. They hold for every value of the constants that the
named assumptions admit: any number of policies, clusters, names, instances,
writes, failures and restarts. A run shows such a property on one small instance,
and that its mutant breaks it; the inductive invariants were checked by TLC first.
`ASSUME`s in a theorem's statement are about what the code does not decide, the
timing of reports, rolling updates and what the broker delivers; the divergences
above and the last section tell what happens without them.

### The hybrid sync: `HybridSyncProofs` and `HybridDeliveryProofs`

They use lemmas on the bundles' operators in `ComplianceBundlesProofs`. The
constants: any set of policies, any finite set of clusters (`ClustersFinite`),
any switch factor, with or without delta bundles (`ConfigAssumption` only gives
types). *Timely* is `TimelyReports`; *full states arrive* says that
clusters-per-policy and complete-state messages are neither rejected, dropped by
the producer nor lost; *deltas arrive*, that deltas are neither dropped nor lost
(they may be rejected). *Complete-state messages are delivered* says only that
those the producer took are not lost. Any bundle may fail to be encoded.

| theorem | property | assumes |
|---|---|---|
| `TypeCorrect` | `TypeOK` | nothing |
| `BundlesDescribeTheSame` | `BundlesAgree` | nothing |
| `BaseBeforeCompliance` | `BaseSentFirst` | the level is always full |
| `DeltaBase`, `DeltaRunBounded`, `DeltaKeysOfABaseDiffer` | `DeltaBuildsOnSentBase`, `DeltaRunIsBounded`, `DeltaKeysDiffer` | timely; complete-state messages are delivered |
| `RecordsStayCurrent`, `PendingStaysCurrent` | `RecordsAreCurrent`, `PendingIsCurrent` | timely; complete-state messages are delivered |
| `DamageCanBeRepaired` | `CompleteCanRepair` | full states arrive |
| `NothingIsLost` | `NothingLost` | timely; full states and deltas arrive |

* `TypeOK` is inductive as it stands. Its weight is in the lists: what is sent and
  received has no cluster in two of a policy's lists, although the *records* may,
  after an unlocked read (`UnlockedReadType`); the changes computed against them
  are disjoint all the same (`DeltaUpdateType`).
* `PassInv`, for `BaseSentFirst`: a pass that has gone past the base leaves it
  clean, since no reconciliation runs during a pass. A pass may skip the base at
  another level and come to the compliance entries when the level is full.
* `AgreeInv`, for `BundlesAgree`: a bundle differs from the clusters-per-policy
  bundle only on the policy of a reconciliation that is past that one and not
  past this one; other goroutines read the bundles in just such states.
* `ModeInv`, for `DeltaBuildsOnSentBase`: in complete mode a complete-state report
  is outstanding only while its message is being handed over, the mode an entry
  was checked in lasts until it is handed over, and the handler is busy only
  during that hand-over. So no switch happens at another moment, and the base is
  what was handed over *last*.
* `DeltaInv`, for the records: they agree with the statuses but for the policy
  of a reconciliation on its way to them; what is pending or being sent is on
  record; nothing is pending while the handler switches. `ModeInv` is what makes
  the handler's unlocked read of the base harmless here (run `UnlockedRead` is
  the same without timely reports).
* `LineInv`, for the messages in `line`: in delta mode they are no more than the
  manager counted, and one more from a delta's production to its attempt, each on
  the base that was handed over last, and their ids go up to below the next one's. It rests on
  `ModeInv`, as a late switch sets the count to 0 with `line` as it is, and on
  `CountBounded`: the count stays below `SwitchFactor` in delta mode.
* `SentInv` and `PendInv`, for `CompleteCanRepair`: what a version stands for once
  it is the last one sent; and that, as long as the complete-state bundle has
  nothing to send, no pending or produced delta contradicts it. So a delta that
  arrives late or never leaves nothing wrong that a full state would not repair.
* `RunInv`, on top of all these, for `NothingLost`: in delta mode what the hub of
  hubs knows would, with the pending changes, be what is on record, and nothing
  is pending when the delta-state bundle has no version to send. With the records
  being current, nothing left to send means nothing left to know.

### A generic controller: `GenericStatusSyncProofs` and `GenericFeedProofs`

`BoundsAssumption` gives types only: any number of names, writes, errors and
restarts, messages lost or not.

* `TypeCorrect`, `FinalizerHolds` (`FinalizerGuards`), `BundleCatchesUp`
  (`CaughtUp`). `LogInv` says what a log of states tells of the current one: a
  UID that is gone does not return, a deletion stays, and while the cache may
  still show an object with the finalizer that is not being deleted, the API
  server keeps it. `WorkerInv` is what the reconciler knows at each step; above
  all, the object is out of the bundle before the finalizer is released.
  `HandledInv` says of each name that it is as it should be in the bundle, or has
  a request in the queue, or is in the reconciler's hands in its current state,
  or is not yet in the cache: whatever a conflict or a failed call undoes is
  queued again.
* `HubCatchesUp` (`NothingLost`), if a running process's messages are not lost:
  `ConveyedInv` says that a version which counts as sent is the last message
  under way, or known. A restart's new incarnation needs nothing for that.
* `FeedMovesForward` (`ImplementsFeed`, the refinement): each step maps to one of
  `Feed` or a stutter. `VersionInv` orders versions from what is known over the
  messages under way to what may be sent next, across incarnations; `OrderInv`
  orders the objects' states the same way, to the bundle and the reconciler's
  hands. It needs the serial reconciler and the cache that only moves forward.
* `NothingElseDisappears` (`OnlyDeletedDisappear`): `GoneInv` says that along the
  same line, within one incarnation, only what is gone is left out.

### Starts: `IncarnationProofs`

Any number of instances and starts (`InstancesAssumption` gives constants their
types; `None` is neither an instance nor an incarnation):

* `TypeCorrect`: `TypeOK`, inductive, however starts overlap.
* `DifferentIncarnations`: `IncarnationsDiffer`, unless starts overlap. The
  invariant `SerialInv` is about the instance that is starting: no config map
  exists until it creates it, it is still what was read until it is patched, and
  it is not behind any incarnation taken.
* `MoreRecent`: `MessagesAreMoreRecent`, with one instance at a time. On top of
  `SerialInv`, `ReplicaInv` says that an instance past its start has the config
  map's incarnation, and that what was sent under it is not ahead of the
  instance's generation. Run `StandbyLeads` is why one start at a time is not
  enough.

### The local policies: `LocalPoliciesProofs`

Any number of names, policies, statuses and writes (`LocalAssumption`: `NoPolicy`
is no policy, and statuses are statuses). Nothing else is assumed.

* `TypeCorrect`: `TypeOK`, inductive as it stands.
* `SharedObjectHarmless`: `LocalBundlesAgree`, inductive together with the types.
  What it rests on is `SharedStatus`: the bundles that need the status come
  before the one that clears it.
* `NoDeletionStuck`: `NoneStuck`. The invariant `DeletionInv` says that what is
  being deleted still has the finalizer and, once the cache shows it, has a
  request at the controller it belongs to, or is in that controller's hands in
  its current state. It is kept because every write leaves the cache behind, and
  the event that makes up for it passes the filter of the owner then.
* `OwnersReport`: `OwnerReports`. `OwnerInv` is the same for what is not being
  deleted: once the cache shows it, its owner has a request, has it in hand, or
  reports it and has nothing older of that name in hand. `UidInv` keeps apart the
  policies of different names, as the bundles go by UID.
* `OthersDoNotReport`: `OthersDoNot`. `KindInv` says that under a name whose
  policies were of one kind everything that is queued, in hand or reported is at
  that kind's controller; `CacheInv` and `HeldInv`, that what is reported, or
  about to be, is protected by the finalizer until it is taken back. Together
  with `NoDeletionStuck`, no report outlives its policy.
* `LocalNothingIsLost`: `LocalNothingLost`. `SentInv` says what each entry's
  version stands for once it is the last one sent; `LocalBundlesAgree` lets the
  complete-state bundle stand for the statuses of the base.

### A process with its transport: `ProcessProofs`

Any number of versions, failures and changes of the config map, either or both
generic controllers beside the control info, either transport
(`ConstantsAssumption`); what a config map has for a key is a number of seconds,
or nothing, or no duration (`ConfigMapsAssumption`).

* `IntervalsComeToRest`: `IntervalsSettle`. `IntervalInv` says that what the
  reconciler holds is the config map or a request waits for it, and that a
  defined interval is in force or has still to be set.
* `PanicsExplained`: `PanicsAreExplained`, from the same invariant: an interval
  that is not positive was configured (`unfit`).
* `TypeCorrect`, `HubNeverGoesBack` (`VersionsAdvance`) and
  `TransportsKeepPromises` (`ImplementsTransport`, the refinement) share the
  inductive invariant `ProcessInv`. Of the sync service, `SyncInv`: for messages
  not yet received nothing has occurred, and the one in the goroutine's hands has
  no outcome, has not arrived while it is being sent, and has when its success is
  to be reported. Of the Kafka producer, `KafkaInv`: the reports that the client
  owes, preceded by the one in the handler's hands, are in the order of the
  messages, each of them is *due* (no outcome yet, no later success reported,
  a success only of what arrived), and what is unanswered is ahead of all that
  arrived. Neither depends on how far `Stop` has come, which is why messages keep
  their order and outcome through it. `VersionInv` ties generations to the order
  of `SendAsync`'s calls: a generic controller's message is ahead of
  `lastSentBundleVersion` only while it is being sent.

### Model-checked only

Liveness under fairness, which the prover does not do: `Converges` (of either
module), `DeletionCompletes`, `SendsReturn`, `AttemptsHaveOutcomes`,
`ShutdownEnds`, `ConfigTakesEffect`. Their safety parts are proved: when things
have come to rest, they are as they should be. What needs fairness is that they
come to rest. The four runs that refute a comment are counterexamples and need no proof.

## What is not modelled

* Not delivered complete-state or clusters-per-policy messages: with `retries`
  at 0 the code does not send them again before the next version, so the
  properties would not hold, and nothing in the code promises them.
* JSON, compression, splitting of large messages, TLS, environment variables,
  metrics, logging, and `AddToScheme`: straight-line code and libraries. The
  fields that controllers clear from their objects, and annotations they add.
* Event filters but for the two of `LocalPolicies`: the others select objects
  once and for all. The aggregation level of the managed clusters' entry only
  asks whether the config has been read.
* A second signal, which ends the process without `Stop`: a crash, as in
  `GenericStatusSync`.
* Objects of another type, and policies without origin annotation: the event
  filter keeps them from the bundles, whose early returns do nothing for them.
