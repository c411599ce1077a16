---------------------------- MODULE HybridSync ----------------------------
(***************************************************************************)
(* The policies controller at work: reconciliations write the four status  *)
(* bundles, a periodic pass sends those that changed, and the hybrid sync  *)
(* manager decides, from the events of the Kafka producer, whether status  *)
(* changes travel in complete-state or in delta-state bundles.             *)
(*                                                                         *)
(* Three goroutines take the steps: a reconciler and the periodic sync,    *)
(* which exclude each other by the controller's lock, and the delivery     *)
(* report handler, which takes only the manager's lock.                    *)
(***************************************************************************)
EXTENDS ComplianceBundles, Integers, Sequences

CONSTANTS
    SwitchFactor,         \* COMPLIANCE_STATUS_DELTA_COUNT_SWITCH_FACTOR
    SupportsDeltaBundles, \* what the transport says of itself
    Levels,               \* aggregation levels in the hub-of-hubs config;
                          \* "unset" until the config is read
    Unmarshallable,       \* entries that json.Marshal may fail to encode
    Incompressible,       \* entries whose messages Compress may fail on
    Rejectable,           \* entries whose ProduceAsync may return an error
    Undeliverable,        \* entries whose messages the broker may fail to take
    TimelyReports,        \* the report on a complete-state message is handled
                          \* before the deltas that build on it are used up
    MaxChanges,           \* bound: reconciliations in a behaviour
    MaxReports,           \* bound: delivery reports outstanding
    NoObject              \* nothing is being reconciled

\* The ordered bundle collection, by the bundle of each entry.
Entries == {"cpp", "complete", "delta", "minimal"}

ASSUME ConfigAssumption ==
    /\ SwitchFactor \in Int
    /\ SupportsDeltaBundles \in BOOLEAN
    /\ Levels \subseteq {"unset", "full", "minimal"}
    /\ Unmarshallable \subseteq Entries
    /\ Incompressible \subseteq Entries
    /\ Rejectable \subseteq Entries
    /\ Undeliverable \subseteq Entries
    /\ TimelyReports \in BOOLEAN
    /\ MaxChanges \in Nat
    /\ MaxReports \in Nat

VARIABLES
    cpp, complete, delta, minimal, \* the bundles
    lastSent,         \* generation of each entry's lastSentBundleVersion
    mode,             \* activeSyncMode
    sentDeltaCount,
    aggregationLevel, \* hubOfHubsConfig.Spec.AggregationLevel
    holder,           \* who holds the controller's lock, and what for
    at,               \* the entry the holder's loop has come to
    object,           \* what a reconciliation passes to the bundles
    phase,            \* how far the sync pass is with its entry
    payload,          \* the delta-state bundle as marshalled, and its key
    handler,          \* how far the report handler is with switching to delta
    reports,          \* deliveryChan, and the reports the broker still owes
    received,         \* history: the statuses the hub of hubs will know of
    line,             \* history: base and id of every delta message since the
                      \* last complete-state message
    changes           \* counts reconciliations

bundles  == <<cpp, complete, delta, minimal>>
manager  == <<mode, sentDeltaCount>>
loop     == <<holder, at, object, phase, payload>>
history  == <<received, line>>
vars     == <<bundles, lastSent, manager, aggregationLevel, loop, handler, reports,
              history, changes>>

---------------------------------------------------------------------------
(* What the events carry.                                                  *)

Updates == [policy: Policies, status: Statuses, action: RemediationActions]

Deletes == [policy: Policies]

\* SyncToTransport appends the transportation id to the key of a delta
\* message; that id is never part of a subscription, so one token stands
\* for all of them.
MessageKey(e) == IF e = "delta" THEN "delta@id" ELSE e

NoPayload == [objs |-> EmptyMap, base |-> 0, id |-> 0]

\* isEnabled: without callbacks the manager stays in complete mode for ever.
Enabled == SwitchFactor > 0 /\ SupportsDeltaBundles

Subscribed == IF Enabled THEN {"complete", "delta"} ELSE {}

GenerationOf(e) == CASE e = "cpp"      -> cpp.gen
                     [] e = "complete" -> complete.gen
                     [] e = "delta"    -> delta.gen
                     [] e = "minimal"  -> minimal.gen

Dirty(e) == GenerationOf(e) > lastSent[e]

---------------------------------------------------------------------------
Init ==
    /\ cpp = [objs |-> EmptyMap, gen |-> 0]
    /\ complete = [objs |-> EmptyMap, gen |-> 0]
    /\ delta = DeltaBundle(EmptyMap, 0, EmptyMap, 0, 0)
    /\ minimal = [objs |-> EmptyMap, gen |-> 0]
    /\ lastSent = [e \in Entries |-> 0]
    /\ mode = "complete"
    /\ sentDeltaCount = 0
    /\ aggregationLevel \in Levels
    /\ holder = "nobody"
    /\ at = "cpp"
    /\ object = NoObject
    /\ phase = "check"
    /\ payload = NoPayload
    /\ handler = "waiting"
    /\ reports = <<>>
    /\ received = EmptyMap
    /\ line = <<>>
    /\ changes = 0

\* The loop over the collection goes on; after its last entry the lock is
\* released.
NextEntry == [cpp |-> "complete", complete |-> "delta", delta |-> "minimal", minimal |-> "cpp"]

Advance ==
    /\ at' = NextEntry[at]
    /\ IF at = "minimal"
       THEN holder' = "nobody" /\ object' = NoObject
       ELSE UNCHANGED <<holder, object>>

---------------------------------------------------------------------------
(* The reconciler: updateObjectAndFinalizer and deleteObjectAndFinalizer   *)
(* hand the object to every bundle in order, under the controller's lock;  *)
(* each bundle has a lock of its own for its part.                         *)

Begin(what, o) ==
    /\ holder = "nobody"
    /\ changes < MaxChanges
    /\ holder' = what
    /\ object' = o
    /\ changes' = changes + 1
    /\ UNCHANGED <<bundles, lastSent, manager, aggregationLevel, at, phase, payload,
                   handler, reports, history>>

BeginUpdate == \E u \in Updates : Begin("update", u)

BeginDelete == \E d \in Deletes : Begin("delete", d)

ReconcileCpp ==
    /\ at = "cpp"
    /\ cpp' = IF holder = "update" THEN CppUpdate(cpp, object.policy, object.status)
              ELSE CppDelete(cpp, object.policy)
    /\ UNCHANGED <<complete, delta, minimal>>

ReconcileComplete ==
    /\ at = "complete"
    /\ complete' = IF holder = "update" THEN CompleteUpdate(complete, object.policy, object.status)
                   ELSE CompleteDelete(complete, object.policy)
    /\ UNCHANGED <<cpp, delta, minimal>>

\* SyncState holds the delta-state bundle's lock.
ReconcileDelta ==
    /\ at = "delta"
    /\ handler # "syncing"
    /\ delta' = IF holder = "update" THEN DeltaUpdate(delta, object.policy, object.status, cpp.objs)
                ELSE DeltaDelete(delta, object.policy)
    /\ UNCHANGED <<cpp, complete, minimal>>

ReconcileMinimal ==
    /\ at = "minimal"
    /\ minimal' = IF holder = "update"
                  THEN MinimalUpdate(minimal, object.policy, object.status, object.action)
                  ELSE MinimalDelete(minimal, object.policy)
    /\ UNCHANGED <<cpp, complete, delta>>

Reconcile ==
    /\ holder \in {"update", "delete"}
    /\ \/ ReconcileCpp
       \/ ReconcileComplete
       \/ ReconcileDelta
       \/ ReconcileMinimal
    /\ Advance
    /\ UNCHANGED <<lastSent, manager, aggregationLevel, phase, payload, handler, reports,
                   received, line, changes>>

---------------------------------------------------------------------------
(* The hybrid sync manager.                                                *)

\* With TimelyReports, no report on a complete-state message is outstanding
\* when the manager leaves delta mode.
ReportsInTime(outstanding) ==
    TimelyReports => \A i \in DOMAIN outstanding : outstanding[i].key # "complete"

SwitchToComplete(outstanding) ==
    /\ ReportsInTime(outstanding)
    /\ mode' = "complete"
    /\ UNCHANGED <<sentDeltaCount, delta>>

\* switchToDeltaStateMode, by a caller that excludes reconciliations.
SwitchToDelta ==
    /\ mode' = "delta"
    /\ sentDeltaCount' = 0
    /\ delta' = DeltaSyncState(DeltaReset(delta), complete.gen, cpp.objs)

\* Mutated form: the count is compared before it is incremented.
HandleAttemptOffByOne ==
    \/ /\ mode = "complete"
       /\ SwitchToDelta
    \/ /\ mode = "delta"
       /\ sentDeltaCount' = sentDeltaCount + 1
       /\ IF sentDeltaCount = SwitchFactor
          THEN ReportsInTime(reports) /\ mode' = "complete" /\ UNCHANGED delta
          ELSE delta' = DeltaReset(delta) /\ UNCHANGED mode

\* handleTransportationAttempt: it goes by the mode, not by the message.
HandleAttempt ==
    \/ /\ mode = "complete"
       /\ SwitchToDelta
    \/ /\ mode = "delta"
       /\ sentDeltaCount' = sentDeltaCount + 1
       /\ IF sentDeltaCount + 1 = SwitchFactor
          THEN ReportsInTime(reports) /\ mode' = "complete" /\ UNCHANGED delta
          ELSE delta' = DeltaReset(delta) /\ UNCHANGED mode

\* Mutated form: a failure changes nothing.
IgnoreFailure(outstanding) == UNCHANGED <<manager, delta>>

\* handleTransportationFailure.
HandleFailure(outstanding) ==
    IF mode = "delta" THEN SwitchToComplete(outstanding) ELSE UNCHANGED <<manager, delta>>

---------------------------------------------------------------------------
(* periodicSync: one pass over the collection, under the controller's      *)
(* lock.  An entry is checked, marshalled, handed to the producer, and     *)
(* then the producer's event is passed to the manager.                     *)

BeginSync ==
    /\ holder = "nobody"
    /\ holder' = "sync"
    /\ UNCHANGED <<bundles, lastSent, manager, aggregationLevel, at, object, phase, payload,
                   handler, reports, history, changes>>

\* Mutated form: the mode is required of the base bundle as well.
PredicateOnBase(e) ==
    CASE e = "cpp"      -> mode = "complete" /\ aggregationLevel = "full"
      [] e = "complete" -> mode = "complete" /\ aggregationLevel = "full"
      [] e = "delta"    -> mode = "delta" /\ aggregationLevel = "full"
      [] e = "minimal"  -> aggregationLevel = "minimal"

\* The entries' predicates; those of complete and delta take the manager's
\* lock, which the handler keeps while it switches to delta.
Predicate(e) ==
    CASE e = "cpp"      -> aggregationLevel = "full"
      [] e = "complete" -> mode = "complete" /\ aggregationLevel = "full"
      [] e = "delta"    -> mode = "delta" /\ aggregationLevel = "full"
      [] e = "minimal"  -> aggregationLevel = "minimal"

CheckEntry ==
    /\ holder = "sync" /\ phase = "check"
    /\ at \in {"complete", "delta"} => handler = "waiting"
    /\ IF Predicate(at) /\ Dirty(at)
       THEN phase' = "marshal" /\ UNCHANGED <<holder, at, object>>
       ELSE Advance /\ UNCHANGED phase
    /\ UNCHANGED <<bundles, lastSent, manager, aggregationLevel, payload, handler, reports,
                   received, line, changes>>

\* Marshalling takes no lock.  Of the four bundles only the delta-state one
\* can change before its message is produced: the handler may reset it and
\* give it a base between its Objects and its base's version, and between
\* that and the id that becomes part of the message's key.
Marshal ==
    /\ holder = "sync" /\ phase = "marshal"
    /\ IF at = "delta"
       THEN phase' = "base" /\ payload' = [payload EXCEPT !.objs = delta.objs]
       ELSE phase' = "produce" /\ UNCHANGED payload
    /\ UNCHANGED <<bundles, lastSent, manager, aggregationLevel, holder, at, object, handler,
                   reports, history, changes>>

MarshalBase ==
    /\ holder = "sync" /\ at = "delta" /\ phase = "base"
    /\ phase' = "key"
    /\ payload' = [payload EXCEPT !.base = delta.base]
    /\ UNCHANGED <<bundles, lastSent, manager, aggregationLevel, holder, at, object, handler,
                   reports, history, changes>>

\* GetTransportationID takes the delta-state bundle's lock.
TakeKey ==
    /\ holder = "sync" /\ at = "delta" /\ phase = "key"
    /\ handler # "syncing"
    /\ phase' = "produce"
    /\ payload' = [payload EXCEPT !.id = delta.id]
    /\ UNCHANGED <<bundles, lastSent, manager, aggregationLevel, holder, at, object, handler,
                   reports, history, changes>>

\* SyncToTransport returns an error: the pass ends there, and the next one
\* finds the entry's version unsent.
FailToMarshal ==
    /\ holder = "sync" /\ phase = "marshal" /\ at \in Unmarshallable
    /\ holder' = "nobody"
    /\ at' = "cpp"
    /\ phase' = "check"
    /\ UNCHANGED <<bundles, lastSent, manager, aggregationLevel, object, payload, handler, reports,
                   history, changes>>

\* The hub of hubs: clusters per policy replace what is known; the other two
\* only change the state of clusters already known.
Known(p, clusters) == clusters \cap ClustersOf(received[p])

\* The clusters the complete-state bundle lists; it leaves out a policy that
\* has none.
Listed(p) == IF p \in DOMAIN complete.objs THEN complete.objs[p] ELSE [k \in FailingState |-> {}]

StatusFrom(p, failing) ==
    [k \in ComplianceState |->
        IF k = "compliant" THEN ClustersOf(received[p]) \ UNION {failing[j] : j \in FailingState}
        ELSE Known(p, failing[k])]

ReceivedComplete == [p \in DOMAIN received |-> StatusFrom(p, Listed(p))]

ReceivedDelta ==
    [p \in DOMAIN received |->
        IF p \in DOMAIN payload.objs
        THEN Override(received[p], [k \in ComplianceState |-> Known(p, payload.objs[p][k])])
        ELSE received[p]]

Received(e) == CASE e = "cpp"      -> cpp.objs
                 [] e = "complete" -> ReceivedComplete
                 [] e = "delta"    -> ReceivedDelta
                 [] e = "minimal"  -> received

\* ProduceAsync takes the message.  The broker's answer is fixed here and
\* reported in order.
Produce ==
    /\ holder = "sync" /\ phase = "produce"
    /\ Len(reports) < MaxReports
    /\ \E ok \in BOOLEAN :
         /\ ~ok => at \in Undeliverable
         /\ reports' = Append(reports, [key |-> MessageKey(at), ok |-> ok])
         /\ received' = IF ok THEN Received(at) ELSE received
    /\ line' = CASE at = "complete" -> <<>>
                 [] at = "delta"    -> Append(line, [base |-> payload.base, id |-> payload.id])
                 [] OTHER           -> line
    /\ phase' = "attempt"
    /\ payload' = NoPayload
    /\ UNCHANGED <<bundles, lastSent, manager, aggregationLevel, holder, at, object, handler,
                   changes>>

Sent == /\ lastSent' = [lastSent EXCEPT ![at] = GenerationOf(at)]
        /\ phase' = "check"
        /\ Advance

\* The message fails to be encoded or compressed: SendAsync drops it and tells
\* nobody, and the pass goes on as if it was sent.
FailToCompress ==
    /\ holder = "sync" /\ phase = "produce" /\ at \in Incompressible
    /\ Sent
    /\ payload' = NoPayload
    /\ UNCHANGED <<bundles, manager, aggregationLevel, handler, reports, history, changes>>

\* ProduceAsync returns an error: SendAsync invokes the failure callback, and
\* the pass goes on as if the message was sent.
Reject ==
    /\ holder = "sync" /\ phase = "produce" /\ at \in Rejectable
    /\ IF at \in Subscribed
       THEN handler = "waiting" /\ HandleFailure(reports)
       ELSE UNCHANGED <<manager, delta>>
    /\ Sent
    /\ payload' = NoPayload
    /\ UNCHANGED <<cpp, complete, minimal, aggregationLevel, handler, reports, received, line,
                   changes>>

Attempt ==
    /\ holder = "sync" /\ phase = "attempt"
    /\ IF at \in Subscribed
       THEN handler = "waiting" /\ HandleAttempt
       ELSE UNCHANGED <<manager, delta>>
    /\ Sent
    /\ UNCHANGED <<cpp, complete, minimal, aggregationLevel, payload, handler, reports, received,
                   line, changes>>

---------------------------------------------------------------------------
(* deliveryReportHandler.                                                  *)

\* handleTransportationSuccess.  switchToDeltaStateMode is taken in three
\* steps, as the reconciler and the sync pass can run between Reset and
\* SyncState and within SyncState.
HandleSuccess ==
    \/ /\ mode = "complete"
       /\ mode' = "delta"
       /\ sentDeltaCount' = 0
       /\ delta' = DeltaReset(delta)
       /\ handler' = "reset"
    \/ /\ mode = "delta"
       /\ UNCHANGED <<manager, delta, handler>>

\* handleDeliveryReport looks the callbacks up by the message's key.
HandleReport ==
    /\ handler = "waiting"
    /\ reports # <<>>
    /\ reports' = Tail(reports)
    /\ LET r == Head(reports) IN
         IF r.key \notin Subscribed THEN UNCHANGED <<manager, delta, handler>>
         ELSE \/ r.ok /\ HandleSuccess
              \/ ~r.ok /\ HandleFailure(Tail(reports)) /\ UNCHANGED handler
    /\ UNCHANGED <<cpp, complete, minimal, lastSent, aggregationLevel, loop, history, changes>>

\* SyncState, now under the delta-state bundle's lock: the base's version ...
SyncBaseVersion ==
    /\ handler = "reset"
    /\ handler' = "syncing"
    /\ delta' = DeltaSyncVersion(delta, complete.gen)
    /\ UNCHANGED <<cpp, complete, minimal, lastSent, manager, aggregationLevel, loop, reports,
                   history, changes>>

\* ... then the clusters-per-policy bundle's Objects, read without its lock:
\* what another goroutine is writing may be seen in part.
UnlockedCppObjects ==
    LET p == object.policy
        torn == {Put(cpp.objs, p, l) : l \in
                    {m \in Lists : \A k \in ComplianceState :
                        m[k] \in {cpp.objs[p][k], object.status[k]}}}
    IN  {cpp.objs} \cup
        CASE holder = "update" /\ at = "cpp" ->
                IF p \in DOMAIN cpp.objs THEN torn ELSE {Put(cpp.objs, p, object.status)}
          [] holder = "delete" /\ at = "cpp" -> {Drop(cpp.objs, p)}
          [] OTHER -> {}

SyncRecords ==
    /\ handler = "syncing"
    /\ handler' = "waiting"
    /\ \E seen \in UnlockedCppObjects : delta' = DeltaSyncRecords(delta, seen)
    /\ UNCHANGED <<cpp, complete, minimal, lastSent, manager, aggregationLevel, loop, reports,
                   history, changes>>

---------------------------------------------------------------------------
\* The config controller stores a new spec.
SetLevel ==
    /\ aggregationLevel' \in Levels \ {aggregationLevel}
    /\ UNCHANGED <<bundles, lastSent, manager, loop, handler, reports, history, changes>>

Sync ==
    \/ CheckEntry \/ Marshal \/ MarshalBase \/ TakeKey \/ FailToMarshal
    \/ FailToCompress \/ Produce \/ Reject \/ Attempt

Handle == HandleReport \/ SyncBaseVersion \/ SyncRecords

Next ==
    \/ BeginUpdate
    \/ BeginDelete
    \/ Reconcile
    \/ BeginSync
    \/ CheckEntry
    \/ Marshal
    \/ MarshalBase
    \/ TakeKey
    \/ FailToMarshal
    \/ FailToCompress
    \/ Produce
    \/ Reject
    \/ Attempt
    \/ HandleReport
    \/ SyncBaseVersion
    \/ SyncRecords
    \/ SetLevel

Spec == Init /\ [][Next]_vars

\* Every goroutine that has a step to take takes it in the end.  Nothing is
\* assumed of the policies, of the broker or of the config.
Fairness ==
    /\ WF_vars(Reconcile)
    /\ WF_vars(BeginSync)
    /\ WF_vars(Sync)
    /\ WF_vars(Handle)

FairSpec == Spec /\ Fairness

---------------------------------------------------------------------------
(* Properties.                                                             *)

\* Every variable has the type its field has in the code.
TypeOK ==
    /\ IsBundle(cpp, Statuses)
    /\ IsBundle(complete, FailingLists)
    /\ IsDeltaBundle(delta)
    /\ IsBundle(minimal, Summaries)
    /\ lastSent \in [Entries -> Nat]
    /\ mode \in {"complete", "delta"}
    /\ sentDeltaCount \in Nat
    /\ aggregationLevel \in {"unset", "full", "minimal"}
    /\ holder \in {"nobody", "update", "delete", "sync"}
    /\ at \in Entries
    /\ holder = "update" => object \in Updates
    /\ holder = "delete" => object \in Deletes
    /\ holder \in {"nobody", "sync"} => object = NoObject
    /\ phase \in {"check", "marshal", "base", "key", "produce", "attempt"}
    /\ payload = [objs |-> payload.objs, base |-> payload.base, id |-> payload.id]
    /\ IsMap(payload.objs, Statuses) /\ payload.base \in Nat /\ payload.id \in Nat
    /\ handler \in {"waiting", "reset", "syncing"}
    /\ reports \in Seq([key : {"cpp", "complete", "delta@id", "minimal"}, ok : BOOLEAN])
    /\ IsMap(received, Statuses)
    /\ line \in Seq([base : Nat, id : Nat])
    /\ changes \in Nat

\* No goroutine is between two steps on the bundles.
Settled == holder = "nobody" /\ handler = "waiting"

\* The next pass would send nothing: the entries that are on were sent.
NothingToSend ==
    /\ ~Dirty("cpp")
    /\ mode = "complete" => ~Dirty("complete")
    /\ mode = "delta" => ~Dirty("delta")

\* When nothing is left to send, the hub of hubs knows every policy's status
\* as it is: what one bundle leaves out on purpose another has conveyed.
NothingLost ==
    Settled /\ aggregationLevel = "full" /\ NothingToSend => received = cpp.objs

\* What the hub of hubs misses can still be made good: the clusters-per-policy
\* or the complete-state bundle has a version that was not sent.
CompleteCanRepair ==
    holder = "nobody" /\ received # cpp.objs => Dirty("cpp") \/ Dirty("complete")

\* The three bundles with the full state agree on every policy, so that any
\* of them can stand in for another.
BundlesAgree ==
    holder = "nobody" =>
        /\ complete.objs = [p \in {q \in DOMAIN cpp.objs : HasFailing(Failing(cpp.objs[q]))} |->
                               Failing(cpp.objs[p])]
        /\ DOMAIN minimal.objs = DOMAIN cpp.objs
        /\ \A p \in DOMAIN cpp.objs :
              LET a == minimal.objs[p].remediationAction
              IN  minimal.objs[p] = Summary(cpp.objs[p], a)

\* The records the next delta is computed against hold each policy's state:
\* a cluster on record in a stale state would have its next change skipped.
RecordsAreCurrent ==
    Settled => \A p \in DOMAIN delta.records \cap DOMAIN cpp.objs : \A k \in ComplianceState :
        delta.records[p][k] \cap ClustersOf(cpp.objs[p]) = cpp.objs[p][k]

\* A delta conveys nothing that is no longer so, nor a deleted policy.
PendingIsCurrent ==
    Settled =>
        /\ DOMAIN delta.objs \subseteq DOMAIN cpp.objs
        /\ \A p \in DOMAIN delta.objs : \A k \in ComplianceState :
              delta.objs[p][k] \cap ClustersOf(cpp.objs[p]) \subseteq cpp.objs[p][k]

\* The version of the complete-state bundle that was handed over last.
HandedOver ==
    IF holder = "sync" /\ at = "complete" /\ phase = "attempt" THEN complete.gen
    ELSE lastSent["complete"]

\* Deltas build on the complete-state bundle that was sent last, which has
\* every change that is not in them: those to come, and those sent since.
DeltaBuildsOnSentBase ==
    mode = "delta" /\ handler # "reset" =>
        /\ delta.base = HandedOver
        /\ \A i \in DOMAIN line : line[i].base = HandedOver

\* A complete-state or delta-state bundle is only produced when the hub of
\* hubs was sent the clusters-per-policy bundle it is based on.
BaseSentFirst ==
    holder = "sync" /\ phase = "produce" /\ at \in {"complete", "delta"} => ~Dirty("cpp")

\* After a complete-state message at most SwitchFactor deltas are produced
\* before the next one, whatever the reports did to the count in between.
DeltaRunIsBounded == Len(line) <= IF Enabled THEN SwitchFactor ELSE 0

\* The deltas produced since the last complete-state message have different
\* transportation ids, so different keys: a compacting topic that holds them
\* drops none of them for another.  On the next base the keys return.
DeltaKeysDiffer == \A i, j \in DOMAIN line : i # j => line[i].id # line[j].id

\* Once the policies stop changing at full aggregation level, the hub of hubs
\* comes to know their statuses and keeps knowing them.
Converges == <>[](aggregationLevel = "full") => <>[](received = cpp.objs)

---------------------------------------------------------------------------
(* What comments in the code say.                                          *)

\* Subscribe: the callback is "delegated when a given event occurs for a
\* message with the given ID": the failed delivery of a delta as well.
FailureIsDelegated ==
    [][Enabled /\ Len(reports') < Len(reports) /\ Head(reports) = [key |-> "delta@id", ok |-> FALSE]
          => mode' = "complete"]_vars

=============================================================================
