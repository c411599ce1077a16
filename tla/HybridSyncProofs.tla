------------------------- MODULE HybridSyncProofs -------------------------
(* What holds of the policies controller for every value of the constants. *)
EXTENDS HybridSync, ComplianceBundlesProofs, SequenceTheorems

---------------------------------------------------------------------------
(* Types.                                                                  *)

\* What every step leaves to Advance: the loop's place, its lock's holder and
\* the object stay well typed, also when the pass or reconciliation ends.
LEMMA AdvanceType ==
  ASSUME TypeOK, Advance
  PROVE  /\ at' \in Entries
         /\ holder' \in {"nobody", "update", "delete", "sync"}
         /\ holder' = "update" => object' \in Updates
         /\ holder' = "delete" => object' \in Deletes
         /\ holder' \in {"nobody", "sync"} => object' = NoObject
BY DEF TypeOK, Advance, NextEntry, Entries

\* The version an entry's bundle has is a number.
LEMMA GenerationType == ASSUME TypeOK PROVE GenerationOf(at) \in Nat
BY DEF TypeOK, GenerationOf, Entries, IsBundle, IsDeltaBundle

\* What is delivered leaves the hub of hubs with disjoint lists per policy.
LEMMA ReceivedType == ASSUME TypeOK PROVE IsMap(Received(at), Statuses)
<1> USE DEF ComplianceState
<1>1. IsMap(cpp.objs, Statuses) /\ IsMap(complete.objs, FailingLists)
  BY DEF TypeOK, IsBundle
<1>2. IsMap(received, Statuses) /\ IsMap(payload.objs, Statuses)
  BY DEF TypeOK
<1>3. ASSUME NEW p \in DOMAIN received, NEW f \in FailingLists
      PROVE  StatusFrom(p, f) \in Statuses
  <2>1. received[p] \in Statuses
    BY <1>2 DEF IsMap
  <2>2. ClustersOf(received[p]) \subseteq Clusters
    BY <2>1 DEF ClustersOf, Statuses, Lists
  <2>3. UNION {f[j] : j \in FailingState} = f["nonCompliant"] \cup f["unknown"]
    BY DEF FailingState
  <2>4. f["nonCompliant"] \cap f["unknown"] = {}
    BY DEF FailingLists
  <2> QED
    BY <2>2, <2>3, <2>4 DEF StatusFrom, Statuses, Lists, Known
<1>4. ASSUME NEW p \in DOMAIN received
      PROVE  Listed(p) \in FailingLists
  <2>1. [k \in FailingState |-> {}] \in FailingLists
    BY DEF FailingLists, FailingState
  <2> QED
    BY <1>1, <2>1 DEF IsMap, Listed
<1>5. IsMap(ReceivedComplete, Statuses)
  BY <1>2, <1>3, <1>4 DEF IsMap, ReceivedComplete
<1>6. IsMap(ReceivedDelta, Statuses)
  <2>1. ASSUME NEW p \in DOMAIN received, p \in DOMAIN payload.objs
        PROVE  Override(received[p], [k \in ComplianceState |-> Known(p, payload.objs[p][k])]) \in Statuses
    <3> DEFINE c == [k \in ComplianceState |-> Known(p, payload.objs[p][k])]
    <3>1. received[p] \in Statuses /\ payload.objs[p] \in Statuses
      BY <2>1, <1>2 DEF IsMap
    <3>2. c \in Statuses
      BY <3>1 DEF Known, Statuses, Lists
    <3>3. Statuses \subseteq Lists
      BY DEF Statuses
    <3> HIDE DEF c
    <3> QED
      BY <3>1, <3>2, <3>3, OverrideType DEF c
  <2> QED
    BY <2>1, <1>2 DEF IsMap, ReceivedDelta
<1> QED
  BY <1>1, <1>2, <1>5, <1>6 DEF Received, TypeOK, Entries

\* A reconciliation's step keeps the types of the bundle it has come to.
LEMMA ReconcileType ==
  ASSUME TypeOK, Reconcile
  PROVE  /\ IsBundle(cpp', Statuses) /\ IsBundle(complete', FailingLists)
         /\ IsDeltaBundle(delta') /\ IsBundle(minimal', Summaries)
<1> USE DEF TypeOK, Reconcile
<1>1. CASE holder = "update"
  <2>1. object.policy \in Policies /\ object.status \in Statuses /\ object.action \in RemediationActions
    BY <1>1 DEF Updates
  <2>2. CASE ReconcileCpp
    BY <1>1, <2>1, <2>2, CppUpdateType DEF ReconcileCpp
  <2>3. CASE ReconcileComplete
    BY <1>1, <2>1, <2>3, CompleteUpdateType DEF ReconcileComplete
  <2>4. CASE ReconcileDelta
    <3>1. IsMap(cpp.objs, Lists)
      BY DEF IsBundle, IsMap, Statuses
    <3> QED
      BY <1>1, <2>1, <2>4, <3>1, DeltaUpdateType DEF ReconcileDelta
  <2>5. CASE ReconcileMinimal
    BY <1>1, <2>1, <2>5, MinimalUpdateType DEF ReconcileMinimal
  <2> QED
    BY <2>2, <2>3, <2>4, <2>5
<1>2. CASE holder = "delete"
  BY <1>2, CppDeleteType, CompleteDeleteType, DeltaDeleteType, MinimalDeleteType
  DEF ReconcileCpp, ReconcileComplete, ReconcileDelta, ReconcileMinimal
<1> QED
  BY <1>1, <1>2

\* Whatever the unlocked reader sees of the clusters-per-policy bundle's
\* Objects, every policy has lists, if not disjoint ones.
LEMMA UnlockedReadType ==
  ASSUME TypeOK, NEW seen \in UnlockedCppObjects
  PROVE  IsMap(seen, Lists)
<1>1. IsMap(cpp.objs, Lists)
  BY DEF TypeOK, IsBundle, IsMap, Statuses
<1>2. CASE holder = "update"
  <2>1. object.policy \in Policies /\ object.status \in Lists
    BY <1>2 DEF TypeOK, Updates, Statuses
  <2> QED
    BY <1>1, <1>2, <2>1, PutIsMap DEF UnlockedCppObjects
<1>3. CASE holder # "update"
  BY <1>1, <1>3, DropIsMap DEF UnlockedCppObjects
<1> QED
  BY <1>2, <1>3

\* The manager's handlers keep the types of what they change.
LEMMA ManagerType ==
  ASSUME TypeOK, HandleAttempt \/ \E outstanding : HandleFailure(outstanding)
  PROVE  mode' \in {"complete", "delta"} /\ sentDeltaCount' \in Nat /\ IsDeltaBundle(delta')
<1>1. IsDeltaBundle(delta) /\ IsMap(cpp.objs, Lists) /\ complete.gen \in Nat
  BY DEF TypeOK, IsBundle, IsMap, Statuses
<1>2. IsDeltaBundle(DeltaReset(delta))
  BY <1>1, DeltaSyncType
<1>3. IsDeltaBundle(DeltaSyncState(DeltaReset(delta), complete.gen, cpp.objs))
  BY <1>1, <1>2, DeltaSyncType DEF DeltaSyncState
<1> QED
  BY <1>1, <1>2, <1>3
  DEF TypeOK, HandleAttempt, HandleFailure, SwitchToDelta, SwitchToComplete, manager

\* A sequence that starts anew, stays or is extended is one still.
LEMMA LineType ==
  ASSUME NEW S, NEW s \in Seq(S), NEW e \in S, NEW t, t = <<>> \/ t = s \/ t = Append(s, e)
  PROVE  t \in Seq(S)
<1>1. <<>> \in Seq(S)
  BY EmptySeq
<1>2. Append(s, e) \in Seq(S)
  BY AppendProperties
<1> QED
  BY <1>1, <1>2

\* Each goroutine's step keeps every variable's type.
LEMMA TypeStep == TypeOK /\ [Next]_vars => TypeOK'
<1> SUFFICES ASSUME TypeOK, [Next]_vars PROVE TypeOK'
  OBVIOUS
<1> USE DEF bundles, manager, loop, history
<1>1. CASE BeginUpdate
  BY <1>1 DEF BeginUpdate, Begin, TypeOK
<1>2. CASE BeginDelete
  BY <1>2 DEF BeginDelete, Begin, TypeOK
<1>3. CASE Reconcile
  BY <1>3, ReconcileType, AdvanceType DEF Reconcile, TypeOK
<1>4. CASE BeginSync
  BY <1>4 DEF BeginSync, TypeOK
<1>5. CASE CheckEntry
  BY <1>5, AdvanceType DEF CheckEntry, TypeOK
<1>6. CASE Marshal \/ MarshalBase \/ TakeKey
  <2>1. PICK o, b, i : payload = [objs |-> o, base |-> b, id |-> i]
    BY DEF TypeOK
  <2>2. /\ [payload EXCEPT !.objs = delta.objs] = [objs |-> delta.objs, base |-> b, id |-> i]
        /\ [payload EXCEPT !.base = delta.base] = [objs |-> o, base |-> delta.base, id |-> i]
        /\ [payload EXCEPT !.id = delta.id] = [objs |-> o, base |-> b, id |-> delta.id]
    BY <2>1
  <2>3. /\ IsMap(o, Statuses) /\ b \in Nat /\ i \in Nat
        /\ IsMap(delta.objs, Statuses) /\ delta.base \in Nat /\ delta.id \in Nat
    BY <2>1 DEF TypeOK, IsDeltaBundle
  <2>4. payload' = [objs |-> payload'.objs, base |-> payload'.base, id |-> payload'.id]
        /\ IsMap(payload'.objs, Statuses) /\ payload'.base \in Nat /\ payload'.id \in Nat
    BY <1>6, <2>1, <2>2, <2>3 DEF Marshal, MarshalBase, TakeKey
  <2> QED
    BY <1>6, <2>4 DEF Marshal, MarshalBase, TakeKey, TypeOK
<1>7. CASE Produce
  <2>1. MessageKey(at) \in {"cpp", "complete", "delta@id", "minimal"}
    BY DEF MessageKey, TypeOK, Entries
  <2>2. reports' \in Seq([key : {"cpp", "complete", "delta@id", "minimal"}, ok : BOOLEAN])
    BY <1>7, <2>1 DEF Produce, TypeOK
  <2>3. IsMap(received', Statuses)
    BY <1>7, ReceivedType DEF Produce, TypeOK
  <2>4. line' \in Seq([base : Nat, id : Nat])
    <3>1. [base |-> payload.base, id |-> payload.id] \in [base : Nat, id : Nat]
      BY DEF TypeOK
    <3>2. line \in Seq([base : Nat, id : Nat])
      BY DEF TypeOK
    <3>3. \/ line' = <<>>
          \/ line' = line
          \/ line' = Append(line, [base |-> payload.base, id |-> payload.id])
      BY <1>7 DEF Produce
    <3> QED
      BY <3>1, <3>2, <3>3, LineType
  <2>5. payload' = [objs |-> payload'.objs, base |-> payload'.base, id |-> payload'.id]
        /\ IsMap(payload'.objs, Statuses) /\ payload'.base \in Nat /\ payload'.id \in Nat
    BY <1>7, EmptyIsMap DEF Produce, NoPayload
  <2> QED
    BY <1>7, <2>2, <2>3, <2>4, <2>5 DEF Produce, TypeOK
<1>8. CASE Reject \/ FailToCompress
  <2>1. payload' = [objs |-> payload'.objs, base |-> payload'.base, id |-> payload'.id]
        /\ IsMap(payload'.objs, Statuses) /\ payload'.base \in Nat /\ payload'.id \in Nat
    BY <1>8, EmptyIsMap DEF Reject, FailToCompress, NoPayload
  <2>2. lastSent' \in [Entries -> Nat]
    BY <1>8, GenerationType DEF Reject, FailToCompress, Sent, TypeOK
  <2>3. mode' \in {"complete", "delta"} /\ sentDeltaCount' \in Nat /\ IsDeltaBundle(delta')
    BY <1>8, ManagerType DEF Reject, FailToCompress, TypeOK
  <2> QED
    BY <1>8, <2>1, <2>2, <2>3, AdvanceType DEF Reject, FailToCompress, Sent, TypeOK
<1>9. CASE Attempt
  <2>1. lastSent' \in [Entries -> Nat]
    BY <1>9, GenerationType DEF Attempt, Sent, TypeOK
  <2>2. mode' \in {"complete", "delta"} /\ sentDeltaCount' \in Nat /\ IsDeltaBundle(delta')
    BY <1>9, ManagerType DEF Attempt, TypeOK
  <2> QED
    BY <1>9, <2>1, <2>2, AdvanceType DEF Attempt, Sent, TypeOK
<1>10. CASE HandleReport
  <2>1. IsDeltaBundle(DeltaReset(delta))
    BY DeltaSyncType, EmptyIsMap DEF TypeOK
  <2>2. mode' \in {"complete", "delta"} /\ sentDeltaCount' \in Nat /\ IsDeltaBundle(delta')
        /\ handler' \in {"waiting", "reset", "syncing"}
    BY <1>10, <2>1, ManagerType DEF HandleReport, HandleSuccess, TypeOK
  <2>3. reports' \in Seq([key : {"cpp", "complete", "delta@id", "minimal"}, ok : BOOLEAN])
    BY <1>10 DEF HandleReport, HandleSuccess, TypeOK
  <2> QED
    BY <1>10, <2>2, <2>3 DEF HandleReport, HandleSuccess, TypeOK
<1>11. CASE SyncBaseVersion
  <2>1. IsDeltaBundle(DeltaSyncVersion(delta, complete.gen))
    BY DeltaSyncType, EmptyIsMap DEF TypeOK, IsBundle
  <2> QED
    BY <1>11, <2>1 DEF SyncBaseVersion, TypeOK
<1>12. CASE SyncRecords
  <2>1. IsDeltaBundle(delta')
    <3>1. PICK seen \in UnlockedCppObjects : delta' = DeltaSyncRecords(delta, seen)
      BY <1>12 DEF SyncRecords
    <3>2. IsDeltaBundle(delta)
      BY DEF TypeOK
    <3>3. IsMap(seen, Lists)
      BY UnlockedReadType
    <3> QED BY <3>1, <3>2, <3>3, DeltaSyncType
  <2> QED
    BY <1>12, <2>1 DEF SyncRecords, TypeOK
<1>13. CASE SetLevel
  BY <1>13, ConfigAssumption DEF SetLevel, TypeOK
<1>14. CASE FailToMarshal
  BY <1>14 DEF FailToMarshal, TypeOK, Entries
<1>15. CASE UNCHANGED vars
  BY <1>15 DEF vars, TypeOK
<1> QED
  BY <1>1, <1>2, <1>3, <1>4, <1>5, <1>6, <1>7, <1>8, <1>9, <1>10, <1>11, <1>12, <1>13, <1>14, <1>15 DEF Next

\* Every variable keeps the type its field has in the code, whatever the
\* reports' timing, the rejections and the failed deliveries; the hub of hubs
\* never has a cluster in two lists of a policy.
THEOREM TypeCorrect == Spec => []TypeOK
<1>1. Init => TypeOK
  <2> SUFFICES ASSUME Init PROVE TypeOK
    OBVIOUS
  <2>1. IsBundle(cpp, Statuses) /\ IsBundle(complete, FailingLists) /\ IsBundle(minimal, Summaries)
    BY EmptyIsMap DEF Init, IsBundle
  <2>2. IsDeltaBundle(delta)
    BY EmptyIsMap, DeltaBundleType DEF Init
  <2>3. payload = [objs |-> payload.objs, base |-> payload.base, id |-> payload.id]
        /\ IsMap(payload.objs, Statuses) /\ payload.base \in Nat /\ payload.id \in Nat
    BY EmptyIsMap DEF Init, NoPayload
  <2>4. IsMap(received, Statuses)
    BY EmptyIsMap DEF Init
  <2>5. aggregationLevel \in {"unset", "full", "minimal"}
    BY ConfigAssumption DEF Init
  <2> QED
    BY <2>1, <2>2, <2>3, <2>4, <2>5 DEF Init, TypeOK, Entries
<1> QED
  BY <1>1, TypeStep, PTL DEF Spec

---------------------------------------------------------------------------
(* The count of deltas.                                                    *)

\* In delta mode the count is below the switch factor.
CountBounded ==
    /\ Enabled => sentDeltaCount <= SwitchFactor
    /\ mode = "delta" => Enabled /\ sentDeltaCount < SwitchFactor

\* A step keeps the count of deltas below the switch factor in delta mode.
LEMMA CountStep == TypeOK /\ CountBounded /\ [Next]_vars => CountBounded'
<1> SUFFICES ASSUME TypeOK, CountBounded, [Next]_vars PROVE CountBounded'
  OBVIOUS
<1> USE ConfigAssumption DEF TypeOK, CountBounded, manager
<1>1. CASE Attempt
  BY <1>1 DEF Attempt, HandleAttempt, SwitchToDelta, Subscribed, Enabled
<1>2. CASE Reject
  BY <1>2 DEF Reject, HandleFailure, SwitchToComplete
<1>3. CASE HandleReport
  BY <1>3 DEF HandleReport, HandleSuccess, HandleFailure, SwitchToComplete, Subscribed, Enabled
<1>4. CASE UNCHANGED manager
  BY <1>4 DEF Enabled
<1> QED
  BY <1>1, <1>2, <1>3, <1>4
  DEF Next, BeginUpdate, BeginDelete, Begin, Reconcile, BeginSync, CheckEntry, Marshal, MarshalBase,
      TakeKey, FailToMarshal, FailToCompress, Produce, SyncBaseVersion, SyncRecords, SetLevel, vars

\* However late, lost or failed the reports, the count stays in its range.
LEMMA CountIsBounded == Spec => []CountBounded
<1>1. Init => CountBounded
  BY ConfigAssumption DEF Init, CountBounded, Enabled
<1> QED
  BY <1>1, CountStep, TypeCorrect, PTL DEF Spec

---------------------------------------------------------------------------
(* A base is sent before what is based on it.                              *)

\* A pass over the bundles starts at the base, and past it the hub of hubs
\* was sent the version there is.
PassInv ==
    /\ aggregationLevel = "full"
    /\ holder = "nobody" => at = "cpp"
    /\ holder = "sync" /\ at # "cpp" => ~Dirty("cpp")

\* A pass keeps the order of the collection: it leaves the base only when it
\* was sent, and no reconciliation changes the base while it runs.
LEMMA PassStep ==
  ASSUME Levels = {"full"}
  PROVE  TypeOK /\ PassInv /\ [Next]_vars => PassInv'
<1> SUFFICES ASSUME TypeOK, PassInv, [Next]_vars PROVE PassInv'
  OBVIOUS
<1> USE DEF PassInv, Dirty, GenerationOf, bundles, manager, loop, history
<1>1. aggregationLevel' = "full"
  BY DEF TypeOK, Next, BeginUpdate, BeginDelete, Begin, Reconcile, BeginSync, CheckEntry, Marshal,
         MarshalBase, TakeKey, FailToMarshal, FailToCompress, Produce, Reject, Attempt,
         HandleReport, SyncBaseVersion, SyncRecords, SetLevel, vars
<1>2. CASE Reconcile
  BY <1>1, <1>2 DEF Reconcile, Advance, NextEntry, TypeOK, Entries
<1>3. CASE CheckEntry
  <2>1. Predicate("cpp")
    BY DEF Predicate
  <2>2. at = "cpp" /\ at' # "cpp" => ~Dirty("cpp")
    BY <1>3, <2>1 DEF CheckEntry
  <2>3. UNCHANGED <<cpp, lastSent>> /\ holder = "sync"
    BY <1>3 DEF CheckEntry
  <2>4. holder' = "nobody" => at' = "cpp"
    BY <1>3 DEF CheckEntry, Advance, NextEntry
  <2> QED
    BY <1>1, <2>2, <2>3, <2>4
<1>4. CASE Sent /\ UNCHANGED cpp /\ holder = "sync"
  <2>1. at = "cpp" => lastSent'["cpp"] = cpp.gen
    BY <1>4 DEF Sent, TypeOK, Entries
  <2>2. at # "cpp" => lastSent'["cpp"] = lastSent["cpp"]
    BY <1>4 DEF Sent, TypeOK, Entries
  <2>3. cpp.gen \in Nat
    BY DEF TypeOK, IsBundle
  <2> QED
    BY <1>1, <1>4, <2>1, <2>2, <2>3 DEF Sent, Advance, NextEntry, TypeOK, Entries
<1>5. CASE BeginUpdate \/ BeginDelete \/ BeginSync \/ FailToMarshal
  BY <1>1, <1>5 DEF BeginUpdate, BeginDelete, Begin, BeginSync, FailToMarshal
<1>6. CASE UNCHANGED <<cpp, lastSent, holder, at>>
  BY <1>1, <1>6
<1> QED
  BY <1>2, <1>3, <1>4, <1>5, <1>6
  DEF Next, Marshal, MarshalBase, TakeKey, FailToCompress, Produce, Reject, Attempt,
      HandleReport, SyncBaseVersion, SyncRecords, SetLevel, vars

\* While the aggregation level stays full, a pass produces a compliance
\* bundle only after the clusters-per-policy bundle it is based on, as the
\* order of the collection is meant to ensure.
THEOREM BaseBeforeCompliance ==
  ASSUME Levels = {"full"}
  PROVE  Spec => []BaseSentFirst
<1>1. Init => PassInv
  BY DEF Init, PassInv
<1>2. PassInv => BaseSentFirst
  BY DEF PassInv, BaseSentFirst
<1> QED
  BY <1>1, <1>2, PassStep, TypeCorrect, PTL DEF Spec

---------------------------------------------------------------------------
(* What deltas build on.                                                   *)

\* The producer took a complete-state message and the manager was not told.
AttemptingComplete == holder = "sync" /\ at = "complete" /\ phase = "attempt"

\* The base of the next delta was handed over.
BaseIsHandedOver == mode = "delta" /\ handler # "reset" => delta.base = HandedOver

\* The mode in which an entry was checked lasts until it is handed over; the
\* handler is only busy with a complete-state message that is being handed
\* over, so that it switches to the version that is being sent.
ModeInv ==
    /\ \A i \in DOMAIN reports : reports[i].key = "complete" => reports[i].ok
    /\ handler # "waiting" => AttemptingComplete /\ mode = "delta"
    /\ Enabled /\ mode = "complete" /\ (\E i \in DOMAIN reports : reports[i].key = "complete")
          => AttemptingComplete
    /\ holder # "sync" => phase = "check"
    /\ holder = "sync" /\ at = "complete" /\ phase \in {"marshal", "produce"} => mode = "complete"
    /\ holder = "sync" /\ at = "delta" /\ phase # "check" => mode = "delta"
    /\ BaseIsHandedOver

\* With timely reports and complete-state messages that are delivered, no
\* step of the sync pass, the reconciler or the handler breaks that.
LEMMA ModeStep ==
  ASSUME TimelyReports, "complete" \notin Undeliverable
  PROVE  TypeOK /\ CountBounded /\ ModeInv /\ [Next]_vars => ModeInv'
<1> SUFFICES ASSUME TypeOK, CountBounded, ModeInv, [Next]_vars PROVE ModeInv'
  OBVIOUS
<1> USE DEF ModeInv, AttemptingComplete, BaseIsHandedOver, HandedOver, bundles, manager, loop, history
<1>1. CASE BeginUpdate \/ BeginDelete \/ BeginSync \/ FailToMarshal
  BY <1>1 DEF BeginUpdate, BeginDelete, Begin, BeginSync, FailToMarshal, Enabled
<1>2. CASE Reconcile
  <2>1. complete'.gen = complete.gen \/ holder # "sync"
    BY <1>2 DEF Reconcile
  <2>2. delta'.base = delta.base
    <3>1. CASE ReconcileDelta
      <4>1. DeltaUpdate(delta, object.policy, object.status, cpp.objs).base = delta.base
        BY DeltaUpdateKeepsBase DEF TypeOK
      <4>2. DeltaDelete(delta, object.policy).base = delta.base
        BY DEF DeltaDelete, DeltaBundle
      <4> QED
        BY <3>1, <4>1, <4>2 DEF ReconcileDelta
    <3> QED
      BY <1>2, <3>1 DEF Reconcile, ReconcileCpp, ReconcileComplete, ReconcileMinimal
  <2>3. holder # "sync" /\ holder' # "sync"
    BY <1>2 DEF Reconcile, Advance
  <2> QED
    BY <1>2, <2>2, <2>3 DEF Reconcile, Enabled
<1>3. CASE CheckEntry
  BY <1>3 DEF CheckEntry, Advance, NextEntry, Predicate, TypeOK, Entries, Enabled
<1>4. CASE Marshal \/ MarshalBase \/ TakeKey
  BY <1>4 DEF Marshal, MarshalBase, TakeKey, Enabled
<1>5. CASE Produce
  <2>1. PICK ok \in BOOLEAN :
          /\ ~ok => at \in Undeliverable
          /\ reports' = Append(reports, [key |-> MessageKey(at), ok |-> ok])
    BY <1>5 DEF Produce
  <2>2. \A i \in DOMAIN reports' : reports'[i].key = "complete" =>
          \/ i \in DOMAIN reports /\ reports'[i] = reports[i]
          \/ at = "complete" /\ reports'[i].ok
    BY <2>1 DEF TypeOK, MessageKey, Entries
  <2> QED
    BY <1>5, <2>2 DEF Produce, Enabled
<1>6. CASE Reject \/ FailToCompress
  <2>1. at = "complete" => mode' = "complete"
    BY <1>6 DEF Reject, FailToCompress, HandleFailure
  <2>2. mode' = "delta" => mode = "delta" /\ UNCHANGED <<manager, delta>>
    BY <1>6 DEF Reject, FailToCompress, HandleFailure, SwitchToComplete, TypeOK
  <2>3. Enabled /\ mode' = "complete" => \A i \in DOMAIN reports : reports[i].key # "complete"
    BY <1>6 DEF Reject, FailToCompress, HandleFailure, SwitchToComplete, ReportsInTime
  <2> QED
    BY <1>6, <2>1, <2>2, <2>3
    DEF Reject, FailToCompress, Sent, Advance, NextEntry, TypeOK, Entries, Enabled
<1>7. CASE Attempt
  <2>1. at = "complete" => lastSent'["complete"] = complete.gen
    BY <1>7 DEF Attempt, Sent, GenerationOf, TypeOK, Entries
  <2>2. at # "complete" => lastSent'["complete"] = lastSent["complete"]
    BY <1>7 DEF Attempt, Sent, TypeOK, Entries
  <2>3. mode' = "delta" => delta'.base = lastSent'["complete"]
    <3>1. CASE at \in Subscribed /\ mode = "complete"
      <4>1. at = "complete"
        BY <1>7, <3>1 DEF Attempt, Subscribed
      <4>2. delta'.base = complete.gen
        BY <1>7, <3>1 DEF Attempt, HandleAttempt, SwitchToDelta, DeltaSyncState, DeltaSyncRecords,
             DeltaSyncVersion, DeltaReset, DeltaBundle
      <4> QED
        BY <2>1, <4>1, <4>2
    <3>2. CASE ~(at \in Subscribed /\ mode = "complete")
      <4>1. mode' = "delta" => mode = "delta" /\ delta'.base = delta.base
        BY <1>7, <3>2 DEF Attempt, HandleAttempt, DeltaReset, DeltaBundle, TypeOK
      <4>2. at \in {"complete", "delta"} /\ mode = "delta" => handler = "waiting"
        BY <1>7 DEF Attempt, Subscribed, CountBounded
      <4> QED
        BY <1>7, <2>1, <2>2, <4>1, <4>2 DEF Attempt
    <3> QED
      BY <3>1, <3>2
  <2>4. Enabled /\ mode' = "complete" => \A i \in DOMAIN reports : reports[i].key # "complete"
    BY <1>7 DEF Attempt, HandleAttempt, SwitchToDelta, ReportsInTime, Subscribed, TypeOK
  <2>5. handler = "waiting" /\ handler' = "waiting"
    BY <1>7 DEF Attempt, Subscribed, CountBounded
  <2> QED
    BY <1>7, <2>3, <2>4, <2>5 DEF Attempt, Sent, Advance, NextEntry, TypeOK, Entries, Enabled
<1>8. CASE HandleReport
  <2>1. /\ handler = "waiting" /\ reports # <<>> /\ reports' = Tail(reports)
        /\ UNCHANGED <<complete, lastSent, holder, at, phase>>
    BY <1>8 DEF HandleReport
  <2>2. \A i \in DOMAIN reports' : \E j \in DOMAIN reports : reports'[i] = reports[j]
    BY <2>1 DEF TypeOK
  <2>3. Head(reports) = reports[1] /\ 1 \in DOMAIN reports
    BY <2>1 DEF TypeOK
  <2>4. Head(reports).key \in Subscribed => Enabled /\ Head(reports).key = "complete" /\ Head(reports).ok
    <3> DEFINE Report == [key : {"cpp", "complete", "delta@id", "minimal"}, ok : BOOLEAN]
    <3>1. reports[1] \in Report
      <4>1. reports \in Seq(Report)
        BY DEF TypeOK
      <4> HIDE DEF Report
      <4> QED
        BY <4>1, <2>3, ElementOfSeq
    <3>2. reports[1].key # "delta"
      BY <3>1
    <3> QED
      BY <2>3, <3>2 DEF Subscribed
  <2>5. \/ UNCHANGED <<manager, delta, handler>>
        \/ Enabled /\ AttemptingComplete /\ mode' = "delta" /\ handler' = "reset"
    BY <1>8, <2>3, <2>4 DEF HandleReport, HandleSuccess
  <2>6. CASE UNCHANGED <<manager, delta, handler>>
    BY <2>1, <2>2, <2>6 DEF Enabled
  <2>7. CASE Enabled /\ AttemptingComplete /\ mode' = "delta" /\ handler' = "reset"
    BY <2>1, <2>2, <2>7 DEF Enabled
  <2> QED
    BY <2>5, <2>6, <2>7
<1>9. CASE SyncBaseVersion
  BY <1>9 DEF SyncBaseVersion, DeltaSyncVersion, Enabled, TypeOK, IsDeltaBundle, DeltaBundle
<1>10. CASE SyncRecords
  BY <1>10 DEF SyncRecords, DeltaSyncRecords, DeltaBundle, Enabled
<1>11. CASE SetLevel \/ UNCHANGED vars
  BY <1>11 DEF SetLevel, vars, Enabled
<1> QED
  BY <1>1, <1>2, <1>3, <1>4, <1>5, <1>6, <1>7, <1>8, <1>9, <1>10, <1>11 DEF Next

=============================================================================
