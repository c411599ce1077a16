----------------------- MODULE HybridDeliveryProofs -----------------------
(* That the bundles of the policies controller agree with each other, and  *)
(* that what they convey is what the policies' statuses are.               *)
EXTENDS HybridSyncProofs

---------------------------------------------------------------------------
(* The bundles agree, but for what a reconciliation has not come to yet.   *)

\* A reconciliation of the policy is on its way through the bundles.
Writing(p) == holder \in {"update", "delete"} /\ object.policy = p

\* The complete-state bundle lists the policy's failing clusters.
CompleteAgrees(p) ==
    Listed(p) = IF p \in DOMAIN cpp.objs THEN Failing(cpp.objs[p]) ELSE [k \in FailingState |-> {}]

\* The minimal bundle sums up the policy's status.
MinimalAgrees(p) ==
    /\ p \in DOMAIN minimal.objs <=> p \in DOMAIN cpp.objs
    /\ p \in DOMAIN cpp.objs =>
         minimal.objs[p] = Summary(cpp.objs[p], minimal.objs[p].remediationAction)

\* The clusters-per-policy bundle has what a reconciliation gave it.
Written(p) ==
    /\ holder = "update" => p \in DOMAIN cpp.objs /\ cpp.objs[p] = object.status
    /\ holder = "delete" => p \notin DOMAIN cpp.objs

\* A bundle differs from the clusters-per-policy bundle only on the policy
\* of a reconciliation that has come past that one but not past this one.
AgreeInv ==
    /\ holder = "nobody" => at = "cpp"
    /\ \A p \in DOMAIN complete.objs : HasFailing(complete.objs[p])
    /\ \A p \in Policies :
         /\ Writing(p) /\ at # "cpp" => Written(p)
         /\ ~(Writing(p) /\ at = "complete") => CompleteAgrees(p)
         /\ ~(Writing(p) /\ at # "cpp") => MinimalAgrees(p)

\* A reconciliation brings one bundle after the other in line.
LEMMA AgreeReconcile == TypeOK /\ AgreeInv /\ Reconcile => AgreeInv'
<1> SUFFICES ASSUME TypeOK, AgreeInv, Reconcile PROVE AgreeInv'
  OBVIOUS
<1>p. PICK p0 : p0 = object.policy
  OBVIOUS
<1>1. /\ holder \in {"update", "delete"} /\ p0 \in Policies
      /\ holder = "update" => object.status \in Statuses
  BY <1>p DEF TypeOK, Reconcile, Updates, Deletes
<1>2. IsBundle(complete, FailingLists) /\ \A p \in DOMAIN complete.objs : HasFailing(complete.objs[p])
  BY DEF TypeOK, AgreeInv
<1>3. \A p : Writing(p) <=> p = p0
  BY <1>p, <1>1 DEF Writing
<1>4. CASE ReconcileCpp
  <2>1. /\ at = "cpp" /\ at' = "complete" /\ UNCHANGED <<holder, object, complete, minimal>>
    BY <1>4 DEF ReconcileCpp, Reconcile, Advance, NextEntry
  <2>2. /\ holder = "update" => cpp'.objs = CppUpdate(cpp, p0, object.status).objs
        /\ holder = "delete" => cpp'.objs = CppDelete(cpp, p0).objs
    BY <1>p, <1>4 DEF ReconcileCpp
  <2>3. Written(p0)'
    BY <1>1, <2>1, <2>2, CppUpdateHas, CppDeleteHas DEF Written
  <2>4. ASSUME NEW p \in Policies, p # p0
        PROVE  CompleteAgrees(p)' /\ MinimalAgrees(p)'
    <3>1. CompleteAgrees(p) /\ MinimalAgrees(p)
      BY <2>1, <2>4, <1>3 DEF AgreeInv
    <3>2. /\ p \in DOMAIN cpp'.objs <=> p \in DOMAIN cpp.objs
          /\ p \in DOMAIN cpp.objs => cpp'.objs[p] = cpp.objs[p]
      BY <1>1, <2>2, <2>4, CppUpdateHas, CppDeleteHas
    <3> QED
      BY <2>1, <3>1, <3>2 DEF CompleteAgrees, MinimalAgrees, Listed
  <2>5. \A p : Writing(p)' <=> p = p0
    BY <1>p, <1>1, <2>1 DEF Writing
  <2>6. /\ (holder = "nobody" => at = "cpp")'
        /\ (\A p \in DOMAIN complete.objs : HasFailing(complete.objs[p]))'
    BY <1>1, <1>2, <2>1
  <2> QED
    BY <2>1, <2>3, <2>4, <2>5, <2>6 DEF AgreeInv
<1>5. CASE ReconcileComplete
  <2>1. /\ at = "complete" /\ at' = "delta" /\ UNCHANGED <<holder, object, cpp, minimal>>
    BY <1>5 DEF ReconcileComplete, Reconcile, Advance, NextEntry
  <2>2. Written(p0)
    BY <1>1, <1>3, <2>1 DEF AgreeInv
  <2>3. /\ ListedIn(complete'.objs, p0) = IF holder = "update" THEN Failing(object.status)
                                          ELSE [k \in FailingState |-> {}]
        /\ \A q : q # p0 => ListedIn(complete'.objs, q) = ListedIn(complete.objs, q)
        /\ \A q \in DOMAIN complete'.objs : HasFailing(complete'.objs[q])
    <3>1. CASE holder = "update"
      <4>1. complete' = CompleteUpdate(complete, p0, object.status)
        BY <1>p, <1>5, <3>1 DEF ReconcileComplete
      <4> QED
        BY <1>1, <1>2, <3>1, <4>1, CompleteUpdateLists
    <3>2. CASE holder = "delete"
      <4>1. complete' = CompleteDelete(complete, p0)
        BY <1>p, <1>5, <3>2 DEF ReconcileComplete
      <4> QED
        BY <1>2, <3>2, <4>1, CompleteDeleteLists
    <3> QED
      BY <1>1, <3>1, <3>2
  <2>4. CompleteAgrees(p0)'
    BY <1>1, <2>1, <2>2, <2>3 DEF CompleteAgrees, Listed, ListedIn, Written
  <2>5. ASSUME NEW p \in Policies, p # p0
        PROVE  CompleteAgrees(p)' /\ MinimalAgrees(p)'
    <3>1. CompleteAgrees(p) /\ MinimalAgrees(p)
      BY <2>1, <2>5, <1>3 DEF AgreeInv
    <3> QED
      BY <2>1, <2>3, <2>5, <3>1 DEF CompleteAgrees, MinimalAgrees, Listed, ListedIn
  <2>6. \A p : Writing(p)' <=> p = p0
    BY <1>p, <1>1, <2>1 DEF Writing
  <2>7. Written(p0)'
    BY <2>1, <2>2 DEF Written
  <2> QED
    BY <2>1, <2>3, <2>4, <2>5, <2>6, <2>7, <1>1 DEF AgreeInv
<1>6. CASE ReconcileDelta
  <2>1. /\ at = "delta" /\ at' = "minimal" /\ UNCHANGED <<holder, object, cpp, complete, minimal>>
    BY <1>6 DEF ReconcileDelta, Reconcile, Advance, NextEntry
  <2> QED
    BY <2>1 DEF AgreeInv, Writing, Written, CompleteAgrees, MinimalAgrees, Listed
<1>7. CASE ReconcileMinimal
  <2>1. /\ at = "minimal" /\ at' = "cpp" /\ holder' = "nobody" /\ UNCHANGED <<cpp, complete>>
    BY <1>7 DEF ReconcileMinimal, Reconcile, Advance, NextEntry
  <2>2. Written(p0)
    BY <1>1, <1>3, <2>1 DEF AgreeInv
  <2>3. /\ holder = "update" => minimal'.objs = MinimalUpdate(minimal, p0, object.status, object.action).objs
        /\ holder = "delete" => minimal'.objs = MinimalDelete(minimal, p0).objs
    BY <1>p, <1>7 DEF ReconcileMinimal
  <2>4. MinimalAgrees(p0)'
    BY <1>1, <2>1, <2>2, <2>3, MinimalUpdateHas, MinimalDeleteHas DEF Written, MinimalAgrees
  <2>5. ASSUME NEW p \in Policies, p # p0
        PROVE  MinimalAgrees(p)'
    <3>1. MinimalAgrees(p)
      BY <2>5, <1>3 DEF AgreeInv
    <3>2. /\ p \in DOMAIN minimal'.objs <=> p \in DOMAIN minimal.objs
          /\ p \in DOMAIN minimal.objs => minimal'.objs[p] = minimal.objs[p]
      BY <1>1, <2>3, <2>5, MinimalUpdateHas, MinimalDeleteHas
    <3> QED
      BY <2>1, <3>1, <3>2 DEF MinimalAgrees
  <2>6. \A p \in Policies : CompleteAgrees(p)'
    BY <2>1 DEF AgreeInv, CompleteAgrees, Listed
  <2>7. \A p : ~Writing(p)'
    BY <2>1 DEF Writing
  <2> QED
    BY <1>2, <2>1, <2>4, <2>5, <2>6, <2>7 DEF AgreeInv
<1> QED
  BY <1>4, <1>5, <1>6, <1>7 DEF Reconcile

\* No other step changes these bundles, and a reconciliation begins where
\* they agree.
LEMMA AgreeStep == TypeOK /\ AgreeInv /\ [Next]_vars => AgreeInv'
<1> SUFFICES ASSUME TypeOK, AgreeInv, [Next]_vars PROVE AgreeInv'
  OBVIOUS
<1> USE DEF bundles, manager, loop, history
<1>1. CASE Reconcile
  BY <1>1, AgreeReconcile
<1>2. CASE BeginUpdate \/ BeginDelete
  <2>1. UNCHANGED <<cpp, complete, minimal, at>> /\ holder = "nobody" /\ holder' # "nobody" /\ at = "cpp"
    BY <1>2 DEF BeginUpdate, BeginDelete, Begin, AgreeInv
  <2> QED
    BY <2>1 DEF AgreeInv, Writing, CompleteAgrees, MinimalAgrees, Listed
<1>3. CASE UNCHANGED <<cpp, complete, minimal>> /\ holder \in {"nobody", "sync"} /\ holder' \in {"nobody", "sync"}
           /\ (holder' = "nobody" => at' = "cpp")
  BY <1>3 DEF AgreeInv, Writing, CompleteAgrees, MinimalAgrees, Listed
<1>4. CASE UNCHANGED <<cpp, complete, minimal, holder, at, object>>
  BY <1>4 DEF AgreeInv, Writing, Written, CompleteAgrees, MinimalAgrees, Listed
<1>5. CASE BeginSync
  BY <1>3, <1>5 DEF BeginSync
<1>6. CASE CheckEntry
  <2>1. holder = "sync" /\ UNCHANGED <<cpp, complete, minimal>>
    BY <1>6 DEF CheckEntry
  <2>2. holder' = "nobody" => at' = "cpp"
    BY <1>6, <2>1 DEF CheckEntry, Advance, NextEntry
  <2> QED
    BY <1>3, <1>6, <2>1, <2>2 DEF CheckEntry, Advance
<1>7. CASE FailToCompress \/ Reject \/ Attempt
  <2>1. holder = "sync" /\ Advance /\ UNCHANGED <<cpp, complete, minimal>>
    BY <1>7 DEF FailToCompress, Reject, Attempt, Sent
  <2>2. holder' = "nobody" => at' = "cpp"
    BY <2>1 DEF Advance, NextEntry
  <2> QED
    BY <1>3, <2>1, <2>2 DEF Advance
<1>8. CASE FailToMarshal
  BY <1>3, <1>8 DEF FailToMarshal
<1> QED
  BY <1>1, <1>2, <1>4, <1>5, <1>6, <1>7, <1>8
  DEF Next, Marshal, MarshalBase, TakeKey, Produce, HandleReport, SyncBaseVersion, SyncRecords,
      SetLevel, vars

\* The invariant holds in every state.
LEMMA Agreement == Spec => []AgreeInv
<1>1. Init => AgreeInv
  <2> SUFFICES ASSUME Init PROVE AgreeInv
    OBVIOUS
  <2> QED
    BY DEF Init, AgreeInv, EmptyMap, Writing, CompleteAgrees, MinimalAgrees, Listed
<1> QED
  BY <1>1, AgreeStep, TypeCorrect, PTL DEF Spec

\* Whenever no goroutine holds the controller's lock, the complete-state, the
\* minimal and the clusters-per-policy bundle describe the same statuses.
THEOREM BundlesDescribeTheSame == Spec => []BundlesAgree
<1>1. TypeOK /\ AgreeInv => BundlesAgree
  <2> SUFFICES ASSUME TypeOK, AgreeInv, holder = "nobody" PROVE BundlesAgree
    BY DEF BundlesAgree
  <2>1. \A p \in Policies : CompleteAgrees(p) /\ MinimalAgrees(p)
    BY DEF AgreeInv, Writing
  <2>2. /\ DOMAIN cpp.objs \subseteq Policies /\ DOMAIN complete.objs \subseteq Policies
        /\ DOMAIN minimal.objs \subseteq Policies
        /\ complete.objs \in [DOMAIN complete.objs -> FailingLists]
    BY DEF TypeOK, IsBundle, IsMap
  <2>3. \A p \in DOMAIN complete.objs : HasFailing(complete.objs[p])
    BY DEF AgreeInv
  <2>4. ~HasFailing([k \in FailingState |-> {}])
    BY DEF HasFailing
  <2>5. ASSUME NEW p \in DOMAIN complete.objs
        PROVE  p \in DOMAIN cpp.objs /\ complete.objs[p] = Failing(cpp.objs[p])
    BY <2>1, <2>2, <2>3, <2>4 DEF CompleteAgrees, Listed
  <2>6. ASSUME NEW p \in DOMAIN cpp.objs, HasFailing(Failing(cpp.objs[p]))
        PROVE  p \in DOMAIN complete.objs
    BY <2>1, <2>2, <2>4, <2>6 DEF CompleteAgrees, Listed
  <2>7. complete.objs = [p \in {q \in DOMAIN cpp.objs : HasFailing(Failing(cpp.objs[q]))} |->
                            Failing(cpp.objs[p])]
    <3>1. DOMAIN complete.objs = {q \in DOMAIN cpp.objs : HasFailing(Failing(cpp.objs[q]))}
      BY <2>3, <2>5, <2>6
    <3> QED
      BY <2>2, <2>5, <3>1
  <2>8. DOMAIN minimal.objs = DOMAIN cpp.objs
    BY <2>1, <2>2 DEF MinimalAgrees
  <2> QED
    BY <2>1, <2>2, <2>7, <2>8 DEF BundlesAgree, MinimalAgrees
<1> QED
  BY <1>1, Agreement, TypeCorrect, PTL

---------------------------------------------------------------------------
(* The records a delta is computed against, and what a delta conveys.      *)

\* The changes of a status have a cluster in one list, as the status has.
LEMMA ChangedType ==
  ASSUME NEW r \in Lists, NEW s \in Statuses
  PROVE  Changed(r, s) \in Statuses
BY DEF Changed, Statuses, Lists, ComplianceState

\* Overriding a record with the changes of a status brings it up to date:
\* every cluster of the status is on record in its state, and in no other.
LEMMA OverrideChanged ==
  ASSUME NEW r \in Statuses, NEW s \in Statuses
  PROVE  \A k \in ComplianceState : Override(r, Changed(r, s))[k] \cap ClustersOf(s) = s[k]
<1> USE DEF ComplianceState
<1>1. r \in Lists /\ s \in Lists
  BY DEF Statuses
<1>2. \A j, k \in ComplianceState : j # k => r[j] \cap r[k] = {} /\ s[j] \cap s[k] = {}
  BY DEF Statuses
<1>3. ASSUME NEW k \in ComplianceState, NEW c \in s[k]
      PROVE  c \in Override(r, Changed(r, s))[k]
  BY <1>1, <1>2, <1>3 DEF Override, Changed, ClustersOf, Lists
<1>4. ASSUME NEW k \in ComplianceState, NEW c \in Override(r, Changed(r, s))[k], c \in ClustersOf(s)
      PROVE  c \in s[k]
  BY <1>1, <1>2, <1>4 DEF Override, Changed, ClustersOf, Lists
<1>5. \A k \in ComplianceState : s[k] \subseteq ClustersOf(s)
  BY DEF ClustersOf
<1> QED
  BY <1>3, <1>4, <1>5

\* A status without changes is on record as it is.
LEMMA NothingChanged ==
  ASSUME NEW r \in Statuses, NEW s \in Statuses, ClustersOf(Changed(r, s)) = {}
  PROVE  \A k \in ComplianceState : r[k] \cap ClustersOf(s) = s[k]
<1> USE DEF ComplianceState
<1>1. r \in Lists /\ s \in Lists
  BY DEF Statuses
<1>2. \A j, k \in ComplianceState : j # k => r[j] \cap r[k] = {} /\ s[j] \cap s[k] = {}
  BY DEF Statuses
<1>3. \A k \in ComplianceState : s[k] \subseteq r[k]
  BY <1>1 DEF ClustersOf, Changed, Lists
<1> QED
  BY <1>1, <1>2, <1>3 DEF ClustersOf, Lists

\* Changes that override both the pending lists and the records leave the
\* pending lists on record.
LEMMA OverrideMonotone ==
  ASSUME NEW o \in Lists, NEW r \in Lists, NEW c \in Lists,
         \A k \in ComplianceState : o[k] \subseteq r[k]
  PROVE  \A k \in ComplianceState : Override(o, c)[k] \subseteq Override(r, c)[k]
BY DEF Override

\* What is pending of a policy is on record.
PendingRecorded(b) ==
    \A p \in DOMAIN b.objs : p \in DOMAIN b.records
                             /\ \A k \in ComplianceState : b.objs[p][k] \subseteq b.records[p][k]

\* The clusters of a policy's status are on record in their state.
OnRecord(b, p, s) ==
    p \in DOMAIN b.records /\ \A k \in ComplianceState : b.records[p][k] \cap ClustersOf(s) = s[k]

\* Two delta-state bundles are the same on a policy.
SameOn(b, d, p) ==
    /\ p \in DOMAIN b.records <=> p \in DOMAIN d.records
    /\ p \in DOMAIN b.objs <=> p \in DOMAIN d.objs
    /\ p \in DOMAIN b.records => b.records[p] = d.records[p]
    /\ p \in DOMAIN b.objs => b.objs[p] = d.objs[p]

\* After an update, the status it was given is on record, and what is pending
\* is on record too.
LEMMA DeltaUpdateRecords ==
  ASSUME NEW b, IsDeltaBundle(b), IsMap(b.records, Statuses), PendingRecorded(b),
         NEW p \in Policies, NEW s \in Statuses, NEW base, p \in DOMAIN base, base[p] = s
  PROVE  /\ IsMap(DeltaUpdate(b, p, s, base).records, Statuses)
         /\ PendingRecorded(DeltaUpdate(b, p, s, base))
         /\ OnRecord(DeltaUpdate(b, p, s, base), p, s)
         /\ \A q : q # p => SameOn(b, DeltaUpdate(b, p, s, base), q)
<1>1. /\ IsMap(b.objs, Statuses) /\ b = DeltaBundle(b.objs, b.gen, b.records, b.base, b.id)
  BY DEF IsDeltaBundle
<1>2. \A k \in ComplianceState : s[k] \cap ClustersOf(s) = s[k]
  BY DEF ClustersOf, ComplianceState
<1>3. CASE p \notin DOMAIN b.records
  <2> DEFINE d == DeltaBundle(b.objs, b.gen, Put(b.records, p, s), b.base, b.id)
  <2>1. DeltaUpdate(b, p, s, base) = d
    <3>1. PICK o, n, r, a, i : b = [objs |-> o, gen |-> n, records |-> r, base |-> a, id |-> i]
      BY <1>1 DEF DeltaBundle
    <3>2. DeltaUpdate(b, p, s, base) = [b EXCEPT !.records = Put(@, p, s)]
      BY <1>3 DEF DeltaUpdate, RecordsFromBase
    <3>3. [b EXCEPT !.records = Put(@, p, s)] = [objs |-> o, gen |-> n, records |-> Put(r, p, s), base |-> a, id |-> i]
      BY <3>1
    <3> QED
      BY <3>1, <3>2, <3>3 DEF DeltaBundle
  <2>2. d.objs = b.objs /\ d.records = Put(b.records, p, s)
    BY DEF DeltaBundle
  <2>3. IsMap(d.records, Statuses)
    BY <2>2, PutIsMap
  <2>4. /\ DOMAIN d.records = DOMAIN b.records \cup {p} /\ d.records[p] = s
        /\ \A q \in DOMAIN b.records : q # p => d.records[q] = b.records[q]
    BY <2>2 DEF Put
  <2>5. p \notin DOMAIN b.objs
    BY <1>3 DEF PendingRecorded
  <2> HIDE DEF d
  <2>6. PendingRecorded(d)
    BY <2>2, <2>4, <2>5 DEF PendingRecorded
  <2>7. OnRecord(d, p, s)
    BY <2>4, <1>2 DEF OnRecord
  <2>8. \A q : q # p => SameOn(b, d, q)
    BY <2>2, <2>4 DEF SameOn
  <2> QED
    BY <2>1, <2>3, <2>6, <2>7, <2>8
<1>4. CASE p \in DOMAIN b.records /\ ClustersOf(Changed(b.records[p], s)) = {}
  <2>1. DeltaUpdate(b, p, s, base) = b
    BY <1>4 DEF DeltaUpdate
  <2>2. b.records[p] \in Statuses
    BY <1>4 DEF IsMap
  <2>3. OnRecord(b, p, s)
    BY <1>4, <2>2, NothingChanged DEF OnRecord
  <2>4. \A q : SameOn(b, b, q)
    BY DEF SameOn
  <2> QED
    BY <2>1, <2>3, <2>4
<1>5. CASE p \in DOMAIN b.records /\ ClustersOf(Changed(b.records[p], s)) # {}
  <2> DEFINE c == Changed(b.records[p], s)
             v == Pending(b, p, c)
             w == Override(b.records[p], c)
             d == DeltaBundle(Put(b.objs, p, v), b.gen + 1, Put(b.records, p, w), b.base, b.id)
  <2>1. DeltaUpdate(b, p, s, base) = d
    BY <1>5 DEF DeltaUpdate, Recorded
  <2>2. b.records[p] \in Statuses /\ b.records[p] \in Lists
    BY <1>5 DEF IsMap, Statuses
  <2>3. c \in Statuses /\ c \in Lists
    <3>1. c \in Statuses
      BY <2>2, ChangedType
    <3> QED
      BY <3>1 DEF Statuses
  <2>4. w \in Statuses
    BY <2>2, <2>3, OverrideType
  <2>5. \A k \in ComplianceState : w[k] \cap ClustersOf(s) = s[k]
    BY <2>2, OverrideChanged
  <2>6. \A k \in ComplianceState : v[k] \subseteq w[k]
    <3>1. CASE p \in DOMAIN b.objs
      <4>1. b.objs[p] \in Lists /\ \A k \in ComplianceState : b.objs[p][k] \subseteq b.records[p][k]
        BY <1>1, <3>1 DEF IsMap, Statuses, PendingRecorded
      <4>2. v = Override(b.objs[p], c)
        BY <3>1 DEF Pending
      <4> HIDE DEF c, v
      <4> QED
        BY <2>2, <2>3, <4>1, <4>2, OverrideMonotone
    <3>2. CASE p \notin DOMAIN b.objs
      <4>1. v = c
        BY <3>2 DEF Pending
      <4> HIDE DEF c, v
      <4> QED
        BY <4>1 DEF Override
    <3> QED
      BY <3>1, <3>2
  <2>7. d.objs = Put(b.objs, p, v) /\ d.records = Put(b.records, p, w)
    BY DEF DeltaBundle
  <2> HIDE DEF c, v, w, d
  <2>8. IsMap(d.records, Statuses)
    BY <2>4, <2>7, PutIsMap
  <2>9. /\ DOMAIN d.records = DOMAIN b.records \cup {p} /\ d.records[p] = w
        /\ \A q \in DOMAIN b.records : q # p => d.records[q] = b.records[q]
    BY <2>7 DEF Put
  <2>10. /\ DOMAIN d.objs = DOMAIN b.objs \cup {p} /\ d.objs[p] = v
         /\ \A q \in DOMAIN b.objs : q # p => d.objs[q] = b.objs[q]
    BY <2>7 DEF Put
  <2>11. PendingRecorded(d)
    BY <2>6, <2>9, <2>10 DEF PendingRecorded
  <2>12. OnRecord(d, p, s)
    BY <2>5, <2>9 DEF OnRecord
  <2>13. \A q : q # p => SameOn(b, d, q)
    BY <2>9, <2>10 DEF SameOn
  <2> QED
    BY <2>1, <2>8, <2>11, <2>12, <2>13
<1> QED
  BY <1>3, <1>4, <1>5

\* After a removal, nothing of the policy is pending.
LEMMA DeltaDeleteRecords ==
  ASSUME NEW b, IsDeltaBundle(b), IsMap(b.records, Statuses), PendingRecorded(b), NEW p
  PROVE  /\ IsMap(DeltaDelete(b, p).records, Statuses)
         /\ PendingRecorded(DeltaDelete(b, p))
         /\ p \notin DOMAIN DeltaDelete(b, p).objs
         /\ \A q : q # p => SameOn(b, DeltaDelete(b, p), q)
<1>1. CASE p \in DOMAIN b.objs
  <2> DEFINE d == DeltaDelete(b, p)
  <2>1. d.objs = Drop(b.objs, p) /\ d.records = Drop(b.records, p)
    BY <1>1 DEF DeltaDelete, DeltaBundle
  <2> HIDE DEF d
  <2>2. IsMap(d.records, Statuses)
    BY <2>1, DropIsMap
  <2>3. /\ DOMAIN d.records = DOMAIN b.records \ {p} /\ DOMAIN d.objs = DOMAIN b.objs \ {p}
        /\ \A q \in DOMAIN b.records : q # p => d.records[q] = b.records[q]
        /\ \A q \in DOMAIN b.objs : q # p => d.objs[q] = b.objs[q]
    BY <2>1 DEF Drop
  <2>4. PendingRecorded(d)
    BY <2>3 DEF PendingRecorded
  <2>5. \A q : q # p => SameOn(b, d, q)
    BY <2>3 DEF SameOn
  <2> QED
    BY <2>2, <2>3, <2>4, <2>5 DEF d
<1>2. CASE p \notin DOMAIN b.objs
  <2>1. DeltaDelete(b, p) = b
    BY <1>2 DEF DeltaDelete
  <2> QED
    BY <1>2, <2>1 DEF SameOn
<1> QED
  BY <1>1, <1>2

\* The policy is where the delta-state bundle should have it: on record as it
\* is, and with nothing pending when it is gone.
DeltaAgrees(p) ==
    /\ p \in DOMAIN delta.objs => p \in DOMAIN cpp.objs
    /\ p \in DOMAIN cpp.objs => OnRecord(delta, p, cpp.objs[p])

\* What was marshalled of the delta-state bundle is as the bundle has it.
PayloadAgrees ==
    holder = "sync" /\ at = "delta" =>
        /\ phase \in {"base", "key", "produce"} => payload.objs = delta.objs
        /\ phase \in {"key", "produce"} => payload.base = delta.base
        /\ phase = "produce" => payload.id = delta.id

\* The records agree with the statuses, but for the policy of a reconciliation
\* that is on its way to them; what is pending, and what is being sent, is on
\* record; nothing is pending while the handler switches to delta.
DeltaInv ==
    /\ IsMap(delta.records, Statuses)
    /\ PendingRecorded(delta)
    /\ handler # "waiting" => delta.objs = EmptyMap
    /\ PayloadAgrees
    /\ \A p \in Policies : ~(Writing(p) /\ at \in {"complete", "delta"}) => DeltaAgrees(p)

\* Records taken from the clusters-per-policy bundle agree with it, when
\* nothing is pending.
LEMMA RecordsFromCpp ==
  ASSUME TypeOK, delta'.objs = EmptyMap, delta'.records = cpp.objs, UNCHANGED cpp
  PROVE  /\ IsMap(delta'.records, Statuses)
         /\ PendingRecorded(delta')
         /\ \A p \in Policies : DeltaAgrees(p)'
<1>1. IsMap(cpp.objs, Statuses)
  BY DEF TypeOK, IsBundle
<1>2. DOMAIN delta'.objs = {}
  BY DEF EmptyMap
<1>3. ASSUME NEW p \in DOMAIN cpp.objs
      PROVE  \A k \in ComplianceState : cpp.objs[p][k] \cap ClustersOf(cpp.objs[p]) = cpp.objs[p][k]
  BY DEF ClustersOf, ComplianceState
<1> QED
  BY <1>1, <1>2, <1>3 DEF PendingRecorded, DeltaAgrees, OnRecord

\* Reset keeps the records, and leaves nothing pending.
LEMMA ResetKeepsRecords ==
  ASSUME DeltaInv, delta' = DeltaReset(delta), UNCHANGED cpp
  PROVE  /\ IsMap(delta'.records, Statuses)
         /\ PendingRecorded(delta')
         /\ delta'.objs = EmptyMap
         /\ \A p \in Policies : DeltaAgrees(p) => DeltaAgrees(p)'
<1>1. delta'.records = delta.records /\ delta'.objs = EmptyMap
  BY DEF DeltaReset, DeltaBundle
<1>2. DOMAIN delta'.objs = {}
  BY <1>1 DEF EmptyMap
<1> QED
  BY <1>1, <1>2 DEF DeltaInv, PendingRecorded, DeltaAgrees, OnRecord

\* SyncState leaves nothing pending and takes its records from the base.
LEMMA SyncStateEffect ==
  ASSUME NEW b, NEW g, NEW base
  PROVE  /\ DeltaSyncState(DeltaReset(b), g, base).objs = EmptyMap
         /\ DeltaSyncState(DeltaReset(b), g, base).records = base
         /\ DeltaSyncState(DeltaReset(b), g, base).base = g
         /\ DeltaSyncState(DeltaReset(b), g, base).gen = b.gen
         /\ DeltaSyncState(DeltaReset(b), g, base).id = 0
BY DEF DeltaSyncState, DeltaSyncRecords, DeltaSyncVersion, DeltaReset, DeltaBundle

\* SyncState's first half only changes the version of the base.
LEMMA SyncVersionEffect ==
  ASSUME NEW b, IsDeltaBundle(b), NEW g
  PROVE  /\ DeltaSyncVersion(b, g).objs = b.objs
         /\ DeltaSyncVersion(b, g).records = b.records
         /\ DeltaSyncVersion(b, g).base = g
         /\ DeltaSyncVersion(b, g).gen = b.gen
         /\ DeltaSyncVersion(b, g).id = b.id
<1>1. PICK o, n, r, a, i : b = [objs |-> o, gen |-> n, records |-> r, base |-> a, id |-> i]
  BY DEF IsDeltaBundle, DeltaBundle
<1> QED
  BY <1>1 DEF DeltaSyncVersion

\* A reconciliation keeps what is not its policy's, and brings that in line
\* when it comes to the delta-state bundle.
LEMMA DeltaReconcile ==
  ASSUME TypeOK, AgreeInv, ModeInv, DeltaInv, Reconcile
  PROVE  DeltaInv'
<1>p. PICK p0 : p0 = object.policy
  OBVIOUS
<1>1. /\ holder \in {"update", "delete"} /\ p0 \in Policies
      /\ holder = "update" => object.status \in Statuses
  BY <1>p DEF TypeOK, Reconcile, Updates, Deletes
<1>2. handler = "waiting" /\ handler' = "waiting" /\ holder' # "sync"
  BY <1>1 DEF ModeInv, AttemptingComplete, Reconcile, Advance
<1>s. PayloadAgrees'
  BY <1>2 DEF PayloadAgrees
<1>3. \A p : Writing(p) <=> p = p0
  BY <1>p, <1>1 DEF Writing
<1>4. \A p : holder' # "nobody" => (Writing(p)' <=> p = p0)
  BY <1>p, <1>1 DEF Writing, Reconcile, Advance
<1>5. CASE ReconcileCpp
  <2>1. at = "cpp" /\ at' = "complete" /\ UNCHANGED <<holder, object, delta>>
    BY <1>5 DEF ReconcileCpp, Reconcile, Advance, NextEntry
  <2>2. /\ holder = "update" => cpp'.objs = CppUpdate(cpp, p0, object.status).objs
        /\ holder = "delete" => cpp'.objs = CppDelete(cpp, p0).objs
    BY <1>p, <1>5 DEF ReconcileCpp
  <2>3. ASSUME NEW p \in Policies, p # p0
        PROVE  DeltaAgrees(p)'
    <3>1. DeltaAgrees(p)
      BY <1>3, <2>1, <2>3 DEF DeltaInv
    <3>2. /\ p \in DOMAIN cpp'.objs <=> p \in DOMAIN cpp.objs
          /\ p \in DOMAIN cpp.objs => cpp'.objs[p] = cpp.objs[p]
      BY <1>1, <2>2, <2>3, CppUpdateHas, CppDeleteHas
    <3> QED
      BY <2>1, <3>1, <3>2 DEF DeltaAgrees
  <2> QED
    BY <1>1, <1>2, <1>s, <1>4, <2>1, <2>3 DEF DeltaInv
<1>6. CASE ReconcileComplete
  <2>1. at = "complete" /\ at' = "delta" /\ UNCHANGED <<holder, object, cpp, delta>>
    BY <1>6 DEF ReconcileComplete, Reconcile, Advance, NextEntry
  <2> QED
    BY <1>1, <1>2, <1>s, <2>1 DEF DeltaInv, DeltaAgrees, Writing
<1>7. CASE ReconcileDelta
  <2>1. at = "delta" /\ at' = "minimal" /\ UNCHANGED <<holder, object, cpp>>
    BY <1>7 DEF ReconcileDelta, Reconcile, Advance, NextEntry
  <2>2. Written(p0)
    BY <1>1, <1>3, <2>1 DEF AgreeInv
  <2>3. IsDeltaBundle(delta) /\ IsMap(delta.records, Statuses) /\ PendingRecorded(delta)
    BY DEF TypeOK, DeltaInv
  <2>4. /\ IsMap(delta'.records, Statuses)
        /\ PendingRecorded(delta')
        /\ \A q : q # p0 => SameOn(delta, delta', q)
        /\ holder = "update" => OnRecord(delta', p0, object.status)
        /\ holder = "delete" => p0 \notin DOMAIN delta'.objs
    <3>1. CASE holder = "update"
      <4>1. delta' = DeltaUpdate(delta, p0, object.status, cpp.objs)
        BY <1>p, <1>7, <3>1 DEF ReconcileDelta
      <4>2. p0 \in DOMAIN cpp.objs /\ cpp.objs[p0] = object.status
        BY <2>2, <3>1 DEF Written
      <4> QED
        BY <1>1, <2>3, <3>1, <4>1, <4>2, DeltaUpdateRecords
    <3>2. CASE holder = "delete"
      <4>1. delta' = DeltaDelete(delta, p0)
        BY <1>p, <1>7, <3>2 DEF ReconcileDelta
      <4> QED
        BY <2>3, <3>2, <4>1, DeltaDeleteRecords
    <3> QED
      BY <1>1, <3>1, <3>2
  <2>5. DeltaAgrees(p0)'
    BY <1>1, <2>1, <2>2, <2>4 DEF DeltaAgrees, Written
  <2>6. ASSUME NEW p \in Policies, p # p0
        PROVE  DeltaAgrees(p)'
    <3>1. DeltaAgrees(p) /\ SameOn(delta, delta', p)
      BY <1>3, <2>4, <2>6 DEF DeltaInv
    <3> QED
      BY <2>1, <3>1 DEF DeltaAgrees, SameOn, OnRecord
  <2> QED
    BY <1>2, <1>s, <2>4, <2>5, <2>6 DEF DeltaInv
<1>8. CASE ReconcileMinimal
  <2>1. at = "minimal" /\ at' = "cpp" /\ UNCHANGED <<cpp, delta>>
    BY <1>8 DEF ReconcileMinimal, Reconcile, Advance, NextEntry
  <2> QED
    BY <1>2, <1>s, <2>1 DEF DeltaInv, DeltaAgrees
<1> QED
  BY <1>5, <1>6, <1>7, <1>8 DEF Reconcile

\* A sync pass never runs while a policy is being written, so that there all
\* the policies are where they should be.
LEMMA SyncingAgrees ==
  ASSUME DeltaInv, holder \in {"nobody", "sync"}
  PROVE  \A p \in Policies : DeltaAgrees(p)
BY DEF DeltaInv, Writing

\* No step breaks that.
LEMMA DeltaStep ==
  TypeOK /\ AgreeInv /\ CountBounded /\ ModeInv /\ DeltaInv /\ [Next]_vars => DeltaInv'
<1> SUFFICES ASSUME TypeOK, AgreeInv, CountBounded, ModeInv, DeltaInv, [Next]_vars PROVE DeltaInv'
  OBVIOUS
<1> USE DEF bundles, manager, loop, history
<1>1. CASE BeginUpdate \/ BeginDelete
  <2>1. /\ UNCHANGED <<cpp, delta, payload, handler, at, phase>>
        /\ holder = "nobody" /\ holder' \in {"update", "delete"} /\ at = "cpp"
    BY <1>1 DEF BeginUpdate, BeginDelete, Begin, AgreeInv
  <2>2. \A p \in Policies : DeltaAgrees(p)
    BY <2>1, SyncingAgrees
  <2> QED
    BY <2>1, <2>2 DEF DeltaInv, DeltaAgrees, PayloadAgrees
<1>2. CASE Reconcile
  BY <1>2, DeltaReconcile
<1>3. ASSUME UNCHANGED <<cpp, delta, handler>>, holder \in {"nobody", "sync"},
             PayloadAgrees'
      PROVE  DeltaInv'
  <2>1. \A p \in Policies : DeltaAgrees(p)
    BY <1>3, SyncingAgrees
  <2> QED
    BY <1>3, <2>1 DEF DeltaInv, DeltaAgrees
<1>4. CASE BeginSync \/ FailToMarshal
  BY <1>3, <1>4 DEF BeginSync, FailToMarshal, ModeInv, PayloadAgrees
<1>5. CASE CheckEntry
  BY <1>3, <1>5 DEF CheckEntry, PayloadAgrees
<1>6. CASE Marshal \/ MarshalBase \/ TakeKey
  <2>1. /\ UNCHANGED <<cpp, delta, handler, holder, at>> /\ holder = "sync"
        /\ at = "delta" => \/ phase' = "base" /\ payload' = [payload EXCEPT !.objs = delta.objs]
                           \/ /\ phase = "base" /\ phase' = "key"
                              /\ payload' = [payload EXCEPT !.base = delta.base]
                           \/ /\ phase = "key" /\ phase' = "produce"
                              /\ payload' = [payload EXCEPT !.id = delta.id]
    BY <1>6 DEF Marshal, MarshalBase, TakeKey
  <2>2. PICK o, b, i : payload = [objs |-> o, base |-> b, id |-> i]
    BY DEF TypeOK
  <2>3. PayloadAgrees
    BY DEF DeltaInv
  <2>4. PayloadAgrees'
    BY <2>1, <2>2, <2>3 DEF PayloadAgrees
  <2> QED
    BY <1>3, <2>1, <2>4
<1>7. CASE Produce
  BY <1>3, <1>7 DEF Produce, PayloadAgrees
<1>8. CASE Reject \/ FailToCompress
  <2>1. UNCHANGED <<cpp, delta, handler>> /\ holder = "sync" /\ phase' = "check"
    BY <1>8 DEF Reject, FailToCompress, HandleFailure, SwitchToComplete, Sent
  <2> QED
    BY <1>3, <2>1 DEF PayloadAgrees
<1>9. CASE Attempt
  <2>1. UNCHANGED <<cpp, handler>> /\ holder = "sync" /\ phase' = "check"
    BY <1>9 DEF Attempt, Sent
  <2>2. \A p \in Policies : DeltaAgrees(p)
    BY <2>1, SyncingAgrees
  <2>3. CASE UNCHANGED delta
    BY <1>3, <2>1, <2>3 DEF PayloadAgrees
  <2>4. CASE handler = "waiting" /\ delta' = DeltaReset(delta)
    BY <2>1, <2>2, <2>4, ResetKeepsRecords DEF DeltaInv, PayloadAgrees
  <2>5. CASE handler = "waiting" /\ delta' = DeltaSyncState(DeltaReset(delta), complete.gen, cpp.objs)
    <3>1. delta'.objs = EmptyMap /\ delta'.records = cpp.objs
      BY <2>5, SyncStateEffect
    <3> QED
      BY <2>1, <3>1, RecordsFromCpp DEF DeltaInv, PayloadAgrees
  <2> QED
    BY <1>9, <2>3, <2>4, <2>5 DEF Attempt, HandleAttempt, SwitchToDelta
<1>10. CASE HandleReport
  <2>1. /\ UNCHANGED <<cpp, holder, object, at, phase, payload>>
        /\ \/ UNCHANGED <<delta, handler>>
           \/ mode = "complete" /\ handler = "waiting" /\ delta' = DeltaReset(delta) /\ handler' = "reset"
    BY <1>10 DEF HandleReport, HandleSuccess, HandleFailure, SwitchToComplete
  <2>2. CASE UNCHANGED <<delta, handler>>
    BY <2>1, <2>2 DEF DeltaInv, DeltaAgrees, Writing, PayloadAgrees
  <2>3. CASE mode = "complete" /\ handler = "waiting" /\ delta' = DeltaReset(delta) /\ handler' = "reset"
    <3>1. ~(holder = "sync" /\ at = "delta" /\ phase # "check")
      BY <2>3 DEF ModeInv
    <3>2. \A p \in Policies : Writing(p)' = Writing(p)
      BY <2>1 DEF Writing
    <3> QED
      BY <2>1, <2>3, <3>1, <3>2, ResetKeepsRecords DEF DeltaInv, PayloadAgrees
  <2> QED
    BY <2>1, <2>2, <2>3
<1>11. CASE SyncBaseVersion
  <2>1. /\ UNCHANGED <<cpp, holder, object, at, phase>> /\ handler = "reset"
        /\ delta' = DeltaSyncVersion(delta, complete.gen)
    BY <1>11 DEF SyncBaseVersion
  <2>2. holder = "sync" /\ at = "complete" /\ phase = "attempt"
    BY <2>1 DEF ModeInv, AttemptingComplete
  <2>3. delta'.objs = delta.objs /\ delta'.records = delta.records
    BY <2>1, SyncVersionEffect DEF TypeOK
  <2>4. \A p \in Policies : DeltaAgrees(p)
    BY <2>2, SyncingAgrees
  <2> QED
    BY <2>1, <2>2, <2>3, <2>4 DEF DeltaInv, DeltaAgrees, PendingRecorded, OnRecord, PayloadAgrees
<1>12. CASE SyncRecords
  <2>1. /\ UNCHANGED <<cpp, holder, object, at, phase>> /\ handler = "syncing" /\ handler' = "waiting"
    BY <1>12 DEF SyncRecords
  <2>2. holder = "sync" /\ at = "complete" /\ phase = "attempt"
    BY <2>1 DEF ModeInv, AttemptingComplete
  <2>3. PICK seen \in UnlockedCppObjects : delta' = DeltaSyncRecords(delta, seen)
    BY <1>12 DEF SyncRecords
  <2>4. seen = cpp.objs
    BY <2>2 DEF UnlockedCppObjects
  <2>5. delta'.objs = EmptyMap /\ delta'.records = cpp.objs
    BY <2>1, <2>3, <2>4 DEF DeltaSyncRecords, DeltaBundle, DeltaInv
  <2> QED
    BY <2>1, <2>2, <2>5, RecordsFromCpp DEF DeltaInv, PayloadAgrees
<1>13. CASE SetLevel \/ UNCHANGED vars
  BY <1>13 DEF SetLevel, vars, DeltaInv, DeltaAgrees, Writing, PayloadAgrees
<1> QED
  BY <1>1, <1>2, <1>4, <1>5, <1>6, <1>7, <1>8, <1>9, <1>10, <1>11, <1>12, <1>13 DEF Next

\* The invariants hold in every state, under the assumptions of DeltaBase.
LEMMA RecordsKept ==
  ASSUME TimelyReports, "complete" \notin Undeliverable
  PROVE  Spec => [](ModeInv /\ DeltaInv)
<1>1. Init => ModeInv
  BY DEF Init, ModeInv, BaseIsHandedOver
<1>2. Init => DeltaInv
  <2> SUFFICES ASSUME Init PROVE DeltaInv
    OBVIOUS
  <2>1. delta.objs = EmptyMap /\ delta.records = EmptyMap /\ cpp.objs = EmptyMap
    BY DEF Init, DeltaBundle
  <2>2. DOMAIN EmptyMap = {}
    BY DEF EmptyMap
  <2> QED
    BY <2>1, <2>2, EmptyIsMap DEF Init, DeltaInv, PendingRecorded, DeltaAgrees, PayloadAgrees
<1> QED
  BY <1>1, <1>2, ModeStep, DeltaStep, TypeCorrect, CountIsBounded, Agreement, PTL DEF Spec

\* With timely reports, and complete-state messages that are delivered: the
\* records that the next delta is computed against hold every policy's status
\* as it is, however updates, removals, resets and switches are interleaved,
\* so that no change is skipped as already on record.
THEOREM RecordsStayCurrent ==
  ASSUME TimelyReports, "complete" \notin Undeliverable
  PROVE  Spec => []RecordsAreCurrent
<1>1. TypeOK /\ DeltaInv => RecordsAreCurrent
  <2> SUFFICES ASSUME TypeOK, DeltaInv, Settled PROVE RecordsAreCurrent
    BY DEF RecordsAreCurrent
  <2>1. \A p \in Policies : DeltaAgrees(p)
    BY SyncingAgrees DEF Settled
  <2>2. DOMAIN cpp.objs \subseteq Policies
    BY DEF TypeOK, IsBundle, IsMap
  <2> QED
    BY <2>1, <2>2 DEF RecordsAreCurrent, DeltaAgrees, OnRecord
<1> QED
  BY <1>1, RecordsKept, TypeCorrect, PTL

\* Under the same assumptions, what is pending is as the policies' statuses
\* are: a delta never overrides a cluster with a state it has left, and never
\* brings back a policy that is gone.
THEOREM PendingStaysCurrent ==
  ASSUME TimelyReports, "complete" \notin Undeliverable
  PROVE  Spec => []PendingIsCurrent
<1>1. TypeOK /\ DeltaInv => PendingIsCurrent
  <2> SUFFICES ASSUME TypeOK, DeltaInv, Settled PROVE PendingIsCurrent
    BY DEF PendingIsCurrent
  <2>1. \A p \in Policies : DeltaAgrees(p)
    BY SyncingAgrees DEF Settled
  <2>2. DOMAIN delta.objs \subseteq Policies
    BY DEF TypeOK, IsDeltaBundle, IsMap
  <2>3. PendingRecorded(delta)
    BY DEF DeltaInv
  <2>4. ASSUME NEW p \in DOMAIN delta.objs, NEW k \in ComplianceState
        PROVE  p \in DOMAIN cpp.objs /\ delta.objs[p][k] \cap ClustersOf(cpp.objs[p]) \subseteq cpp.objs[p][k]
    <3>1. p \in DOMAIN cpp.objs /\ delta.records[p][k] \cap ClustersOf(cpp.objs[p]) = cpp.objs[p][k]
      BY <2>1, <2>2 DEF DeltaAgrees, OnRecord
    <3>2. delta.objs[p][k] \subseteq delta.records[p][k]
      BY <2>3 DEF PendingRecorded
    <3> QED
      BY <3>1, <3>2
  <2>5. DOMAIN delta.objs \subseteq DOMAIN cpp.objs
    BY <2>1, <2>2 DEF DeltaAgrees
  <2> QED
    BY <2>4, <2>5 DEF PendingIsCurrent
<1> QED
  BY <1>1, RecordsKept, TypeCorrect, PTL


---------------------------------------------------------------------------
(* Versions, and what the hub of hubs makes of a message.                  *)

\* Only an update makes a new version of the delta-state bundle.
LEMMA DeltaVersion ==
  ASSUME NEW b, IsDeltaBundle(b), NEW p, NEW s, NEW base
  PROVE  /\ DeltaUpdate(b, p, s, base).gen \in {b.gen, b.gen + 1}
         /\ DeltaDelete(b, p).gen = b.gen
         /\ DeltaReset(b).gen = b.gen
         /\ DeltaSyncRecords(b, base).gen = b.gen
<1>1. PICK o, n, r, a, i : b = [objs |-> o, gen |-> n, records |-> r, base |-> a, id |-> i]
  BY DEF IsDeltaBundle, DeltaBundle
<1>2. [b EXCEPT !.records = Put(@, p, base[p])].gen = b.gen
  BY <1>1
<1>3. DeltaUpdate(b, p, s, base).gen \in {b.gen, b.gen + 1}
  BY <1>2 DEF DeltaUpdate, RecordsFromBase, DeltaBundle
<1> QED
  BY <1>3 DEF DeltaDelete, DeltaReset, DeltaSyncRecords, DeltaBundle

\* The changes an update adds to what is pending.
LEMMA DeltaUpdatePending ==
  ASSUME NEW b, IsDeltaBundle(b), NEW p, NEW s, NEW base
  PROVE  \/ DeltaUpdate(b, p, s, base).objs = b.objs
         \/ DeltaUpdate(b, p, s, base).objs = Put(b.objs, p, Pending(b, p, Changed(b.records[p], s)))
<1>1. PICK o, n, r, a, i : b = [objs |-> o, gen |-> n, records |-> r, base |-> a, id |-> i]
  BY DEF IsDeltaBundle, DeltaBundle
<1>2. [b EXCEPT !.records = Put(@, p, base[p])].objs = b.objs
  BY <1>1
<1> QED
  BY <1>2 DEF DeltaUpdate, RecordsFromBase, DeltaBundle

\* A removal leaves what is pending of the other policies.
LEMMA DeltaDeletePending ==
  ASSUME NEW b, NEW p
  PROVE  /\ DOMAIN DeltaDelete(b, p).objs = DOMAIN b.objs \ {p}
         /\ \A q \in DOMAIN b.objs : q # p => DeltaDelete(b, p).objs[q] = b.objs[q]
<1> DEFINE o == DeltaDelete(b, p).objs
<1>1. CASE p \in DOMAIN b.objs
  <2>1. o = Drop(b.objs, p)
    BY <1>1 DEF DeltaDelete, DeltaBundle
  <2> QED
    BY <2>1 DEF Drop
<1>2. CASE p \notin DOMAIN b.objs
  BY <1>2 DEF DeltaDelete
<1> QED
  BY <1>1, <1>2

\* A complete-state message keeps the clusters the hub of hubs knows of a
\* policy, and makes those fail that it lists.
LEMMA StatusFromLists ==
  ASSUME TypeOK, NEW p \in DOMAIN received, NEW f \in FailingLists
  PROVE  /\ ClustersOf(StatusFrom(p, f)) = ClustersOf(received[p])
         /\ (\A k \in FailingState : f[k] \subseteq ClustersOf(received[p])) => Failing(StatusFrom(p, f)) = f
<1>1. UNION {f[j] : j \in FailingState} = f["nonCompliant"] \cup f["unknown"]
  BY DEF FailingState
<1>2. StatusFrom(p, f) = [k \in ComplianceState |->
          IF k = "compliant" THEN ClustersOf(received[p]) \ (f["nonCompliant"] \cup f["unknown"])
          ELSE f[k] \cap ClustersOf(received[p])]
  BY <1>1 DEF StatusFrom, Known
<1>3. ClustersOf(StatusFrom(p, f)) = ClustersOf(received[p])
  <2> DEFINE C == ClustersOf(received[p])
             t == StatusFrom(p, f)
  <2>1. /\ t["compliant"] = C \ (f["nonCompliant"] \cup f["unknown"])
        /\ t["nonCompliant"] = f["nonCompliant"] \cap C
        /\ t["unknown"] = f["unknown"] \cap C
    BY <1>2 DEF ComplianceState
  <2>2. ClustersOf(t) = t["compliant"] \cup t["nonCompliant"] \cup t["unknown"]
    BY DEF ClustersOf
  <2> HIDE DEF t, C
  <2>3. ClustersOf(t) = C
    BY <2>1, <2>2
  <2> QED
    BY <2>3 DEF t, C
<1>4. ASSUME \A k \in FailingState : f[k] \subseteq ClustersOf(received[p])
      PROVE  Failing(StatusFrom(p, f)) = f
  <2>1. f = [k \in FailingState |-> f[k]]
    BY DEF FailingLists
  <2>2. \A k \in FailingState : StatusFrom(p, f)[k] = f[k]
    BY <1>2, <1>4 DEF FailingState, ComplianceState
  <2> QED
    BY <2>1, <2>2 DEF Failing
<1> QED
  BY <1>3, <1>4

\* Overriding clusters of a status leaves it the clusters it has.
LEMMA OverrideKeepsClusters ==
  ASSUME NEW r \in Lists, NEW c \in Lists, ClustersOf(c) \subseteq ClustersOf(r)
  PROVE  ClustersOf(Override(r, c)) = ClustersOf(r)
<1>1. \A k \in ComplianceState : Override(r, c)[k] = (r[k] \ ClustersOf(c)) \cup c[k]
  BY DEF Override
<1>2. ClustersOf(Override(r, c)) =
        UNION {(r[k] \ ClustersOf(c)) \cup c[k] : k \in ComplianceState}
  BY <1>1 DEF ClustersOf, ComplianceState
<1>3. ClustersOf(r) = UNION {r[k] : k \in ComplianceState} /\ ClustersOf(c) = UNION {c[k] : k \in ComplianceState}
  BY DEF ClustersOf, ComplianceState
<1> QED
  BY <1>2, <1>3

\* Overriding clusters with the state they have changes nothing.
LEMMA OverrideHarmless ==
  ASSUME NEW r \in Statuses, NEW c \in Lists,
         \A k \in FailingState : c[k] \subseteq r[k] /\ c["compliant"] \cap r[k] = {}
  PROVE  Failing(Override(r, c)) = Failing(r)
<1>1. r["nonCompliant"] \cap r["unknown"] = {}
  BY DEF Statuses, ComplianceState
<1>2. \A k \in FailingState : Override(r, c)[k] = (r[k] \ ClustersOf(c)) \cup c[k]
  BY DEF Override, FailingState, ComplianceState
<1>3. ASSUME NEW k \in FailingState, NEW x \in r[k], x \in ClustersOf(c)
      PROVE  x \in c[k]
  BY <1>1, <1>3 DEF ClustersOf, FailingState
<1>4. \A k \in FailingState : Override(r, c)[k] = r[k]
  BY <1>2, <1>3
<1> QED
  BY <1>4 DEF Failing


---------------------------------------------------------------------------
(* What the hub of hubs knows, and what can be made good.                  *)

\* The entry's bundle was taken by the producer as it is.
Arrived(e) == lastSent[e] = GenerationOf(e) \/ (holder = "sync" /\ at = e /\ phase = "attempt")

\* The hub of hubs has the clusters of every policy.
ClustersArrived ==
    /\ DOMAIN received = DOMAIN cpp.objs
    /\ \A p \in DOMAIN received : ClustersOf(received[p]) = ClustersOf(cpp.objs[p])

\* The hub of hubs has what the last complete-state bundle lists.
FailingArrived == \A p \in DOMAIN received : Failing(received[p]) = Listed(p)

\* What was sent is what the hub of hubs knows.
SentInv ==
    /\ \A e \in {"cpp", "complete", "delta"} : lastSent[e] <= GenerationOf(e)
    /\ Arrived("cpp") => ClustersArrived
    /\ Arrived("cpp") /\ Arrived("complete") => FailingArrived

\* The changes say nothing that contradicts the complete-state bundle.
Harmless(p, c) ==
    \A k \in FailingState : c[k] \subseteq Listed(p)[k] /\ c["compliant"] \cap Listed(p)[k] = {}

\* As long as the complete-state bundle has no version that was not sent, no
\* pending change contradicts it, nor does the delta that is being sent: one
\* that fails to arrive, or arrives late, does no harm.
PendInv ==
    /\ holder # "sync" => phase = "check"
    /\ holder = "sync" /\ at = "complete" /\ phase # "check" /\ mode = "delta" => delta.objs = EmptyMap
    /\ holder = "sync" /\ at = "delta" /\ phase # "check" => Enabled
    /\ Enabled /\ ~Dirty("complete") =>
         /\ \A p \in DOMAIN delta.objs :
               (holder = "delete" /\ at = "delta" /\ object.policy = p) \/ Harmless(p, delta.objs[p])
         /\ holder = "sync" /\ at = "delta" /\ phase \in {"base", "key", "produce"} =>
               \A p \in DOMAIN payload.objs : Harmless(p, payload.objs[p])

\* In a sync pass the complete-state bundle lists clusters of the policy only.
LEMMA ListedInStatus ==
  ASSUME TypeOK, AgreeInv, holder \in {"nobody", "sync"}, NEW p \in DOMAIN cpp.objs
  PROVE  /\ Listed(p) = Failing(cpp.objs[p])
         /\ \A k \in FailingState : Listed(p)[k] \subseteq ClustersOf(cpp.objs[p])
<1>1. p \in Policies
  BY DEF TypeOK, IsBundle, IsMap
<1>2. CompleteAgrees(p)
  BY <1>1 DEF AgreeInv, Writing
<1> QED
  BY <1>2 DEF CompleteAgrees, Failing, FailingState, ClustersOf

\* What the complete-state bundle lists of a policy is disjoint.
LEMMA ListedType == ASSUME TypeOK, NEW p PROVE Listed(p) \in FailingLists
<1>1. IsMap(complete.objs, FailingLists)
  BY DEF TypeOK, IsBundle
<1>2. [k \in FailingState |-> {}] \in FailingLists
  BY DEF FailingLists, FailingState
<1> QED
  BY <1>1, <1>2 DEF Listed, IsMap

\* Messages that arrive in the order of the collection leave the hub of hubs
\* with the clusters, and with the failing ones, that it was sent.
LEMMA SentProduce ==
  ASSUME {"cpp", "complete"} \cap Undeliverable = {},
         TypeOK, AgreeInv, SentInv, PendInv, Produce
  PROVE  SentInv'
<1>1. /\ holder = "sync" /\ phase = "produce" /\ phase' = "attempt"
      /\ UNCHANGED <<cpp, complete, delta, minimal, lastSent, holder, at>>
  BY DEF Produce, bundles
<1>2. \A e : GenerationOf(e)' = GenerationOf(e)
  BY <1>1 DEF GenerationOf
<1>3. \A e : e # at => (Arrived(e)' <=> Arrived(e))
  BY <1>1, <1>2 DEF Arrived
<1>4. \A e \in {"cpp", "complete", "delta"} : lastSent'[e] <= GenerationOf(e)'
  BY <1>1, <1>2 DEF SentInv
<1>5. at \in {"cpp", "complete"} => received' = Received(at)
  BY DEF Produce
<1>6. \A p : Listed(p)' = Listed(p)
  BY <1>1 DEF Listed
<1>7. CASE at = "cpp"
  <2>1. received' = cpp.objs
    BY <1>5, <1>7 DEF Received
  <2>2. ClustersArrived'
    BY <1>1, <2>1 DEF ClustersArrived
  <2>3. FailingArrived'
    BY <1>1, <1>6, <2>1, ListedInStatus DEF FailingArrived
  <2> QED
    BY <1>4, <2>2, <2>3 DEF SentInv
<1>8. CASE at = "complete"
  <2>1. received' = [p \in DOMAIN received |-> StatusFrom(p, Listed(p))]
    BY <1>5, <1>8 DEF Received, ReceivedComplete
  <2>2. CASE ~Arrived("cpp")
    BY <1>3, <1>4, <1>8, <2>2 DEF SentInv
  <2>3. CASE Arrived("cpp")
    <3>1. ClustersArrived
      BY <2>3 DEF SentInv
    <3>2. ASSUME NEW p \in DOMAIN received
          PROVE  /\ ClustersOf(StatusFrom(p, Listed(p))) = ClustersOf(cpp.objs[p])
                 /\ Failing(StatusFrom(p, Listed(p))) = Listed(p)
      <4>1. p \in DOMAIN cpp.objs /\ ClustersOf(received[p]) = ClustersOf(cpp.objs[p])
        BY <3>1 DEF ClustersArrived
      <4>2. Listed(p) \in FailingLists
        BY ListedType
      <4>3. \A k \in FailingState : Listed(p)[k] \subseteq ClustersOf(received[p])
        BY <1>1, <4>1, ListedInStatus
      <4> QED
        BY <4>1, <4>2, <4>3, StatusFromLists
    <3>3. ClustersArrived'
      BY <1>1, <2>1, <3>1, <3>2 DEF ClustersArrived
    <3>4. FailingArrived'
      BY <1>6, <2>1, <3>2 DEF FailingArrived
    <3> QED
      BY <1>4, <3>3, <3>4 DEF SentInv
  <2> QED
    BY <2>2, <2>3
<1>9. CASE at = "delta"
  <2>1. CASE received' = received
    <3>1. ClustersArrived' <=> ClustersArrived
      BY <1>1, <2>1 DEF ClustersArrived
    <3>2. FailingArrived' <=> FailingArrived
      BY <1>6, <2>1 DEF FailingArrived
    <3> QED
      BY <1>3, <1>4, <1>9, <3>1, <3>2 DEF SentInv
  <2>2. CASE received' = ReceivedDelta
    <3> DEFINE c(p) == [k \in ComplianceState |-> Known(p, payload.objs[p][k])]
    <3>1. IsMap(received, Statuses) /\ IsMap(payload.objs, Statuses)
      BY DEF TypeOK
    <3>2. /\ DOMAIN received' = DOMAIN received
          /\ \A p \in DOMAIN received :
               received'[p] = IF p \in DOMAIN payload.objs THEN Override(received[p], c(p)) ELSE received[p]
      BY <2>2 DEF ReceivedDelta
    <3>3. ASSUME NEW p \in DOMAIN received, p \in DOMAIN payload.objs
          PROVE  c(p) \in Lists /\ received[p] \in Statuses /\ received[p] \in Lists
      <4>1. received[p] \in Statuses /\ payload.objs[p] \in Lists
        BY <3>1, <3>3 DEF IsMap, Statuses
      <4> QED
        BY <4>1 DEF Known, Lists, Statuses
    <3>4. ASSUME NEW p \in DOMAIN received
          PROVE  ClustersOf(received'[p]) = ClustersOf(received[p])
      <4>1. CASE p \in DOMAIN payload.objs
        <5>1. ClustersOf(c(p)) \subseteq ClustersOf(received[p])
          <6>1. \A k \in ComplianceState : c(p)[k] \subseteq ClustersOf(received[p])
            BY DEF Known
          <6> HIDE DEF c
          <6>2. ClustersOf(c(p)) = c(p)["compliant"] \cup c(p)["nonCompliant"] \cup c(p)["unknown"]
            BY DEF ClustersOf
          <6> QED
            BY <6>1, <6>2 DEF ComplianceState
        <5> HIDE DEF c
        <5> QED
          BY <3>2, <3>3, <4>1, <5>1, OverrideKeepsClusters
      <4> QED
        BY <3>2, <4>1
    <3>5. ASSUME FailingArrived, Arrived("complete"), NEW p \in DOMAIN received
          PROVE  Failing(received'[p]) = Listed(p)
      <4>1. Failing(received[p]) = Listed(p)
        BY <3>5 DEF FailingArrived
      <4>2. CASE p \in DOMAIN payload.objs
        <5>1. Harmless(p, payload.objs[p])
          <6>1. Enabled
            BY <1>1, <1>9 DEF PendInv
          <6>2. lastSent["complete"] = GenerationOf("complete")
            BY <1>1, <1>9, <3>5 DEF Arrived
          <6>3. GenerationOf("complete") \in Nat
            BY DEF TypeOK, IsBundle, GenerationOf
          <6>4. ~Dirty("complete")
            BY <6>2, <6>3 DEF Dirty
          <6> QED
            BY <1>1, <1>9, <4>2, <6>1, <6>4 DEF PendInv
        <5>2. \A k \in FailingState : received[p][k] = Listed(p)[k]
          BY <4>1 DEF Failing
        <5>3. \A k \in ComplianceState : c(p)[k] \subseteq payload.objs[p][k]
          BY DEF Known
        <5>4. \A k \in FailingState : c(p)[k] \subseteq received[p][k] /\ c(p)["compliant"] \cap received[p][k] = {}
          <6> HIDE DEF c
          <6> QED
            BY <5>1, <5>2, <5>3 DEF Harmless, ComplianceState, FailingState
        <5> HIDE DEF c
        <5> QED
          BY <3>2, <3>3, <4>1, <4>2, <5>4, OverrideHarmless
      <4> QED
        BY <3>2, <4>1, <4>2
    <3> HIDE DEF c
    <3>6. ClustersArrived => ClustersArrived'
      BY <1>1, <3>2, <3>4 DEF ClustersArrived
    <3>7. FailingArrived /\ Arrived("complete") => FailingArrived'
      BY <1>6, <3>2, <3>5 DEF FailingArrived
    <3> QED
      BY <1>3, <1>4, <1>9, <3>6, <3>7 DEF SentInv
  <2> QED
    BY <1>9, <2>1, <2>2 DEF Produce, Received
<1>10. CASE at = "minimal"
  <2>1. received' = received
    BY <1>10 DEF Produce, Received
  <2>2. ClustersArrived' <=> ClustersArrived
    BY <1>1, <2>1 DEF ClustersArrived
  <2>3. FailingArrived' <=> FailingArrived
    BY <1>6, <2>1 DEF FailingArrived
  <2> QED
    BY <1>3, <1>4, <1>10, <2>2, <2>3 DEF SentInv
<1> QED
  BY <1>7, <1>8, <1>9, <1>10 DEF TypeOK, Entries

\* A reconciliation changes what the hub of hubs lacks only together with the
\* version of a bundle, or for a policy that is gone from it.
LEMMA SentReconcile ==
  ASSUME TypeOK, AgreeInv, SentInv, PendInv, Reconcile
  PROVE  SentInv'
<1>p. PICK p0 : p0 = object.policy
  OBVIOUS
<1>1. /\ holder \in {"update", "delete"} /\ holder' \notin {"sync"} /\ UNCHANGED <<lastSent, received>>
      /\ p0 \in Policies
  BY <1>p DEF Reconcile, Advance, TypeOK, Updates, Deletes
<1>2. /\ \A e \in {"cpp", "complete", "delta"} : lastSent[e] \in Nat
      /\ IsBundle(cpp, Statuses) /\ cpp.gen \in Nat
      /\ IsBundle(complete, FailingLists) /\ complete.gen \in Nat
      /\ IsDeltaBundle(delta) /\ delta.gen \in Nat
  BY DEF TypeOK, IsBundle, IsDeltaBundle, Entries
<1>3. lastSent["cpp"] <= cpp.gen /\ lastSent["complete"] <= complete.gen /\ lastSent["delta"] <= delta.gen
  BY DEF SentInv, GenerationOf
<1>4. /\ Arrived("cpp") <=> lastSent["cpp"] = cpp.gen
      /\ Arrived("complete") <=> lastSent["complete"] = complete.gen
      /\ Arrived("cpp")' <=> lastSent["cpp"] = cpp'.gen
      /\ Arrived("complete")' <=> lastSent["complete"] = complete'.gen
  BY <1>1 DEF Arrived, GenerationOf
<1>5. CASE ReconcileCpp
  <2>1. UNCHANGED <<complete, delta>>
    BY <1>5 DEF ReconcileCpp
  <2>2. cpp' = CppUpdate(cpp, p0, object.status) \/ cpp' = CppDelete(cpp, p0)
    BY <1>p, <1>5 DEF ReconcileCpp
  <2>3. cpp'.gen \in {cpp.gen, cpp.gen + 1}
    BY <1>2, <2>2, CppVersion
  <2>4. ASSUME cpp'.gen = cpp.gen, ClustersArrived
        PROVE  ClustersArrived'
    <3>1. /\ DOMAIN cpp'.objs = DOMAIN cpp.objs
          /\ \A p \in DOMAIN cpp.objs : ClustersOf(cpp'.objs[p]) = ClustersOf(cpp.objs[p])
      <4>1. CASE cpp' = CppUpdate(cpp, p0, object.status)
        <5>1. p0 \in DOMAIN cpp.objs /\ ClustersOf(cpp.objs[p0]) = ClustersOf(object.status)
          BY <1>2, <2>4, <4>1, CppVersion
        <5>2. /\ DOMAIN cpp'.objs = DOMAIN cpp.objs \cup {p0} /\ cpp'.objs[p0] = object.status
              /\ \A q \in DOMAIN cpp.objs : q # p0 => cpp'.objs[q] = cpp.objs[q]
          BY <4>1, CppUpdateHas
        <5> QED
          BY <5>1, <5>2
      <4>2. CASE cpp' = CppDelete(cpp, p0)
        BY <1>2, <2>4, <4>2, CppVersion
      <4> QED
        BY <2>2, <4>1, <4>2
    <3> QED
      BY <1>1, <2>4, <3>1 DEF ClustersArrived
  <2>5. FailingArrived' <=> FailingArrived
    BY <1>1, <2>1 DEF FailingArrived, Listed
  <2>6. Arrived("cpp")' => Arrived("cpp") /\ cpp'.gen = cpp.gen
    BY <1>2, <1>3, <1>4, <2>3
  <2>7. \A e \in {"cpp", "complete", "delta"} : lastSent'[e] <= GenerationOf(e)'
    BY <1>1, <1>2, <1>3, <2>1, <2>3 DEF GenerationOf
  <2> QED
    BY <1>4, <2>1, <2>4, <2>5, <2>6, <2>7 DEF SentInv
<1>6. CASE ReconcileComplete
  <2>1. UNCHANGED <<cpp, delta>> /\ at = "complete"
    BY <1>6 DEF ReconcileComplete
  <2>2. \/ holder = "update" /\ complete' = CompleteUpdate(complete, p0, object.status)
        \/ holder = "delete" /\ complete' = CompleteDelete(complete, p0)
    BY <1>p, <1>1, <1>6 DEF ReconcileComplete
  <2>3. complete'.gen \in {complete.gen, complete.gen + 1}
    BY <1>2, <2>2, CompleteVersion
  <2>4. ClustersArrived' <=> ClustersArrived
    BY <1>1, <2>1 DEF ClustersArrived
  <2>5. ASSUME complete'.gen = complete.gen, ClustersArrived, FailingArrived
        PROVE  FailingArrived'
    <3>1. CASE holder = "update"
      <4>1. complete' = complete
        BY <1>2, <2>2, <2>5, <3>1, CompleteVersion
      <4> QED
        BY <1>1, <2>5, <4>1 DEF FailingArrived, Listed
    <3>2. CASE holder = "delete"
      <4>1. p0 \notin DOMAIN cpp.objs
        BY <1>p, <1>1, <2>1, <3>2 DEF AgreeInv, Writing, Written
      <4>2. \A q : q # p0 => ListedIn(complete'.objs, q) = ListedIn(complete.objs, q)
        BY <1>2, <2>2, <3>2, CompleteDeleteLists DEF AgreeInv
      <4> QED
        BY <1>1, <2>5, <4>1, <4>2 DEF FailingArrived, ClustersArrived, Listed, ListedIn
    <3> QED
      BY <1>1, <3>1, <3>2
  <2>6. Arrived("complete")' => Arrived("complete") /\ complete'.gen = complete.gen
    BY <1>2, <1>3, <1>4, <2>3
  <2>7. \A e \in {"cpp", "complete", "delta"} : lastSent'[e] <= GenerationOf(e)'
    BY <1>1, <1>2, <1>3, <2>1, <2>3 DEF GenerationOf
  <2> QED
    BY <1>4, <2>1, <2>4, <2>5, <2>6, <2>7 DEF SentInv
<1>7. CASE UNCHANGED <<cpp, complete>> /\ delta'.gen \in {delta.gen, delta.gen + 1}
  <2>1. (ClustersArrived' <=> ClustersArrived) /\ (FailingArrived' <=> FailingArrived)
    BY <1>1, <1>7 DEF ClustersArrived, FailingArrived, Listed
  <2>2. \A e \in {"cpp", "complete", "delta"} : lastSent'[e] <= GenerationOf(e)'
    BY <1>1, <1>2, <1>3, <1>7 DEF GenerationOf
  <2> QED
    BY <1>4, <1>7, <2>1, <2>2 DEF SentInv
<1>8. CASE ReconcileDelta
  <2>1. \/ delta' = DeltaUpdate(delta, object.policy, object.status, cpp.objs)
        \/ delta' = DeltaDelete(delta, object.policy)
    BY <1>8 DEF ReconcileDelta
  <2>2. delta'.gen \in {delta.gen, delta.gen + 1}
    BY <1>2, <2>1, DeltaVersion
  <2> QED
    BY <1>7, <1>8, <2>2 DEF ReconcileDelta
<1>9. CASE ReconcileMinimal
  BY <1>7, <1>9 DEF ReconcileMinimal
<1> QED
  BY <1>5, <1>6, <1>8, <1>9 DEF Reconcile

\* Steps of the manager keep the delta-state bundle's version.
LEMMA ManagerKeepsVersion ==
  ASSUME TypeOK, HandleAttempt \/ \E outstanding : HandleFailure(outstanding)
  PROVE  delta'.gen = delta.gen
BY DeltaVersion, SyncStateEffect
DEF TypeOK, HandleAttempt, HandleFailure, SwitchToDelta, SwitchToComplete, manager

\* No step breaks SentInv, when the two bundles that carry the full state are
\* taken by the producer and delivered.
LEMMA SentStep ==
  ASSUME {"cpp", "complete"} \cap (Rejectable \cup Undeliverable \cup Incompressible) = {}
  PROVE  TypeOK /\ AgreeInv /\ SentInv /\ PendInv /\ [Next]_vars => SentInv'
<1> SUFFICES ASSUME TypeOK, AgreeInv, SentInv, PendInv, [Next]_vars PROVE SentInv'
  OBVIOUS
<1> USE DEF bundles, manager, loop, history
<1>1. ASSUME UNCHANGED <<cpp, complete, lastSent, received>>, delta'.gen = delta.gen,
             \A e \in {"cpp", "complete"} : Arrived(e)' => Arrived(e)
      PROVE  SentInv'
  <2>1. \A e \in {"cpp", "complete", "delta"} : GenerationOf(e)' = GenerationOf(e)
    BY <1>1 DEF GenerationOf
  <2>2. (ClustersArrived' <=> ClustersArrived) /\ (FailingArrived' <=> FailingArrived)
    BY <1>1 DEF ClustersArrived, FailingArrived, Listed
  <2> QED
    BY <1>1, <2>1, <2>2 DEF SentInv
<1>2. CASE UNCHANGED <<cpp, complete, lastSent, received, delta>> /\ phase # "attempt" /\ phase' # "attempt"
  BY <1>1, <1>2 DEF Arrived, GenerationOf
<1>3. CASE UNCHANGED <<cpp, complete, lastSent, received, holder, at, phase>> /\ delta'.gen = delta.gen
  BY <1>1, <1>3 DEF Arrived, GenerationOf
<1>4. CASE BeginUpdate \/ BeginDelete \/ BeginSync
  BY <1>2, <1>4 DEF BeginUpdate, BeginDelete, Begin, BeginSync, PendInv
<1>5. CASE Reconcile
  BY <1>5, SentReconcile
<1>6. CASE CheckEntry \/ Marshal \/ MarshalBase \/ TakeKey \/ FailToMarshal
  BY <1>2, <1>6 DEF CheckEntry, Marshal, MarshalBase, TakeKey, FailToMarshal
<1>7. CASE Produce
  BY <1>7, SentProduce
<1>8. CASE Reject \/ FailToCompress \/ Attempt
  <2>1. /\ UNCHANGED <<cpp, complete, received>> /\ phase' = "check" /\ holder = "sync"
        /\ lastSent' = [lastSent EXCEPT ![at] = GenerationOf(at)]
    BY <1>8 DEF Reject, FailToCompress, Attempt, Sent
  <2>2. delta'.gen = delta.gen
    BY <1>8, ManagerKeepsVersion DEF Reject, FailToCompress, Attempt
  <2>3. \A e \in {"cpp", "complete", "delta"} : GenerationOf(e)' = GenerationOf(e)
    BY <2>1, <2>2 DEF GenerationOf
  <2>4. \A e \in {"cpp", "complete"} : Arrived(e)' => Arrived(e)
    <3>1. ASSUME NEW e \in {"cpp", "complete"}, at = e
          PROVE  Arrived(e)
      <4>1. at \notin Rejectable \cup Incompressible
        BY <3>1
      <4> QED
        BY <1>8, <3>1, <4>1 DEF Reject, FailToCompress, Attempt, Arrived
    <3>2. ASSUME NEW e \in {"cpp", "complete"}, at # e
          PROVE  lastSent'[e] = lastSent[e]
      BY <2>1, <3>2 DEF TypeOK, Entries
    <3> QED
      BY <2>1, <2>3, <3>1, <3>2 DEF Arrived
  <2>5. \A e \in {"cpp", "complete", "delta"} : lastSent'[e] <= GenerationOf(e)'
    <3>1. \A e \in {"cpp", "complete", "delta"} : GenerationOf(e) \in Nat
      BY DEF GenerationOf, TypeOK, IsBundle, IsDeltaBundle
    <3>2. \A e \in {"cpp", "complete", "delta"} : lastSent'[e] = lastSent[e] \/ lastSent'[e] = GenerationOf(e)
      BY <2>1 DEF TypeOK, Entries
    <3> QED
      BY <2>3, <3>1, <3>2 DEF SentInv
  <2>6. (ClustersArrived' <=> ClustersArrived) /\ (FailingArrived' <=> FailingArrived)
    BY <2>1 DEF ClustersArrived, FailingArrived, Listed
  <2> QED
    BY <2>4, <2>5, <2>6 DEF SentInv
<1>9. CASE HandleReport
  <2>1. delta' = delta \/ delta' = DeltaReset(delta)
    BY <1>9 DEF HandleReport, HandleSuccess, HandleFailure, SwitchToComplete
  <2>2. delta'.gen = delta.gen
    BY <2>1, DeltaVersion DEF TypeOK
  <2> QED
    BY <1>3, <1>9, <2>2 DEF HandleReport
<1>10. CASE SyncBaseVersion
  BY <1>3, <1>10, SyncVersionEffect DEF SyncBaseVersion, TypeOK
<1>11. CASE SyncRecords
  BY <1>3, <1>11, DeltaVersion DEF SyncRecords, TypeOK
<1>12. CASE SetLevel \/ UNCHANGED vars
  BY <1>3, <1>12 DEF SetLevel, vars
<1> QED
  BY <1>4, <1>5, <1>6, <1>7, <1>8, <1>9, <1>10, <1>11, <1>12 DEF Next

\* What an update adds to the pending changes is part of the status, which the
\* complete-state bundle lists already.
LEMMA PendingHarmless ==
  ASSUME TypeOK, NEW p \in Policies, NEW s \in Statuses, NEW r,
         Listed(p) = Failing(s), p \in DOMAIN delta.objs => Harmless(p, delta.objs[p])
  PROVE  Harmless(p, Pending(delta, p, Changed(r, s)))
<1> USE DEF FailingState, ComplianceState
<1>1. \A k \in ComplianceState : Changed(r, s)[k] \subseteq s[k]
  BY DEF Changed
<1>2. \A k \in FailingState : Listed(p)[k] = s[k] /\ s["compliant"] \cap s[k] = {}
  BY DEF Failing, Statuses
<1>3. CASE p \notin DOMAIN delta.objs
  <2>1. Pending(delta, p, Changed(r, s)) = Changed(r, s)
    BY <1>3 DEF Pending
  <2> QED
    BY <1>1, <1>2, <2>1 DEF Harmless
<1>4. CASE p \in DOMAIN delta.objs
  <2>1. \A k \in ComplianceState : Pending(delta, p, Changed(r, s))[k] \subseteq delta.objs[p][k] \cup Changed(r, s)[k]
    BY <1>4 DEF Pending, Override
  <2>2. Harmless(p, delta.objs[p])
    BY <1>4
  <2> QED
    BY <1>1, <1>2, <2>1, <2>2 DEF Harmless
<1> QED
  BY <1>3, <1>4

\* A reconciliation keeps the pending changes in line with the complete-state
\* bundle, or makes a version of that.
LEMMA PendReconcile ==
  ASSUME TypeOK, AgreeInv, SentInv, PendInv, Reconcile
  PROVE  PendInv'
<1>p. PICK p0 : p0 = object.policy
  OBVIOUS
<1>1. /\ holder \in {"update", "delete"} /\ holder' # "sync" /\ UNCHANGED <<lastSent, phase>>
      /\ p0 \in Policies /\ phase = "check"
      /\ holder = "update" => object.status \in Statuses
  BY <1>p DEF Reconcile, Advance, TypeOK, Updates, Deletes, PendInv
<1>2. /\ lastSent["complete"] \in Nat /\ lastSent["complete"] <= complete.gen
      /\ IsBundle(complete, FailingLists) /\ complete.gen \in Nat /\ IsDeltaBundle(delta)
  BY DEF TypeOK, IsBundle, Entries, SentInv, GenerationOf
<1>3. /\ Dirty("complete") <=> complete.gen > lastSent["complete"]
      /\ Dirty("complete")' <=> complete'.gen > lastSent["complete"]
  BY <1>1 DEF Dirty, GenerationOf
<1>4. ASSUME Enabled, ~Dirty("complete"), NEW p \in DOMAIN delta.objs, at # "delta" \/ holder = "update" \/ p # p0
      PROVE  Harmless(p, delta.objs[p])
  BY <1>p, <1>4 DEF PendInv
<1>5. SUFFICES ASSUME Enabled, ~Dirty("complete")', NEW p \in DOMAIN delta'.objs,
                      at' # "delta" \/ holder = "update" \/ p # p0
               PROVE  Harmless(p, delta.objs[p])'
  <2>1. Enabled' <=> Enabled
    BY DEF Enabled
  <2>2. at' = "delta" => holder' = holder /\ object' = object
    BY DEF Reconcile, Advance, NextEntry, TypeOK, Entries
  <2> QED
    BY <1>p, <1>1, <2>1, <2>2 DEF PendInv
<1>6. CASE ReconcileCpp \/ ReconcileMinimal
  <2>1. UNCHANGED <<complete, delta>> /\ at # "delta"
    BY <1>6 DEF ReconcileCpp, ReconcileMinimal
  <2>2. ~Dirty("complete") /\ Harmless(p, delta.objs[p])
    BY <1>3, <1>4, <1>5, <2>1
  <2> QED
    BY <2>1, <2>2 DEF Harmless, Listed
<1>7. CASE ReconcileComplete
  <2>1. UNCHANGED delta /\ at = "complete" /\ at' = "delta"
    BY <1>7 DEF ReconcileComplete, Reconcile, Advance, NextEntry
  <2>2. \/ holder = "update" /\ complete' = CompleteUpdate(complete, p0, object.status)
        \/ holder = "delete" /\ complete' = CompleteDelete(complete, p0)
    BY <1>p, <1>1, <1>7 DEF ReconcileComplete
  <2>3. complete'.gen \in {complete.gen, complete.gen + 1}
    BY <1>2, <2>2, CompleteVersion
  <2>4. ~Dirty("complete") /\ complete'.gen = complete.gen
    BY <1>2, <1>3, <1>5, <2>3
  <2>5. Harmless(p, delta.objs[p])
    BY <1>4, <1>5, <2>1, <2>4
  <2>6. Listed(p)' = Listed(p)
    <3>1. CASE holder = "update"
      <4>1. complete' = complete
        BY <1>2, <2>2, <2>4, <3>1, CompleteVersion
      <4> QED
        BY <4>1 DEF Listed
    <3>2. CASE holder = "delete"
      <4>1. p # p0
        BY <1>5, <2>1, <3>2
      <4>2. \A q : q # p0 => ListedIn(complete'.objs, q) = ListedIn(complete.objs, q)
        BY <1>2, <2>2, <3>2, CompleteDeleteLists DEF AgreeInv
      <4> QED
        BY <4>1, <4>2 DEF Listed, ListedIn
    <3> QED
      BY <1>1, <3>1, <3>2
  <2> QED
    BY <2>1, <2>5, <2>6 DEF Harmless
<1>8. CASE ReconcileDelta
  <2>1. UNCHANGED <<cpp, complete>> /\ at = "delta"
    BY <1>8 DEF ReconcileDelta
  <2>2. ~Dirty("complete") /\ Listed(p)' = Listed(p)
    BY <1>3, <1>5, <2>1 DEF Listed
  <2>3. CASE holder = "delete"
    <3>1. delta' = DeltaDelete(delta, p0)
      BY <1>p, <1>8, <2>3 DEF ReconcileDelta
    <3>2. p # p0 /\ p \in DOMAIN delta.objs /\ delta'.objs[p] = delta.objs[p]
      BY <1>5, <3>1, DeltaDeletePending
    <3>3. Harmless(p, delta.objs[p])
      BY <1>4, <1>5, <2>2, <3>2
    <3> QED
      BY <2>2, <3>2, <3>3 DEF Harmless
  <2>4. CASE holder = "update"
    <3>1. delta' = DeltaUpdate(delta, p0, object.status, cpp.objs)
      BY <1>p, <1>8, <2>4 DEF ReconcileDelta
    <3>2. PICK r : \/ delta'.objs = delta.objs
                   \/ delta'.objs = Put(delta.objs, p0, Pending(delta, p0, Changed(r, object.status)))
      BY <1>2, <3>1, DeltaUpdatePending
    <3>3. CASE p # p0 \/ delta'.objs = delta.objs
      <4>1. p \in DOMAIN delta.objs /\ delta'.objs[p] = delta.objs[p]
        BY <1>5, <3>2, <3>3 DEF Put
      <4>2. Harmless(p, delta.objs[p])
        BY <1>4, <1>5, <2>2, <2>4, <4>1
      <4> QED
        BY <2>2, <4>1, <4>2 DEF Harmless
    <3>4. CASE p = p0 /\ delta'.objs = Put(delta.objs, p0, Pending(delta, p0, Changed(r, object.status)))
      <4>1. Listed(p0) = Failing(object.status)
        <5>1. Written(p0) /\ CompleteAgrees(p0)
          BY <1>p, <1>1, <2>1 DEF AgreeInv, Writing
        <5> QED
          BY <2>4, <5>1 DEF Written, CompleteAgrees
      <4>2. p0 \in DOMAIN delta.objs => Harmless(p0, delta.objs[p0])
        BY <1>4, <1>5, <2>2, <2>4
      <4>3. Harmless(p0, Pending(delta, p0, Changed(r, object.status)))
        BY <1>1, <2>4, <4>1, <4>2, PendingHarmless
      <4>4. delta'.objs[p] = Pending(delta, p0, Changed(r, object.status))
        BY <3>4 DEF Put
      <4> QED
        BY <2>2, <3>4, <4>3, <4>4 DEF Harmless
    <3> QED
      BY <3>2, <3>3, <3>4
  <2> QED
    BY <1>1, <2>3, <2>4
<1> QED
  BY <1>6, <1>7, <1>8 DEF Reconcile

\* No step breaks PendInv, when complete-state bundles are taken by the producer.
LEMMA PendStep ==
  ASSUME "complete" \notin Rejectable \cup Incompressible
  PROVE  TypeOK /\ AgreeInv /\ CountBounded /\ SentInv /\ PendInv /\ [Next]_vars => PendInv'
<1> SUFFICES ASSUME TypeOK, AgreeInv, CountBounded, SentInv, PendInv, [Next]_vars PROVE PendInv'
  OBVIOUS
<1> USE DEF bundles, manager, loop, history
<1>1. /\ Enabled' <=> Enabled
      /\ UNCHANGED <<complete, lastSent>> => (Dirty("complete")' <=> Dirty("complete"))
      /\ UNCHANGED complete => \A p : Listed(p)' = Listed(p)
      /\ UNCHANGED complete => \A p, c : Harmless(p, c)' <=> Harmless(p, c)
  BY DEF Enabled, Dirty, GenerationOf, Listed, Harmless
<1>2. DOMAIN EmptyMap = {}
  BY DEF EmptyMap
<1>3. holder \in {"nobody", "sync"} /\ Enabled /\ ~Dirty("complete") =>
        \A p \in DOMAIN delta.objs : Harmless(p, delta.objs[p])
  BY DEF PendInv
<1>4. ASSUME UNCHANGED complete, Enabled, ~Dirty("complete")', holder' \in {"nobody", "sync"},
             \/ UNCHANGED lastSent /\ holder \in {"nobody", "sync"} /\ delta'.objs \in {delta.objs, EmptyMap}
             \/ delta'.objs = EmptyMap
      PROVE  \A p \in DOMAIN delta'.objs : Harmless(p, delta.objs[p])'
  BY <1>1, <1>2, <1>3, <1>4
<1>5. CASE BeginUpdate \/ BeginDelete
  <2>1. UNCHANGED <<complete, delta, lastSent, mode, at, phase, payload>> /\ holder = "nobody" /\ at = "cpp"
        /\ holder' \in {"update", "delete"}
    BY <1>5 DEF BeginUpdate, BeginDelete, Begin, AgreeInv
  <2> QED
    BY <1>1, <1>3, <2>1 DEF PendInv
<1>6. CASE BeginSync \/ FailToMarshal
  <2>1. UNCHANGED <<complete, delta, lastSent, mode, payload>> /\ holder \in {"nobody", "sync"}
        /\ holder' \in {"nobody", "sync"} /\ phase' = "check"
    BY <1>6 DEF BeginSync, FailToMarshal, PendInv
  <2> QED
    BY <1>1, <1>4, <2>1 DEF PendInv
<1>7. CASE Reconcile
  BY <1>7, PendReconcile
<1>8. CASE CheckEntry
  <2>1. /\ UNCHANGED <<complete, delta, lastSent, mode>> /\ holder = "sync" /\ holder' \in {"nobody", "sync"}
        /\ phase' \in {"check", "marshal"}
        /\ phase' = "marshal" => Predicate(at) /\ at' = at /\ holder' = holder
        /\ holder' # "sync" => phase' = "check"
    BY <1>8 DEF CheckEntry, Advance
  <2>2. phase' = "marshal" /\ at = "complete" => mode = "complete"
    BY <2>1 DEF Predicate
  <2>3. phase' = "marshal" /\ at = "delta" => Enabled
    BY <2>1 DEF Predicate, CountBounded
  <2> QED
    BY <1>1, <1>4, <2>1, <2>2, <2>3 DEF PendInv
<1>9. CASE Marshal \/ MarshalBase \/ TakeKey
  <2>1. PICK o, b, i : payload = [objs |-> o, base |-> b, id |-> i]
    BY DEF TypeOK
  <2>2. /\ UNCHANGED <<complete, delta, lastSent, mode, holder, at, object>> /\ holder = "sync"
        /\ phase # "check" /\ phase' # "check"
        /\ at = "delta" => \/ payload'.objs = delta.objs
                           \/ phase \in {"base", "key"} /\ payload'.objs = payload.objs
    BY <1>9, <2>1 DEF Marshal, MarshalBase, TakeKey
  <2> QED
    BY <1>1, <1>3, <2>2 DEF PendInv
<1>10. CASE Produce
  <2>1. /\ UNCHANGED <<complete, delta, lastSent, mode, holder, at, object>> /\ holder = "sync"
        /\ phase = "produce" /\ phase' = "attempt"
    BY <1>10 DEF Produce
  <2> QED
    BY <1>1, <1>4, <2>1 DEF PendInv
<1>11. CASE Reject \/ FailToCompress \/ Attempt
  <2>1. /\ UNCHANGED complete /\ holder = "sync" /\ holder' \in {"nobody", "sync"} /\ phase' = "check"
        /\ lastSent' = [lastSent EXCEPT ![at] = GenerationOf(at)]
    BY <1>11 DEF Reject, FailToCompress, Attempt, Sent, Advance
  <2>2. delta'.objs \in {delta.objs, EmptyMap}
    BY <1>11, SyncStateEffect
    DEF Reject, FailToCompress, Attempt, HandleFailure, SwitchToComplete, HandleAttempt, SwitchToDelta,
        DeltaReset, DeltaBundle
  <2>3. ASSUME Enabled, at = "complete"
        PROVE  delta'.objs = EmptyMap
    <3>1. Attempt /\ at \in Subscribed /\ phase = "attempt"
      BY <1>11, <2>3 DEF Reject, FailToCompress, Attempt, Subscribed
    <3>2. CASE mode = "complete"
      BY <3>1, <3>2, SyncStateEffect DEF Attempt, HandleAttempt, SwitchToDelta
    <3>3. CASE mode = "delta"
      <4>1. delta.objs = EmptyMap
        BY <2>1, <2>3, <3>1, <3>3 DEF PendInv
      <4> QED
        BY <2>2, <4>1
    <3> QED
      BY <3>2, <3>3 DEF TypeOK
  <2>4. at # "complete" => (Dirty("complete")' <=> Dirty("complete"))
    BY <2>1 DEF Dirty, GenerationOf, TypeOK, Entries
  <2>5. Enabled /\ ~Dirty("complete")' => \A p \in DOMAIN delta'.objs : Harmless(p, delta.objs[p])'
    BY <1>1, <1>2, <1>3, <2>1, <2>2, <2>3, <2>4
  <2> QED
    BY <1>1, <2>1, <2>5 DEF PendInv
<1>12. ASSUME UNCHANGED <<complete, lastSent, holder, at, object, phase, payload>>,
              delta'.objs \in {delta.objs, EmptyMap},
              mode' = "delta" => mode = "delta" \/ delta'.objs = EmptyMap
       PROVE  PendInv'
  <2>1. Enabled /\ ~Dirty("complete")' => \A p \in DOMAIN delta'.objs :
          (holder = "delete" /\ at = "delta" /\ object.policy = p) \/ Harmless(p, delta.objs[p])'
    BY <1>1, <1>2, <1>12 DEF PendInv
  <2>2. holder = "sync" /\ at = "complete" /\ phase # "check" /\ mode' = "delta" => delta'.objs = EmptyMap
    BY <1>12 DEF PendInv
  <2> QED
    BY <1>1, <1>12, <2>1, <2>2 DEF PendInv
<1>13. CASE HandleReport
  <2>1. \/ UNCHANGED <<mode, delta>>
        \/ delta' = DeltaReset(delta)
        \/ mode' = "complete" /\ UNCHANGED delta
    BY <1>13 DEF HandleReport, HandleSuccess, HandleFailure, SwitchToComplete
  <2> QED
    BY <1>12, <1>13, <2>1 DEF HandleReport, DeltaReset, DeltaBundle
<1>14. CASE SyncBaseVersion
  BY <1>12, <1>14, SyncVersionEffect DEF SyncBaseVersion, TypeOK
<1>15. CASE SyncRecords
  BY <1>12, <1>15 DEF SyncRecords, DeltaSyncRecords, DeltaBundle
<1>16. CASE SetLevel \/ UNCHANGED vars
  BY <1>12, <1>16 DEF SetLevel, vars
<1> QED
  BY <1>5, <1>6, <1>7, <1>8, <1>9, <1>10, <1>11, <1>13, <1>14, <1>15, <1>16 DEF Next

\* The invariants hold in every state, under the theorem's assumption.
LEMMA Deliveries ==
  ASSUME {"cpp", "complete"} \cap (Rejectable \cup Undeliverable \cup Incompressible) = {}
  PROVE  Spec => [](SentInv /\ PendInv)
<1>1. Init => SentInv /\ PendInv
  <2> SUFFICES ASSUME Init PROVE SentInv /\ PendInv
    OBVIOUS
  <2>1. DOMAIN EmptyMap = {}
    BY DEF EmptyMap
  <2>2. received = EmptyMap /\ cpp.objs = EmptyMap /\ delta.objs = EmptyMap
    BY DEF Init, DeltaBundle
  <2>3. ClustersArrived /\ FailingArrived
    BY <2>1, <2>2 DEF ClustersArrived, FailingArrived
  <2>4. \A e \in {"cpp", "complete", "delta"} : lastSent[e] <= GenerationOf(e)
    BY DEF Init, GenerationOf, DeltaBundle, Entries
  <2> QED
    BY <2>1, <2>2, <2>3, <2>4 DEF Init, SentInv, PendInv
<1>2. TypeOK /\ AgreeInv /\ CountBounded /\ (SentInv /\ PendInv) /\ [Next]_vars => (SentInv /\ PendInv)'
  <2>1. "complete" \notin Rejectable \cup Incompressible
    OBVIOUS
  <2> QED
    BY <2>1, SentStep, PendStep
<1> QED
  BY <1>1, <1>2, TypeCorrect, CountIsBounded, Agreement, PTL DEF Spec

\* When both bundles arrived and no policy is being written, the hub of hubs
\* knows every status.
LEMMA AllArrived ==
  ASSUME TypeOK, AgreeInv, SentInv, holder \in {"nobody", "sync"}, Arrived("cpp"), Arrived("complete")
  PROVE  received = cpp.objs
<1>1. ClustersArrived /\ FailingArrived
  BY DEF SentInv
<1>2. IsMap(received, Statuses) /\ IsMap(cpp.objs, Statuses)
  BY DEF TypeOK, IsBundle
<1>3. ASSUME NEW p \in DOMAIN cpp.objs
      PROVE  received[p] = cpp.objs[p]
  <2>1. /\ ClustersOf(received[p]) = ClustersOf(cpp.objs[p])
        /\ Failing(received[p]) = Failing(cpp.objs[p])
        /\ received[p] \in Statuses /\ cpp.objs[p] \in Statuses
    BY <1>1, <1>2, ListedInStatus DEF ClustersArrived, FailingArrived, IsMap
  <2> QED
    BY <2>1, SameStatus
<1> QED
  BY <1>1, <1>2, <1>3 DEF ClustersArrived, IsMap

\* When the clusters-per-policy and complete-state bundles are taken and
\* delivered, whatever becomes of the deltas and of the reports: as long as
\* the hub of hubs lacks something between two passes, one of these bundles
\* still has a version to send.  A delta that is lost, or sent for a base that
\* it does not fit, leaves no damage behind that nobody would repair.
THEOREM DamageCanBeRepaired ==
  ASSUME {"cpp", "complete"} \cap (Rejectable \cup Undeliverable \cup Incompressible) = {}
  PROVE  Spec => []CompleteCanRepair
<1>1. TypeOK /\ AgreeInv /\ SentInv => CompleteCanRepair
  <2> SUFFICES ASSUME TypeOK, AgreeInv, SentInv, holder = "nobody", ~Dirty("cpp"), ~Dirty("complete")
               PROVE  received = cpp.objs
    BY DEF CompleteCanRepair
  <2>1. /\ lastSent["cpp"] \in Nat /\ lastSent["complete"] \in Nat
        /\ GenerationOf("cpp") \in Nat /\ GenerationOf("complete") \in Nat
    BY DEF TypeOK, IsBundle, GenerationOf, Entries
  <2>2. Arrived("cpp") /\ Arrived("complete")
    BY <2>1 DEF Dirty, SentInv, Arrived
  <2> QED
    BY <2>2, AllArrived
<1> QED
  BY <1>1, Deliveries, TypeCorrect, Agreement, PTL


---------------------------------------------------------------------------
(* A run of deltas: with every delta the hub of hubs comes closer to the   *)
(* records.                                                                *)

\* What of the changes is about known clusters.
Within(c, known) == [k \in ComplianceState |-> c[k] \cap known]

\* Leaving clusters out keeps lists lists, and disjoint ones disjoint.
LEMMA WithinType ==
  ASSUME NEW c \in Lists, NEW known
  PROVE  /\ Within(c, known) \in Lists
         /\ c \in Statuses => Within(c, known) \in Statuses
         /\ ClustersOf(Within(c, known)) = ClustersOf(c) \cap known
BY DEF Within, Lists, Statuses, ClustersOf, ComplianceState

\* Overriding clusters with the state they have changes nothing.
LEMMA OverrideSame ==
  ASSUME NEW s \in Statuses, NEW c \in Lists, \A k \in ComplianceState : c[k] \subseteq s[k]
  PROVE  Override(s, c) = s
<1>1. s \in [ComplianceState -> SUBSET Clusters]
  BY DEF Statuses, Lists
<1>2. ASSUME NEW k \in ComplianceState, NEW x \in s[k], x \in ClustersOf(c)
      PROVE  x \in c[k]
  BY <1>2 DEF Statuses, ClustersOf, ComplianceState
<1>3. \A k \in ComplianceState : (s[k] \ ClustersOf(c)) \cup c[k] = s[k]
  BY <1>2
<1> QED
  BY <1>1, <1>3 DEF Override

\* What becomes of a status when the known part of some changes overrides it.
LEMMA OverrideWithin ==
  ASSUME NEW r \in Lists, NEW c \in Lists, NEW known, \A k \in ComplianceState : r[k] \subseteq known
  PROVE  \A k \in ComplianceState :
           Override(r, Within(c, known))[k] = (r[k] \ ClustersOf(c)) \cup (c[k] \cap known)
<1>1. ClustersOf(Within(c, known)) = ClustersOf(c) \cap known
  BY WithinType
<1> QED
  BY <1>1 DEF Override, Within

\* The clusters of overridden lists.
LEMMA OverrideClusters ==
  ASSUME NEW o \in Lists, NEW c \in Lists
  PROVE  ClustersOf(Override(o, c)) = ClustersOf(o) \cup ClustersOf(c)
<1> DEFINE C == ClustersOf(c)
<1>1. C = c["compliant"] \cup c["nonCompliant"] \cup c["unknown"]
  BY DEF ClustersOf
<1>2. /\ Override(o, c)["compliant"] = (o["compliant"] \ C) \cup c["compliant"]
      /\ Override(o, c)["nonCompliant"] = (o["nonCompliant"] \ C) \cup c["nonCompliant"]
      /\ Override(o, c)["unknown"] = (o["unknown"] \ C) \cup c["unknown"]
  BY DEF Override, ComplianceState
<1> HIDE DEF C
<1>3. ClustersOf(Override(o, c)) =
        ((o["compliant"] \ C) \cup c["compliant"]) \cup ((o["nonCompliant"] \ C) \cup c["nonCompliant"])
        \cup ((o["unknown"] \ C) \cup c["unknown"])
  BY <1>2 DEF ClustersOf
<1>4. ClustersOf(o) = o["compliant"] \cup o["nonCompliant"] \cup o["unknown"]
  BY DEF ClustersOf
<1> QED
  BY <1>1, <1>3, <1>4 DEF C

\* What the hub of hubs would know of the policy after the pending changes.
WithPending(p) ==
    IF p \in DOMAIN delta.objs
    THEN Override(received[p], Within(delta.objs[p], ClustersOf(received[p])))
    ELSE received[p]

\* The pending changes lead from what the hub of hubs knows to the records.
LeadsToRecords(p) ==
    p \in DOMAIN delta.records /\ \A k \in ComplianceState :
        delta.records[p][k] \cap ClustersOf(received[p]) = WithPending(p)[k]

\* In delta mode: when the delta-state bundle has no version to send, nothing
\* is pending; a delta that was produced is known to the hub of hubs; and with
\* the pending changes it would know what is on record.
RunInv ==
    /\ mode = "delta" /\ delta.gen = lastSent["delta"] => delta.objs = EmptyMap
    /\ holder = "sync" /\ at = "delta" /\ phase = "attempt" =>
         \A p \in DOMAIN received : WithPending(p) = received[p]
    /\ mode = "delta" /\ handler = "waiting" /\ Arrived("cpp") => \A p \in DOMAIN received : LeadsToRecords(p)

\* An update extends the pending changes and the records alike.
LEMMA UpdateLeads ==
  ASSUME NEW r \in Statuses, NEW rec \in Lists, NEW c \in Lists, NEW known, known = ClustersOf(r)
  PROVE  /\ (\A k \in ComplianceState : rec[k] \cap known = r[k]) =>
              \A k \in ComplianceState :
                 Override(rec, c)[k] \cap known = Override(r, Within(c, known))[k]
         /\ \A o \in Lists :
              (\A k \in ComplianceState : rec[k] \cap known = Override(r, Within(o, known))[k]) =>
              \A k \in ComplianceState :
                 Override(rec, c)[k] \cap known = Override(r, Within(Override(o, c), known))[k]
<1>1. r \in Lists /\ \A k \in ComplianceState : r[k] \subseteq known
  BY DEF Statuses, ClustersOf, ComplianceState
<1>2. \A k \in ComplianceState : Override(rec, c)[k] = (rec[k] \ ClustersOf(c)) \cup c[k]
  BY DEF Override
<1>3. ASSUME \A k \in ComplianceState : rec[k] \cap known = r[k], NEW k \in ComplianceState
      PROVE  Override(rec, c)[k] \cap known = Override(r, Within(c, known))[k]
  <2>1. Override(r, Within(c, known))[k] = (r[k] \ ClustersOf(c)) \cup (c[k] \cap known)
    BY <1>1, OverrideWithin
  <2> QED
    BY <1>2, <1>3, <2>1
<1>4. ASSUME NEW o \in Lists, NEW k \in ComplianceState,
             \A j \in ComplianceState : rec[j] \cap known = Override(r, Within(o, known))[j]
      PROVE  Override(rec, c)[k] \cap known = Override(r, Within(Override(o, c), known))[k]
  <2>1. Override(r, Within(o, known))[k] = (r[k] \ ClustersOf(o)) \cup (o[k] \cap known)
    BY <1>1, OverrideWithin
  <2>2. Override(o, c) \in Lists
    BY OverrideType
  <2>3. Override(r, Within(Override(o, c), known))[k]
          = (r[k] \ ClustersOf(Override(o, c))) \cup (Override(o, c)[k] \cap known)
    BY <1>1, <2>2, OverrideWithin
  <2>4. ClustersOf(Override(o, c)) = ClustersOf(o) \cup ClustersOf(c)
    BY OverrideClusters
  <2>5. Override(o, c)[k] = (o[k] \ ClustersOf(c)) \cup c[k]
    BY DEF Override
  <2>6. rec[k] \cap known = Override(r, Within(o, known))[k]
    BY <1>4
  <2>7. r[k] \subseteq known /\ Override(rec, c)[k] = (rec[k] \ ClustersOf(c)) \cup c[k]
    BY <1>1, <1>2
  <2> QED
    BY <2>1, <2>3, <2>4, <2>5, <2>6, <2>7
<1> QED
  BY <1>3, <1>4

\* What an update makes of the pending changes and the records of a policy
\* that is on record, and what it leaves when the policy is not.
LEMMA DeltaUpdateEffect ==
  ASSUME NEW b, IsDeltaBundle(b), NEW p, NEW s, NEW base, NEW c, c = Changed(b.records[p], s)
  PROVE  \/ /\ DeltaUpdate(b, p, s, base).objs = b.objs
            /\ DeltaUpdate(b, p, s, base).gen = b.gen
            /\ p \in DOMAIN b.records => DeltaUpdate(b, p, s, base) = b
         \/ /\ p \in DOMAIN b.records
            /\ DeltaUpdate(b, p, s, base).objs = Put(b.objs, p, Pending(b, p, c))
            /\ DeltaUpdate(b, p, s, base).records = Put(b.records, p, Override(b.records[p], c))
            /\ DeltaUpdate(b, p, s, base).gen = b.gen + 1
<1>1. PICK o, n, r, a, i : b = [objs |-> o, gen |-> n, records |-> r, base |-> a, id |-> i]
  BY DEF IsDeltaBundle, DeltaBundle
<1>2. /\ [b EXCEPT !.records = Put(@, p, base[p])].objs = b.objs
      /\ [b EXCEPT !.records = Put(@, p, base[p])].gen = b.gen
  BY <1>1
<1>3. CASE p \notin DOMAIN b.records
  BY <1>2, <1>3 DEF DeltaUpdate, RecordsFromBase
<1>4. CASE p \in DOMAIN b.records /\ ClustersOf(c) = {}
  BY <1>4 DEF DeltaUpdate
<1>5. CASE p \in DOMAIN b.records /\ ClustersOf(c) # {}
  BY <1>5 DEF DeltaUpdate, DeltaBundle, Recorded
<1> QED
  BY <1>3, <1>4, <1>5

\* A reconciliation keeps the pending changes leading to the records.
LEMMA RunReconcile ==
  ASSUME TypeOK, AgreeInv, ModeInv, DeltaInv, SentInv, RunInv, Reconcile
  PROVE  RunInv'
<1>p. PICK p0, s : p0 = object.policy /\ s = object.status
  OBVIOUS
<1>1. /\ holder \in {"update", "delete"} /\ holder' # "sync"
      /\ UNCHANGED <<mode, lastSent, received, handler>>
      /\ p0 \in Policies /\ handler = "waiting"
      /\ holder = "update" => s \in Statuses
  BY <1>p DEF Reconcile, Advance, TypeOK, Updates, Deletes, manager, ModeInv, AttemptingComplete
<1>2. /\ lastSent["cpp"] <= cpp.gen /\ lastSent["delta"] <= delta.gen
      /\ lastSent["cpp"] \in Nat /\ lastSent["delta"] \in Nat
      /\ cpp.gen \in Nat /\ delta.gen \in Nat
      /\ IsBundle(cpp, Statuses) /\ IsDeltaBundle(delta)
      /\ IsMap(received, Statuses) /\ IsMap(delta.objs, Statuses) /\ IsMap(delta.records, Lists)
  BY DEF SentInv, GenerationOf, TypeOK, IsBundle, IsDeltaBundle, Entries
<1>3. DOMAIN EmptyMap = {}
  BY DEF EmptyMap
<1>4. /\ Arrived("cpp") <=> lastSent["cpp"] = cpp.gen
      /\ Arrived("cpp")' <=> lastSent["cpp"] = cpp'.gen
  BY <1>1 DEF Arrived, GenerationOf
<1>5. CASE UNCHANGED delta /\ (Arrived("cpp")' => Arrived("cpp"))
  BY <1>1, <1>5 DEF RunInv, LeadsToRecords, WithPending
<1>6. CASE ReconcileCpp
  <2>1. cpp' = CppUpdate(cpp, p0, s) \/ cpp' = CppDelete(cpp, p0)
    BY <1>p, <1>6 DEF ReconcileCpp
  <2>2. cpp'.gen \in {cpp.gen, cpp.gen + 1}
    BY <1>2, <2>1, CppVersion
  <2>3. Arrived("cpp")' => Arrived("cpp")
    BY <1>2, <1>4, <2>2
  <2> QED
    BY <1>5, <1>6, <2>3 DEF ReconcileCpp
<1>7. CASE ReconcileComplete \/ ReconcileMinimal
  BY <1>4, <1>5, <1>7 DEF ReconcileComplete, ReconcileMinimal
<1>8. CASE ReconcileDelta
  <2>1. UNCHANGED cpp /\ at = "delta" /\ Written(p0)
    BY <1>p, <1>1, <1>8 DEF ReconcileDelta, AgreeInv, Writing
  <2>2. IsMap(delta.records, Statuses) /\ PendingRecorded(delta)
    BY DEF DeltaInv
  <2>3. \A q : q # p0 => SameOn(delta, delta', q)
    <3>1. CASE holder = "update"
      <4>1. delta' = DeltaUpdate(delta, p0, s, cpp.objs)
        BY <1>p, <1>8, <3>1 DEF ReconcileDelta
      <4>2. p0 \in DOMAIN cpp.objs /\ cpp.objs[p0] = s
        BY <1>p, <2>1, <3>1 DEF Written
      <4> QED
        BY <1>1, <1>2, <2>2, <3>1, <4>1, <4>2, DeltaUpdateRecords
    <3>2. CASE holder = "delete"
      <4>1. delta' = DeltaDelete(delta, p0)
        BY <1>p, <1>8, <3>2 DEF ReconcileDelta
      <4> QED
        BY <1>2, <2>2, <4>1, DeltaDeleteRecords
    <3> QED
      BY <1>1, <3>1, <3>2
  <2>4. PICK c : c = Changed(delta.records[p0], s)
    OBVIOUS
  <2>5. holder = "update" =>
          \/ /\ delta'.objs = delta.objs /\ delta'.gen = delta.gen
             /\ p0 \in DOMAIN delta.records => delta' = delta
          \/ /\ p0 \in DOMAIN delta.records
             /\ delta'.objs = Put(delta.objs, p0, Pending(delta, p0, c))
             /\ delta'.records = Put(delta.records, p0, Override(delta.records[p0], c))
             /\ delta'.gen = delta.gen + 1
    <3>1. SUFFICES ASSUME holder = "update" PROVE delta' = DeltaUpdate(delta, p0, s, cpp.objs)
      BY <1>2, <2>4, DeltaUpdateEffect
    <3> QED
      BY <1>p, <1>8, <3>1 DEF ReconcileDelta
  <2>6. ASSUME mode' = "delta", delta'.gen = lastSent'["delta"]
        PROVE  delta'.objs = EmptyMap
    <3>1. CASE holder = "update"
      BY <1>1, <1>2, <2>5, <2>6, <3>1 DEF RunInv
    <3>2. CASE holder = "delete"
      <4>1. delta' = DeltaDelete(delta, p0)
        BY <1>p, <1>8, <3>2 DEF ReconcileDelta
      <4>2. delta'.gen = delta.gen
        BY <1>2, <4>1, DeltaVersion
      <4>3. delta.objs = EmptyMap
        BY <1>1, <2>6, <4>2 DEF RunInv
      <4> QED
        BY <1>3, <4>1, <4>3 DEF DeltaDelete
    <3> QED
      BY <1>1, <3>1, <3>2
  <2>7. ASSUME mode' = "delta", Arrived("cpp")', NEW p \in DOMAIN received
        PROVE  LeadsToRecords(p)'
    <3>1. Arrived("cpp") /\ DOMAIN received = DOMAIN cpp.objs /\ LeadsToRecords(p)
      BY <1>1, <1>4, <2>1, <2>7 DEF RunInv, SentInv, ClustersArrived
    <3>2. CASE p # p0
      BY <1>1, <2>3, <3>1, <3>2 DEF LeadsToRecords, WithPending, SameOn
    <3>3. CASE p = p0
      <4>1. holder = "update" /\ p0 \in DOMAIN delta.records
        BY <1>1, <2>1, <3>1, <3>3 DEF Written, LeadsToRecords
      <4>2. CASE delta' = delta
        BY <1>1, <3>1, <4>2 DEF LeadsToRecords, WithPending
      <4>3. CASE /\ delta'.objs = Put(delta.objs, p0, Pending(delta, p0, c))
                 /\ delta'.records = Put(delta.records, p0, Override(delta.records[p0], c))
        <5> DEFINE known == ClustersOf(received[p])
        <5>1. /\ received[p] \in Statuses /\ delta.records[p] \in Lists /\ c \in Lists
              /\ p \in DOMAIN delta.objs => delta.objs[p] \in Lists
          <6>1. delta.records[p] \in Lists /\ received[p] \in Statuses
            BY <1>2, <3>3, <4>1 DEF IsMap
          <6>2. c \in Lists
            BY <1>1, <2>4, <3>3, <4>1, <6>1, ChangedType DEF Statuses
          <6> QED
            BY <1>2, <6>1, <6>2 DEF IsMap, Statuses
        <5>2. /\ p \in DOMAIN delta'.objs /\ delta'.objs[p] = Pending(delta, p, c)
              /\ p \in DOMAIN delta'.records /\ delta'.records[p] = Override(delta.records[p], c)
          BY <3>3, <4>3 DEF Put
        <5>3. WithPending(p)' = Override(received[p], Within(Pending(delta, p, c), known))
          BY <1>1, <5>2 DEF WithPending
        <5>4. \A k \in ComplianceState : delta.records[p][k] \cap known = WithPending(p)[k]
          BY <3>1 DEF LeadsToRecords
        <5> HIDE DEF known
        <5>5. \A k \in ComplianceState : Override(delta.records[p], c)[k] \cap known = WithPending(p)'[k]
          <6>1. CASE p \in DOMAIN delta.objs
            BY <5>1, <5>3, <5>4, <6>1, UpdateLeads DEF Pending, WithPending, known
          <6>2. CASE p \notin DOMAIN delta.objs
            BY <5>1, <5>3, <5>4, <6>2, UpdateLeads DEF Pending, WithPending, known
          <6> QED
            BY <6>1, <6>2
        <5> QED
          BY <1>1, <5>2, <5>5 DEF LeadsToRecords, known
      <4> QED
        BY <2>5, <4>1, <4>2, <4>3
    <3> QED
      BY <3>2, <3>3
  <2> QED
    BY <1>1, <2>6, <2>7 DEF RunInv
<1> QED
  BY <1>6, <1>7, <1>8 DEF Reconcile

\* In a sync pass, what is pending of a policy does not contradict its status.
LEMMA PendingInStatus ==
  ASSUME TypeOK, DeltaInv, holder \in {"nobody", "sync"}, NEW p \in DOMAIN delta.objs
  PROVE  /\ p \in DOMAIN cpp.objs
         /\ \A k \in ComplianceState :
              delta.objs[p][k] \cap ClustersOf(cpp.objs[p]) \subseteq cpp.objs[p][k]
<1>1. p \in Policies
  BY DEF TypeOK, IsDeltaBundle, IsMap
<1>2. DeltaAgrees(p)
  BY <1>1, SyncingAgrees
<1>3. \A k \in ComplianceState : delta.objs[p][k] \subseteq delta.records[p][k]
  BY DEF DeltaInv, PendingRecorded
<1> QED
  BY <1>2, <1>3 DEF DeltaAgrees, OnRecord

\* When the hub of hubs knows a policy's status, the pending changes leave it
\* as it is, and it is what is on record.
LEMMA KnownLeads ==
  ASSUME TypeOK, DeltaInv, holder \in {"nobody", "sync"}, NEW p \in DOMAIN cpp.objs,
         NEW r, r = cpp.objs[p]
  PROVE  /\ p \in DOMAIN delta.records
         /\ \A k \in ComplianceState : delta.records[p][k] \cap ClustersOf(r) = r[k]
         /\ p \in DOMAIN delta.objs => Override(r, Within(delta.objs[p], ClustersOf(r))) = r
<1>1. p \in Policies /\ r \in Statuses
  BY DEF TypeOK, IsBundle, IsMap
<1>2. DeltaAgrees(p)
  BY <1>1, SyncingAgrees
<1>3. ASSUME p \in DOMAIN delta.objs
      PROVE  Override(r, Within(delta.objs[p], ClustersOf(r))) = r
  <2>1. delta.objs[p] \in Lists
    BY <1>3 DEF TypeOK, IsDeltaBundle, IsMap, Statuses
  <2>2. Within(delta.objs[p], ClustersOf(r)) \in Lists
    BY <2>1, WithinType
  <2>3. \A k \in ComplianceState : Within(delta.objs[p], ClustersOf(r))[k] \subseteq r[k]
    BY <1>3, PendingInStatus DEF Within
  <2> QED
    BY <1>1, <2>2, <2>3, OverrideSame
<1> QED
  BY <1>2, <1>3 DEF DeltaAgrees, OnRecord

\* A delta that is produced brings the hub of hubs to what is on record.
LEMMA RunProduce ==
  ASSUME {"cpp", "complete", "delta"} \cap Undeliverable = {},
         TypeOK, ModeInv, DeltaInv, SentInv, RunInv, Produce
  PROVE  RunInv'
<1>1. /\ holder = "sync" /\ phase = "produce" /\ phase' = "attempt"
      /\ UNCHANGED <<cpp, complete, delta, minimal, lastSent, mode, handler, holder, at>>
  BY DEF Produce, bundles, manager
<1>2. at # "cpp" => (Arrived("cpp")' <=> Arrived("cpp"))
  BY <1>1 DEF Arrived, GenerationOf
<1>3. CASE at = "complete"
  <2>1. mode = "complete"
    BY <1>1, <1>3 DEF ModeInv
  <2> QED
    BY <1>1, <1>3, <2>1 DEF RunInv
<1>4. CASE at = "minimal"
  <2>1. received' = received
    BY <1>4 DEF Produce, Received
  <2> QED
    BY <1>1, <1>2, <1>4, <2>1 DEF RunInv, LeadsToRecords, WithPending
<1>5. at \in {"cpp", "delta"} => received' = Received(at)
  BY DEF Produce
<1>6. CASE at = "cpp"
  <2>0. received' = cpp.objs
    BY <1>5, <1>6 DEF Received
  <2>1. ASSUME NEW p \in DOMAIN received'
        PROVE  LeadsToRecords(p)'
    <3>1. PICK r : r = cpp.objs[p]
      OBVIOUS
    <3>2. p \in DOMAIN cpp.objs /\ received'[p] = r /\ delta' = delta
      BY <1>1, <2>0, <2>1, <3>1
    <3>3. /\ p \in DOMAIN delta.records
          /\ \A k \in ComplianceState : delta.records[p][k] \cap ClustersOf(r) = r[k]
          /\ p \in DOMAIN delta.objs => Override(r, Within(delta.objs[p], ClustersOf(r))) = r
      BY <1>1, <3>1, <3>2, KnownLeads
    <3>4. WithPending(p)' = r
      BY <3>2, <3>3 DEF WithPending
    <3> QED
      BY <3>2, <3>3, <3>4 DEF LeadsToRecords
  <2> QED
    BY <1>1, <1>6, <2>1 DEF RunInv
<1>7. CASE at = "delta"
  <2>1. received' = ReceivedDelta
    BY <1>5, <1>7 DEF Received
  <2>2. payload.objs = delta.objs
    BY <1>1, <1>7 DEF DeltaInv, PayloadAgrees
  <2>3. IsMap(received, Statuses) /\ IsMap(delta.objs, Statuses)
    BY DEF TypeOK, IsDeltaBundle
  <2>4. ASSUME NEW p \in DOMAIN received
        PROVE  received'[p] = WithPending(p)
    <3>1. \A d : [k \in ComplianceState |-> Known(p, d[k])] = Within(d, ClustersOf(received[p]))
      BY DEF Known, Within
    <3> QED
      BY <2>1, <2>2, <3>1 DEF ReceivedDelta, WithPending
  <2>5. ASSUME NEW p \in DOMAIN received
        PROVE  /\ ClustersOf(received'[p]) = ClustersOf(received[p])
               /\ WithPending(p)' = received'[p]
    <3>1. CASE p \notin DOMAIN delta.objs
      BY <1>1, <2>4, <3>1 DEF WithPending
    <3>2. CASE p \in DOMAIN delta.objs
      <4>1. PICK c : c = Within(delta.objs[p], ClustersOf(received[p]))
        OBVIOUS
      <4>2. received[p] \in Statuses /\ received[p] \in Lists /\ delta.objs[p] \in Statuses /\ delta.objs[p] \in Lists
        BY <2>3, <3>2 DEF IsMap, Statuses
      <4>3. c \in Statuses /\ c \in Lists /\ ClustersOf(c) \subseteq ClustersOf(received[p])
        BY <4>1, <4>2, WithinType
      <4>4. received'[p] = Override(received[p], c)
        BY <2>4, <3>2, <4>1 DEF WithPending
      <4>5. ClustersOf(received'[p]) = ClustersOf(received[p])
        BY <4>2, <4>3, <4>4, OverrideKeepsClusters
      <4>6. WithPending(p)' = Override(received'[p], c)
        BY <1>1, <3>2, <4>1, <4>5 DEF WithPending
      <4>7. Override(received[p], c) \in Statuses
        BY <4>2, <4>3, OverrideType
      <4>8. \A k \in ComplianceState : c[k] \subseteq Override(received[p], c)[k]
        BY DEF Override
      <4>9. Override(Override(received[p], c), c) = Override(received[p], c)
        BY <4>3, <4>7, <4>8, OverrideSame
      <4> QED
        BY <4>4, <4>5, <4>6, <4>9
    <3> QED
      BY <3>1, <3>2
  <2>6. DOMAIN received' = DOMAIN received
    BY <2>1 DEF ReceivedDelta
  <2>7. ASSUME NEW p \in DOMAIN received, LeadsToRecords(p)
        PROVE  LeadsToRecords(p)'
    BY <1>1, <2>4, <2>5, <2>7 DEF LeadsToRecords
  <2> QED
    BY <1>1, <1>2, <1>7, <2>5, <2>6, <2>7 DEF RunInv
<1> QED
  BY <1>3, <1>4, <1>6, <1>7 DEF TypeOK, Entries

\* When the hub of hubs knows every status and the records were taken from the
\* base, or nothing is pending of what already led to the records.
LEMMA LeadsAfterFlush ==
  ASSUME TypeOK, delta'.objs = EmptyMap, UNCHANGED <<cpp, received>>,
         \/ received = cpp.objs /\ delta'.records = cpp.objs
         \/ /\ delta'.records = delta.records
            /\ \A p \in DOMAIN received : LeadsToRecords(p) /\ WithPending(p) = received[p]
  PROVE  \A p \in DOMAIN received' : LeadsToRecords(p)'
<1>1. \A p : WithPending(p)' = received[p]
  BY DEF WithPending, EmptyMap
<1>2. CASE received = cpp.objs /\ delta'.records = cpp.objs
  <2>1. \A p \in DOMAIN received : \A k \in ComplianceState :
          received[p][k] \cap ClustersOf(received[p]) = received[p][k]
    BY DEF ClustersOf, ComplianceState
  <2> QED
    BY <1>1, <1>2, <2>1 DEF LeadsToRecords
<1>3. CASE /\ delta'.records = delta.records
           /\ \A p \in DOMAIN received : LeadsToRecords(p) /\ WithPending(p) = received[p]
  BY <1>1, <1>3 DEF LeadsToRecords
<1> QED
  BY <1>2, <1>3

\* When the producer has taken the entry's message, the manager's answer to
\* the attempt leaves nothing pending that the hub of hubs does not know.
LEMMA RunAttempt ==
  ASSUME TypeOK, AgreeInv, CountBounded, ModeInv, DeltaInv, SentInv, PendInv, RunInv,
         Attempt, Arrived("cpp")' => Arrived("cpp")
  PROVE  RunInv'
<1>1. /\ holder = "sync" /\ phase = "attempt" /\ phase' = "check"
      /\ UNCHANGED <<cpp, complete, received, handler>>
      /\ lastSent' = [lastSent EXCEPT ![at] = GenerationOf(at)]
  BY DEF Attempt, Sent
<1>2. /\ at = "delta" => lastSent'["delta"] = delta.gen
      /\ at # "delta" => lastSent'["delta"] = lastSent["delta"]
  BY <1>1 DEF TypeOK, Entries, GenerationOf
<1>3. CASE UNCHANGED <<mode, delta>> /\ at # "delta"
  BY <1>1, <1>2, <1>3 DEF RunInv, LeadsToRecords, WithPending
<1>4. CASE mode' = "complete"
  BY <1>1, <1>4 DEF RunInv
<1>5. ASSUME delta'.objs = EmptyMap, handler = "waiting",
             Arrived("cpp") => \/ received = cpp.objs /\ delta'.records = cpp.objs
                               \/ /\ delta'.records = delta.records
                                  /\ \A p \in DOMAIN received :
                                        LeadsToRecords(p) /\ WithPending(p) = received[p]
      PROVE  RunInv'
  <2>1. Arrived("cpp")' => \A p \in DOMAIN received' : LeadsToRecords(p)'
    BY <1>1, <1>5, LeadsAfterFlush
  <2> QED
    BY <1>1, <1>5, <2>1 DEF RunInv
<1>6. CASE at = "complete" /\ at \in Subscribed
  <2>1. handler = "waiting" /\ HandleAttempt /\ Enabled
    BY <1>6 DEF Attempt, Subscribed
  <2>2. CASE mode = "complete"
    <3>1. delta' = DeltaSyncState(DeltaReset(delta), complete.gen, cpp.objs)
      BY <2>1, <2>2 DEF HandleAttempt, SwitchToDelta
    <3>2. delta'.objs = EmptyMap /\ delta'.records = cpp.objs
      BY <3>1, SyncStateEffect
    <3>3. Arrived("cpp") => received = cpp.objs
      BY <1>1, <1>6, AllArrived DEF Arrived
    <3> QED
      BY <1>5, <2>1, <3>2, <3>3
  <2>3. CASE mode = "delta" /\ delta' = DeltaReset(delta)
    <3>1. delta.objs = EmptyMap
      BY <1>1, <1>6, <2>3 DEF PendInv
    <3>2. delta'.objs = EmptyMap /\ delta'.records = delta.records
      BY <2>3 DEF DeltaReset, DeltaBundle
    <3>3. \A p : WithPending(p) = received[p]
      BY <3>1 DEF WithPending, EmptyMap
    <3>4. Arrived("cpp") => \A p \in DOMAIN received : LeadsToRecords(p)
      BY <2>1, <2>3 DEF RunInv
    <3> QED
      BY <1>5, <2>1, <3>2, <3>3, <3>4
  <2> QED
    BY <1>4, <2>1, <2>2, <2>3 DEF HandleAttempt
<1>7. CASE at = "delta"
  <2>1. mode = "delta" /\ Enabled
    BY <1>1, <1>7 DEF ModeInv, PendInv
  <2>2. handler = "waiting" /\ HandleAttempt
    BY <1>7, <2>1 DEF Attempt, Subscribed
  <2>3. CASE delta' = DeltaReset(delta)
    <3>1. delta'.objs = EmptyMap /\ delta'.records = delta.records
      BY <2>3 DEF DeltaReset, DeltaBundle
    <3>2. \A p \in DOMAIN received : WithPending(p) = received[p]
      BY <1>1, <1>7 DEF RunInv
    <3>3. Arrived("cpp") => \A p \in DOMAIN received : LeadsToRecords(p)
      BY <2>1, <2>2 DEF RunInv
    <3> QED
      BY <1>5, <2>2, <3>1, <3>2, <3>3
  <2> QED
    BY <1>4, <2>1, <2>2, <2>3 DEF HandleAttempt
<1>8. CASE at \notin Subscribed /\ at # "delta"
  BY <1>3, <1>8 DEF Attempt, manager
<1> QED
  BY <1>6, <1>7, <1>8 DEF Subscribed

\* No step breaks RunInv.
LEMMA RunStep ==
  ASSUME TimelyReports, {"cpp", "complete"} \cap (Rejectable \cup Undeliverable \cup Incompressible) = {},
         "delta" \notin Undeliverable \cup Incompressible
  PROVE  /\ TypeOK /\ AgreeInv /\ CountBounded /\ ModeInv /\ DeltaInv /\ SentInv /\ PendInv /\ RunInv
         /\ [Next]_vars
         => RunInv'
<1> SUFFICES ASSUME TypeOK, AgreeInv, CountBounded, ModeInv, DeltaInv, SentInv, PendInv, RunInv,
                    [Next]_vars
             PROVE  RunInv'
  OBVIOUS
<1> USE DEF bundles, manager, loop, history
<1>1. CASE Reconcile
  BY <1>1, RunReconcile
<1>2. CASE Produce
  BY <1>2, RunProduce
<1>3. ASSUME UNCHANGED <<cpp, delta, lastSent, received>>, phase' # "attempt", phase # "attempt",
             mode' = "delta" => mode = "delta" /\ UNCHANGED handler
      PROVE  RunInv'
  <2>1. Arrived("cpp")' <=> Arrived("cpp")
    BY <1>3 DEF Arrived, GenerationOf
  <2> QED
    BY <1>3, <2>1 DEF RunInv, LeadsToRecords, WithPending
<1>4. CASE BeginUpdate \/ BeginDelete \/ BeginSync
  BY <1>3, <1>4 DEF BeginUpdate, BeginDelete, Begin, BeginSync, PendInv
<1>5. CASE CheckEntry \/ Marshal \/ MarshalBase \/ TakeKey \/ FailToMarshal
  BY <1>3, <1>5 DEF CheckEntry, Marshal, MarshalBase, TakeKey, FailToMarshal
<1>6. CASE Reject \/ FailToCompress
  <2>1. /\ UNCHANGED <<cpp, delta, received, handler>> /\ phase = "produce" /\ phase' = "check"
        /\ holder = "sync" /\ at \notin {"cpp", "complete"}
        /\ lastSent' = [lastSent EXCEPT ![at] = GenerationOf(at)]
    BY <1>6 DEF Reject, FailToCompress, Sent, HandleFailure, SwitchToComplete
  <2>2. at = "delta" => mode' = "complete"
    <3>1. at = "delta" => mode = "delta" /\ at \in Subscribed
      BY <2>1 DEF ModeInv, PendInv, Subscribed
    <3> QED
      BY <1>6, <3>1 DEF Reject, FailToCompress, HandleFailure, SwitchToComplete
  <2>3. mode' = "delta" => mode = "delta"
    BY <1>6 DEF Reject, FailToCompress, HandleFailure, SwitchToComplete, TypeOK
  <2>4. lastSent'["cpp"] = lastSent["cpp"] /\ (mode' = "delta" => lastSent'["delta"] = lastSent["delta"])
    BY <2>1, <2>2 DEF TypeOK, Entries
  <2>5. Arrived("cpp")' <=> Arrived("cpp")
    BY <2>1, <2>4 DEF Arrived, GenerationOf
  <2> QED
    BY <2>1, <2>3, <2>4, <2>5 DEF RunInv, LeadsToRecords, WithPending
<1>7. CASE Attempt
  <2>1. Arrived("cpp")' => Arrived("cpp")
    <3>1. /\ UNCHANGED cpp /\ holder = "sync" /\ phase = "attempt" /\ phase' = "check"
          /\ lastSent' = [lastSent EXCEPT ![at] = GenerationOf(at)]
      BY <1>7 DEF Attempt, Sent
    <3>2. at # "cpp" => lastSent'["cpp"] = lastSent["cpp"]
      BY <3>1 DEF TypeOK, Entries
    <3> QED
      BY <3>1, <3>2 DEF Arrived, GenerationOf
  <2> QED
    BY <1>7, <2>1, RunAttempt
<1>8. ASSUME UNCHANGED <<cpp, lastSent, received, holder, at, phase>>
      PROVE  Arrived("cpp")' <=> Arrived("cpp")
  BY <1>8 DEF Arrived, GenerationOf
<1>9. CASE HandleReport
  <2>1. UNCHANGED <<cpp, lastSent, received, holder, at, phase>>
    BY <1>9 DEF HandleReport
  <2>2. \/ UNCHANGED <<mode, delta, handler>>
        \/ mode' = "complete" /\ UNCHANGED delta
        \/ mode = "complete" /\ delta'.objs = EmptyMap /\ handler' = "reset"
    BY <1>9 DEF HandleReport, HandleSuccess, HandleFailure, SwitchToComplete, DeltaReset, DeltaBundle
  <2>3. CASE UNCHANGED <<mode, delta, handler>>
    BY <1>8, <2>1, <2>3 DEF RunInv, LeadsToRecords, WithPending
  <2>4. CASE mode' = "complete" /\ UNCHANGED delta
    BY <2>1, <2>4 DEF RunInv, WithPending
  <2>5. CASE mode = "complete" /\ delta'.objs = EmptyMap /\ handler' = "reset"
    <3>1. ~(holder = "sync" /\ at = "delta" /\ phase = "attempt")
      BY <2>5 DEF ModeInv
    <3> QED
      BY <2>1, <2>5, <3>1 DEF RunInv
  <2> QED
    BY <2>2, <2>3, <2>4, <2>5
<1>10. CASE SyncBaseVersion \/ SyncRecords
  <2>1. UNCHANGED <<cpp, lastSent, received, holder, at, phase, mode>> /\ handler # "waiting"
    BY <1>10 DEF SyncBaseVersion, SyncRecords
  <2>2. holder = "sync" /\ at = "complete" /\ phase = "attempt" /\ delta.objs = EmptyMap
    BY <2>1 DEF ModeInv, AttemptingComplete, DeltaInv
  <2>3. delta'.objs = EmptyMap
    BY <1>10, <2>2, SyncVersionEffect DEF SyncBaseVersion, SyncRecords, DeltaSyncRecords, DeltaBundle, TypeOK
  <2>4. CASE SyncBaseVersion
    BY <2>1, <2>2, <2>3, <2>4 DEF RunInv, SyncBaseVersion
  <2>5. CASE SyncRecords
    <3>1. PICK seen \in UnlockedCppObjects : delta' = DeltaSyncRecords(delta, seen)
      BY <2>5 DEF SyncRecords
    <3>2. seen = cpp.objs
      BY <2>2 DEF UnlockedCppObjects
    <3>3. delta'.records = cpp.objs
      BY <3>1, <3>2 DEF DeltaSyncRecords, DeltaBundle
    <3>4. Arrived("cpp") => received = cpp.objs
      BY <2>2, AllArrived DEF Arrived
    <3>5. Arrived("cpp")' => \A p \in DOMAIN received' : LeadsToRecords(p)'
      BY <1>8, <2>1, <2>3, <3>3, <3>4, LeadsAfterFlush
    <3> QED
      BY <2>1, <2>2, <2>3, <3>5 DEF RunInv
  <2> QED
    BY <1>10, <2>4, <2>5
<1>11. CASE SetLevel \/ UNCHANGED vars
  BY <1>8, <1>11 DEF SetLevel, vars, RunInv, LeadsToRecords, WithPending
<1> QED
  BY <1>1, <1>2, <1>4, <1>5, <1>6, <1>7, <1>9, <1>10, <1>11 DEF Next

\* The invariants of a run of deltas, together.
DeliveryInv ==
    /\ AgreeInv /\ CountBounded /\ ModeInv /\ DeltaInv
    /\ SentInv /\ PendInv /\ RunInv

\* They hold in every state, when the reports are timely and only minimal
\* bundles may fail to arrive.
LEMMA Delivery ==
  ASSUME TimelyReports, {"cpp", "complete"} \cap (Rejectable \cup Undeliverable \cup Incompressible) = {},
         "delta" \notin Undeliverable \cup Incompressible
  PROVE  Spec => [](TypeOK /\ DeliveryInv)
<1>1. Init => RunInv
  <2> SUFFICES ASSUME Init PROVE RunInv
    OBVIOUS
  <2> QED
    BY DEF Init, RunInv, DeltaBundle
<1>2. "complete" \notin Undeliverable
  OBVIOUS
<1>3. Spec => [](ModeInv /\ DeltaInv)
  BY <1>2, RecordsKept
<1>4. Spec => [](SentInv /\ PendInv)
  BY Deliveries
<1>5. /\ TypeOK /\ AgreeInv /\ CountBounded /\ (ModeInv /\ DeltaInv) /\ (SentInv /\ PendInv) /\ RunInv
      /\ [Next]_vars
      => RunInv'
  BY RunStep
<1>6. TypeOK /\ AgreeInv /\ CountBounded /\ (ModeInv /\ DeltaInv) /\ (SentInv /\ PendInv) /\ RunInv
      => TypeOK /\ DeliveryInv
  BY DEF DeliveryInv
<1> QED
  BY <1>1, <1>3, <1>4, <1>5, <1>6, TypeCorrect, CountIsBounded, Agreement, PTL DEF Spec

\* When the manager hears of deliveries in time, and the clusters-per-policy,
\* complete-state and delta-state bundles arrive: once there is nothing left
\* to send, the hub of hubs knows every policy's status as it is, through any
\* sequence of updates, removals, deltas and switches of mode.  What one
\* bundle leaves out on purpose, another has brought.
THEOREM NothingIsLost ==
  ASSUME TimelyReports, {"cpp", "complete"} \cap (Rejectable \cup Undeliverable \cup Incompressible) = {},
         "delta" \notin Undeliverable \cup Incompressible
  PROVE  Spec => []NothingLost
<1>1. TypeOK /\ DeliveryInv => NothingLost
  <2> SUFFICES ASSUME TypeOK, DeliveryInv, Settled, NothingToSend
               PROVE  received = cpp.objs
    BY DEF NothingLost
  <2> USE DEF DeliveryInv
  <2>1. /\ \A e \in {"cpp", "complete", "delta"} : lastSent[e] \in Nat /\ GenerationOf(e) \in Nat
        /\ GenerationOf("delta") = delta.gen
    BY DEF TypeOK, IsBundle, IsDeltaBundle, GenerationOf, Entries
  <2>2. \A e \in {"cpp", "complete", "delta"} : ~Dirty(e) => lastSent[e] = GenerationOf(e)
    BY <2>1 DEF Dirty, SentInv
  <2>3. Arrived("cpp") /\ holder = "nobody" /\ handler = "waiting"
    BY <2>2 DEF NothingToSend, Arrived, Settled
  <2>4. CASE mode = "complete"
    BY <2>2, <2>3, <2>4, AllArrived DEF NothingToSend, Arrived
  <2>5. CASE mode = "delta"
    <3>1. delta.objs = EmptyMap
      BY <2>1, <2>2, <2>5 DEF NothingToSend, RunInv
    <3>2. ClustersArrived
      BY <2>3 DEF SentInv
    <3>3. ASSUME NEW p \in DOMAIN received
          PROVE  received[p] = cpp.objs[p]
      <4>1. LeadsToRecords(p) /\ WithPending(p) = received[p]
        BY <2>3, <2>5, <3>1 DEF RunInv, WithPending, EmptyMap
      <4>2. \A k \in ComplianceState : delta.records[p][k] \cap ClustersOf(cpp.objs[p]) = cpp.objs[p][k]
        BY <2>3, <3>2, KnownLeads DEF ClustersArrived
      <4>3. \A k \in ComplianceState : received[p][k] = cpp.objs[p][k]
        BY <3>2, <4>1, <4>2 DEF LeadsToRecords, ClustersArrived
      <4>4. received[p] \in Statuses /\ cpp.objs[p] \in Statuses
        BY <3>2 DEF ClustersArrived, TypeOK, IsBundle, IsMap
      <4> QED
        BY <4>3, <4>4 DEF Statuses, Lists
    <3> QED
      BY <3>2, <3>3 DEF ClustersArrived, TypeOK, IsBundle, IsMap
  <2> QED
    BY <2>4, <2>5 DEF TypeOK
<1> QED
  BY <1>1, Delivery, PTL

\* The report on a message that the manager hears of in complete mode is that
\* on the complete-state message being handed over.
LEMMA HeardWhileAttempting ==
  ASSUME TypeOK, ModeInv, reports # <<>>, Head(reports).key \in Subscribed, mode = "complete"
  PROVE  AttemptingComplete
<1> DEFINE Report == [key : {"cpp", "complete", "delta@id", "minimal"}, ok : BOOLEAN]
<1>1. Head(reports) = reports[1] /\ 1 \in DOMAIN reports
  BY DEF TypeOK
<1>2. reports[1] \in Report
  <2>1. reports \in Seq(Report)
    BY DEF TypeOK
  <2> HIDE DEF Report
  <2> QED
    BY <2>1, <1>1, ElementOfSeq
<1>3. reports[1].key # "delta"
  BY <1>2
<1>4. Enabled /\ reports[1].key = "complete"
  BY <1>1, <1>3 DEF Subscribed
<1> QED
  BY <1>1, <1>4 DEF ModeInv

---------------------------------------------------------------------------
(* The deltas of one base.                                                 *)

\* An update or a removal leaves the delta-state bundle's id and base.
LEMMA ReconcileKeepsKey ==
  ASSUME TypeOK, Reconcile
  PROVE  delta'.id = delta.id /\ delta'.base = delta.base
<1>1. IsDeltaBundle(delta)
  BY DEF TypeOK
<1>2. PICK o, n, r, a, i : delta = [objs |-> o, gen |-> n, records |-> r, base |-> a, id |-> i]
  BY <1>1 DEF IsDeltaBundle, DeltaBundle
<1>3. \A q, base : [delta EXCEPT !.records = Put(@, q, base[q])].id = delta.id
  BY <1>2
<1>4. \A q, s, base : DeltaUpdate(delta, q, s, base).id = delta.id /\ DeltaDelete(delta, q).id = delta.id
  BY <1>3 DEF DeltaUpdate, RecordsFromBase, DeltaDelete, DeltaBundle
<1>5. \A q, s, base : DeltaUpdate(delta, q, s, base).base = delta.base
  BY <1>1, DeltaUpdateKeepsBase
<1>6. \A q : DeltaDelete(delta, q).base = delta.base
  BY DEF DeltaDelete, DeltaBundle
<1> QED
  BY <1>4, <1>5, <1>6 DEF Reconcile, ReconcileCpp, ReconcileComplete, ReconcileDelta, ReconcileMinimal

\* The producer took a delta and the manager was not told.
AttemptingDelta == holder = "sync" /\ at = "delta" /\ phase = "attempt"

\* The deltas produced since the last complete-state message: none while that
\* message is being handed over, so that a switch to delta mode begins a line;
\* in delta mode each was counted and built on what was handed over last; and
\* their ids went up, to that of the delta to come.
LineInv ==
    /\ AttemptingComplete => line = <<>>
    /\ DeltaRunIsBounded
    /\ \A i, j \in DOMAIN line : i < j => line[i].id < line[j].id
    /\ mode = "delta" =>
         /\ Len(line) <= sentDeltaCount + (IF AttemptingDelta THEN 1 ELSE 0)
         /\ \A i \in DOMAIN line :
              /\ line[i].base = HandedOver
              /\ line[i].id < delta.id + (IF AttemptingDelta THEN 1 ELSE 0)

\* Ids go up along a line, and lie in the numbers.
LEMMA LineIds ==
  ASSUME TypeOK
  PROVE  /\ DOMAIN line = 1..Len(line) /\ Len(line) \in Nat
         /\ \A i \in DOMAIN line : line[i].id \in Nat
<1> DEFINE Key == [base : Nat, id : Nat]
<1>1. line \in Seq(Key)
  BY DEF TypeOK
<1>2. \A i \in DOMAIN line : line[i] \in Key
  <2> HIDE DEF Key
  <2> QED
    BY <1>1, ElementOfSeq
<1> QED
  BY <1>1, <1>2

\* The delta that is produced continues the line.
LEMMA LineProduce ==
  ASSUME TypeOK, TypeOK', CountBounded, ModeInv, DeltaInv, LineInv, Produce, at = "delta"
  PROVE  LineInv'
<1>1. /\ UNCHANGED <<complete, delta, lastSent, mode, sentDeltaCount, holder, at>>
      /\ holder = "sync" /\ phase = "produce" /\ phase' = "attempt"
  BY DEF Produce, bundles, manager
<1>2. mode = "delta" /\ Enabled /\ sentDeltaCount < SwitchFactor
  BY <1>1 DEF ModeInv, CountBounded
<1>3. payload.base = HandedOver /\ payload.id = delta.id
  BY <1>1, <1>2 DEF DeltaInv, PayloadAgrees, ModeInv, AttemptingComplete, BaseIsHandedOver
<1> DEFINE key == [base |-> payload.base, id |-> payload.id]
           Key == [base : Nat, id : Nat]
<1>4. line' = Append(line, key)
  BY DEF Produce
<1>5. line \in Seq(Key) /\ key \in Key
  BY DEF TypeOK
<1>6. /\ Len(line') = Len(line) + 1 /\ line'[Len(line) + 1] = key
      /\ \A i \in 1..Len(line) : line'[i] = line[i]
  <2> HIDE DEF key, Key
  <2> QED
    BY <1>4, <1>5, AppendProperties
<1>7. /\ Len(line) \in Nat /\ DOMAIN line = 1..Len(line) /\ DOMAIN line' = 1..(Len(line) + 1)
      /\ delta.id \in Nat /\ sentDeltaCount \in Nat /\ SwitchFactor \in Int
      /\ \A i \in DOMAIN line : line[i].id \in Nat
  <2>1. line' \in Seq(Key)
    BY DEF TypeOK
  <2>2. DOMAIN line' = 1..Len(line')
    <3> HIDE DEF Key
    <3> QED
      BY <2>1
  <2> QED
    BY <1>6, <2>2, LineIds, ConfigAssumption DEF TypeOK, IsDeltaBundle
<1>8. /\ ~AttemptingDelta /\ AttemptingDelta' /\ ~AttemptingComplete' /\ HandedOver' = HandedOver
  BY <1>1 DEF AttemptingDelta, AttemptingComplete, HandedOver
<1>9. \A i \in 1..Len(line) : line[i].base = HandedOver /\ line[i].id < delta.id
  BY <1>2, <1>7, <1>8 DEF LineInv
<1>10. \A i \in DOMAIN line' : line'[i].base = HandedOver /\ line'[i].id < delta.id + 1
  <2>1. \A i \in 1..Len(line) : line'[i].base = HandedOver /\ line'[i].id < delta.id + 1
    BY <1>6, <1>7, <1>9
  <2>2. line'[Len(line) + 1].base = HandedOver /\ line'[Len(line) + 1].id < delta.id + 1
    BY <1>3, <1>6, <1>7
  <2> QED
    BY <1>7, <2>1, <2>2
<1>11. ASSUME NEW i \in DOMAIN line', NEW j \in DOMAIN line', i < j
       PROVE  line'[i].id < line'[j].id
  <2>1. i \in 1..Len(line) /\ line'[i].id = line[i].id
    BY <1>6, <1>7, <1>11
  <2>2. CASE j \in 1..Len(line)
    BY <1>6, <1>7, <1>11, <2>1, <2>2 DEF LineInv
  <2>3. CASE j = Len(line) + 1
    BY <1>3, <1>6, <1>9, <2>1, <2>3
  <2> QED
    BY <1>7, <2>2, <2>3
<1>12. Len(line) + 1 <= SwitchFactor /\ Len(line) + 1 <= sentDeltaCount + 1
  BY <1>2, <1>7, <1>8 DEF LineInv
<1> QED
  BY <1>1, <1>2, <1>6, <1>8, <1>10, <1>11, <1>12 DEF LineInv, DeltaRunIsBounded, Enabled

\* Every step keeps the line in order, when the reports are timely.
LEMMA LineStep ==
  ASSUME TimelyReports, "complete" \notin Undeliverable
  PROVE  /\ TypeOK /\ TypeOK' /\ CountBounded /\ ModeInv /\ DeltaInv /\ LineInv /\ [Next]_vars
         => LineInv'
<1> SUFFICES ASSUME TypeOK, TypeOK', CountBounded, ModeInv, DeltaInv, LineInv, [Next]_vars
             PROVE  LineInv'
  OBVIOUS
<1> USE DEF bundles, manager, loop, history
<1>t. delta.id \in Nat /\ sentDeltaCount \in Nat /\ Len(line) \in Nat
      /\ \A i \in DOMAIN line : line[i].id \in Nat
  BY LineIds DEF TypeOK, IsDeltaBundle
\* A new line.
<1>e. line' = <<>> => LineInv'
  BY <1>t, ConfigAssumption DEF TypeOK, LineInv, DeltaRunIsBounded, Enabled
\* What leaves the line as it is, and either leaves delta mode or keeps the
\* base and does not go back with the count or the id.
<1>k. ASSUME UNCHANGED line, ~AttemptingComplete',
             mode' = "delta" =>
               /\ mode = "delta" /\ HandedOver' = HandedOver
               /\ \/ UNCHANGED <<sentDeltaCount, AttemptingDelta>> /\ delta'.id = delta.id
                  \/ /\ sentDeltaCount' = sentDeltaCount + 1 /\ delta'.id = delta.id + 1
                     /\ AttemptingDelta
      PROVE  LineInv'
  <2>1. DeltaRunIsBounded' /\ \A i, j \in DOMAIN line' : i < j => line'[i].id < line'[j].id
    BY <1>k DEF LineInv, DeltaRunIsBounded, Enabled
  <2>2. ASSUME mode' = "delta"
        PROVE  /\ Len(line') <= sentDeltaCount' + (IF AttemptingDelta' THEN 1 ELSE 0)
               /\ \A i \in DOMAIN line' :
                    /\ line'[i].base = HandedOver'
                    /\ line'[i].id < delta'.id + (IF AttemptingDelta' THEN 1 ELSE 0)
    <3>1. /\ Len(line) <= sentDeltaCount + (IF AttemptingDelta THEN 1 ELSE 0)
          /\ \A i \in DOMAIN line :
               /\ line[i].base = HandedOver
               /\ line[i].id < delta.id + (IF AttemptingDelta THEN 1 ELSE 0)
      BY <1>k, <2>2 DEF LineInv
    <3>2. CASE UNCHANGED <<sentDeltaCount, AttemptingDelta>> /\ delta'.id = delta.id
      BY <1>k, <2>2, <3>1, <3>2
    <3>3. CASE /\ sentDeltaCount' = sentDeltaCount + 1 /\ delta'.id = delta.id + 1
               /\ AttemptingDelta
      BY <1>k, <1>t, <2>2, <3>1, <3>3
    <3> QED
      BY <1>k, <2>2, <3>2, <3>3
  <2> QED
    BY <1>k, <2>1, <2>2 DEF LineInv
<1>1. CASE BeginUpdate \/ BeginDelete \/ BeginSync \/ FailToMarshal
  <2>1. /\ UNCHANGED <<complete, delta, lastSent, manager, line>>
        /\ phase # "attempt" /\ phase' # "attempt"
    BY <1>1 DEF BeginUpdate, BeginDelete, Begin, BeginSync, FailToMarshal, ModeInv
  <2> QED
    BY <1>k, <2>1 DEF AttemptingComplete, AttemptingDelta, HandedOver
<1>2. CASE Reconcile
  <2>1. UNCHANGED <<lastSent, manager, line>> /\ holder # "sync" /\ holder' # "sync"
    BY <1>2 DEF Reconcile, Advance
  <2>2. delta'.id = delta.id
    BY <1>2, ReconcileKeepsKey
  <2> QED
    BY <1>k, <2>1, <2>2 DEF AttemptingComplete, AttemptingDelta, HandedOver
<1>3. CASE CheckEntry \/ Marshal \/ MarshalBase \/ TakeKey
  <2>1. /\ UNCHANGED <<complete, delta, lastSent, manager, line>>
        /\ phase # "attempt" /\ phase' # "attempt"
    BY <1>3 DEF CheckEntry, Marshal, MarshalBase, TakeKey
  <2> QED
    BY <1>k, <2>1 DEF AttemptingComplete, AttemptingDelta, HandedOver
<1>4. CASE Produce
  <2>1. CASE at = "delta"
    BY <1>4, <2>1, LineProduce
  <2>2. CASE at = "complete"
    <3>1. line' = <<>>
      BY <1>4, <2>2 DEF Produce
    <3> QED
      BY <3>1, <1>e
  <2>3. CASE at \notin {"complete", "delta"}
    <3>1. UNCHANGED <<complete, delta, lastSent, manager, line, at>>
      BY <1>4, <2>3 DEF Produce
    <3> QED
      BY <1>k, <2>3, <3>1 DEF AttemptingComplete, AttemptingDelta, HandedOver
  <2> QED
    BY <2>1, <2>2, <2>3
<1>5. CASE FailToCompress \/ Reject
  <2>1. /\ holder = "sync" /\ phase = "produce" /\ phase' = "check" /\ UNCHANGED line
        /\ at # "complete" => lastSent'["complete"] = lastSent["complete"]
    BY <1>5 DEF FailToCompress, Reject, Sent, TypeOK, Entries
  <2>2. mode' = "delta" => mode = "delta" /\ UNCHANGED <<manager, delta>>
    BY <1>5 DEF FailToCompress, Reject, HandleFailure, SwitchToComplete, TypeOK
  <2>3. at = "complete" => mode # "delta"
    BY <2>1 DEF ModeInv
  <2> QED
    BY <1>k, <2>1, <2>2, <2>3 DEF AttemptingComplete, AttemptingDelta, HandedOver
<1>6. CASE Attempt
  <2>1. /\ holder = "sync" /\ phase = "attempt" /\ phase' = "check" /\ UNCHANGED line
        /\ at # "complete" => lastSent'["complete"] = lastSent["complete"]
    BY <1>6 DEF Attempt, Sent, TypeOK, Entries
  <2>2. CASE at = "complete"
    <3>1. line' = <<>>
      BY <2>1, <2>2 DEF LineInv, AttemptingComplete
    <3> QED
      BY <3>1, <1>e
  <2>3. CASE at = "delta"
    <3>1. mode = "delta" /\ at \in Subscribed
      BY <2>1, <2>3 DEF ModeInv, CountBounded, Subscribed
    <3>2. mode' = "delta" => sentDeltaCount' = sentDeltaCount + 1 /\ delta' = DeltaReset(delta)
      BY <1>6, <3>1 DEF Attempt, HandleAttempt
    <3>3. DeltaReset(delta).id = delta.id + 1
      BY DEF DeltaReset, DeltaBundle
    <3>4. AttemptingDelta /\ ~AttemptingComplete'
          /\ HandedOver' = HandedOver
      BY <2>1, <2>3 DEF AttemptingDelta, AttemptingComplete, HandedOver
    <3> QED
      BY <1>k, <2>1, <3>1, <3>2, <3>3, <3>4
  <2>4. CASE at \notin {"complete", "delta"}
    <3>1. UNCHANGED <<manager, delta>>
      BY <1>6, <2>4 DEF Attempt, Subscribed
    <3>2. AttemptingDelta' = AttemptingDelta /\ ~AttemptingComplete' /\ HandedOver' = HandedOver
      BY <2>1, <2>4 DEF AttemptingDelta, AttemptingComplete, HandedOver
    <3> QED
      BY <1>k, <2>1, <3>1, <3>2
  <2> QED
    BY <2>2, <2>3, <2>4
<1>7. CASE HandleReport
  <2>1. UNCHANGED <<complete, lastSent, line, holder, at, phase>>
    BY <1>7 DEF HandleReport
  <2>2. CASE AttemptingComplete
    BY <2>1, <2>2, <1>e DEF LineInv
  <2>3. CASE ~AttemptingComplete
    <3>1. mode' = "delta" => mode = "delta" /\ UNCHANGED <<manager, delta>>
      <4>1. ~(reports # <<>> /\ Head(reports).key \in Subscribed /\ mode = "complete")
        BY <2>3, HeardWhileAttempting
      <4> QED
        BY <1>7, <4>1 DEF HandleReport, HandleSuccess, HandleFailure, SwitchToComplete, TypeOK
    <3> QED
      BY <1>k, <2>1, <2>3, <3>1 DEF AttemptingComplete, AttemptingDelta, HandedOver
  <2> QED
    BY <2>2, <2>3
<1>8. CASE SyncBaseVersion \/ SyncRecords
  <2>1. UNCHANGED line /\ AttemptingComplete
    BY <1>8 DEF SyncBaseVersion, SyncRecords, ModeInv
  <2> QED
    BY <2>1, <1>e DEF LineInv
<1>9. CASE SetLevel \/ UNCHANGED vars
  BY <1>9 DEF SetLevel, vars, LineInv, DeltaRunIsBounded, Enabled, AttemptingComplete,
              AttemptingDelta, HandedOver
<1> QED
  BY <1>1, <1>2, <1>3, <1>4, <1>5, <1>6, <1>7, <1>8, <1>9 DEF Next

\* The line is in order in every state.
LEMMA LineKept ==
  ASSUME TimelyReports, "complete" \notin Undeliverable
  PROVE  Spec => [](TypeOK /\ ModeInv /\ LineInv)
<1>1. Init /\ TypeOK => LineInv
  BY ConfigAssumption DEF Init, TypeOK, LineInv, DeltaRunIsBounded, Enabled
<1>2. Spec => [](ModeInv /\ DeltaInv)
  BY RecordsKept
<1>3. /\ TypeOK /\ TypeOK' /\ CountBounded /\ (ModeInv /\ DeltaInv) /\ LineInv /\ [Next]_vars
      => LineInv'
  BY LineStep
<1> QED
  BY <1>1, <1>2, <1>3, TypeCorrect, CountIsBounded, PTL DEF Spec

\* With timely reports, and complete-state messages that are delivered: in
\* delta mode the next delta, and every delta produced since the last
\* complete-state message, names that message's version as its base, whatever
\* the handler and the sync pass do to each other between marshalling a
\* delta, taking its key and producing it.
THEOREM DeltaBase ==
  ASSUME TimelyReports, "complete" \notin Undeliverable
  PROVE  Spec => []DeltaBuildsOnSentBase
<1>1. ModeInv /\ LineInv => DeltaBuildsOnSentBase
  BY DEF ModeInv, BaseIsHandedOver, LineInv, DeltaBuildsOnSentBase
<1> QED
  BY <1>1, LineKept, PTL

\* Under the same assumptions at most SwitchFactor deltas are produced before
\* the complete state is produced again, and none when hybrid sync is off,
\* through rejected deltas and passes of any interleaving.
THEOREM DeltaRunBounded ==
  ASSUME TimelyReports, "complete" \notin Undeliverable
  PROVE  Spec => []DeltaRunIsBounded
<1>1. LineInv => DeltaRunIsBounded
  BY DEF LineInv
<1> QED
  BY <1>1, LineKept, PTL

\* Under the same assumptions the deltas produced since the last
\* complete-state message have different transportation ids, so no two of
\* them have the same Kafka key.
THEOREM DeltaKeysOfABaseDiffer ==
  ASSUME TimelyReports, "complete" \notin Undeliverable
  PROVE  Spec => []DeltaKeysDiffer
<1>1. TypeOK /\ LineInv => DeltaKeysDiffer
  <2> SUFFICES ASSUME TypeOK, LineInv, NEW i \in DOMAIN line, NEW j \in DOMAIN line, i # j
               PROVE  line[i].id # line[j].id
    BY DEF DeltaKeysDiffer
  <2>1. i \in Int /\ j \in Int /\ line[i].id \in Nat /\ line[j].id \in Nat
    BY LineIds
  <2>2. i < j \/ j < i
    BY <2>1
  <2> QED
    BY <2>1, <2>2 DEF LineInv
<1> QED
  BY <1>1, LineKept, PTL

=============================================================================
