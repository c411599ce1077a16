---------------------- MODULE ComplianceBundlesProofs ----------------------
(***************************************************************************)
(* What the bundle operations preserve, for every set of policies and      *)
(* every finite set of clusters.                                           *)
(***************************************************************************)
EXTENDS ComplianceBundles, FiniteSetTheorems, TLAPS

\* Adding or replacing an object keeps a bundle's Objects a map.
LEMMA PutIsMap ==
  ASSUME NEW R, NEW m, IsMap(m, R), NEW p \in Policies, NEW v \in R
  PROVE  IsMap(Put(m, p, v), R)
BY DEF IsMap, Put

\* Removing an object keeps a bundle's Objects a map.
LEMMA DropIsMap ==
  ASSUME NEW R, NEW m, IsMap(m, R), NEW p
  PROVE  IsMap(Drop(m, p), R)
BY DEF IsMap, Drop

\* The empty Objects slice is a map of any kind of object.
LEMMA EmptyIsMap == ASSUME NEW R PROVE IsMap(EmptyMap, R)
BY DEF IsMap, EmptyMap

\* UpdateObject keeps the type of the clusters-per-policy bundle.
LEMMA CppUpdateType ==
  ASSUME NEW b, IsBundle(b, Statuses), NEW p \in Policies, NEW s \in Statuses
  PROVE  IsBundle(CppUpdate(b, p, s), Statuses)
BY PutIsMap DEF CppUpdate, IsBundle

\* DeleteObject keeps the type of the clusters-per-policy bundle.
LEMMA CppDeleteType ==
  ASSUME NEW b, IsBundle(b, Statuses), NEW p
  PROVE  IsBundle(CppDelete(b, p), Statuses)
BY DropIsMap DEF CppDelete, IsBundle

\* The lists a status has of failing clusters are disjoint.
LEMMA FailingType == ASSUME NEW s \in Statuses PROVE Failing(s) \in FailingLists
BY DEF Statuses, Lists, Failing, FailingLists, FailingState, ComplianceState

\* UpdateObject keeps the type of the complete-state bundle.
LEMMA CompleteUpdateType ==
  ASSUME NEW b, IsBundle(b, FailingLists), NEW p \in Policies, NEW s \in Statuses
  PROVE  IsBundle(CompleteUpdate(b, p, s), FailingLists)
<1>1. IsMap(b.objs, FailingLists) /\ b.gen \in Nat
  BY DEF IsBundle
<1>2. IsMap(Put(b.objs, p, Failing(s)), FailingLists) /\ IsMap(Drop(b.objs, p), FailingLists)
  BY <1>1, FailingType, PutIsMap, DropIsMap
<1> QED
  BY <1>1, <1>2 DEF CompleteUpdate, IsBundle

\* DeleteObject keeps the type of the complete-state bundle.
LEMMA CompleteDeleteType ==
  ASSUME NEW b, IsBundle(b, FailingLists), NEW p
  PROVE  IsBundle(CompleteDelete(b, p), FailingLists)
<1>1. PICK o, n : b = [objs |-> o, gen |-> n]
  BY DEF IsBundle
<1>2. IsMap(o, FailingLists) /\ n \in Nat /\ b.objs = o
  BY <1>1 DEF IsBundle
<1>3. CompleteDelete(b, p) = [objs |-> Drop(o, p), gen |-> n]
  BY <1>1 DEF CompleteDelete
<1> QED
  BY <1>2, <1>3, DropIsMap DEF IsBundle

\* Overriding disjoint lists with disjoint lists leaves no cluster in two.
LEMMA OverrideType ==
  ASSUME NEW s \in Lists, NEW c \in Lists
  PROVE  /\ Override(s, c) \in Lists
         /\ s \in Statuses /\ c \in Statuses => Override(s, c) \in Statuses
<1>1. Override(s, c) \in Lists
  BY DEF Override, Lists, ComplianceState
<1>2. ASSUME s \in Statuses, c \in Statuses, NEW j \in ComplianceState, NEW k \in ComplianceState, j # k
      PROVE  Override(s, c)[j] \cap Override(s, c)[k] = {}
  BY <1>2 DEF Override, Statuses, ClustersOf, ComplianceState
<1> QED
  BY <1>1, <1>2 DEF Statuses

\* A delta-state bundle put together from fields of the right types has the type.
LEMMA DeltaBundleType ==
  ASSUME NEW o, IsMap(o, Statuses), NEW n \in Nat, NEW r, IsMap(r, Lists), NEW a \in Nat, NEW i \in Nat
  PROVE  IsDeltaBundle(DeltaBundle(o, n, r, a, i))
BY DEF IsDeltaBundle, DeltaBundle

\* Reset and SyncState keep the type of the delta-state bundle.
LEMMA DeltaSyncType ==
  ASSUME NEW b, IsDeltaBundle(b), NEW base, IsMap(base, Lists), NEW g \in Nat
  PROVE  /\ IsDeltaBundle(DeltaReset(b))
         /\ IsDeltaBundle(DeltaSyncVersion(b, g))
         /\ IsDeltaBundle(DeltaSyncRecords(b, base))
<1>1. /\ IsMap(b.objs, Statuses) /\ IsMap(b.records, Lists)
      /\ b.gen \in Nat /\ b.base \in Nat /\ b.id \in Nat
  BY DEF IsDeltaBundle
<1>2. IsDeltaBundle(DeltaReset(b))
  <2>1. IsMap(EmptyMap, Statuses) /\ b.id + 1 \in Nat
    BY <1>1, EmptyIsMap
  <2>2. IsDeltaBundle(DeltaBundle(EmptyMap, b.gen, b.records, b.base, b.id + 1))
    BY <1>1, <2>1, DeltaBundleType
  <2> QED
    BY <2>2 DEF DeltaReset
<1>3. IsDeltaBundle(DeltaSyncRecords(b, base))
  BY <1>1, DeltaBundleType DEF DeltaSyncRecords
<1>4. IsDeltaBundle(DeltaSyncVersion(b, g))
  <2>1. PICK o, n, r, a, i : b = [objs |-> o, gen |-> n, records |-> r, base |-> a, id |-> i]
    BY DEF IsDeltaBundle, DeltaBundle
  <2>2. DeltaSyncVersion(b, g) = DeltaBundle(o, n, r, g, i)
    BY <2>1 DEF DeltaSyncVersion, DeltaBundle
  <2> QED
    BY <1>1, <2>1, <2>2, DeltaBundleType
<1> QED
  BY <1>2, <1>3, <1>4

\* DeleteObject keeps the type of the delta-state bundle.
LEMMA DeltaDeleteType ==
  ASSUME NEW b, IsDeltaBundle(b), NEW p
  PROVE  IsDeltaBundle(DeltaDelete(b, p))
<1>1. /\ IsMap(b.objs, Statuses) /\ IsMap(b.records, Lists)
      /\ b.gen \in Nat /\ b.base \in Nat /\ b.id \in Nat
  BY DEF IsDeltaBundle
<1>2. IsMap(Drop(b.objs, p), Statuses) /\ IsMap(Drop(b.records, p), Lists)
  BY <1>1, DropIsMap
<1>3. IsDeltaBundle(DeltaBundle(Drop(b.objs, p), b.gen, Drop(b.records, p), b.base, b.id))
  BY <1>1, <1>2, DeltaBundleType
<1> QED
  BY <1>3 DEF DeltaDelete

\* UpdateObject keeps the type of the delta-state bundle, whose records need
\* not be disjoint.
LEMMA DeltaUpdateType ==
  ASSUME NEW b, IsDeltaBundle(b), NEW p \in Policies, NEW s \in Statuses,
         NEW base, IsMap(base, Lists)
  PROVE  IsDeltaBundle(DeltaUpdate(b, p, s, base))
<1>1. /\ IsMap(b.objs, Statuses) /\ IsMap(b.records, Lists)
      /\ b.gen \in Nat /\ b.base \in Nat /\ b.id \in Nat
  BY DEF IsDeltaBundle
<1>2. CASE p \notin DOMAIN b.records
  <2>1. CASE p \notin DOMAIN base
    BY <1>2, <2>1 DEF DeltaUpdate, RecordsFromBase
  <2>2. CASE p \in DOMAIN base
    <3>1. IsMap(Put(b.records, p, base[p]), Lists)
      BY <2>2, <1>1, PutIsMap DEF IsMap
    <3>2. PICK o, n, r, a, i : b = [objs |-> o, gen |-> n, records |-> r, base |-> a, id |-> i]
      BY DEF IsDeltaBundle, DeltaBundle
    <3>3. DeltaUpdate(b, p, s, base) = DeltaBundle(o, n, Put(r, p, base[p]), a, i)
      BY <1>2, <2>2, <3>2 DEF DeltaUpdate, RecordsFromBase, DeltaBundle
    <3> QED
      BY <1>1, <3>1, <3>2, <3>3, DeltaBundleType
  <2> QED
    BY <2>1, <2>2
<1>3. CASE p \in DOMAIN b.records
  <2> DEFINE changed == Changed(b.records[p], s)
  <2>1. b.records[p] \in Lists
    BY <1>3, <1>1 DEF IsMap
  <2>2. changed \in Lists /\ changed \in Statuses
    BY <2>1 DEF Changed, Statuses, Lists, ComplianceState
  <2> HIDE DEF changed
  <2>3. IsMap(Recorded(b, p, changed), Lists)
    BY <2>1, <2>2, <1>1, OverrideType, PutIsMap DEF Recorded
  <2>4. Pending(b, p, changed) \in Statuses
    <3>1. p \in DOMAIN b.objs => b.objs[p] \in Statuses /\ b.objs[p] \in Lists
      BY <1>1 DEF IsMap, Statuses
    <3> QED
      BY <3>1, <2>2, OverrideType DEF Pending
  <2>5. IsDeltaBundle(DeltaBundle(Put(b.objs, p, Pending(b, p, changed)), b.gen + 1,
                                  Recorded(b, p, changed), b.base, b.id))
    BY <2>3, <2>4, <1>1, PutIsMap, DeltaBundleType
  <2> QED
    BY <1>3, <2>5 DEF DeltaUpdate, changed
<1> QED
  BY <1>2, <1>3

\* UpdateObject keeps the type of the minimal bundle: counts of finite sets.
LEMMA MinimalUpdateType ==
  ASSUME NEW b, IsBundle(b, Summaries), NEW p \in Policies, NEW s \in Statuses, NEW a \in RemediationActions
  PROVE  IsBundle(MinimalUpdate(b, p, s, a), Summaries)
<1>1. \A S \in SUBSET Clusters : Cardinality(S) \in Nat
  BY ClustersFinite, FS_Subset, FS_CardinalityType
<1>2. ClustersOf(s) \in SUBSET Clusters /\ s["nonCompliant"] \cup s["unknown"] \in SUBSET Clusters
  BY DEF ClustersOf, Statuses, Lists, ComplianceState
<1>3. Summary(s, a) \in Summaries
  BY <1>1, <1>2 DEF Summary, Summaries
<1> QED
  BY <1>3, PutIsMap DEF MinimalUpdate, IsBundle

\* DeleteObject keeps the type of the minimal bundle.
LEMMA MinimalDeleteType ==
  ASSUME NEW b, IsBundle(b, Summaries), NEW p
  PROVE  IsBundle(MinimalDelete(b, p), Summaries)
BY DropIsMap DEF MinimalDelete, IsBundle

\* UpdateObject never touches the version of the base.
LEMMA DeltaUpdateKeepsBase ==
  ASSUME NEW b, IsDeltaBundle(b), NEW p, NEW s, NEW base
  PROVE  DeltaUpdate(b, p, s, base).base = b.base
<1>1. PICK o, n, r, a, i : b = [objs |-> o, gen |-> n, records |-> r, base |-> a, id |-> i]
  BY DEF IsDeltaBundle, DeltaBundle
<1>2. [b EXCEPT !.records = Put(@, p, base[p])].base = b.base
  BY <1>1
<1> QED
  BY <1>2 DEF DeltaUpdate, RecordsFromBase, DeltaBundle

---------------------------------------------------------------------------
(* What an update or a removal makes of a bundle.                          *)

\* What the complete-state bundle lists of a policy, as Listed of its Objects.
ListedIn(objs, p) == IF p \in DOMAIN objs THEN objs[p] ELSE [k \in FailingState |-> {}]

\* After an update, the complete-state bundle lists the status' failing
\* clusters, contains no empty lists, and is as it was on other policies.
LEMMA CompleteUpdateLists ==
  ASSUME NEW b, IsBundle(b, FailingLists), NEW p \in Policies, NEW s \in Statuses,
         \A q \in DOMAIN b.objs : HasFailing(b.objs[q])
  PROVE  /\ ListedIn(CompleteUpdate(b, p, s).objs, p) = Failing(s)
         /\ \A q : q # p => ListedIn(CompleteUpdate(b, p, s).objs, q) = ListedIn(b.objs, q)
         /\ \A q \in DOMAIN CompleteUpdate(b, p, s).objs : HasFailing(CompleteUpdate(b, p, s).objs[q])
<1> DEFINE o == CompleteUpdate(b, p, s).objs
<1> DEFINE f == Failing(s)
<1>1. CASE p \in DOMAIN b.objs /\ b.objs[p] = f
  <2>1. o = b.objs
    BY <1>1 DEF CompleteUpdate, FailingChanged
  <2> QED
    BY <1>1, <2>1 DEF ListedIn
<1>2. CASE HasFailing(f) /\ ~(p \in DOMAIN b.objs /\ b.objs[p] = f)
  <2>1. o = Put(b.objs, p, f)
    BY <1>2 DEF CompleteUpdate, FailingChanged
  <2> HIDE DEF f
  <2>2. DOMAIN o = DOMAIN b.objs \cup {p} /\ o[p] = f /\ \A q \in DOMAIN b.objs : q # p => o[q] = b.objs[q]
    BY <2>1 DEF Put
  <2> QED
    BY <1>2, <2>2 DEF ListedIn, f
<1>3. CASE ~HasFailing(f) /\ p \in DOMAIN b.objs /\ b.objs[p] # f
  <2>1. o = Drop(b.objs, p)
    BY <1>3 DEF CompleteUpdate, FailingChanged
  <2>2. f = [k \in FailingState |-> {}]
    BY <1>3 DEF HasFailing, Failing
  <2>3. DOMAIN o = DOMAIN b.objs \ {p} /\ \A q \in DOMAIN b.objs : q # p => o[q] = b.objs[q]
    BY <2>1 DEF Drop
  <2> HIDE DEF f
  <2> QED
    BY <1>3, <2>2, <2>3 DEF ListedIn, f
<1>4. CASE ~HasFailing(f) /\ p \notin DOMAIN b.objs
  <2>1. o = b.objs
    BY <1>4 DEF CompleteUpdate
  <2>2. f = [k \in FailingState |-> {}]
    BY <1>4 DEF HasFailing, Failing
  <2> QED
    BY <1>4, <2>1, <2>2 DEF ListedIn
<1> QED
  BY <1>1, <1>2, <1>3, <1>4

\* After a removal, it lists nothing of the policy, and is as it was on others.
LEMMA CompleteDeleteLists ==
  ASSUME NEW b, IsBundle(b, FailingLists), NEW p,
         \A q \in DOMAIN b.objs : HasFailing(b.objs[q])
  PROVE  /\ ListedIn(CompleteDelete(b, p).objs, p) = [k \in FailingState |-> {}]
         /\ \A q : q # p => ListedIn(CompleteDelete(b, p).objs, q) = ListedIn(b.objs, q)
         /\ \A q \in DOMAIN CompleteDelete(b, p).objs : HasFailing(CompleteDelete(b, p).objs[q])
<1> DEFINE o == CompleteDelete(b, p).objs
<1>1. PICK m, n : b = [objs |-> m, gen |-> n]
  BY DEF IsBundle
<1>2. o = Drop(b.objs, p)
  BY <1>1 DEF CompleteDelete
<1>3. DOMAIN o = DOMAIN b.objs \ {p} /\ \A q \in DOMAIN b.objs : q # p => o[q] = b.objs[q]
  BY <1>2 DEF Drop
<1> QED
  BY <1>3 DEF ListedIn

\* After an update, the clusters-per-policy bundle has the status it was given.
LEMMA CppUpdateHas ==
  ASSUME NEW b, NEW p, NEW s
  PROVE  /\ DOMAIN CppUpdate(b, p, s).objs = DOMAIN b.objs \cup {p}
         /\ CppUpdate(b, p, s).objs[p] = s
         /\ \A q \in DOMAIN b.objs : q # p => CppUpdate(b, p, s).objs[q] = b.objs[q]
<1> DEFINE o == CppUpdate(b, p, s).objs
<1>1. o = Put(b.objs, p, s)
  BY DEF CppUpdate
<1> QED
  BY <1>1 DEF Put

\* After a removal, it has no status of the policy.
LEMMA CppDeleteHas ==
  ASSUME NEW b, NEW p
  PROVE  /\ DOMAIN CppDelete(b, p).objs = DOMAIN b.objs \ {p}
         /\ \A q \in DOMAIN b.objs : q # p => CppDelete(b, p).objs[q] = b.objs[q]
<1> DEFINE o == CppDelete(b, p).objs
<1>1. CASE p \in DOMAIN b.objs
  <2>1. o = Drop(b.objs, p)
    BY <1>1 DEF CppDelete
  <2> QED
    BY <2>1 DEF Drop
<1>2. CASE p \notin DOMAIN b.objs
  BY <1>2 DEF CppDelete
<1> QED
  BY <1>1, <1>2

\* A clusters-per-policy bundle without a new version has the policies, and
\* the clusters of each, that it had.
LEMMA CppVersion ==
  ASSUME NEW b, IsBundle(b, Statuses), NEW p, NEW s
  PROVE  /\ CppUpdate(b, p, s).gen \in {b.gen, b.gen + 1}
         /\ CppUpdate(b, p, s).gen = b.gen => p \in DOMAIN b.objs /\ ClustersOf(b.objs[p]) = ClustersOf(s)
         /\ CppDelete(b, p).gen \in {b.gen, b.gen + 1}
         /\ CppDelete(b, p).gen = b.gen => CppDelete(b, p) = b
BY DEF IsBundle, CppUpdate, CppDelete, ClusterListChanged

\* A complete-state bundle without a new version is as it was, but for a
\* policy that was removed.
LEMMA CompleteVersion ==
  ASSUME NEW b, IsBundle(b, FailingLists), NEW p, NEW s
  PROVE  /\ CompleteUpdate(b, p, s).gen \in {b.gen, b.gen + 1}
         /\ CompleteUpdate(b, p, s).gen = b.gen => CompleteUpdate(b, p, s) = b
         /\ CompleteDelete(b, p).gen = b.gen
<1>1. PICK m, n : b = [objs |-> m, gen |-> n] /\ n \in Nat
  BY DEF IsBundle
<1>2. CompleteDelete(b, p).gen = b.gen
  BY <1>1 DEF CompleteDelete
<1> QED
  BY <1>1, <1>2 DEF CompleteUpdate

\* Its clusters and those that fail make out a policy's status.
LEMMA SameStatus ==
  ASSUME NEW r \in Statuses, NEW s \in Statuses,
         ClustersOf(r) = ClustersOf(s), Failing(r) = Failing(s)
  PROVE  r = s
<1> USE DEF ComplianceState
<1>1. r \in [ComplianceState -> SUBSET Clusters] /\ s \in [ComplianceState -> SUBSET Clusters]
  BY DEF Statuses, Lists
<1>2. \A k \in {"nonCompliant", "unknown"} : r[k] = s[k]
  BY DEF Failing, FailingState
<1>3. /\ r["compliant"] = ClustersOf(r) \ (r["nonCompliant"] \cup r["unknown"])
      /\ s["compliant"] = ClustersOf(s) \ (s["nonCompliant"] \cup s["unknown"])
  BY DEF Statuses, ClustersOf
<1>4. \A k \in ComplianceState : r[k] = s[k]
  BY <1>2, <1>3
<1> QED
  BY <1>1, <1>4

\* After an update, the minimal bundle sums up the status it was given.
LEMMA MinimalUpdateHas ==
  ASSUME NEW b, NEW p, NEW s, NEW a
  PROVE  /\ DOMAIN MinimalUpdate(b, p, s, a).objs = DOMAIN b.objs \cup {p}
         /\ MinimalUpdate(b, p, s, a).objs[p] = Summary(s, MinimalUpdate(b, p, s, a).objs[p].remediationAction)
         /\ \A q \in DOMAIN b.objs : q # p => MinimalUpdate(b, p, s, a).objs[q] = b.objs[q]
<1> DEFINE o == MinimalUpdate(b, p, s, a).objs
<1>1. Summary(s, a) = Summary(s, Summary(s, a).remediationAction)
  BY DEF Summary
<1>2. CASE p \in DOMAIN b.objs /\ b.objs[p] = Summary(s, a)
  BY <1>1, <1>2 DEF MinimalUpdate, SummaryChanged
<1>3. CASE ~(p \in DOMAIN b.objs /\ b.objs[p] = Summary(s, a))
  <2>1. o = Put(b.objs, p, Summary(s, a))
    BY <1>3 DEF MinimalUpdate, SummaryChanged
  <2>2. /\ DOMAIN o = DOMAIN b.objs \cup {p} /\ o[p] = Summary(s, a)
        /\ \A q \in DOMAIN b.objs : q # p => o[q] = b.objs[q]
    BY <2>1 DEF Put
  <2> QED
    BY <1>1, <2>2
<1> QED
  BY <1>2, <1>3

\* After a removal, it has no summary of the policy.
LEMMA MinimalDeleteHas ==
  ASSUME NEW b, NEW p
  PROVE  /\ DOMAIN MinimalDelete(b, p).objs = DOMAIN b.objs \ {p}
         /\ \A q \in DOMAIN b.objs : q # p => MinimalDelete(b, p).objs[q] = b.objs[q]
<1> DEFINE o == MinimalDelete(b, p).objs
<1>1. CASE p \in DOMAIN b.objs
  <2>1. o = Drop(b.objs, p)
    BY <1>1 DEF MinimalDelete
  <2> QED
    BY <2>1 DEF Drop
<1>2. CASE p \notin DOMAIN b.objs
  BY <1>2 DEF MinimalDelete
<1> QED
  BY <1>1, <1>2

=============================================================================
