------------------------- MODULE ComplianceBundles -------------------------
(***************************************************************************)
(* The four status bundles of the policies controller as data: what        *)
(* UpdateObject, DeleteObject, Reset and SyncState make of a bundle.       *)
(*                                                                         *)
(* A policy's status is a list of (cluster, compliance) pairs in which a   *)
(* cluster occurs once; it is modelled as the three cluster lists that the *)
(* bundles split it into.  A bundle's Objects slice, searched by policy    *)
(* id, is a map from the ids it contains; the order of the slice is        *)
(* abstracted away.  A BundleVersion is its Generation: the incarnation is *)
(* constant in the lifetime of a process.                                  *)
(***************************************************************************)
EXTENDS Naturals, FiniteSets

CONSTANTS
    Policies,           \* origin policy ids (extractPolicyID)
    Clusters,           \* managed cluster names
    RemediationActions  \* values of policy.Spec.RemediationAction

ASSUME ClustersFinite == IsFiniteSet(Clusters)

ComplianceState == {"compliant", "nonCompliant", "unknown"}

\* Three cluster lists: PolicyGenericComplianceStatus, and a policy's record
\* in the delta bundle's complianceRecordsCache.
Lists == [ComplianceState -> SUBSET Clusters]

\* The lists of one policy status: no cluster is in two of them.
Statuses == {s \in Lists : \A j, k \in ComplianceState : j # k => s[j] \cap s[k] = {}}

ClustersOf(s) == s["compliant"] \cup s["nonCompliant"] \cup s["unknown"]

---------------------------------------------------------------------------
(* Maps keyed by policy id.                                                *)

IsMap(m, R) == DOMAIN m \subseteq Policies /\ m \in [DOMAIN m -> R]

EmptyMap == [p \in {} |-> {}]

Put(m, p, v) == [q \in DOMAIN m \cup {p} |-> IF q = p THEN v ELSE m[q]]

Drop(m, p) == [q \in DOMAIN m \ {p} |-> m[q]]

\* What every bundle has: Objects, and the Generation of its BundleVersion.
IsBundle(b, R) ==
    /\ b = [objs |-> b.objs, gen |-> b.gen]
    /\ IsMap(b.objs, R)
    /\ b.gen \in Nat

---------------------------------------------------------------------------
(* ClustersPerPolicyBundle: the full state, the base of the others.  Only  *)
(* a change of the set of policies or clusters makes a new version.        *)

ClusterListChanged(old, s) == ClustersOf(old) # ClustersOf(s)

CppUpdate(b, p, s) ==
    [objs |-> Put(b.objs, p, s),
     gen  |-> IF p \in DOMAIN b.objs /\ ~ClusterListChanged(b.objs[p], s)
              THEN b.gen ELSE b.gen + 1]

CppDelete(b, p) ==
    IF p \in DOMAIN b.objs THEN [objs |-> Drop(b.objs, p), gen |-> b.gen + 1] ELSE b

---------------------------------------------------------------------------
(* ComplianceStatusBundle: the complete-state bundle lists, of the         *)
(* policies that have some, the clusters that are not compliant.           *)

FailingState == {"nonCompliant", "unknown"}

FailingLists ==
    {f \in [FailingState -> SUBSET Clusters] : f["nonCompliant"] \cap f["unknown"] = {}}

Failing(s) == [k \in FailingState |-> s[k]]

HasFailing(f) == \E k \in FailingState : f[k] # {}

\* Mutated form: clusterListsEqual without comparing the lengths.
FailingAdded(old, failing) == \E k \in FailingState : ~(failing[k] \subseteq old[k])

FailingChanged(old, failing) == old # failing

CompleteUpdate(b, p, s) ==
    LET failing == Failing(s)
        objs    == IF HasFailing(failing) THEN Put(b.objs, p, failing) ELSE Drop(b.objs, p)
        changed == IF p \in DOMAIN b.objs THEN FailingChanged(b.objs[p], failing)
                   ELSE HasFailing(failing)
    IN  IF changed THEN [objs |-> objs, gen |-> b.gen + 1] ELSE b

\* No new version: the clusters-per-policy bundle reports the removal.
CompleteDelete(b, p) == [b EXCEPT !.objs = Drop(@, p)]

---------------------------------------------------------------------------
(* DeltaComplianceStatusBundle: the changes since the last Reset, computed *)
(* against records of what each policy's status was.                       *)

DeltaBundle(objs, gen, records, base, id) ==
    [objs |-> objs, gen |-> gen, records |-> records, base |-> base, id |-> id]

IsDeltaBundle(b) ==
    /\ b = DeltaBundle(b.objs, b.gen, b.records, b.base, b.id)
    /\ IsMap(b.objs, Statuses)
    /\ IsMap(b.records, Lists)
    /\ b.gen \in Nat /\ b.base \in Nat /\ b.id \in Nat

\* getChangedClusters: a cluster already on record in its state is skipped.
Changed(record, s) == [k \in ComplianceState |-> s[k] \ record[k]]

\* Mutated form: the clusters of c keep their old state as well.
OverrideWithoutRemoving(s, c) == [k \in ComplianceState |-> s[k] \cup c[k]]

\* Overriding the state of the clusters of c; both the records and the
\* pending object of a policy are updated this way.
Override(s, c) == [k \in ComplianceState |-> (s[k] \ ClustersOf(c)) \cup c[k]]

\* Mutated form: the pending object only grows.
PendingAppended(b, p, changed) ==
    IF p \in DOMAIN b.objs THEN [k \in ComplianceState |-> b.objs[p][k] \cup changed[k]] ELSE changed

Pending(b, p, changed) ==
    IF p \in DOMAIN b.objs THEN Override(b.objs[p], changed) ELSE changed

\* Mutated form: getChangedClusters only reports.
NotRecorded(b, p, changed) == b.records

Recorded(b, p, changed) == Put(b.records, p, Override(b.records[p], changed))

\* base is the clusters-per-policy bundle's Objects, already updated.
RecordsFromBase(b, p, base) ==
    IF p \in DOMAIN base THEN [b EXCEPT !.records = Put(@, p, base[p])] ELSE b

\* The first status of a policy only makes its records.
DeltaUpdate(b, p, s, base) ==
    IF p \notin DOMAIN b.records
    THEN RecordsFromBase(b, p, base)
    ELSE LET changed == Changed(b.records[p], s)
         IN  IF ClustersOf(changed) = {}
             THEN b
             ELSE DeltaBundle(Put(b.objs, p, Pending(b, p, changed)), b.gen + 1,
                              Recorded(b, p, changed), b.base, b.id)

\* Only a policy with pending changes is removed, and no version is made.
DeltaDelete(b, p) ==
    IF p \in DOMAIN b.objs
    THEN DeltaBundle(Drop(b.objs, p), b.gen, Drop(b.records, p), b.base, b.id)
    ELSE b

\* Mutated form: the next bundle has the same id.
DeltaResetKeepingId(b) == [b EXCEPT !.objs = EmptyMap]

\* Reset: flush the pending changes, the next bundle gets the next id.
DeltaReset(b) == DeltaBundle(EmptyMap, b.gen, b.records, b.base, b.id + 1)

\* Mutated form: the base is not brought up to date.
DeltaSyncVersionNever(b, completeGen) == b

\* SyncState: base becomes the complete bundle's version, ...
DeltaSyncVersion(b, completeGen) == [b EXCEPT !.base = completeGen]

\* ... the records the clusters-per-policy bundle's Objects.
DeltaSyncRecords(b, base) == DeltaBundle(b.objs, b.gen, base, b.base, 0)

DeltaSyncState(b, completeGen, base) == DeltaSyncRecords(DeltaSyncVersion(b, completeGen), base)

---------------------------------------------------------------------------
(* MinimalComplianceStatusBundle: counts instead of cluster lists.         *)

Summaries == [remediationAction : RemediationActions,
              appliedClusters : Nat, nonCompliantClusters : Nat]

Summary(s, a) ==
    [remediationAction    |-> a,
     appliedClusters      |-> Cardinality(ClustersOf(s)),
     nonCompliantClusters |-> Cardinality(s["nonCompliant"] \cup s["unknown"])]

\* Mutated form: updateObjectIfChanged without its last comparison.
AppliedChanged(old, new) ==
    \/ old.remediationAction # new.remediationAction
    \/ old.appliedClusters # new.appliedClusters

SummaryChanged(old, new) == old # new

MinimalUpdate(b, p, s, a) ==
    IF p \in DOMAIN b.objs /\ ~SummaryChanged(b.objs[p], Summary(s, a))
    THEN b
    ELSE [objs |-> Put(b.objs, p, Summary(s, a)), gen |-> b.gen + 1]

MinimalDelete(b, p) ==
    IF p \in DOMAIN b.objs THEN [objs |-> Drop(b.objs, p), gen |-> b.gen + 1] ELSE b

=============================================================================
