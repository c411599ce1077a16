--------------------------- MODULE LocalPolicies ---------------------------
(***************************************************************************)
(* The policies and the local policies controller at work on the same      *)
(* Policy objects.  Complementary event filters share the objects out by   *)
(* the annotation of the origin; cache and finalizer are common to both.   *)
(* The local policies controller hands an object to three bundles, one     *)
(* after the other, and sends what the configuration lets it send.         *)
(*                                                                         *)
(* Of the policies controller, see HybridSync, the one bundle stands here  *)
(* that tells what it reports.  Policies are the policies' UIDs.           *)
(***************************************************************************)
EXTENDS ComplianceBundles, Sequences, SequencesExt

CONSTANTS
    Names,           \* request.NamespacedName
    NoPolicy,        \* the UID of nothing
    StatusValues,    \* bound: the statuses that occur
    MaxChanges       \* bound: writes of others and of the configuration

ASSUME LocalAssumption ==
    /\ NoPolicy \notin Policies
    /\ StatusValues \subseteq Statuses
    /\ MaxChanges \in Nat

VARIABLES
    log, seen,      \* the API server and the cache, see GenericStatusSync
    queue,          \* requests waiting for each controller's reconciler
    worker,         \* what each reconciler is doing
    cpp, complete, spec, \* the local policies controller's bundles
    lastSent,       \* generation of each entry's lastSentBundleVersion
    pass,           \* entries syncBundles is past; 0: nobody holds the lock
    reported,       \* the policies controller's ClustersPerPolicyBundle
    full, enabled,  \* whether AggregationLevel is Full; EnableLocalPolicies
    received,       \* what the hub of hubs was told of the local policies
    mixed,          \* history: names whose policies were of both kinds
    changes         \* counts writes of others and of the configuration

cluster == <<log, seen, mixed>>
bundles == <<cpp, complete, spec>>
sync    == <<lastSent, pass, received>>
config  == <<full, enabled, changes>>
vars    == <<cluster, queue, worker, bundles, reported, sync, config>>

Controllers == {"local", "global"}

---------------------------------------------------------------------------
(* The API server.  owner tells whether the annotation of the origin is    *)
(* absent or present; its value, the origin's id, is the policy's name     *)
(* here.                                                                   *)

NoStatus == [k \in ComplianceState |-> {}]

Absent == [uid |-> NoPolicy, deleting |-> FALSE, finalizer |-> FALSE,
           owner |-> "local", status |-> NoStatus]

States == [uid : Policies \cup {NoPolicy}, deleting : BOOLEAN, finalizer : BOOLEAN,
           owner : Controllers, status : Statuses]

Exists(s) == s.uid # NoPolicy

StateAt(n, rv) == IF rv = 0 THEN Absent ELSE log[n][rv]

Current(n) == StateAt(n, Len(log[n]))

Live(n) == Exists(Current(n)) /\ ~Current(n).deleting

Finalized(s) == IF s.deleting /\ ~s.finalizer THEN Absent ELSE s

Write(n, s) == log' = [log EXCEPT ![n] = Append(@, Finalized(s))]

Idle == [step |-> "idle", name |-> "none", rv |-> 0]

Entries == {"cpp", "complete", "spec"}

Init ==
    /\ log = [n \in Names |-> <<>>]
    /\ seen = [n \in Names |-> 0]
    /\ queue = [c \in Controllers |-> {}]
    /\ worker = [c \in Controllers |-> Idle]
    /\ cpp = [objs |-> EmptyMap, gen |-> 0]
    /\ complete = [objs |-> EmptyMap, gen |-> 0]
    /\ spec = [objs |-> {}, gen |-> 0]
    /\ lastSent = [e \in Entries |-> 0]
    /\ pass = 0
    /\ reported = [n \in {} |-> NoStatus]
    /\ full = FALSE /\ enabled = FALSE
    /\ received = [status |-> EmptyMap, spec |-> {}]
    /\ mixed = {}
    /\ changes = 0

---------------------------------------------------------------------------
(* Others write policies.                                                  *)

WriteByOthers(n, s) ==
    /\ changes < MaxChanges
    /\ changes' = changes + 1
    /\ Write(n, s)
    /\ mixed' = IF \E i \in DOMAIN log[n] : Exists(log[n][i]) /\ log[n][i].owner # s.owner
                THEN mixed \cup {n} ELSE mixed
    /\ UNCHANGED <<seen, queue, worker, bundles, reported, sync, full, enabled>>

Used == {s.uid : s \in UNION {Range(log[n]) : n \in Names}}

Create(n) ==
    /\ ~Exists(Current(n))
    /\ \E u \in Policies \ Used, o \in Controllers, s \in StatusValues :
         WriteByOthers(n, [Absent EXCEPT !.uid = u, !.owner = o, !.status = s])

SetStatus(n) ==
    /\ Exists(Current(n))
    /\ \E s \in StatusValues \ {Current(n).status} :
         WriteByOthers(n, [Current(n) EXCEPT !.status = s])

\* The annotation of the origin is added or removed.
ChangeOwner(n) ==
    /\ Exists(Current(n))
    /\ \E o \in Controllers \ {Current(n).owner} :
         WriteByOthers(n, [Current(n) EXCEPT !.owner = o])

RequestDelete(n) ==
    /\ Live(n)
    /\ WriteByOthers(n, [Current(n) EXCEPT !.deleting = TRUE])

---------------------------------------------------------------------------
(* controller-runtime.                                                     *)

\* Mutated forms: objects that are being deleted are filtered out; the
\* filter of the local policies controller lets everything pass.
PassesUnlessDeleted(c, s) == s.owner = c /\ ~s.deleting

PassesLocally(c, s) == c = "local" \/ s.owner = c

\* localPolicyPredicate and ownerRefAnnotationPredicate.
Passes(c, s) == s.owner = c

\* An event shows the filters the object's new state, or its last one.
Watch(n) ==
    /\ seen[n] < Len(log[n])
    /\ seen' = [seen EXCEPT ![n] = @ + 1]
    /\ LET new   == StateAt(n, seen[n] + 1)
           event == IF Exists(new) THEN new ELSE StateAt(n, seen[n])
       IN  queue' = [c \in Controllers |-> IF Passes(c, event) THEN queue[c] \cup {n} ELSE queue[c]]
    /\ UNCHANGED <<log, mixed, worker, bundles, reported, sync, config>>

---------------------------------------------------------------------------
(* Reconcile, which does not look at the filter again.                     *)

FirstStep(s) == IF s.deleting THEN "delete" ELSE IF s.finalizer THEN "update" ELSE "finalize"

Goto(c, w) == worker' = [worker EXCEPT ![c] = w]

Reconcile(c, n) ==
    /\ worker[c] = Idle /\ n \in queue[c]
    /\ queue' = [queue EXCEPT ![c] = @ \ {n}]
    /\ LET s == StateAt(n, seen[n])
       IN  Goto(c, IF Exists(s) THEN [step |-> FirstStep(s), name |-> n, rv |-> seen[n]] ELSE Idle)
    /\ UNCHANGED <<cluster, bundles, reported, sync, config>>

InHand(c) == StateAt(worker[c].name, worker[c].rv)

\* client.Update; on a conflict Reconcile returns an error and is retried.
Update(c, s, next) ==
    /\ IF worker[c].rv = Len(log[worker[c].name])
       THEN Write(worker[c].name, s) /\ Goto(c, next) /\ UNCHANGED queue
       ELSE /\ Goto(c, Idle)
            /\ queue' = [queue EXCEPT ![c] = @ \cup {worker[c].name}]
            /\ UNCHANGED log
    /\ UNCHANGED <<seen, mixed, bundles, reported, sync, config>>

AddFinalizer(c) ==
    /\ worker[c].step = "finalize"
    /\ Update(c, [InHand(c) EXCEPT !.finalizer = TRUE],
              [step |-> "update", name |-> worker[c].name, rv |-> worker[c].rv + 1])

RemoveFinalizer(c) ==
    /\ worker[c].step = "release"
    /\ Update(c, [InHand(c) EXCEPT !.finalizer = FALSE], Idle)

\* Mutated forms of the order in which createBundleCollection lists them.
SpecFirst == <<"spec", "cpp", "complete">>

SpecSecond == <<"cpp", "spec", "complete">>

Collection == <<"cpp", "complete", "spec">>

\* All entries are handed one object, whose status cleanPolicy clears on
\* behalf of the spec bundle.
StatusFor(e, s) ==
    IF \E j \in DOMAIN Collection : Collection[j] = e /\ Contains(SubSeq(Collection, 1, j - 1), "spec")
    THEN NoStatus ELSE s.status

\* An object as the spec bundle holds it.
Clean(n, rv) == [uid |-> StateAt(n, rv).uid, name |-> n, rv |-> rv]

\* GenericStatusBundle.
SpecUpdate(b, o) ==
    IF o \in b.objs THEN b ELSE [objs |-> {q \in b.objs : q.uid # o.uid} \cup {o}, gen |-> b.gen + 1]

\* Mutated form: the version goes back.
SpecDeleteDecrementing(b, u) ==
    IF \E q \in b.objs : q.uid = u
    THEN [objs |-> {q \in b.objs : q.uid # u}, gen |-> b.gen - 1] ELSE b

SpecDelete(b, u) ==
    IF \E q \in b.objs : q.uid = u
    THEN [objs |-> {q \in b.objs : q.uid # u}, gen |-> b.gen + 1] ELSE b

\* The bundles under the controller's lock, which a pass holds as well.
UpdateLocal ==
    LET s == InHand("local")
    IN  /\ worker["local"].step = "update" /\ pass = 0
        /\ cpp' = CppUpdate(cpp, s.uid, StatusFor("cpp", s))
        /\ complete' = CompleteUpdate(complete, s.uid, StatusFor("complete", s))
        /\ spec' = SpecUpdate(spec, Clean(worker["local"].name, worker["local"].rv))
        /\ Goto("local", Idle)
        /\ UNCHANGED <<cluster, queue, reported, sync, config>>

AfterDelete(c) == IF InHand(c).finalizer THEN [worker[c] EXCEPT !.step = "release"] ELSE Idle

DeleteLocal ==
    LET u == InHand("local").uid
    IN  /\ worker["local"].step = "delete" /\ pass = 0
        /\ cpp' = CppDelete(cpp, u)
        /\ complete' = CompleteDelete(complete, u)
        /\ spec' = SpecDelete(spec, u)
        /\ Goto("local", AfterDelete("local"))
        /\ UNCHANGED <<cluster, queue, reported, sync, config>>

\* extractPolicyID finds no id without the annotation: nothing is done then.
UpdateGlobal ==
    LET s == InHand("global")
    IN  /\ worker["global"].step = "update"
        /\ reported' = IF s.owner = "global" THEN Put(reported, worker["global"].name, s.status)
                       ELSE reported
        /\ Goto("global", Idle)
        /\ UNCHANGED <<cluster, queue, bundles, sync, config>>

DeleteGlobal ==
    /\ worker["global"].step = "delete"
    /\ reported' = IF InHand("global").owner = "global" THEN Drop(reported, worker["global"].name)
                   ELSE reported
    /\ Goto("global", AfterDelete("global"))
    /\ UNCHANGED <<cluster, queue, bundles, sync, config>>

Work(c) ==
    \/ AddFinalizer(c) \/ RemoveFinalizer(c)
    \/ c = "local" /\ (UpdateLocal \/ DeleteLocal)
    \/ c = "global" /\ (UpdateGlobal \/ DeleteGlobal)

---------------------------------------------------------------------------
(* syncBundles of the local policies controller.                           *)

\* localPolicyStatusPredicate, and the spec entry's.
Predicate(e) == enabled /\ (e = "spec" \/ full)

GenerationOf(e) == CASE e = "cpp"      -> cpp.gen
                     [] e = "complete" -> complete.gen
                     [] e = "spec"     -> spec.gen

\* The hub of hubs takes the complete-state bundle for a statement on the
\* policies and clusters it knows: those it does not list are compliant.
ReceivedComplete ==
    [p \in DOMAIN received.status |->
        LET known   == ClustersOf(received.status[p])
            failing == IF p \in DOMAIN complete.objs THEN complete.objs[p] ELSE Failing(NoStatus)
        IN  [k \in ComplianceState |->
                IF k = "compliant" THEN known \ (failing["nonCompliant"] \cup failing["unknown"])
                ELSE known \cap failing[k]]]

Received(e) == CASE e = "cpp"      -> [received EXCEPT !.status = cpp.objs]
                 [] e = "complete" -> [received EXCEPT !.status = ReceivedComplete]
                 [] e = "spec"     -> [received EXCEPT !.spec = spec.objs]

\* Mutated form: an entry whose predicate does not hold counts as sent.
SyncedAlways(e) ==
    /\ received' = IF Predicate(e) THEN Received(e) ELSE received
    /\ lastSent' = [lastSent EXCEPT ![e] = GenerationOf(e)]

Synced(e) ==
    IF Predicate(e) /\ GenerationOf(e) > lastSent[e]
    THEN /\ received' = Received(e)
         /\ lastSent' = [lastSent EXCEPT ![e] = GenerationOf(e)]
    ELSE UNCHANGED <<received, lastSent>>

\* The first entry comes with the lock, the last one gives it back.
SyncEntry ==
    /\ Synced(Collection[pass + 1])
    /\ pass' = (pass + 1) % Len(Collection)
    /\ UNCHANGED <<cluster, queue, worker, bundles, reported, config>>

\* The config controller decodes into the object the predicates read.
SetConfig ==
    /\ changes < MaxChanges
    /\ changes' = changes + 1
    /\ full' \in BOOLEAN /\ enabled' \in BOOLEAN
    /\ <<full', enabled'>> # <<full, enabled>>
    /\ UNCHANGED <<cluster, queue, worker, bundles, reported, sync>>

---------------------------------------------------------------------------
Next ==
    \/ \E n \in Names :
         \/ Create(n) \/ SetStatus(n) \/ ChangeOwner(n) \/ RequestDelete(n)
         \/ Watch(n)
         \/ \E c \in Controllers : Reconcile(c, n)
    \/ \E c \in Controllers : Work(c)
    \/ SyncEntry \/ SetConfig

Spec == Init /\ [][Next]_vars

---------------------------------------------------------------------------
(* Properties.                                                             *)

SpecObjects == [uid : Policies, name : Names, rv : Nat \ {0}]

\* A reconciler is idle, or works on an existing state of an object.
WorkerOK(c) ==
    \/ worker[c] = Idle
    \/ /\ worker[c] \in [step : {"finalize", "update", "delete", "release"}, name : Names, rv : Nat]
       /\ worker[c].rv \in 1..Len(log[worker[c].name])
       /\ Exists(InHand(c))

\* Every variable has its type; a list never has a cluster twice.
TypeOK ==
    /\ log \in [Names -> Seq(States)]
    /\ seen \in [Names -> Nat] /\ \A n \in Names : seen[n] <= Len(log[n])
    /\ queue \in [Controllers -> SUBSET Names]
    /\ worker = [c \in Controllers |-> worker[c]] /\ \A c \in Controllers : WorkerOK(c)
    /\ IsBundle(cpp, Statuses)
    /\ IsBundle(complete, FailingLists)
    /\ spec \in [objs : SUBSET SpecObjects, gen : Nat]
    /\ lastSent \in [Entries -> Nat] /\ \A e \in Entries : lastSent[e] <= GenerationOf(e)
    /\ pass \in 0..2
    /\ DOMAIN reported \subseteq Names /\ reported \in [DOMAIN reported -> Statuses]
    /\ full \in BOOLEAN /\ enabled \in BOOLEAN
    /\ received = [status |-> received.status, spec |-> received.spec]
    /\ IsMap(received.status, Statuses) /\ received.spec \subseteq SpecObjects
    /\ mixed \subseteq Names
    /\ changes \in 0..MaxChanges

\* The three bundles hold the same policies with the same states, though
\* they are handed one object that one of them changes.
LocalBundlesAgree ==
    /\ DOMAIN cpp.objs = {o.uid : o \in spec.objs}
    /\ \A p \in DOMAIN cpp.objs :
         LET failing == Failing(cpp.objs[p])
         IN  IF HasFailing(failing) THEN p \in DOMAIN complete.objs /\ complete.objs[p] = failing
             ELSE p \notin DOMAIN complete.objs
    /\ DOMAIN complete.objs \subseteq DOMAIN cpp.objs

\* Nothing is left to reconcile.
Reconciled ==
    /\ \A c \in Controllers : queue[c] = {} /\ worker[c] = Idle
    /\ \A n \in Names : seen[n] = Len(log[n])

\* When nothing is left to reconcile, a policy is reported, as it is, by the
\* controller it belongs to, however it came there.
OwnerReports ==
    Reconciled =>
        \A n \in Names : Live(n) =>
            LET s == Current(n)
            IN  IF s.owner = "local"
                THEN /\ s.uid \in DOMAIN cpp.objs /\ cpp.objs[s.uid] = s.status
                     /\ Clean(n, Len(log[n])) \in spec.objs
                ELSE n \in DOMAIN reported /\ reported[n] = s.status

\* ... and by it alone: what else is reported are leftovers of names whose
\* policies were of both kinds.
OthersDoNot ==
    Reconciled =>
        /\ \A o \in spec.objs : o.name \notin mixed =>
             Live(o.name) /\ Current(o.name).uid = o.uid /\ Current(o.name).owner = "local"
        /\ \A n \in DOMAIN reported : n \notin mixed => Live(n) /\ Current(n).owner = "global"

\* Nothing is lost to configuration changes, in the middle of a pass or
\* between passes: when all versions are sent, the hub of hubs was told of
\* every local policy's status and spec.
LocalNothingLost ==
    (\A e \in Entries : lastSent[e] = GenerationOf(e))
        => received = [status |-> cpp.objs, spec |-> spec.objs]

\* The shared finalizer holds up no deletion: when nothing is left to
\* reconcile, no policy waits to be deleted, with two controllers that add
\* and remove the finalizer and a policy that changes hands meanwhile.
NoneStuck ==
    Reconciled => \A n \in Names : ~(Exists(Current(n)) /\ Current(n).deleting)

=============================================================================
