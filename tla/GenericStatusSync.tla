------------------------- MODULE GenericStatusSync -------------------------
(***************************************************************************)
(* A generic status sync controller with one generic status bundle, as for *)
(* managed clusters, placements or subscriptions, in a process that may    *)
(* crash and start again: the API server's objects, the cache and queue of *)
(* controller-runtime, the reconciler with its finalizer, the bundle, the  *)
(* periodic sync, and the hub of hubs at the other end of the transport.   *)
(***************************************************************************)
EXTENDS BundleVersion, Sequences

CONSTANTS
    Names,           \* request.NamespacedName
    OtherFinalizers, \* whether objects may have finalizers of other programs
    Lossy,           \* whether the transport may lose a message
    MaxChanges,      \* bound: writes of other programs
    MaxErrors,       \* bound: API calls with an error that is no conflict
    MaxCrashes       \* bound: restarts

ASSUME BoundsAssumption ==
    /\ OtherFinalizers \in BOOLEAN
    /\ Lossy \in BOOLEAN
    /\ MaxChanges \in Nat
    /\ MaxErrors \in Nat
    /\ MaxCrashes \in Nat

VARIABLES
    log,         \* the API server's states of each object; a state's index
                 \* is its resource version
    seen,        \* resource version of each object in the cache
    queue,       \* requests waiting for the reconciler
    worker,      \* what the reconciler is doing
    bundle,      \* GenericStatusBundle
    lastSent,    \* generation of lastSentBundleVersion
    incarnation, \* of this process; kept in a config map
    inFlight,    \* messages under way
    known,       \* the snapshot the hub of hubs goes by
    latest,      \* history: version of the last message sent
    newest,      \* history: newest state of each object ever known
    changes, errors, crashes \* count writes of others, errors and restarts

cluster == <<log, seen>>
process == <<queue, worker, bundle, lastSent, incarnation>>
hub     == <<inFlight, known, latest, newest>>
bounds  == <<changes, errors, crashes>>
vars    == <<cluster, process, hub, bounds>>

---------------------------------------------------------------------------
(* The API server.  Of an object's metadata the code looks at its UID, its *)
(* deletion timestamp and its finalizers.                                  *)

Absent == [uid |-> 0, deleting |-> FALSE, finalizer |-> FALSE, others |-> FALSE]

States == [uid : Nat, deleting : BOOLEAN, finalizer : BOOLEAN, others : BOOLEAN]

Exists(s) == s.uid # 0

StateAt(n, rv) == IF rv = 0 THEN Absent ELSE log[n][rv]

Current(n) == StateAt(n, Len(log[n]))

\* An object that is being deleted goes with its last finalizer.
Finalized(s) == IF s.deleting /\ ~s.finalizer /\ ~s.others THEN Absent ELSE s

Write(n, s) == log' = [log EXCEPT ![n] = Append(@, Finalized(s))]

\* An object as bundles hold it; cleanObject strips the rest.
Clean(n, rv) == [name |-> n, uid |-> StateAt(n, rv).uid, rv |-> rv]

Live == {Clean(n, Len(log[n])) : n \in {m \in Names : Exists(Current(m)) /\ ~Current(m).deleting}}

---------------------------------------------------------------------------
Idle == [step |-> "idle", name |-> "none", rv |-> 0]

Working(step, n, rv) == [step |-> step, name |-> n, rv |-> rv]

EmptyBundle == [objs |-> {}, gen |-> 0]

Init ==
    /\ log = [n \in Names |-> <<>>]
    /\ seen = [n \in Names |-> 0]
    /\ queue = {}
    /\ worker = Idle
    /\ bundle = EmptyBundle
    /\ lastSent = 0
    /\ incarnation = 0
    /\ inFlight = <<>>
    /\ known = [version |-> NewBundleVersion(0, 0), objs |-> {}]
    /\ latest = NewBundleVersion(0, 0)
    /\ newest = [n \in Names |-> 0]
    /\ changes = 0
    /\ errors = 0
    /\ crashes = 0

---------------------------------------------------------------------------
(* Others write objects.                                                   *)

WriteByOthers(n, s) ==
    /\ changes < MaxChanges
    /\ changes' = changes + 1
    /\ Write(n, s)
    /\ UNCHANGED <<seen, process, hub, errors, crashes>>

Create(n) ==
    /\ ~Exists(Current(n))
    /\ \E others \in BOOLEAN :
         /\ others => OtherFinalizers
         /\ WriteByOthers(n, [Absent EXCEPT !.uid = Len(log[n]) + 1, !.others = others])

Modify(n) ==
    /\ Exists(Current(n))
    /\ WriteByOthers(n, Current(n))

RequestDelete(n) ==
    /\ Exists(Current(n)) /\ ~Current(n).deleting
    /\ WriteByOthers(n, [Current(n) EXCEPT !.deleting = TRUE])

ReleaseByOthers(n) ==
    /\ Current(n).others
    /\ WriteByOthers(n, [Current(n) EXCEPT !.others = FALSE])

---------------------------------------------------------------------------
(* controller-runtime: a watch brings the cache from state to state and    *)
(* queues a request; so does a resync, for what is in the cache.           *)

Watch(n) ==
    /\ seen[n] < Len(log[n])
    /\ seen' = [seen EXCEPT ![n] = @ + 1]
    /\ queue' = queue \cup {n}
    /\ UNCHANGED <<log, worker, bundle, lastSent, incarnation, hub, bounds>>

Resync(n) ==
    /\ Exists(StateAt(n, seen[n]))
    /\ queue' = queue \cup {n}
    /\ UNCHANGED <<cluster, worker, bundle, lastSent, incarnation, hub, bounds>>

---------------------------------------------------------------------------
(* Reconcile.                                                              *)

\* Mutated form: the bundle is told of an object without a finalizer.
FirstStepUnguarded(s) == IF s.deleting THEN "delete" ELSE "update"

FirstStep(s) ==
    CASE s.deleting                   -> "delete"
      [] ~s.deleting /\ ~s.finalizer  -> "finalize"
      [] ~s.deleting /\ s.finalizer   -> "update"

\* The object is read from the cache; one that is not there needs nothing.
Reconcile(n) ==
    /\ worker = Idle /\ n \in queue
    /\ queue' = queue \ {n}
    /\ LET s == StateAt(n, seen[n])
       IN  worker' = IF Exists(s) THEN Working(FirstStep(s), n, seen[n]) ELSE Idle
    /\ UNCHANGED <<cluster, bundle, lastSent, incarnation, hub, bounds>>

\* The state of the object in the reconciler's hands.
InHand == StateAt(worker.name, worker.rv)

\* Mutated form: Reconcile returns no error.
GiveUp == worker' = Idle /\ UNCHANGED queue

\* Reconcile returns an error, and controller-runtime tries again.
Requeue == worker' = Idle /\ queue' = queue \cup {worker.name}

\* client.Update: refused if the object changed or went since it was read;
\* a call that fails for another reason may have taken effect.
Update(s, next) ==
    LET unchanged == worker.rv = Len(log[worker.name])
    IN  \/ /\ unchanged
           /\ Write(worker.name, s)
           /\ worker' = next
           /\ UNCHANGED <<queue, errors>>
        \/ /\ ~unchanged
           /\ Requeue
           /\ UNCHANGED <<log, errors>>
        \/ /\ errors < MaxErrors
           /\ errors' = errors + 1
           /\ Requeue
           /\ UNCHANGED log \/ (unchanged /\ Write(worker.name, s))

\* Mutated form: a failure to add the finalizer is only logged.
AddFinalizerAndGoOn ==
    /\ worker.step = "finalize"
    /\ IF worker.rv = Len(log[worker.name])
       THEN /\ Write(worker.name, [InHand EXCEPT !.finalizer = TRUE])
            /\ worker' = Working("update", worker.name, worker.rv + 1)
       ELSE worker' = Working("update", worker.name, worker.rv) /\ UNCHANGED log
    /\ UNCHANGED <<seen, queue, bundle, lastSent, incarnation, hub, bounds>>

\* The API server returns the object with its new resource version.
AddFinalizer ==
    /\ worker.step = "finalize"
    /\ Update([InHand EXCEPT !.finalizer = TRUE], Working("update", worker.name, worker.rv + 1))
    /\ UNCHANGED <<seen, bundle, lastSent, incarnation, hub, changes, crashes>>

\* The bundle's objects other than o; a UID is a name and a number here.
Others(b, o) == {q \in b.objs : <<q.name, q.uid>> # <<o.name, o.uid>>}

\* GenericStatusBundle.UpdateObject: the same resource version is no change.
GenericUpdate(b, o) ==
    IF o \in b.objs THEN b ELSE [objs |-> Others(b, o) \cup {o}, gen |-> b.gen + 1]

\* Mutated forms of DeleteObject: no new version; an earlier version; only
\* what comes before the object in the slice is kept.
GenericDeleteSilently(b, o) == [b EXCEPT !.objs = Others(b, o)]

GenericDeleteDecrementing(b, o) ==
    IF Others(b, o) = b.objs THEN b ELSE [objs |-> Others(b, o), gen |-> b.gen - 1]

GenericDeleteTruncating(b, o) ==
    IF Others(b, o) = b.objs THEN b ELSE [objs |-> {}, gen |-> b.gen + 1]

\* GenericStatusBundle.DeleteObject.
GenericDelete(b, o) ==
    IF Others(b, o) = b.objs THEN b ELSE [objs |-> Others(b, o), gen |-> b.gen + 1]

UpdateObject ==
    /\ worker.step = "update"
    /\ bundle' = GenericUpdate(bundle, Clean(worker.name, worker.rv))
    /\ worker' = Idle
    /\ UNCHANGED <<cluster, queue, lastSent, incarnation, hub, bounds>>

DeleteObject ==
    /\ worker.step = "delete"
    /\ bundle' = GenericDelete(bundle, Clean(worker.name, worker.rv))
    /\ worker' = IF InHand.finalizer THEN [worker EXCEPT !.step = "release"] ELSE Idle
    /\ UNCHANGED <<cluster, queue, lastSent, incarnation, hub, bounds>>

RemoveFinalizer ==
    /\ worker.step = "release"
    /\ Update([InHand EXCEPT !.finalizer = FALSE], Idle)
    /\ UNCHANGED <<seen, bundle, lastSent, incarnation, hub, changes, crashes>>

---------------------------------------------------------------------------
(* syncBundles, under the lock that excludes UpdateObject and DeleteObject.*)
(* A message that the producer or the broker refuses counts as sent.       *)

BundleVersionNow == NewBundleVersion(incarnation, bundle.gen)

Sync ==
    /\ NewerThan(BundleVersionNow, NewBundleVersion(incarnation, lastSent))
    /\ lastSent' = bundle.gen
    /\ \/ /\ inFlight' = Append(inFlight, [version |-> BundleVersionNow, objs |-> bundle.objs])
          /\ latest' = BundleVersionNow
       \/ Lossy /\ UNCHANGED <<inFlight, latest>>
    /\ UNCHANGED <<cluster, queue, worker, bundle, incarnation, known, newest, bounds>>

\* The hub of hubs ignores a bundle that is not newer than the one it has.
Deliver ==
    /\ inFlight # <<>>
    /\ inFlight' = Tail(inFlight)
    /\ LET m == Head(inFlight)
       IN  IF NewerThan(m.version, known.version)
           THEN /\ known' = m
                /\ newest' = [n \in Names |->
                     IF \E o \in m.objs : o.name = n
                     THEN (CHOOSE o \in m.objs : o.name = n).rv ELSE newest[n]]
           ELSE UNCHANGED <<known, newest>>
    /\ UNCHANGED <<cluster, process, latest, bounds>>

---------------------------------------------------------------------------
\* Mutated form: the incarnation is read and not incremented.
SameIncarnation == incarnation

NextIncarnation == incarnation + 1

\* The process ends at any point and a new one starts: everything in memory
\* is gone, with what the transport had not yet passed on; the new cache is
\* filled with what there is, and all of it is reconciled.
Crash ==
    /\ crashes < MaxCrashes
    /\ crashes' = crashes + 1
    /\ incarnation' = NextIncarnation
    /\ bundle' = EmptyBundle
    /\ lastSent' = 0
    /\ worker' = Idle
    /\ seen' = [n \in Names |-> Len(log[n])]
    /\ queue' = {n \in Names : Exists(Current(n))}
    /\ \E k \in 0..Len(inFlight) : inFlight' = SubSeq(inFlight, 1, k)
    /\ UNCHANGED <<log, known, latest, newest, changes, errors>>

---------------------------------------------------------------------------
Next ==
    \/ \E n \in Names :
         \/ Create(n) \/ Modify(n) \/ RequestDelete(n) \/ ReleaseByOthers(n)
         \/ Watch(n) \/ Resync(n) \/ Reconcile(n)
    \/ AddFinalizer \/ UpdateObject \/ DeleteObject \/ RemoveFinalizer
    \/ Sync \/ Deliver \/ Crash

Spec == Init /\ [][Next]_vars

\* The reconciler's goroutine, the ticker and the transport go on.  A queue
\* is served in order, so a request that keeps coming back is served.
Fairness ==
    /\ \A n \in Names : WF_vars(Watch(n)) /\ SF_vars(Reconcile(n))
    /\ WF_vars(AddFinalizer \/ UpdateObject \/ DeleteObject \/ RemoveFinalizer)
    /\ WF_vars(Sync)
    /\ WF_vars(Deliver)

FairSpec == Spec /\ Fairness

---------------------------------------------------------------------------
(* Properties.                                                             *)

Objects == [name : Names, uid : Nat, rv : Nat]

Snapshots == [version : Versions, objs : SUBSET Objects]

\* Every variable has its type, and the reconciler and the cache are at
\* states that the objects were in.
TypeOK ==
    /\ log \in [Names -> Seq(States)]
    /\ seen \in [Names -> Nat] /\ \A n \in Names : seen[n] <= Len(log[n])
    /\ queue \subseteq Names
    /\ \/ worker = Idle
       \/ /\ worker \in [step : {"finalize", "update", "delete", "release"}, name : Names, rv : Nat]
          /\ worker.rv \in 1..Len(log[worker.name])
    /\ bundle \in [objs : SUBSET Objects, gen : Nat]
    /\ lastSent \in 0..bundle.gen
    /\ incarnation \in Nat
    /\ inFlight \in Seq(Snapshots)
    /\ known \in Snapshots
    /\ latest \in Versions
    /\ newest \in [Names -> Nat]
    /\ changes \in 0..MaxChanges /\ errors \in 0..MaxErrors /\ crashes \in 0..MaxCrashes

\* An object is in the bundle only while the API server keeps that object,
\* with the finalizer: it cannot go before the bundle let go of it, whatever
\* the cache missed, whoever else deletes or writes it.
FinalizerGuards ==
    \A o \in bundle.objs : Current(o.name).uid = o.uid /\ Current(o.name).finalizer

\* Nothing is left to reconcile.
Reconciled ==
    /\ queue = {} /\ worker = Idle
    /\ \A n \in Names : seen[n] = Len(log[n])

\* When nothing is left to reconcile the bundle holds exactly the objects
\* that are not being deleted, as they are: no conflict, error, retry or
\* restart makes it miss a change or keep what is gone.
CaughtUp == Reconciled => bundle.objs = Live

\* When moreover nothing is left to send or under way, the hub of hubs knows
\* these objects; a bundle that is still at its first version is never sent.
NothingLost ==
    (Reconciled /\ bundle.gen > 0 /\ lastSent = bundle.gen /\ inFlight = <<>>)
        => known.objs = Live

\* The hub of hubs ceases to know an object only because the object is being
\* deleted, or as a restarted process builds its bundle anew.
OnlyDeletedDisappear ==
    [][known'.version.incarnation = known.version.incarnation =>
         \A o \in known.objs :
            \/ \E q \in known'.objs : q.name = o.name /\ q.uid = o.uid
            \/ Current(o.name).uid # o.uid \/ Current(o.name).deleting]_vars

\* The controller, its API server and its restarts come to a feed that moves
\* forward only (comment at getIncarnation: its messages are more recent
\* than all other existing ones).
TheFeed == INSTANCE Feed WITH channel <- inFlight

ImplementsFeed == TheFeed!Spec

\* The finalizer never holds up a deletion for ever.
DeletionCompletes ==
    \A n \in Names : []<>~(Current(n).deleting /\ Current(n).finalizer)

\* Once others write no more, and if then there is an object, the hub of
\* hubs comes to know what there is and keeps knowing it, restarts included.
Converges == <>[](Live # {}) => <>[](known.objs = Live)

\* The comment in Reconcile on an object that is not found: it was already
\* deleted from the bundle, or the hub of hubs never heard of it, and there
\* is no need to do anything.  So the hub of hubs should cease to know an
\* object that is gone for good.
GoneIsConveyed ==
    \A n \in Names : <>[]~Exists(Current(n)) => <>[](\A o \in known.objs : o.name # n)

=============================================================================
