------------------------- MODULE GenericFeedProofs -------------------------
(***************************************************************************)
(* What the hub of hubs gets from a generic status sync controller, for    *)
(* every value of the constants: versions that only go up, the last bundle *)
(* in the end, and a feed that moves forward only.                         *)
(***************************************************************************)
EXTENDS GenericStatusSyncProofs

---------------------------------------------------------------------------
(* Messages under way.                                                     *)

\* Only sending, delivery and restarts touch what the hub of hubs will get.
LEMMA HubStep ==
  ASSUME [Next]_vars
  PROVE  Sync \/ Deliver \/ Crash \/ UNCHANGED <<hub, lastSent, incarnation>>
BY DEF Next, vars, process, Create, Modify, RequestDelete, ReleaseByOthers, WriteByOthers, Watch, Resync,
       Reconcile, AddFinalizer, UpdateObject, DeleteObject, RemoveFinalizer

\* Messages are snapshots.
LEMMA FlightType ==
  ASSUME TypeOK
  PROVE  /\ Len(inFlight) \in Nat /\ DOMAIN inFlight = 1..Len(inFlight)
         /\ \A i \in 1..Len(inFlight) :
              /\ inFlight[i] \in Snapshots
              /\ inFlight[i].version \in Versions /\ inFlight[i].objs \subseteq Objects
         /\ known.version \in Versions /\ known.objs \subseteq Objects /\ latest \in Versions
         /\ bundle.objs \subseteq Objects
<1>1. /\ Len(inFlight) \in Nat /\ DOMAIN inFlight = 1..Len(inFlight)
      /\ \A i \in 1..Len(inFlight) : inFlight[i] \in Snapshots
  BY LenProperties, ElementOfSeq DEF TypeOK
<1>2. known \in Snapshots /\ latest \in Versions /\ bundle.objs \subseteq Objects
  BY DEF TypeOK
<1> QED
  BY <1>1, <1>2 DEF Snapshots

\* The message of a pass.
Message == [version |-> BundleVersionNow, objs |-> bundle.objs]

\* A pass sends the bundle after all that is under way, or loses it.
LEMMA SyncEffect ==
  ASSUME TypeOK, Sync
  PROVE  /\ bundle.gen > lastSent /\ lastSent' = bundle.gen
         /\ UNCHANGED <<cluster, queue, worker, bundle, incarnation, known, newest>>
         /\ \/ Lossy /\ inFlight' = inFlight /\ latest' = latest
            \/ /\ latest' = BundleVersionNow
               /\ inFlight' = Append(inFlight, Message)
               /\ Len(inFlight') = Len(inFlight) + 1
               /\ \A i \in 1..Len(inFlight) : inFlight'[i] = inFlight[i]
               /\ inFlight'[Len(inFlight) + 1] = Message
<1>1. inFlight \in Seq(Snapshots) /\ incarnation \in Nat
  BY DEF TypeOK
<1>2. bundle.gen > lastSent
  BY <1>1 DEF Sync, NewerThan, BundleVersionNow, NewBundleVersion
<1>3. Message \in Snapshots
  BY VersionType, FlightType DEF Message, Snapshots
<1>4. /\ Len(Append(inFlight, Message)) = Len(inFlight) + 1
      /\ \A i \in 1..Len(inFlight) : Append(inFlight, Message)[i] = inFlight[i]
      /\ Append(inFlight, Message)[Len(inFlight) + 1] = Message
  BY <1>1, <1>3, AppendProperties
<1>5. \/ Lossy /\ inFlight' = inFlight /\ latest' = latest
      \/ latest' = BundleVersionNow /\ inFlight' = Append(inFlight, Message)
  BY DEF Sync, Message
<1>6. /\ lastSent' = bundle.gen
      /\ UNCHANGED <<cluster, queue, worker, bundle, incarnation, known, newest>>
  BY DEF Sync
<1> QED
  BY <1>2, <1>4, <1>5, <1>6

\* The newest states once a message of these objects is known.
NewestOf(objs) ==
    [n \in Names |-> IF \E o \in objs : o.name = n THEN (CHOOSE o \in objs : o.name = n).rv ELSE newest[n]]

\* Delivery takes the first message.
LEMMA DeliverEffect ==
  ASSUME TypeOK, Deliver
  PROVE  /\ Len(inFlight) > 0 /\ inFlight' = Tail(inFlight) /\ Head(inFlight) = inFlight[1]
         /\ Len(inFlight') = Len(inFlight) - 1
         /\ \A i \in 1..Len(inFlight') : inFlight'[i] = inFlight[i + 1]
         /\ UNCHANGED <<cluster, process, latest>>
         /\ IF NewerThan(inFlight[1].version, known.version)
            THEN known' = inFlight[1] /\ newest' = NewestOf(inFlight[1].objs)
            ELSE known' = known /\ newest' = newest
<1>1. inFlight \in Seq(Snapshots) /\ inFlight # <<>> /\ inFlight' = Tail(inFlight)
  BY DEF Deliver, TypeOK
<1>2. /\ Len(inFlight) > 0 /\ Head(inFlight) = inFlight[1]
      /\ Len(inFlight') = Len(inFlight) - 1
      /\ \A i \in 1..Len(inFlight') : inFlight'[i] = inFlight[i + 1]
  BY <1>1, HeadTailProperties, EmptySeq, LenProperties
<1> QED
  BY <1>1, <1>2 DEF Deliver, NewestOf

\* A restart cuts what is under way.
LEMMA CrashEffect ==
  ASSUME TypeOK, Crash
  PROVE  /\ \E k \in 0..Len(inFlight) : inFlight' = SubSeq(inFlight, 1, k)
         /\ Len(inFlight') \in 0..Len(inFlight)
         /\ \A i \in 1..Len(inFlight') : inFlight'[i] = inFlight[i]
         /\ UNCHANGED <<log, known, latest, newest>>
         /\ incarnation' = incarnation + 1 /\ lastSent' = 0 /\ bundle' = EmptyBundle /\ worker' = Idle
         /\ seen' = [n \in Names |-> Len(log[n])]
<1>1. inFlight \in Seq(Snapshots) /\ Len(inFlight) \in Nat
  BY FlightType DEF TypeOK
<1>2. PICK k \in 0..Len(inFlight) : inFlight' = SubSeq(inFlight, 1, k)
  BY DEF Crash
<1>3. Len(inFlight') = k /\ \A i \in 1..k : inFlight'[i] = inFlight[i]
  BY <1>1, <1>2, SubSeqProperties, LenProperties
<1> QED
  BY <1>1, <1>2, <1>3 DEF Crash, NextIncarnation

---------------------------------------------------------------------------
(* Versions.                                                               *)

\* v is no later than what this process last sent.
NotAfter(v) == ~NewerThan(v, NewBundleVersion(incarnation, lastSent))

\* Messages go up in version, from what the hub of hubs knows to what the
\* process would send next.
VersionInv ==
    /\ NotAfter(latest) /\ NotAfter(known.version)
    /\ \A i \in 1..Len(inFlight) :
         /\ NotAfter(inFlight[i].version)
         /\ NewerThan(inFlight[i].version, known.version)
         /\ \A j \in 1..(i - 1) : NewerThan(inFlight[i].version, inFlight[j].version)

\* Versions are in a linear order.
LEMMA VersionOrder ==
  ASSUME NEW u \in Versions, NEW v \in Versions, NEW w \in Versions
  PROVE  /\ NewerThan(u, v) /\ ~NewerThan(w, v) => NewerThan(u, w)
         /\ NewerThan(u, v) /\ NewerThan(v, w) => NewerThan(u, w)
BY DEF Versions, NewerThan

\* Sending gives the message a version after all others.
LEMMA SyncVersions == ASSUME TypeOK, VersionInv, Sync PROVE VersionInv'
<1>1. /\ bundle.gen > lastSent /\ lastSent' = bundle.gen /\ incarnation' = incarnation /\ known' = known
      /\ \/ inFlight' = inFlight /\ latest' = latest
         \/ /\ latest' = BundleVersionNow
            /\ Len(inFlight') = Len(inFlight) + 1
            /\ \A i \in 1..Len(inFlight) : inFlight'[i] = inFlight[i]
            /\ inFlight'[Len(inFlight) + 1] = Message
  BY SyncEffect
<1>2. incarnation \in Nat /\ bundle.gen \in Nat /\ lastSent \in Nat
  BY DEF TypeOK
<1>3. /\ Len(inFlight) \in Nat /\ latest \in Versions /\ known.version \in Versions
      /\ \A i \in 1..Len(inFlight) : inFlight[i].version \in Versions
  BY FlightType
<1> DEFINE last == NewBundleVersion(incarnation, lastSent)
<1>4. /\ last \in Versions /\ BundleVersionNow \in Versions
      /\ last' = BundleVersionNow /\ NewerThan(BundleVersionNow, last)
      /\ ~NewerThan(BundleVersionNow, BundleVersionNow)
  BY <1>1, <1>2 DEF NewBundleVersion, Versions, BundleVersionNow, NewerThan
<1>5. ASSUME NEW v \in Versions, NotAfter(v)
      PROVE  NewerThan(BundleVersionNow, v) /\ NotAfter(v)'
  <2>1. NewerThan(BundleVersionNow, v)
    <3>1. ~NewerThan(v, last)
      BY <1>5 DEF NotAfter
    <3> HIDE DEF last
    <3> QED
      BY <1>4, <1>5, <3>1 DEF Versions, NewerThan
  <2>2. ~NewerThan(v, BundleVersionNow)
    BY <1>4, <1>5, <2>1 DEF Versions, NewerThan
  <2> QED
    BY <1>4, <2>1, <2>2 DEF NotAfter
<1>6. NotAfter(BundleVersionNow)'
  <2>1. NotAfter(BundleVersionNow)' = ~NewerThan(BundleVersionNow', last')
    BY DEF NotAfter
  <2>2. BundleVersionNow' = BundleVersionNow
    BY SyncEffect DEF BundleVersionNow, NewBundleVersion
  <2> HIDE DEF last
  <2> QED
    BY <1>4, <2>1, <2>2
<1>7. \A v : NotAfter(v)' = ~NewerThan(v, BundleVersionNow)
  BY <1>4 DEF NotAfter
<1>8. Message.version = BundleVersionNow
  BY DEF Message
<1> HIDE DEF last
<1>9. NotAfter(latest)' /\ NotAfter(known.version)'
  BY <1>1, <1>3, <1>4, <1>5, <1>7 DEF VersionInv
<1>10. ASSUME NEW i \in 1..Len(inFlight)
       PROVE  /\ ~NewerThan(inFlight[i].version, BundleVersionNow)
              /\ NewerThan(BundleVersionNow, inFlight[i].version)
  BY <1>3, <1>5, <1>7 DEF VersionInv
<1> QED
  BY <1>1, <1>3, <1>4, <1>5, <1>7, <1>8, <1>9, <1>10 DEF VersionInv

\* Delivery takes the first of the messages that go up in version.
LEMMA DeliverVersions ==
  ASSUME TypeOK, VersionInv, Deliver
  PROVE  VersionInv' /\ known' = inFlight[1] /\ newest' = NewestOf(inFlight[1].objs)
<1>1. /\ Len(inFlight) > 0 /\ Len(inFlight) \in Nat
      /\ Len(inFlight') = Len(inFlight) - 1
      /\ \A i \in 1..Len(inFlight') : inFlight'[i] = inFlight[i + 1]
      /\ incarnation' = incarnation /\ lastSent' = lastSent /\ latest' = latest
  BY DeliverEffect, FlightType DEF process
<1>2. 1 \in 1..Len(inFlight)
  BY <1>1
<1>3. NewerThan(inFlight[1].version, known.version) /\ NotAfter(inFlight[1].version)
  BY <1>2 DEF VersionInv
<1>4. known' = inFlight[1] /\ newest' = NewestOf(inFlight[1].objs)
  BY <1>3, DeliverEffect
<1>5. \A v : NotAfter(v)' = NotAfter(v)
  BY <1>1 DEF NotAfter, NewBundleVersion
<1>6. NotAfter(latest)' /\ NotAfter(known.version)'
  BY <1>1, <1>3, <1>4 DEF VersionInv, NotAfter
<1>7. ASSUME NEW i \in 1..Len(inFlight')
      PROVE  /\ i + 1 \in 1..Len(inFlight) /\ 1 \in 1..((i + 1) - 1)
             /\ inFlight'[i] = inFlight[i + 1]
             /\ \A j \in 1..(i - 1) :
                  j + 1 \in 1..((i + 1) - 1) /\ inFlight'[j] = inFlight[j + 1]
  BY <1>1, <1>7
<1>8. ASSUME NEW i \in 1..Len(inFlight')
      PROVE  /\ NotAfter(inFlight'[i].version)
             /\ NewerThan(inFlight'[i].version, known'.version)
             /\ \A j \in 1..(i - 1) : NewerThan(inFlight'[i].version, inFlight'[j].version)
  BY <1>4, <1>7, <1>8 DEF VersionInv
<1> QED
  BY <1>4, <1>5, <1>6, <1>8 DEF VersionInv

\* A restart begins an incarnation whose messages come after all others.
LEMMA CrashVersions == ASSUME TypeOK, VersionInv, Crash PROVE VersionInv'
<1>1. /\ Len(inFlight') \in 0..Len(inFlight) /\ Len(inFlight) \in Nat
      /\ \A i \in 1..Len(inFlight') : inFlight'[i] = inFlight[i]
      /\ latest' = latest /\ known' = known /\ incarnation' = incarnation + 1 /\ lastSent' = 0
  BY CrashEffect, FlightType
<1>2. incarnation \in Nat /\ lastSent \in Nat
  BY DEF TypeOK
<1>3. ASSUME NEW v \in Versions, NotAfter(v)
      PROVE  ~NewerThan(v, NewBundleVersion(incarnation', lastSent'))
  BY <1>1, <1>2, <1>3 DEF NotAfter, NewerThan, NewBundleVersion, Versions
<1>4. /\ latest \in Versions /\ known.version \in Versions
      /\ \A i \in 1..Len(inFlight) : inFlight[i].version \in Versions
  BY FlightType
<1>5. NotAfter(latest)' /\ NotAfter(known.version)'
  BY <1>1, <1>3, <1>4 DEF VersionInv, NotAfter
<1>6. ASSUME NEW i \in 1..Len(inFlight')
      PROVE  /\ ~NewerThan(inFlight'[i].version, NewBundleVersion(incarnation', lastSent'))
             /\ NewerThan(inFlight'[i].version, known'.version)
             /\ \A j \in 1..(i - 1) : NewerThan(inFlight'[i].version, inFlight'[j].version)
  <2>1. i \in 1..Len(inFlight) /\ \A j \in 1..(i - 1) : j \in 1..Len(inFlight')
    BY <1>1, <1>6
  <2> QED
    BY <1>1, <1>3, <1>4, <1>6, <2>1 DEF VersionInv
<1> QED
  BY <1>5, <1>6 DEF VersionInv, NotAfter

\* Every step keeps versions going up ...
LEMMA VersionStep == TypeOK /\ VersionInv /\ [Next]_vars => VersionInv'
<1> SUFFICES ASSUME TypeOK, VersionInv, [Next]_vars PROVE VersionInv'
  OBVIOUS
<1>1. CASE UNCHANGED <<hub, lastSent, incarnation>>
  BY <1>1 DEF VersionInv, NotAfter, hub
<1> QED
  BY <1>1, HubStep, SyncVersions, DeliverVersions, CrashVersions

\* ... at all times.
LEMMA VersionsRise == Spec => []VersionInv
<1>1. Init => VersionInv
  <2>1. ~NewerThan(NewBundleVersion(0, 0), NewBundleVersion(0, 0))
    BY DEF NewerThan, NewBundleVersion
  <2>2. Len(<<>>) = 0
    BY EmptySeq
  <2> QED
    BY <2>1, <2>2 DEF Init, VersionInv, NotAfter
<1> QED
  BY <1>1, VersionStep, TypeCorrect, PTL DEF Spec

---------------------------------------------------------------------------
(* Nothing is lost on a transport that loses nothing.                      *)

\* What the hub of hubs will know when all under way has arrived.
LastMessage == IF Len(inFlight) = 0 THEN known ELSE inFlight[Len(inFlight)]

\* When the bundle's version counts as sent, it is the last message.
ConveyedInv == lastSent > 0 /\ lastSent = bundle.gen => LastMessage.objs = bundle.objs

\* Every step of a process whose transport loses nothing keeps this so.
LEMMA ConveyedStep ==
  ~Lossy /\ TypeOK /\ VersionInv /\ ConveyedInv /\ [Next]_vars => ConveyedInv'
<1> SUFFICES ASSUME ~Lossy, TypeOK, VersionInv, ConveyedInv, [Next]_vars PROVE ConveyedInv'
  OBVIOUS
<1>1. Len(inFlight) \in Nat /\ lastSent \in Nat /\ bundle.gen \in Nat /\ lastSent <= bundle.gen
  BY FlightType DEF TypeOK
<1>2. CASE Sync
  BY <1>1, <1>2, SyncEffect DEF ConveyedInv, LastMessage, Message
<1>3. CASE Deliver
  <2>1. /\ known' = inFlight[1] /\ Len(inFlight') = Len(inFlight) - 1 /\ Len(inFlight) > 0
        /\ \A i \in 1..Len(inFlight') : inFlight'[i] = inFlight[i + 1]
        /\ lastSent' = lastSent /\ bundle' = bundle
    BY <1>3, DeliverEffect, DeliverVersions DEF process
  <2>2. LastMessage' = LastMessage
    BY <1>1, <2>1 DEF LastMessage
  <2> QED
    BY <2>1, <2>2 DEF ConveyedInv
<1>4. CASE Crash
  BY <1>4, CrashEffect DEF ConveyedInv
<1>5. CASE UpdateObject \/ DeleteObject
  <2> DEFINE o == Clean(worker.name, worker.rv)
  <2>1. bundle' \in {GenericUpdate(bundle, o), GenericDelete(bundle, o)} /\ UNCHANGED <<lastSent, hub>>
    BY <1>5 DEF UpdateObject, DeleteObject
  <2> HIDE DEF o
  <2>2. bundle' = bundle \/ bundle'.gen = bundle.gen + 1
    BY <2>1 DEF GenericUpdate, GenericDelete
  <2> QED
    BY <1>1, <2>1, <2>2 DEF ConveyedInv, LastMessage, hub
<1>6. CASE UNCHANGED <<bundle, hub, lastSent>>
  BY <1>6 DEF ConveyedInv, LastMessage, hub
<1>7. Sync \/ Deliver \/ Crash \/ UpdateObject \/ DeleteObject \/ UNCHANGED <<bundle, hub, lastSent>>
  BY DEF Next, vars, process, Create, Modify, RequestDelete, ReleaseByOthers, WriteByOthers, Watch, Resync,
         Reconcile, AddFinalizer, RemoveFinalizer
<1> QED
  BY <1>2, <1>3, <1>4, <1>5, <1>6, <1>7

\* A bundle that is right and was sent and has arrived is what is known.
LEMMA ConveyedNothingLost == ASSUME ConveyedInv, TypeOK, CaughtUp PROVE NothingLost
<1> SUFFICES ASSUME Reconciled, bundle.gen > 0, lastSent = bundle.gen, inFlight = <<>>
             PROVE  known.objs = Live
  BY DEF NothingLost
<1>1. Len(inFlight) = 0
  BY EmptySeq
<1> QED
  BY <1>1 DEF ConveyedInv, LastMessage, CaughtUp

\* If the transport loses no message of a running process, then when nothing
\* is left to reconcile, to send or under way, the hub of hubs knows exactly
\* the objects that are not being deleted, as they are, whatever restarts cut
\* off before.
THEOREM HubCatchesUp ==
  ASSUME ~Lossy
  PROVE  Spec => []NothingLost
<1>1. Init => ConveyedInv
  BY DEF Init, ConveyedInv
<1>2. TypeOK /\ VersionInv /\ ConveyedInv /\ [Next]_vars => ConveyedInv'
  BY ConveyedStep
<1> QED
  BY <1>1, <1>2, ConveyedNothingLost, TypeCorrect, VersionsRise, BundleCatchesUp, PTL DEF Spec


---------------------------------------------------------------------------
(* The order in which states of an object reach the hub of hubs.           *)

\* What a step does to logs and cache.
LEMMA ClusterStep ==
  ASSUME TypeOK, GuardInv, [Next]_vars
  PROVE  \/ \E n \in Names, s \in States :
              Write(n, s) /\ Succeeds(n, Finalized(s)) /\ seen' = seen
         \/ log' = log /\ \A n \in Names : seen'[n] \in {seen[n], seen[n] + 1, Len(log[n])}
<1>1. ASSUME NEW n \in Names, Create(n) \/ Modify(n) \/ RequestDelete(n) \/ ReleaseByOthers(n)
      PROVE  \E s \in States : Write(n, s) /\ Succeeds(n, Finalized(s)) /\ seen' = seen
  <2>1. PICK s \in States : WriteByOthers(n, s) /\ Continues(n, s)
    BY <1>1, OthersWrite
  <2>2. Succeeds(n, Finalized(s))
    BY <2>1, OthersSucceed DEF GuardInv
  <2> QED
    BY <2>1, <2>2 DEF WriteByOthers
<1>2. CASE AddFinalizer \/ RemoveFinalizer
  <2>1. worker.name \in Names /\ seen' = seen
    BY <1>2, WorkerType DEF AddFinalizer, RemoveFinalizer
  <2>2. Requeued \/ \E s, next : Written(s, next)
    BY <1>2, AddStep, RemoveStep
  <2> QED
    BY <2>1, <2>2 DEF Requeued, Written
<1>3. ASSUME NEW n \in Names, Watch(n)
      PROVE  log' = log /\ \A m \in Names : seen'[m] \in {seen[m], seen[m] + 1}
  BY <1>3 DEF Watch, TypeOK
<1>4. CASE Crash
  BY <1>4, CrashEffect
<1>5. CASE UNCHANGED cluster
  BY <1>5 DEF cluster
<1>6. ASSUME NEW n \in Names, Resync(n) \/ Reconcile(n)
      PROVE  UNCHANGED cluster
  BY <1>6 DEF Resync, Reconcile
<1>7. UpdateObject \/ DeleteObject \/ Sync \/ Deliver \/ UNCHANGED vars => UNCHANGED cluster
  BY DEF UpdateObject, DeleteObject, Sync, Deliver, vars
<1> QED
  BY <1>1, <1>2, <1>3, <1>4, <1>5, <1>6, <1>7 DEF Next

\* The states of n that the controller may know of: those that the cache has
\* seen, and the one it made itself when it added the finalizer.
Reached(n, rv) ==
    \/ rv <= seen[n]
    \/ rv = seen[n] + 1 /\ rv <= Len(log[n]) /\ ~StateAt(n, seen[n]).finalizer

\* It ceases to know of none.
LEMMA ReachedKept ==
  ASSUME TypeOK, GuardInv, [Next]_vars, NEW n \in Names, NEW rv \in Nat, Reached(n, rv)
  PROVE  Reached(n, rv)'
<1>1. seen[n] \in Nat /\ Len(log[n]) \in Nat /\ seen[n] <= Len(log[n])
  BY LogType
<1>2. ASSUME NEW m \in Names, NEW s \in States, Write(m, s), seen' = seen
      PROVE  Reached(n, rv)'
  <2>1. /\ Len(log[n]) <= Len(log'[n]) /\ Len(log'[n]) \in Nat
        /\ \A i \in 1..Len(log[n]) : log'[n][i] = log[n][i]
    BY <1>2, WriteKeeps
  <2>2. StateAt(n, seen[n])' = StateAt(n, seen[n])
    BY <1>1, <1>2, <2>1 DEF StateAt
  <2> QED
    BY <1>1, <1>2, <2>1, <2>2 DEF Reached
<1>3. CASE log' = log /\ seen'[n] \in {seen[n], seen[n] + 1, Len(log[n])}
  <2>1. CASE seen'[n] = seen[n]
    BY <1>3, <2>1 DEF Reached, StateAt
  <2>2. CASE seen'[n] # seen[n]
    BY <1>1, <1>3, <2>2 DEF Reached
  <2> QED
    BY <2>1, <2>2
<1> QED
  BY <1>2, <1>3, ClusterStep

\* The state that the bundle is about to be told of.
Hand == IF worker.step = "update" THEN {[name |-> worker.name, rv |-> worker.rv]} ELSE {}

\* Objects of which the hub of hubs never knew a later state.
Fresh(objs) == \A o \in objs : Reached(o.name, o.rv) /\ newest[o.name] <= o.rv

\* No object is later in the first set than in the second.
Before(A, B) == \A o \in A, q \in B : o.name = q.name => o.rv <= q.rv

\* From what was known over the messages under way and the bundle to the
\* reconciler, no object ever goes back to an earlier state.
OrderInv ==
    /\ \A n \in Names : Reached(n, newest[n])
    /\ Fresh(bundle.objs) /\ Fresh(Hand) /\ Before(bundle.objs, Hand)
    /\ \A i \in 1..Len(inFlight) :
         /\ OneEach(inFlight[i].objs) /\ Fresh(inFlight[i].objs)
         /\ Before(inFlight[i].objs, bundle.objs) /\ Before(inFlight[i].objs, Hand)
         /\ \A j \in 1..(i - 1) : Before(inFlight[j].objs, inFlight[i].objs)

\* The state in hand is one of an object.
LEMMA HandType == ASSUME TypeOK PROVE \A o \in Hand : o.name \in Names /\ o.rv \in Nat
BY WorkerType DEF Hand

\* Objects have names and resource versions.
LEMMA ObjectsType ==
  ASSUME NEW objs \in SUBSET Objects
  PROVE  \A o \in objs : o.name \in Names /\ o.rv \in Nat
BY DEF Objects

\* What the controller knows of it knows after the next step.
LEMMA FreshKept ==
  ASSUME TypeOK, GuardInv, [Next]_vars, NEW objs, Fresh(objs),
         \A o \in objs : o.name \in Names /\ o.rv \in Nat
  PROVE  \A o \in objs : Reached(o.name, o.rv)' /\ newest[o.name] <= o.rv
BY ReachedKept DEF Fresh

\* What was known is still known of.
LEMMA NewestKept ==
  ASSUME TypeOK, GuardInv, [Next]_vars, OrderInv
  PROVE  \A n \in Names, rv \in Nat : rv = newest[n] => Reached(n, rv)'
BY ReachedKept DEF OrderInv

\* All objects of the controller have names and resource versions.
LEMMA OrderType ==
  ASSUME TypeOK
  PROVE  /\ \A o \in bundle.objs : o.name \in Names /\ o.rv \in Nat
         /\ \A o \in Hand : o.name \in Names /\ o.rv \in Nat
         /\ \A i \in 1..Len(inFlight) : \A o \in inFlight[i].objs : o.name \in Names /\ o.rv \in Nat
         /\ Len(inFlight) \in Nat /\ \A n \in Names : newest[n] \in Nat
<1>1. \A n \in Names : newest[n] \in Nat
  BY DEF TypeOK
<1> QED
  BY <1>1, FlightType, HandType, ObjectsType

\* What takes messages from the end, objects from the bundle or the state out
\* of the reconciler's hands keeps the order.
LEMMA OrderKept ==
  ASSUME TypeOK, GuardInv, OrderInv, [Next]_vars, newest' = newest,
         Len(inFlight') \in 0..Len(inFlight),
         \A i \in 1..Len(inFlight') : inFlight'[i] = inFlight[i],
         bundle'.objs \subseteq bundle.objs, Hand' \subseteq Hand
  PROVE  OrderInv'
<1>1. \A n \in Names : Reached(n, newest[n])'
  BY NewestKept, OrderType
<1>2. /\ \A o \in bundle.objs : Reached(o.name, o.rv)' /\ newest[o.name] <= o.rv
      /\ \A o \in Hand : Reached(o.name, o.rv)' /\ newest[o.name] <= o.rv
  BY OrderType, FreshKept DEF OrderInv
<1>3. ASSUME NEW i \in 1..Len(inFlight')
      PROVE  /\ OneEach(inFlight'[i].objs)
             /\ \A o \in inFlight'[i].objs : Reached(o.name, o.rv)' /\ newest[o.name] <= o.rv
             /\ Before(inFlight'[i].objs, bundle.objs) /\ Before(inFlight'[i].objs, Hand)
             /\ \A j \in 1..(i - 1) : Before(inFlight'[j].objs, inFlight'[i].objs)
  <2>1. i \in 1..Len(inFlight) /\ \A j \in 1..(i - 1) : j \in 1..Len(inFlight')
    BY OrderType
  <2>2. \A o \in inFlight[i].objs : Reached(o.name, o.rv)' /\ newest[o.name] <= o.rv
    BY <2>1, OrderType, FreshKept DEF OrderInv
  <2> QED
    BY <2>1, <2>2 DEF OrderInv
<1> QED
  BY <1>1, <1>2, <1>3 DEF OrderInv, Fresh, Before


\* A state that comes into the reconciler's hands is later than all it knew of.
LEMMA OrderTaken ==
  ASSUME TypeOK, GuardInv, OrderInv, [Next]_vars, UNCHANGED <<bundle, newest, inFlight>>,
         NEW n \in Names, NEW rv \in Nat,
         Hand' = {[name |-> n, rv |-> rv]}, Reached(n, rv)',
         \A r \in Nat : Reached(n, r) => r <= rv
  PROVE  OrderInv'
<1>1. \A m \in Names : Reached(m, newest[m])'
  BY NewestKept, OrderType
<1>2. /\ \A o \in bundle.objs : Reached(o.name, o.rv)' /\ newest[o.name] <= o.rv
      /\ newest[n] <= rv
      /\ \A o \in bundle.objs : o.name = n => o.rv <= rv
  BY OrderType, FreshKept DEF OrderInv, Fresh
<1>3. ASSUME NEW i \in 1..Len(inFlight)
      PROVE  /\ \A o \in inFlight[i].objs : Reached(o.name, o.rv)' /\ newest[o.name] <= o.rv
             /\ \A o \in inFlight[i].objs : o.name = n => o.rv <= rv
  BY OrderType, FreshKept DEF OrderInv, Fresh
<1> QED
  BY <1>1, <1>2, <1>3 DEF OrderInv, Fresh, Before

\* Others and the informer leave the reconciler its object.
LEMMA OutsideOrder ==
  ASSUME TypeOK, GuardInv, OrderInv, [Next]_vars, UNCHANGED <<worker, bundle, hub>>
  PROVE  OrderInv'
<1>1. Hand' = Hand
  BY DEF Hand
<1> QED
  BY <1>1, OrderKept, OrderType DEF hub

\* The object in the cache is the latest that the controller knows of, if it
\* has the finalizer.
LEMMA ReconcileOrder ==
  ASSUME TypeOK, GuardInv, OrderInv, [Next]_vars, NEW n \in Names, Reconcile(n)
  PROVE  OrderInv'
<1> DEFINE s == StateAt(n, seen[n])
<1>1. UNCHANGED <<cluster, bundle, hub>> /\ seen[n] \in Nat
  BY ReconcileStep, LogType
<1>2. CASE worker'.step # "update"
  <2>1. Hand' = {}
    BY <1>2 DEF Hand
  <2> QED
    BY <1>1, <2>1, OrderKept, OrderType DEF hub
<1>3. CASE worker'.step = "update"
  <2>1. Exists(s)
    BY <1>3, ReconcileStep DEF Idle
  <2>2. worker'.name = n /\ worker'.rv = seen[n] /\ s.finalizer
    BY <1>3, <2>1, ReconcileStep
  <2>3. Hand' = {[name |-> n, rv |-> seen[n]]}
    BY <1>3, <2>2 DEF Hand
  <2>4. Reached(n, seen[n])
    BY <1>1 DEF Reached
  <2>5. ASSUME NEW rv \in Nat, rv = seen[n] PROVE Reached(n, rv)'
    BY <2>4, <2>5, ReachedKept
  <2>6. \A r \in Nat : Reached(n, r) => r <= seen[n]
    BY <2>2 DEF Reached
  <2>7. PICK rv \in Nat : rv = seen[n]
    BY <1>1
  <2>8. /\ Hand' = {[name |-> n, rv |-> rv]} /\ Reached(n, rv)'
        /\ \A r \in Nat : Reached(n, r) => r <= rv
    BY <2>3, <2>5, <2>6, <2>7
  <2> QED
    BY <1>1, <2>8, OrderTaken DEF hub
<1> QED
  BY <1>2, <1>3

\* The object that the API server returns with its finalizer is the latest.
LEMMA FinalizerOrder ==
  ASSUME TypeOK, GuardInv, OrderInv, [Next]_vars, AddFinalizer \/ RemoveFinalizer
  PROVE  OrderInv'
<1>1. UNCHANGED <<seen, bundle, hub>>
  BY DEF AddFinalizer, RemoveFinalizer
<1>2. CASE worker' = Idle
  <2>1. Hand' = {}
    BY <1>2 DEF Hand, Idle
  <2> QED
    BY <1>1, <2>1, OrderKept, OrderType DEF hub
<1>3. CASE worker' # Idle
  <2>1. AddFinalizer
    BY <1>3, RemoveStep DEF Requeued, Written
  <2>2. PICK s : Written(s, Working("update", worker.name, worker.rv + 1))
    BY <1>3, <2>1, AddStep DEF Requeued
  <2>3. PICK n \in Names : n = worker.name
    BY <2>1, WorkerType DEF AddFinalizer
  <2>4. /\ s \in States /\ Write(n, s) /\ seen[n] = Len(log[n]) /\ worker.rv = Len(log[n])
        /\ worker' = Working("update", n, Len(log[n]) + 1)
        /\ InHand = StateAt(n, seen[n])
    BY <1>3, <2>2, <2>3 DEF Written, InHand
  <2>5. PICK rv \in Nat : rv = Len(log[n]) + 1
    BY LogType
  <2>6. Hand' = {[name |-> n, rv |-> rv]}
    BY <2>4, <2>5 DEF Hand, Working
  <2>7. ~StateAt(n, seen[n]).finalizer
    BY <2>1, <2>4 DEF AddFinalizer, GuardInv, WorkerInv
  <2>8. Reached(n, rv)'
    <3>1. /\ Len(log[n]) \in Nat /\ Len(log'[n]) = rv /\ seen'[n] = Len(log[n])
          /\ \A i \in 1..Len(log[n]) : log'[n][i] = log[n][i]
      BY <1>1, <2>4, <2>5, LogType, WriteType
    <3>2. StateAt(n, seen[n])' = StateAt(n, seen[n])
      BY <1>1, <2>4, <3>1 DEF StateAt
    <3> QED
      BY <1>1, <2>4, <2>5, <2>7, <3>1, <3>2 DEF Reached
  <2>9. \A r \in Nat : Reached(n, r) => r <= rv
    BY <2>4, <2>5, LogType DEF Reached
  <2> QED
    BY <1>1, <2>6, <2>8, <2>9, OrderTaken DEF hub
<1> QED
  BY <1>2, <1>3

\* The state in hand goes to the bundle, in the place of the earlier one.
LEMMA UpdateOrder ==
  ASSUME TypeOK, GuardInv, HandledInv, OrderInv, [Next]_vars, UpdateObject
  PROVE  OrderInv'
<1> DEFINE o == Clean(worker.name, worker.rv)
<1>1. /\ o.name = worker.name /\ o.rv = worker.rv
      /\ \A q \in bundle'.objs : q = o \/ q \in bundle.objs
  BY CleanType, GenericObjects DEF UpdateObject
<1>2. /\ Hand = {[name |-> worker.name, rv |-> worker.rv]} /\ Hand' = {}
      /\ UNCHANGED hub
  BY DEF UpdateObject, Hand, Idle
<1> HIDE DEF o
<1>3. \A m \in Names : Reached(m, newest[m])'
  BY <1>2, NewestKept, OrderType DEF hub
<1>4. /\ \A q \in bundle.objs : Reached(q.name, q.rv)' /\ newest[q.name] <= q.rv
      /\ \A q \in Hand : Reached(q.name, q.rv)' /\ newest[q.name] <= q.rv
  BY OrderType, FreshKept DEF OrderInv
<1>5. \A q \in bundle'.objs : Reached(q.name, q.rv)' /\ newest[q.name] <= q.rv
  BY <1>1, <1>2, <1>4
<1>6. ASSUME NEW i \in 1..Len(inFlight)
      PROVE  /\ \A q \in inFlight[i].objs : Reached(q.name, q.rv)' /\ newest[q.name] <= q.rv
             /\ Before(inFlight[i].objs, bundle'.objs)
  <2>1. \A q \in inFlight[i].objs : Reached(q.name, q.rv)' /\ newest[q.name] <= q.rv
    BY OrderType, FreshKept DEF OrderInv
  <2>2. Before(inFlight[i].objs, bundle'.objs)
    BY <1>1, <1>2 DEF OrderInv, Before
  <2> QED
    BY <2>1, <2>2
<1> QED
  BY <1>2, <1>3, <1>5, <1>6 DEF OrderInv, Fresh, Before, hub

\* An object that is being deleted only goes.
LEMMA DeleteOrder ==
  ASSUME TypeOK, GuardInv, OrderInv, [Next]_vars, DeleteObject
  PROVE  OrderInv'
<1>1. bundle'.objs \subseteq bundle.objs
  BY GenericObjects DEF DeleteObject
<1>2. UNCHANGED hub /\ worker.step = "delete" /\ worker' \in {Idle, [worker EXCEPT !.step = "release"]}
  BY DEF DeleteObject
<1>3. worker \in [step : Steps, name : Names, rv : Nat]
  BY <1>2, WorkerType
<1>4. Hand' = {}
  BY <1>2, <1>3 DEF Hand, Idle
<1> QED
  BY <1>1, <1>2, <1>4, OrderKept, OrderType DEF hub


\* A message holds the bundle as it is when it is sent.
LEMMA SyncOrder ==
  ASSUME TypeOK, GuardInv, HandledInv, OrderInv, [Next]_vars, Sync
  PROVE  OrderInv'
<1>1. /\ UNCHANGED <<worker, bundle, newest>>
      /\ \/ inFlight' = inFlight
         \/ /\ Len(inFlight') = Len(inFlight) + 1
            /\ \A i \in 1..Len(inFlight) : inFlight'[i] = inFlight[i]
            /\ inFlight'[Len(inFlight) + 1] = Message
  BY SyncEffect
<1>2. Hand' = Hand
  BY <1>1 DEF Hand
<1>3. CASE inFlight' = inFlight
  BY <1>1, <1>2, <1>3, OrderKept, OrderType
<1>4. CASE inFlight' # inFlight
  <2>1. \A m \in Names : Reached(m, newest[m])'
    BY <1>1, NewestKept, OrderType
  <2>2. /\ \A o \in bundle.objs : Reached(o.name, o.rv)' /\ newest[o.name] <= o.rv
        /\ \A o \in Hand : Reached(o.name, o.rv)' /\ newest[o.name] <= o.rv
    BY OrderType, FreshKept DEF OrderInv
  <2>3. Len(inFlight) \in Nat /\ Message.objs = bundle.objs
    BY OrderType DEF Message
  <2>4. OneEach(bundle.objs) /\ Before(bundle.objs, bundle.objs)
    BY OrderType DEF HandledInv, OneEach, Before
  <2>5. ASSUME NEW i \in 1..Len(inFlight')
        PROVE  /\ OneEach(inFlight'[i].objs)
               /\ \A o \in inFlight'[i].objs : Reached(o.name, o.rv)' /\ newest[o.name] <= o.rv
               /\ Before(inFlight'[i].objs, bundle.objs) /\ Before(inFlight'[i].objs, Hand)
               /\ \A j \in 1..(i - 1) : Before(inFlight'[j].objs, inFlight'[i].objs)
    <3>1. CASE i = Len(inFlight) + 1
      <4>1. inFlight'[i].objs = bundle.objs
        BY <1>1, <1>4, <2>3, <3>1
      <4>2. \A j \in 1..(i - 1) : j \in 1..Len(inFlight) /\ inFlight'[j] = inFlight[j]
        BY <1>1, <1>4, <2>3, <3>1
      <4> QED
        BY <2>2, <2>4, <4>1, <4>2 DEF OrderInv
    <3>2. CASE i \in 1..Len(inFlight)
      <4>1. \A j \in 1..i : j \in 1..Len(inFlight) /\ inFlight'[j] = inFlight[j]
        BY <1>1, <1>4, <2>3, <3>2
      <4>2. \A o \in inFlight[i].objs : Reached(o.name, o.rv)' /\ newest[o.name] <= o.rv
        BY <3>2, OrderType, FreshKept DEF OrderInv
      <4> QED
        BY <2>3, <3>2, <4>1, <4>2 DEF OrderInv
    <3> QED
      BY <1>1, <1>4, <2>3, <3>1, <3>2
  <2> QED
    BY <1>1, <1>2, <2>1, <2>2, <2>5 DEF OrderInv, Fresh, Before
<1> QED
  BY <1>3, <1>4

\* The newest states after a message.
LEMMA NewestType ==
  ASSUME NEW objs, OneEach(objs)
  PROVE  /\ \A o \in objs : o.name \in Names => NewestOf(objs)[o.name] = o.rv
         /\ \A n \in Names : (\A o \in objs : o.name # n) => NewestOf(objs)[n] = newest[n]
<1>1. ASSUME NEW o \in objs, o.name \in Names
      PROVE  NewestOf(objs)[o.name] = o.rv
  <2>1. \E q \in objs : q.name = o.name
    OBVIOUS
  <2>2. \A q \in objs : q.name = o.name => q = o
    BY DEF OneEach
  <2>3. (CHOOSE q \in objs : q.name = o.name) = o
    BY <2>1, <2>2, Zenon
  <2> QED
    BY <1>1, <2>1, <2>3 DEF NewestOf
<1>2. \A n \in Names : (\A o \in objs : o.name # n) => NewestOf(objs)[n] = newest[n]
  BY DEF NewestOf
<1> QED
  BY <1>1, <1>2

\* The first message is no later than the others, the bundle and the
\* reconciler.
LEMMA DeliverOrder ==
  ASSUME TypeOK, GuardInv, VersionInv, OrderInv, [Next]_vars, Deliver
  PROVE  OrderInv'
<1> DEFINE m == inFlight[1].objs
<1>1. /\ Len(inFlight) > 0 /\ Len(inFlight) \in Nat
      /\ Len(inFlight') = Len(inFlight) - 1
      /\ \A i \in 1..Len(inFlight') : inFlight'[i] = inFlight[i + 1]
      /\ worker' = worker /\ bundle' = bundle /\ newest' = NewestOf(m)
  BY DeliverEffect, DeliverVersions, FlightType DEF process
<1>2. Hand' = Hand
  BY <1>1 DEF Hand
<1>3. /\ OneEach(m) /\ Fresh(m) /\ Before(m, bundle.objs) /\ Before(m, Hand)
      /\ \A o \in m : o.name \in Names /\ o.rv \in Nat
  BY <1>1, OrderType DEF OrderInv
<1> HIDE DEF m
<1>4. /\ \A o \in m : newest'[o.name] = o.rv
      /\ \A n \in Names : (\A o \in m : o.name # n) => newest'[n] = newest[n]
  BY <1>1, <1>3, NewestType
<1>5. \A n \in Names, rv \in Nat : rv = newest'[n] => Reached(n, rv)'
  <2>1. \A o \in m : Reached(o.name, o.rv)'
    BY <1>3, FreshKept
  <2>2. \A n \in Names, rv \in Nat : rv = newest[n] => Reached(n, rv)'
    BY NewestKept
  <2> QED
    BY <1>4, <2>1, <2>2
<1>6. newest' \in [Names -> Nat]
  BY TypeStep DEF TypeOK
<1>7. ASSUME NEW objs, Fresh(objs), Before(m, objs), \A o \in objs : o.name \in Names /\ o.rv \in Nat
      PROVE  \A o \in objs : Reached(o.name, o.rv)' /\ newest'[o.name] <= o.rv
  <2>1. \A o \in objs : Reached(o.name, o.rv)' /\ newest[o.name] <= o.rv
    BY <1>7, FreshKept
  <2>2. \A o \in objs : newest'[o.name] <= o.rv
    BY <1>4, <1>7, <2>1 DEF Before
  <2> QED
    BY <2>1, <2>2
<1>8. /\ \A o \in bundle.objs : Reached(o.name, o.rv)' /\ newest'[o.name] <= o.rv
      /\ \A o \in Hand : Reached(o.name, o.rv)' /\ newest'[o.name] <= o.rv
  BY <1>3, <1>7, OrderType DEF OrderInv
<1>9. ASSUME NEW i \in 1..Len(inFlight')
      PROVE  /\ OneEach(inFlight'[i].objs)
             /\ \A o \in inFlight'[i].objs : Reached(o.name, o.rv)' /\ newest'[o.name] <= o.rv
             /\ Before(inFlight'[i].objs, bundle.objs) /\ Before(inFlight'[i].objs, Hand)
             /\ \A j \in 1..(i - 1) : Before(inFlight'[j].objs, inFlight'[i].objs)
  <2>1. /\ i + 1 \in 1..Len(inFlight) /\ 1 \in 1..((i + 1) - 1)
        /\ inFlight'[i] = inFlight[i + 1]
        /\ \A j \in 1..(i - 1) : j + 1 \in 1..((i + 1) - 1) /\ inFlight'[j] = inFlight[j + 1]
    BY <1>1
  <2>2. /\ OneEach(inFlight[i + 1].objs) /\ Fresh(inFlight[i + 1].objs)
        /\ Before(inFlight[i + 1].objs, bundle.objs) /\ Before(inFlight[i + 1].objs, Hand)
        /\ \A j \in 1..((i + 1) - 1) : Before(inFlight[j].objs, inFlight[i + 1].objs)
    BY <2>1 DEF OrderInv
  <2>3. Before(m, inFlight[i + 1].objs)
    BY <2>1, <2>2 DEF m
  <2>4. \A o \in inFlight[i + 1].objs : Reached(o.name, o.rv)' /\ newest'[o.name] <= o.rv
    BY <1>7, <2>1, <2>2, <2>3, OrderType
  <2> QED
    BY <2>1, <2>2, <2>4
<1> QED
  BY <1>1, <1>2, <1>5, <1>6, <1>8, <1>9 DEF OrderInv, Fresh, Before

\* A restart begins with an empty bundle.
LEMMA CrashOrder == ASSUME TypeOK, GuardInv, OrderInv, [Next]_vars, Crash PROVE OrderInv'
<1>1. /\ Len(inFlight') \in 0..Len(inFlight)
      /\ \A i \in 1..Len(inFlight') : inFlight'[i] = inFlight[i]
      /\ newest' = newest /\ bundle' = EmptyBundle /\ worker' = Idle
  BY CrashEffect
<1>2. bundle'.objs = {} /\ Hand' = {}
  BY <1>1 DEF EmptyBundle, Hand, Idle
<1> QED
  BY <1>1, <1>2, OrderKept

\* Every step keeps the order ...
LEMMA OrderStep ==
  TypeOK /\ GuardInv /\ HandledInv /\ VersionInv /\ OrderInv /\ [Next]_vars => OrderInv'
<1> SUFFICES ASSUME TypeOK, GuardInv, HandledInv, VersionInv, OrderInv, [Next]_vars PROVE OrderInv'
  OBVIOUS
<1>1. ASSUME NEW n \in Names,
             Create(n) \/ Modify(n) \/ RequestDelete(n) \/ ReleaseByOthers(n) \/ Watch(n) \/ Resync(n)
      PROVE  UNCHANGED <<worker, bundle, hub>>
  BY <1>1 DEF Create, Modify, RequestDelete, ReleaseByOthers, WriteByOthers, Watch, Resync, process
<1>2. UNCHANGED vars => UNCHANGED <<worker, bundle, hub>>
  BY DEF vars, process
<1> QED
  BY <1>1, <1>2, OutsideOrder, ReconcileOrder, FinalizerOrder, UpdateOrder, DeleteOrder, SyncOrder,
     DeliverOrder, CrashOrder DEF Next

\* ... at all times.
LEMMA InOrder == Spec => []OrderInv
<1>1. Init => OrderInv
  <2> SUFFICES ASSUME Init PROVE OrderInv
    OBVIOUS
  <2>1. Len(inFlight) = 0 /\ bundle.objs = {} /\ Hand = {}
    BY EmptySeq DEF Init, EmptyBundle, Hand, Idle
  <2>2. \A n \in Names : Reached(n, newest[n])
    BY DEF Init, Reached
  <2> QED
    BY <2>1, <2>2 DEF OrderInv, Fresh, Before
<1> QED
  BY <1>1, OrderStep, TypeCorrect, Guarded, AllHandled, VersionsRise, PTL DEF Spec


---------------------------------------------------------------------------
(* The feed.                                                               *)

\* A message that is sent is an offer.
LEMMA SyncFeed == ASSUME TypeOK, VersionInv, Sync PROVE [TheFeed!Next]_TheFeed!vars
<1>1. /\ UNCHANGED <<known, newest>> /\ bundle.gen > lastSent
      /\ \/ inFlight' = inFlight /\ latest' = latest
         \/ /\ latest' = BundleVersionNow
            /\ inFlight' = Append(inFlight, Message)
            /\ Len(inFlight') = Len(inFlight) + 1
            /\ \A i \in 1..Len(inFlight) : inFlight'[i] = inFlight[i]
            /\ inFlight'[Len(inFlight) + 1] = Message
  BY SyncEffect
<1>2. CASE inFlight' = inFlight /\ latest' = latest
  BY <1>1, <1>2 DEF TheFeed!vars
<1>3. CASE latest' = BundleVersionNow /\ inFlight' = Append(inFlight, Message)
  <2>1. /\ inFlight \in Seq(Snapshots) /\ inFlight' \in Seq(Snapshots) /\ Len(inFlight) \in Nat
    BY <1>3, FlightType, VersionType, AppendProperties DEF TypeOK, Message, Snapshots
  <2>2. /\ Len(inFlight') = Len(inFlight) + 1
        /\ \A i \in 1..Len(inFlight) : inFlight'[i] = inFlight[i]
        /\ inFlight'[Len(inFlight) + 1] = Message
    BY <1>1, <1>3, <2>1, AppendProperties, LenProperties
  <2>3. inFlight' # <<>>
    BY <2>1, <2>2, EmptySeq
  <2>4. TheFeed!Front(inFlight') = inFlight
    <3> DEFINE front == SubSeq(inFlight', 1, Len(inFlight') - 1)
    <3>1. /\ front \in Seq(Snapshots) /\ Len(front) = Len(inFlight)
          /\ \A i \in 1..Len(inFlight) : front[i] = inFlight[i]
      BY <2>1, <2>2, SubSeqProperties
    <3>2. front = inFlight
      <4> HIDE DEF front
      <4> QED
        BY <2>1, <3>1, SeqEqual
    <3> QED
      BY <3>2 DEF TheFeed!Front
  <2>5. TheFeed!Last(inFlight') = Message
    BY <2>1, <2>2 DEF TheFeed!Last
  <2>6. NewerThan(BundleVersionNow, latest)
    BY <1>1, FlightType DEF VersionInv, NotAfter, NewerThan, BundleVersionNow, NewBundleVersion, Versions, TypeOK
  <2> QED
    BY <1>1, <1>3, <2>3, <2>4, <2>5, <2>6 DEF TheFeed!Next, TheFeed!Offer, Message, NewerThan, TheFeed!NewerThan
<1> QED
  BY <1>1, <1>2, <1>3

\* A message that arrives is accepted.
LEMMA DeliverFeed ==
  ASSUME TypeOK, VersionInv, OrderInv, Deliver
  PROVE  TheFeed!Accept
<1> DEFINE m == inFlight[1].objs
<1>1. /\ Len(inFlight) > 0 /\ inFlight' = Tail(inFlight) /\ Head(inFlight) = inFlight[1]
      /\ latest' = latest /\ known' = inFlight[1] /\ newest' = NewestOf(m)
  BY DeliverEffect, DeliverVersions
<1>2. 1 \in 1..Len(inFlight) /\ inFlight # <<>>
  BY <1>1, OrderType, EmptySeq
<1>3. OneEach(m) /\ Fresh(m) /\ (\A o \in m : o.name \in Names /\ o.rv \in Nat)
  BY <1>2, OrderType DEF OrderInv
<1>4. TheFeed!NewerThan(Head(inFlight).version, known.version)
  BY <1>1, <1>2 DEF VersionInv, NewerThan, TheFeed!NewerThan
<1>5. \A o \in m : o.rv >= newest[o.name]
  BY <1>3, OrderType DEF Fresh
<1>6. newest' = [n \in Names |-> TheFeed!NewestIn(known', n)]
  <2> HIDE DEF m
  <2>1. ASSUME NEW n \in Names, NEW s, s = {o \in m : o.name = n}
        PROVE  NewestOf(m)[n] = IF s = {} THEN newest[n] ELSE (CHOOSE o \in s : TRUE).rv
    <3>1. CASE s = {}
      BY <1>3, <2>1, <3>1, NewestType
    <3>2. CASE s # {}
      <4>1. (CHOOSE o \in s : TRUE) \in s
        BY <3>2, Zenon
      <4> QED
        BY <1>3, <2>1, <3>2, <4>1, NewestType
    <3> QED
      BY <3>1, <3>2
  <2>2. \A n \in Names : TheFeed!NewestIn(known', n) = NewestOf(m)[n]
    BY <1>1, <2>1 DEF TheFeed!NewestIn, m
  <2>3. NewestOf(m) = [n \in Names |-> NewestOf(m)[n]]
    BY DEF NewestOf
  <2> QED
    BY <1>1, <2>2, <2>3
<1> QED
  BY <1>1, <1>2, <1>4, <1>5, <1>6 DEF TheFeed!Accept

\* What a restart loses is the end of the feed.
LEMMA CrashFeed == ASSUME TypeOK, Crash PROVE TheFeed!Cut
<1>1. UNCHANGED <<latest, known, newest>> /\ inFlight \in Seq(Snapshots) /\ Len(inFlight) \in Nat
  BY CrashEffect, FlightType DEF TypeOK
<1>2. PICK k \in 0..Len(inFlight) : inFlight' = SubSeq(inFlight, 1, k)
  BY CrashEffect
<1>3. Len(inFlight') = k /\ inFlight' \in Seq(Snapshots)
  BY <1>1, <1>2, SubSeqProperties, LenProperties, ElementOfSeq
<1>4. SubSeq(inFlight', 1, Len(inFlight')) = inFlight'
  BY <1>3, SubSeqFull
<1> QED
  BY <1>1, <1>2, <1>3, <1>4 DEF TheFeed!Cut, TheFeed!IsPrefix

\* The controller, its API server, its restarts and a transport that may lose
\* messages come to a feed that moves forward only: every bundle that arrives
\* is newer than the known one (comment at getIncarnation), and takes no object
\* back to an earlier state, or to an object of that name from before.
THEOREM FeedMovesForward == Spec => ImplementsFeed
<1>1. Init => TheFeed!Init
  BY DEF Init, TheFeed!Init, TheFeed!NoSnapshot, NewBundleVersion, TheFeed!NewBundleVersion
<1>2. TypeOK /\ VersionInv /\ OrderInv /\ [Next]_vars => [TheFeed!Next]_TheFeed!vars
  <2> SUFFICES ASSUME TypeOK, VersionInv, OrderInv, [Next]_vars PROVE [TheFeed!Next]_TheFeed!vars
    OBVIOUS
  <2>1. CASE UNCHANGED hub
    BY <2>1 DEF hub, TheFeed!vars
  <2> QED
    BY <2>1, HubStep, SyncFeed, DeliverFeed, CrashFeed DEF TheFeed!Next
<1> QED
  BY <1>1, <1>2, TypeCorrect, VersionsRise, InOrder, PTL DEF Spec, ImplementsFeed, TheFeed!Spec


---------------------------------------------------------------------------
(* What disappears.                                                        *)

\* The object is being deleted, or is no more.
Gone(o) == Current(o.name).uid # o.uid \/ Current(o.name).deleting

\* These are objects that were created.
Real(objs) == \A o \in objs : o.name \in Names /\ o.uid \in 1..Len(log[o.name])

\* Whatever is in the first set and not in the second is gone.
Keeps(A, B) == \A o \in A : Gone(o) \/ \E q \in B : q.name = o.name /\ q.uid = o.uid

\* From what is known over the messages under way to the bundle, one
\* incarnation leaves out only what is gone.
GoneInv ==
    /\ Real(known.objs) /\ Real(bundle.objs)
    /\ known.version.incarnation = incarnation => Keeps(known.objs, bundle.objs)
    /\ \A i \in 1..Len(inFlight) :
         /\ Real(inFlight[i].objs)
         /\ inFlight[i].version.incarnation = known.version.incarnation =>
              Keeps(known.objs, inFlight[i].objs)
         /\ inFlight[i].version.incarnation = incarnation => Keeps(inFlight[i].objs, bundle.objs)
         /\ \A j \in 1..(i - 1) :
              inFlight[j].version.incarnation = inFlight[i].version.incarnation =>
                Keeps(inFlight[j].objs, inFlight[i].objs)

\* What was created stays created, what is gone stays gone.
LEMMA GoneStays ==
  ASSUME TypeOK, GuardInv, [Next]_vars, NEW objs, Real(objs)
  PROVE  Real(objs)' /\ \A o \in objs : Gone(o) => Gone(o)'
<1>1. ASSUME NEW n \in Names, NEW s \in States, Write(n, s), Succeeds(n, Finalized(s))
      PROVE  Real(objs)' /\ \A o \in objs : Gone(o) => Gone(o)'
  <2>1. /\ \A m \in Names : Len(log[m]) \in Nat /\ Len(log'[m]) \in Nat /\ Len(log[m]) <= Len(log'[m])
        /\ \A m \in Names : Current(m)' = IF m = n THEN Finalized(s) ELSE Current(m)
    BY <1>1, WriteKeeps, CurrentNext, LogType
  <2>2. Real(objs)'
    BY <2>1 DEF Real
  <2>3. ASSUME NEW o \in objs, Gone(o) PROVE Gone(o)'
    <3>1. o.name = n => o.uid # 0 /\ o.uid # Len(log[n]) + 1
      BY <2>1 DEF Real
    <3>2. CASE o.name # n
      BY <2>1, <2>3, <3>2 DEF Real, Gone
    <3>3. CASE o.name = n
      <4>1. Finalized(s).uid # o.uid \/ Finalized(s).deleting
        BY <1>1, <2>3, <3>1, <3>3 DEF Succeeds, Absent, Gone
      <4>2. Current(o.name)' = Finalized(s)
        BY <2>1, <3>3
      <4> QED
        BY <4>1, <4>2 DEF Gone
    <3> QED
      BY <3>2, <3>3
  <2> QED
    BY <2>2, <2>3
<1>2. CASE log' = log
  BY <1>2 DEF Real, Gone, Current, StateAt
<1> QED
  BY <1>1, <1>2, ClusterStep

\* So what a set leaves out it may leave out ever after.
LEMMA KeepsStays ==
  ASSUME TypeOK, GuardInv, [Next]_vars, NEW A, NEW B, Real(A), Keeps(A, B)
  PROVE  Keeps(A, B)'
BY GoneStays DEF Keeps

\* What is left out at each of two stages is gone.
LEMMA KeepsAll ==
  ASSUME NEW A, NEW B, NEW C, Keeps(A, B), Keeps(B, C)
  PROVE  Keeps(A, C)
BY DEF Keeps, Gone

\* The reconciler takes from the bundle only what is gone, and adds only what
\* was created.
LEMMA BundleGone ==
  ASSUME TypeOK, GuardInv, Real(bundle.objs), UpdateObject \/ DeleteObject
  PROVE  Real(bundle'.objs) /\ Keeps(bundle.objs, bundle'.objs)
<1> DEFINE o == Clean(worker.name, worker.rv)
<1>1. /\ worker.name \in Names /\ worker.rv \in 1..Len(log[worker.name])
      /\ InHand = log[worker.name][worker.rv] /\ InHand \in States
      /\ worker.step # "idle" /\ Len(log[worker.name]) \in Nat
  BY WorkerType, LogType DEF UpdateObject, DeleteObject
<1>2. o.name = worker.name /\ o.uid = InHand.uid
  BY <1>1, CleanType
<1>3. o.uid \in 1..Len(log[worker.name])
  <2>1. InHand.uid \in Nat /\ InHand.uid # 0 /\ InHand.uid <= worker.rv
    BY <1>1 DEF States, GuardInv, LogInv, WorkerInv, Exists
  <2> QED
    BY <1>1, <1>2, <2>1
<1>4. CASE UpdateObject
  <2>1. bundle' = GenericUpdate(bundle, o)
    BY <1>4 DEF UpdateObject
  <2> HIDE DEF o
  <2>2. /\ o \in bundle'.objs
        /\ \A q \in bundle'.objs : q = o \/ q \in bundle.objs
        /\ \A q \in bundle.objs : q \in bundle'.objs \/ (q.name = o.name /\ q.uid = o.uid)
    BY <2>1 DEF GenericUpdate, Others
  <2> QED
    BY <1>1, <1>2, <1>3, <2>2 DEF Real, Keeps
<1>5. CASE DeleteObject
  <2>1. /\ bundle' = GenericDelete(bundle, o) /\ InHand.deleting
    BY <1>5 DEF DeleteObject, GuardInv, WorkerInv
  <2> HIDE DEF o
  <2>2. bundle'.objs = {q \in bundle.objs : <<q.name, q.uid>> # <<o.name, o.uid>>}
    BY <2>1, GenericObjects
  <2>3. Gone(o)
    BY <1>1, <1>2, <2>1 DEF GuardInv, LogInv, Gone
  <2> QED
    BY <2>2, <2>3 DEF Real, Keeps, Gone
<1> QED
  BY <1>4, <1>5

\* Incarnations are no later than the process's.
LEMMA IncarnationLast ==
  ASSUME TypeOK, VersionInv
  PROVE  /\ incarnation \in Nat
         /\ known.version.incarnation \in Nat /\ known.version.incarnation <= incarnation
         /\ \A i \in 1..Len(inFlight) :
              /\ inFlight[i].version.incarnation \in Nat
              /\ inFlight[i].version.incarnation <= incarnation
<1>1. /\ incarnation \in Nat /\ lastSent \in Nat /\ known.version \in Versions
      /\ \A i \in 1..Len(inFlight) : inFlight[i].version \in Versions
  BY FlightType DEF TypeOK
<1>2. \A v \in Versions : NotAfter(v) => v.incarnation \in Nat /\ v.incarnation <= incarnation
  BY <1>1 DEF NotAfter, NewerThan, NewBundleVersion, Versions
<1> QED
  BY <1>1, <1>2 DEF VersionInv


\* While nothing is sent, delivered or restarted.
LEMMA ReconcilerGone ==
  ASSUME TypeOK, GuardInv, GoneInv, [Next]_vars, UNCHANGED <<hub, incarnation>>,
         Real(bundle'.objs), Keeps(bundle.objs, bundle'.objs)
  PROVE  GoneInv'
<1>1. PICK b, k, f : b = bundle' /\ k = known /\ f = inFlight
  OBVIOUS
<1>2. bundle' = b /\ known' = k /\ inFlight' = f /\ incarnation' = incarnation
  BY <1>1 DEF hub
<1>3. \A A : Keeps(A, bundle.objs) => Keeps(A, b.objs)
  BY <1>1, KeepsAll
<1>4. Real(k.objs)' /\ Real(b.objs)'
  BY <1>1, GoneStays DEF GoneInv
<1>5. k.version.incarnation = incarnation => Keeps(k.objs, b.objs)'
  BY <1>1, <1>3, KeepsStays DEF GoneInv
<1>6. ASSUME NEW i \in 1..Len(f)
      PROVE  /\ Real(f[i].objs)'
             /\ f[i].version.incarnation = k.version.incarnation => Keeps(k.objs, f[i].objs)'
             /\ f[i].version.incarnation = incarnation => Keeps(f[i].objs, b.objs)'
             /\ \A j \in 1..(i - 1) :
                  f[j].version.incarnation = f[i].version.incarnation => Keeps(f[j].objs, f[i].objs)'
  <2>1. /\ Real(f[i].objs) /\ Real(k.objs)
        /\ f[i].version.incarnation = k.version.incarnation => Keeps(k.objs, f[i].objs)
        /\ f[i].version.incarnation = incarnation => Keeps(f[i].objs, b.objs)
    BY <1>1, <1>3, <1>6 DEF GoneInv
  <2>2. ASSUME NEW j \in 1..(i - 1), f[j].version.incarnation = f[i].version.incarnation
        PROVE  Keeps(f[j].objs, f[i].objs)'
    <3>1. j \in 1..Len(f)
      BY <1>1, FlightType
    <3>2. Real(f[j].objs) /\ Keeps(f[j].objs, f[i].objs)
      BY <1>1, <2>2, <3>1 DEF GoneInv
    <3> QED
      BY <3>2, KeepsStays
  <2> QED
    BY <2>1, <2>2, GoneStays, KeepsStays
<1> QED
  BY <1>2, <1>4, <1>5, <1>6 DEF GoneInv, Real, Keeps


\* A message leaves out what the bundle leaves out.
LEMMA SyncGone ==
  ASSUME TypeOK, GoneInv, [Next]_vars, Sync
  PROVE  GoneInv'
<1>1. /\ UNCHANGED <<cluster, bundle, known, incarnation>>
      /\ \/ inFlight' = inFlight
         \/ /\ Len(inFlight') = Len(inFlight) + 1
            /\ \A i \in 1..Len(inFlight) : inFlight'[i] = inFlight[i]
            /\ inFlight'[Len(inFlight) + 1] = Message
  BY SyncEffect
<1>2. /\ \A A : Real(A)' = Real(A)
      /\ \A A, B : Keeps(A, B)' = Keeps(A, B)
      /\ \A A : Keeps(A, A)
  BY <1>1 DEF Real, Keeps, Gone, Current, StateAt, cluster
<1>3. PICK b, k, f : b = bundle /\ k = known /\ f = inFlight'
  OBVIOUS
<1>4. bundle' = b /\ known' = k /\ inFlight' = f /\ incarnation' = incarnation
  BY <1>1, <1>3
<1>5. ASSUME NEW i \in 1..Len(f)
      PROVE  /\ Real(f[i].objs)
             /\ f[i].version.incarnation = k.version.incarnation => Keeps(k.objs, f[i].objs)
             /\ f[i].version.incarnation = incarnation => Keeps(f[i].objs, b.objs)
             /\ \A j \in 1..(i - 1) :
                  f[j].version.incarnation = f[i].version.incarnation => Keeps(f[j].objs, f[i].objs)
  <2>1. Len(inFlight) \in Nat
    BY FlightType
  <2>2. CASE i \in 1..Len(inFlight)
    <3>1. \A j \in 1..i : j \in 1..Len(inFlight) /\ f[j] = inFlight[j]
      BY <1>1, <1>3, <2>1, <2>2
    <3> QED
      BY <1>3, <2>1, <2>2, <3>1 DEF GoneInv
  <2>3. CASE i \notin 1..Len(inFlight)
    <3>1. i = Len(inFlight) + 1 /\ f[i] = Message
      BY <1>1, <1>3, <2>1, <2>3
    <3>2. f[i].version.incarnation = incarnation /\ f[i].objs = b.objs
      BY <1>3, <3>1 DEF Message, BundleVersionNow, NewBundleVersion
    <3>3. \A j \in 1..(i - 1) : j \in 1..Len(inFlight) /\ f[j] = inFlight[j]
      BY <1>1, <1>3, <2>1, <2>3, <3>1
    <3> QED
      BY <1>2, <1>3, <3>2, <3>3 DEF GoneInv
  <2> QED
    BY <2>2, <2>3
<1>6. /\ Real(k.objs) /\ Real(b.objs)
      /\ k.version.incarnation = incarnation => Keeps(k.objs, b.objs)
  BY <1>3 DEF GoneInv
<1>7. /\ Real(k.objs)' /\ Real(b.objs)'
      /\ k.version.incarnation = incarnation => Keeps(k.objs, b.objs)'
  BY <1>2, <1>6
<1>8. ASSUME NEW i \in 1..Len(f)
      PROVE  /\ Real(f[i].objs)'
             /\ f[i].version.incarnation = k.version.incarnation => Keeps(k.objs, f[i].objs)'
             /\ f[i].version.incarnation = incarnation => Keeps(f[i].objs, b.objs)'
             /\ \A j \in 1..(i - 1) :
                  f[j].version.incarnation = f[i].version.incarnation => Keeps(f[j].objs, f[i].objs)'
  BY <1>2, <1>5
<1> QED
  BY <1>4, <1>7, <1>8 DEF GoneInv, Real, Keeps

\* The hub of hubs comes to know the first message.
LEMMA DeliverGone ==
  ASSUME TypeOK, VersionInv, GoneInv, [Next]_vars, Deliver
  PROVE  /\ GoneInv'
         /\ known'.version.incarnation = known.version.incarnation => Keeps(known.objs, known'.objs)
<1>1. /\ Len(inFlight) > 0 /\ Len(inFlight) \in Nat
      /\ Len(inFlight') = Len(inFlight) - 1
      /\ \A i \in 1..Len(inFlight') : inFlight'[i] = inFlight[i + 1]
      /\ UNCHANGED <<log, bundle, incarnation>> /\ known' = inFlight[1]
  BY DeliverEffect, DeliverVersions, FlightType DEF process, cluster
<1>2. 1 \in 1..Len(inFlight)
  BY <1>1
<1>3. known'.version.incarnation = known.version.incarnation => Keeps(known.objs, known'.objs)
  BY <1>1, <1>2 DEF GoneInv
<1>4. /\ \A A : Real(A)' = Real(A)
      /\ \A A, B : Keeps(A, B)' = Keeps(A, B)
  BY <1>1 DEF Real, Keeps, Gone, Current, StateAt
<1>5. PICK b, k, f : b = bundle /\ k = inFlight[1] /\ f = inFlight'
  OBVIOUS
<1>6. bundle' = b /\ known' = k /\ inFlight' = f /\ incarnation' = incarnation
  BY <1>1, <1>5
<1>7. ASSUME NEW i \in 1..Len(f)
      PROVE  /\ Real(f[i].objs)
             /\ f[i].version.incarnation = k.version.incarnation => Keeps(k.objs, f[i].objs)
             /\ f[i].version.incarnation = incarnation => Keeps(f[i].objs, b.objs)
             /\ \A j \in 1..(i - 1) :
                  f[j].version.incarnation = f[i].version.incarnation => Keeps(f[j].objs, f[i].objs)
  <2>1. /\ i + 1 \in 1..Len(inFlight) /\ 1 \in 1..((i + 1) - 1) /\ f[i] = inFlight[i + 1]
        /\ \A j \in 1..(i - 1) : j + 1 \in 1..((i + 1) - 1) /\ f[j] = inFlight[j + 1]
    BY <1>1, <1>5
  <2> QED
    BY <1>5, <2>1 DEF GoneInv
<1>8. /\ Real(k.objs) /\ Real(b.objs)
      /\ k.version.incarnation = incarnation => Keeps(k.objs, b.objs)
  BY <1>2, <1>5 DEF GoneInv
<1>9. /\ Real(k.objs)' /\ Real(b.objs)'
      /\ k.version.incarnation = incarnation => Keeps(k.objs, b.objs)'
  BY <1>4, <1>8
<1>10. ASSUME NEW i \in 1..Len(f)
       PROVE  /\ Real(f[i].objs)'
              /\ f[i].version.incarnation = k.version.incarnation => Keeps(k.objs, f[i].objs)'
              /\ f[i].version.incarnation = incarnation => Keeps(f[i].objs, b.objs)'
              /\ \A j \in 1..(i - 1) :
                   f[j].version.incarnation = f[i].version.incarnation => Keeps(f[j].objs, f[i].objs)'
  BY <1>4, <1>7
<1>11. GoneInv'
  BY <1>6, <1>9, <1>10 DEF GoneInv, Real, Keeps
<1> QED
  BY <1>3, <1>11

\* No message is of the incarnation that a restart begins.
LEMMA CrashGone ==
  ASSUME TypeOK, VersionInv, GoneInv, [Next]_vars, Crash
  PROVE  GoneInv'
<1>1. /\ Len(inFlight') \in 0..Len(inFlight) /\ Len(inFlight) \in Nat
      /\ \A i \in 1..Len(inFlight') : inFlight'[i] = inFlight[i]
      /\ UNCHANGED <<log, known>> /\ incarnation' = incarnation + 1 /\ bundle' = EmptyBundle
  BY CrashEffect, FlightType
<1>2. /\ \A A : Real(A)' = Real(A)
      /\ \A A, B : Keeps(A, B)' = Keeps(A, B)
  BY <1>1 DEF Real, Keeps, Gone, Current, StateAt
<1>3. PICK k, f : k = known /\ f = inFlight'
  OBVIOUS
<1>4. known' = k /\ inFlight' = f
  BY <1>1, <1>3
<1>5. Real(k.objs)' /\ bundle'.objs = {} /\ k.version.incarnation # incarnation'
  BY <1>1, <1>2, <1>3, IncarnationLast DEF GoneInv, EmptyBundle
<1>6. ASSUME NEW i \in 1..Len(f)
      PROVE  /\ Real(f[i].objs)'
             /\ f[i].version.incarnation = k.version.incarnation => Keeps(k.objs, f[i].objs)'
             /\ f[i].version.incarnation # incarnation'
             /\ \A j \in 1..(i - 1) :
                  f[j].version.incarnation = f[i].version.incarnation => Keeps(f[j].objs, f[i].objs)'
  <2>1. i \in 1..Len(inFlight) /\ \A j \in 1..i : j \in 1..Len(inFlight) /\ f[j] = inFlight[j]
    BY <1>1, <1>3
  <2>2. /\ Real(f[i].objs)
        /\ f[i].version.incarnation = k.version.incarnation => Keeps(k.objs, f[i].objs)
        /\ f[i].version.incarnation # incarnation'
        /\ \A j \in 1..(i - 1) :
             f[j].version.incarnation = f[i].version.incarnation => Keeps(f[j].objs, f[i].objs)
    BY <1>1, <1>3, <2>1, IncarnationLast DEF GoneInv
  <2> QED
    BY <1>2, <2>2
<1> QED
  BY <1>4, <1>5, <1>6 DEF GoneInv, Real, Keeps

\* Every step leaves out only what is gone ...
LEMMA GoneStep ==
  TypeOK /\ GuardInv /\ VersionInv /\ GoneInv /\ [Next]_vars => GoneInv'
<1> SUFFICES ASSUME TypeOK, GuardInv, VersionInv, GoneInv, [Next]_vars PROVE GoneInv'
  OBVIOUS
<1>1. CASE UpdateObject \/ DeleteObject
  <2>1. UNCHANGED <<hub, incarnation>>
    BY <1>1 DEF UpdateObject, DeleteObject
  <2>2. Real(bundle'.objs) /\ Keeps(bundle.objs, bundle'.objs)
    BY <1>1, BundleGone DEF GoneInv
  <2> QED
    BY <2>1, <2>2, ReconcilerGone
<1>2. CASE UNCHANGED <<bundle, hub, incarnation>>
  <2>1. Real(bundle'.objs) /\ Keeps(bundle.objs, bundle'.objs)
    BY <1>2 DEF GoneInv, Keeps
  <2> QED
    BY <1>2, <2>1, ReconcilerGone
<1>3. Sync \/ Deliver \/ Crash \/ UpdateObject \/ DeleteObject \/ UNCHANGED <<bundle, hub, incarnation>>
  BY DEF Next, vars, process, Create, Modify, RequestDelete, ReleaseByOthers, WriteByOthers, Watch, Resync,
         Reconcile, AddFinalizer, RemoveFinalizer
<1> QED
  BY <1>1, <1>2, <1>3, SyncGone, DeliverGone, CrashGone

\* The hub of hubs ceases to know an object only because the object is being
\* deleted or is no more, or as a restarted process builds its bundle anew.
THEOREM NothingElseDisappears == Spec => OnlyDeletedDisappear
<1>1. Init => GoneInv
  <2> SUFFICES ASSUME Init PROVE GoneInv
    OBVIOUS
  <2>1. Len(inFlight) = 0 /\ bundle.objs = {} /\ known.objs = {}
    BY EmptySeq DEF Init, EmptyBundle
  <2> QED
    BY <2>1 DEF GoneInv, Real, Keeps
<1>2. TypeOK /\ VersionInv /\ GoneInv /\ [Next]_vars =>
        [known'.version.incarnation = known.version.incarnation =>
           \A o \in known.objs :
              \/ \E q \in known'.objs : q.name = o.name /\ q.uid = o.uid
              \/ Current(o.name).uid # o.uid \/ Current(o.name).deleting]_vars
  <2> SUFFICES ASSUME TypeOK, VersionInv, GoneInv, [Next]_vars,
                      known'.version.incarnation = known.version.incarnation,
                      NEW o \in known.objs
               PROVE  \/ \E q \in known'.objs : q.name = o.name /\ q.uid = o.uid
                      \/ Current(o.name).uid # o.uid \/ Current(o.name).deleting
    OBVIOUS
  <2>1. Deliver \/ known' = known
    BY HubStep, SyncEffect, CrashEffect DEF hub
  <2> QED
    BY <2>1, DeliverGone DEF Keeps, Gone
<1> QED
  BY <1>1, <1>2, GoneStep, TypeCorrect, Guarded, VersionsRise, PTL DEF Spec, OnlyDeletedDisappear

=============================================================================
