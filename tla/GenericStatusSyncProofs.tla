---------------------- MODULE GenericStatusSyncProofs ----------------------
(***************************************************************************)
(* What holds of a generic status sync controller, its restarts and lost   *)
(* messages, for every value of the constants.                             *)
(***************************************************************************)
EXTENDS GenericStatusSync, SequenceTheorems, TLAPS

---------------------------------------------------------------------------
(* Types.                                                                  *)

Steps == {"finalize", "update", "delete", "release"}

\* No object is a state like any other; it does not exist.
LEMMA AbsentType ==
  Absent \in States /\ ~Exists(Absent) /\ ~Absent.deleting /\ ~Absent.finalizer /\ ~Absent.others
BY DEF Absent, States, Exists

\* A log is a sequence of states, of which the cache has seen a part.
LEMMA LogType ==
  ASSUME TypeOK, NEW n \in Names
  PROVE  /\ log[n] \in Seq(States) /\ Len(log[n]) \in Nat
         /\ seen[n] \in Nat /\ seen[n] <= Len(log[n])
         /\ \A i \in 1..Len(log[n]) : log[n][i] \in States
BY LenProperties, ElementOfSeq DEF TypeOK

\* Every resource version that was ever given stands for a state.
LEMMA StateType ==
  ASSUME TypeOK, NEW n \in Names, NEW rv \in 0..Len(log[n])
  PROVE  StateAt(n, rv) \in States
BY LogType, AbsentType DEF StateAt

\* Current states are of the type.
LEMMA CurrentType == ASSUME TypeOK, NEW n \in Names PROVE Current(n) \in States
BY LogType, StateType DEF Current

\* What a write does to an object's log: all earlier states stay as they are.
LEMMA WriteType ==
  ASSUME TypeOK, NEW n \in Names, NEW s \in States, Write(n, s)
  PROVE  /\ log' \in [Names -> Seq(States)]
         /\ \A m \in Names : m # n => log'[m] = log[m]
         /\ Len(log'[n]) = Len(log[n]) + 1
         /\ \A i \in 1..Len(log[n]) : log'[n][i] = log[n][i]
         /\ log'[n][Len(log[n]) + 1] = Finalized(s)
<1>1. Finalized(s) \in States
  BY AbsentType DEF Finalized
<1>2. /\ Append(log[n], Finalized(s)) \in Seq(States)
      /\ Len(Append(log[n], Finalized(s))) = Len(log[n]) + 1
      /\ \A i \in 1..Len(log[n]) : Append(log[n], Finalized(s))[i] = log[n][i]
      /\ Append(log[n], Finalized(s))[Len(log[n]) + 1] = Finalized(s)
  BY <1>1, LogType, AppendProperties
<1>3. log' = [log EXCEPT ![n] = Append(log[n], Finalized(s))] /\ log \in [Names -> Seq(States)]
  BY DEF Write, TypeOK
<1> QED
  BY <1>2, <1>3

\* The reconciler's object is an existing resource version.
LEMMA WorkerType ==
  ASSUME TypeOK, worker.step # "idle"
  PROVE  /\ worker \in [step : Steps, name : Names, rv : Nat]
         /\ worker.name \in Names /\ worker.step \in Steps
         /\ worker.rv \in 1..Len(log[worker.name])
         /\ InHand = log[worker.name][worker.rv] /\ InHand \in States
<1>1. /\ worker \in [step : Steps, name : Names, rv : Nat]
      /\ worker.rv \in 1..Len(log[worker.name])
  BY DEF TypeOK, Idle, Steps
<1>2. worker.name \in Names /\ Len(log[worker.name]) \in Nat
  BY <1>1, LogType
<1>3. InHand \in States /\ worker.rv # 0
  BY <1>1, <1>2, StateType DEF InHand
<1> QED
  BY <1>1, <1>2, <1>3 DEF InHand, StateAt


\* An object that a bundle is told of is an object as bundles hold it.
LEMMA CleanType ==
  ASSUME TypeOK, worker.step # "idle"
  PROVE  /\ Clean(worker.name, worker.rv) \in Objects
         /\ Clean(worker.name, worker.rv).name = worker.name
         /\ Clean(worker.name, worker.rv).rv = worker.rv
         /\ Clean(worker.name, worker.rv).uid = InHand.uid
<1>1. /\ worker.name \in Names /\ worker.rv \in Nat
      /\ InHand \in States /\ StateAt(worker.name, worker.rv) = InHand
  BY WorkerType DEF InHand
<1>2. InHand.uid \in Nat
  BY <1>1 DEF States
<1> QED
  BY <1>1, <1>2 DEF Clean, Objects

\* What others may write: a new object, or the current one with its UID and,
\* once that is set, its deletion timestamp, and with its finalizer as it is.
Continues(n, s) ==
    \/ ~Exists(Current(n)) /\ s.uid = Len(log[n]) + 1 /\ ~s.deleting /\ ~s.finalizer
    \/ /\ Exists(Current(n)) \/ Current(n).others
       /\ s.uid = Current(n).uid
       /\ Current(n).deleting => s.deleting
       /\ s.finalizer = Current(n).finalizer

\* An object as it is created.
LEMMA NewState ==
  ASSUME NEW u \in Nat, NEW others \in BOOLEAN,
         NEW s, s = [Absent EXCEPT !.uid = u, !.others = others]
  PROVE  s \in States /\ s.uid = u /\ ~s.deleting /\ ~s.finalizer
BY DEF Absent, States

\* Others write states that continue the log so.
LEMMA OthersWrite ==
  ASSUME TypeOK, NEW n \in Names, Create(n) \/ Modify(n) \/ RequestDelete(n) \/ ReleaseByOthers(n)
  PROVE  \E s \in States : WriteByOthers(n, s) /\ Continues(n, s)
<1>1. Current(n) \in States /\ Len(log[n]) \in Nat
  BY CurrentType, LogType
<1>2. CASE Create(n)
  <2>1. PICK others \in BOOLEAN :
           WriteByOthers(n, [Absent EXCEPT !.uid = Len(log[n]) + 1, !.others = others])
    BY <1>2 DEF Create
  <2> DEFINE s == [Absent EXCEPT !.uid = Len(log[n]) + 1, !.others = others]
  <2>2. s \in States /\ s.uid = Len(log[n]) + 1 /\ ~s.deleting /\ ~s.finalizer
    <3>1. Len(log[n]) + 1 \in Nat
      BY <1>1
    <3> QED
      BY <3>1, NewState
  <2> HIDE DEF s
  <2> QED
    BY <1>2, <2>1, <2>2 DEF Create, Continues, s
<1>3. CASE Modify(n)
  BY <1>1, <1>3 DEF Modify, Continues
<1>4. CASE RequestDelete(n)
  <2> DEFINE s == [Current(n) EXCEPT !.deleting = TRUE]
  <2>1. s \in States /\ s.uid = Current(n).uid /\ s.deleting /\ s.finalizer = Current(n).finalizer
    BY <1>1 DEF States
  <2> HIDE DEF s
  <2> QED
    BY <1>4, <2>1 DEF RequestDelete, Continues, s
<1>5. CASE ReleaseByOthers(n)
  <2> DEFINE s == [Current(n) EXCEPT !.others = FALSE]
  <2>1. /\ s \in States /\ s.uid = Current(n).uid
        /\ s.deleting = Current(n).deleting /\ s.finalizer = Current(n).finalizer
    BY <1>1 DEF States
  <2> HIDE DEF s
  <2> QED
    BY <1>5, <2>1 DEF ReleaseByOthers, Continues, s
<1> QED
  BY <1>2, <1>3, <1>4, <1>5

\* A call of client.Update in the reconciler: nothing is written and the
\* request comes back, or the current object was the one in hand and the
\* reconciler goes on or fails to learn of its success.
LEMMA UpdateStep ==
  ASSUME NEW s, NEW next, Update(s, next)
  PROVE  /\ \/ log' = log /\ worker' = Idle /\ queue' = queue \cup {worker.name}
            \/ /\ worker.rv = Len(log[worker.name])
               /\ Write(worker.name, s)
               /\ \/ worker' = next /\ queue' = queue
                  \/ worker' = Idle /\ queue' = queue \cup {worker.name}
         /\ \/ errors' = errors
            \/ errors < MaxErrors /\ errors' = errors + 1
BY DEF Update, Requeue

\* What the reconciler writes are states.
LEMMA FinalizerStates ==
  ASSUME TypeOK, worker.step # "idle"
  PROVE  /\ [InHand EXCEPT !.finalizer = TRUE] \in States
         /\ [InHand EXCEPT !.finalizer = FALSE] \in States
BY WorkerType DEF States

\* A write does no harm to the cache, nor to a reconciler that stays.
LEMMA WriteKeeps ==
  ASSUME TypeOK, NEW n \in Names, NEW s \in States, Write(n, s)
  PROVE  /\ log' \in [Names -> Seq(States)]
         /\ \A m \in Names : /\ Len(log'[m]) \in Nat /\ Len(log[m]) <= Len(log'[m])
                             /\ seen[m] <= Len(log'[m])
                             /\ \A i \in 1..Len(log[m]) : log'[m][i] = log[m][i]
<1>1. \A m \in Names : Len(log[m]) \in Nat /\ seen[m] \in Nat /\ seen[m] <= Len(log[m])
  BY LogType
<1>2. /\ log' \in [Names -> Seq(States)]
      /\ \A m \in Names : m # n => log'[m] = log[m]
      /\ Len(log'[n]) = Len(log[n]) + 1
      /\ \A i \in 1..Len(log[n]) : log'[n][i] = log[n][i]
  BY WriteType
<1> QED
  BY <1>1, <1>2

\* The reconciler's part of TypeOK.
WorkerOK ==
    \/ worker = Idle
    \/ worker \in [step : Steps, name : Names, rv : Nat] /\ worker.rv \in 1..Len(log[worker.name])

\* The writes of others keep the types.
LEMMA OthersType ==
  ASSUME TypeOK, NEW n \in Names, Create(n) \/ Modify(n) \/ RequestDelete(n) \/ ReleaseByOthers(n)
  PROVE  TypeOK'
<1>1. PICK s \in States : WriteByOthers(n, s)
  BY OthersWrite
<1>2. /\ log' \in [Names -> Seq(States)]
      /\ \A m \in Names : /\ Len(log'[m]) \in Nat /\ Len(log[m]) <= Len(log'[m])
                          /\ seen[m] <= Len(log'[m])
  BY <1>1, WriteKeeps DEF WriteByOthers
<1>3. UNCHANGED <<seen, queue, worker, bundle, lastSent, incarnation, hub, errors, crashes>>
  BY <1>1 DEF WriteByOthers, process
<1>4. changes' \in 0..MaxChanges
  <2>1. changes < MaxChanges /\ changes' = changes + 1 /\ changes \in 0..MaxChanges
    BY <1>1 DEF WriteByOthers, TypeOK
  <2> QED
    BY <2>1, BoundsAssumption
<1>5. WorkerOK'
  BY <1>2, <1>3, LogType DEF TypeOK, WorkerOK, Steps
<1> QED
  BY <1>2, <1>3, <1>4, <1>5 DEF TypeOK, WorkerOK, Steps, hub

\* The informer's steps keep the types.
LEMMA InformerType ==
  ASSUME TypeOK, NEW n \in Names, Watch(n) \/ Resync(n)
  PROVE  TypeOK'
<1>1. seen' \in [Names -> Nat] /\ \A m \in Names : seen'[m] <= Len(log[m])
  <2>1. seen \in [Names -> Nat] /\ (\A m \in Names : seen[m] <= Len(log[m])) /\ Len(log[n]) \in Nat
    BY LogType DEF TypeOK
  <2>2. seen' = seen \/ (seen[n] < Len(log[n]) /\ seen' = [seen EXCEPT ![n] = @ + 1])
    BY DEF Watch, Resync, cluster
  <2> QED
    BY <2>1, <2>2
<1>2. WorkerOK' = WorkerOK /\ queue' \subseteq Names
  BY DEF Watch, Resync, cluster, WorkerOK, TypeOK
<1>3. UNCHANGED <<log, bundle, lastSent, incarnation, hub, bounds>>
  BY DEF Watch, Resync, cluster
<1> QED
  BY <1>1, <1>2, <1>3 DEF TypeOK, WorkerOK, Steps, hub, bounds

\* Taking a request keeps the types.
LEMMA ReconcileType == ASSUME TypeOK, NEW n \in Names, Reconcile(n) PROVE TypeOK'
<1>1. WorkerOK'
  <2> DEFINE s == StateAt(n, seen[n])
  <2>1. seen[n] \in 0..Len(log[n]) /\ Len(log[n]) \in Nat /\ log' = log
    BY LogType DEF Reconcile, cluster
  <2>2. CASE Exists(s)
    <3>1. seen[n] \in 1..Len(log[n])
      BY <2>1, <2>2, AbsentType DEF StateAt
    <3>2. worker' = Working(FirstStep(s), n, seen[n])
      BY <2>2 DEF Reconcile
    <3>3. s \in States
      BY <2>1, StateType
    <3>4. FirstStep(s) \in Steps
      BY <3>3 DEF FirstStep, States, Steps
    <3> QED
      BY <2>1, <3>1, <3>2, <3>4 DEF WorkerOK, Working
  <2>3. CASE ~Exists(s)
    BY <2>3 DEF Reconcile, WorkerOK
  <2> QED
    BY <2>2, <2>3
<1>2. queue' \subseteq Names
  BY DEF Reconcile, TypeOK
<1>3. UNCHANGED <<cluster, bundle, lastSent, incarnation, hub, bounds>>
  BY DEF Reconcile
<1> QED
  BY <1>1, <1>2, <1>3 DEF TypeOK, WorkerOK, Steps, cluster, hub, bounds

\* Both API calls of a reconciliation keep the types.
LEMMA FinalizerType == ASSUME TypeOK, AddFinalizer \/ RemoveFinalizer PROVE TypeOK'
<1> DEFINE n == worker.name
<1>1. worker.step # "idle"
  BY DEF AddFinalizer, RemoveFinalizer
<1>2. n \in Names /\ worker.rv \in 1..Len(log[n]) /\ Len(log[n]) \in Nat
  BY <1>1, WorkerType, LogType
<1>3. PICK s \in States, next \in {Idle, Working("update", n, worker.rv + 1)} : Update(s, next)
  BY <1>1, FinalizerStates DEF AddFinalizer, RemoveFinalizer
<1>4. errors' \in 0..MaxErrors
  <2>1. errors \in 0..MaxErrors
    BY DEF TypeOK
  <2>2. errors' = errors \/ (errors < MaxErrors /\ errors' = errors + 1)
    BY <1>3, UpdateStep
  <2> QED
    BY <2>1, <2>2, BoundsAssumption
<1>5. UNCHANGED <<seen, bundle, lastSent, incarnation, hub, changes, crashes>>
  BY DEF AddFinalizer, RemoveFinalizer
<1>6. queue' \subseteq Names
  BY <1>2, <1>3, UpdateStep DEF TypeOK
<1>7. CASE log' = log /\ worker' = Idle
  <2>1. WorkerOK'
    BY <1>7 DEF WorkerOK
  <2> QED
    BY <1>4, <1>5, <1>6, <1>7, <2>1 DEF TypeOK, WorkerOK, Steps, hub
<1>8. CASE worker.rv = Len(log[n]) /\ Write(n, s) /\ worker' \in {Idle, next}
  <2>1. /\ log' \in [Names -> Seq(States)]
        /\ \A m \in Names : seen[m] <= Len(log'[m])
    BY <1>2, <1>8, WriteKeeps
  <2>2. Len(log'[n]) = Len(log[n]) + 1
    BY <1>2, <1>8, WriteType
  <2>3. WorkerOK'
    BY <1>2, <1>3, <1>8, <2>2 DEF WorkerOK, Working, Steps
  <2> QED
    BY <1>4, <1>5, <1>6, <2>1, <2>3 DEF TypeOK, WorkerOK, Steps, hub
<1> QED
  BY <1>3, <1>7, <1>8, UpdateStep

\* The bundle's operations keep its type, and its version does not go back.
LEMMA GenericType ==
  ASSUME NEW b \in [objs : SUBSET Objects, gen : Nat], NEW o \in Objects
  PROVE  /\ GenericUpdate(b, o) \in [objs : SUBSET Objects, gen : Nat]
         /\ GenericDelete(b, o) \in [objs : SUBSET Objects, gen : Nat]
         /\ GenericUpdate(b, o).gen >= b.gen /\ GenericDelete(b, o).gen >= b.gen
BY DEF GenericUpdate, GenericDelete, Others

\* The steps on the bundle keep the types.
LEMMA BundleType == ASSUME TypeOK, UpdateObject \/ DeleteObject PROVE TypeOK'
<1> DEFINE o == Clean(worker.name, worker.rv)
<1>1. worker.step # "idle"
  BY DEF UpdateObject, DeleteObject
<1>2. o \in Objects
  BY <1>1, CleanType
<1>3. bundle \in [objs : SUBSET Objects, gen : Nat] /\ lastSent \in 0..bundle.gen
  BY DEF TypeOK
<1>4. bundle' \in {GenericUpdate(bundle, o), GenericDelete(bundle, o)}
  BY DEF UpdateObject, DeleteObject
<1>5. bundle' \in [objs : SUBSET Objects, gen : Nat] /\ bundle'.gen >= bundle.gen
  BY <1>2, <1>3, <1>4, GenericType
<1>6. lastSent \in 0..bundle'.gen
  BY <1>3, <1>5
<1>7. WorkerOK'
  <2>1. /\ worker \in [step : Steps, name : Names, rv : Nat]
        /\ worker.rv \in 1..Len(log[worker.name]) /\ log' = log
    BY <1>1, WorkerType DEF UpdateObject, DeleteObject, cluster
  <2>2. worker' \in {Idle, [worker EXCEPT !.step = "release"]}
    BY DEF UpdateObject, DeleteObject
  <2> QED
    BY <2>1, <2>2 DEF WorkerOK, Steps
<1>8. UNCHANGED <<cluster, queue, lastSent, incarnation, hub, bounds>>
  BY DEF UpdateObject, DeleteObject
<1> QED
  BY <1>5, <1>6, <1>7, <1>8 DEF TypeOK, WorkerOK, Steps, cluster, hub, bounds

\* The version that a pass would send is a version.
LEMMA VersionType == ASSUME TypeOK PROVE BundleVersionNow \in Versions
BY DEF TypeOK, BundleVersionNow, NewBundleVersion, Versions

\* Sending keeps the types.
LEMMA SyncType == ASSUME TypeOK, Sync PROVE TypeOK'
<1> DEFINE m == [version |-> BundleVersionNow, objs |-> bundle.objs]
<1>1. m \in Snapshots
  BY VersionType DEF TypeOK, Snapshots
<1>2. inFlight' \in {inFlight, Append(inFlight, m)} /\ latest' \in {latest, BundleVersionNow}
  BY DEF Sync
<1>3. inFlight' \in Seq(Snapshots) /\ latest' \in Versions
  <2>1. inFlight \in Seq(Snapshots) /\ latest \in Versions
    BY DEF TypeOK
  <2> HIDE DEF m
  <2> QED
    BY <1>1, <1>2, <2>1, VersionType, AppendProperties
<1>4. lastSent' \in 0..bundle.gen
  BY DEF Sync, TypeOK
<1>5. WorkerOK' = WorkerOK
  BY DEF Sync, WorkerOK, cluster
<1>6. UNCHANGED <<cluster, queue, bundle, incarnation, known, newest, bounds>>
  BY DEF Sync
<1> QED
  BY <1>3, <1>4, <1>5, <1>6 DEF TypeOK, WorkerOK, Steps, cluster, bounds

\* Delivery keeps the types.
LEMMA DeliverType == ASSUME TypeOK, Deliver PROVE TypeOK'
<1> DEFINE m == Head(inFlight)
<1>1. inFlight \in Seq(Snapshots) /\ inFlight # <<>>
  BY DEF Deliver, TypeOK
<1>2. m \in Snapshots /\ inFlight' \in Seq(Snapshots)
  BY <1>1, HeadTailProperties DEF Deliver
<1>3. known' \in Snapshots
  BY <1>2 DEF Deliver, TypeOK
<1>4. newest' \in [Names -> Nat]
  <2>1. \A n \in Names : (\E o \in m.objs : o.name = n) => (CHOOSE o \in m.objs : o.name = n).rv \in Nat
    <3>1. m.objs \subseteq Objects
      BY <1>2 DEF Snapshots
    <3>2. ASSUME NEW n \in Names, \E o \in m.objs : o.name = n
          PROVE  (CHOOSE o \in m.objs : o.name = n) \in m.objs
      BY <3>2, Zenon
    <3> QED
      BY <3>1, <3>2 DEF Objects
  <2> HIDE DEF m
  <2>2. newest' = newest \/ newest' = [n \in Names |-> IF \E o \in m.objs : o.name = n
                     THEN (CHOOSE o \in m.objs : o.name = n).rv ELSE newest[n]]
    BY DEF Deliver, m
  <2> QED
    BY <2>1, <2>2 DEF TypeOK
<1>5. WorkerOK' = WorkerOK
  BY DEF Deliver, WorkerOK, cluster, process
<1>6. UNCHANGED <<cluster, process, latest, bounds>>
  BY DEF Deliver
<1> QED
  BY <1>2, <1>3, <1>4, <1>5, <1>6 DEF TypeOK, WorkerOK, Steps, cluster, process, bounds

\* A restart keeps the types.
LEMMA CrashType == ASSUME TypeOK, Crash PROVE TypeOK'
<1>1. inFlight \in Seq(Snapshots)
  BY DEF TypeOK
<1>2. PICK k \in 0..Len(inFlight) : inFlight' = SubSeq(inFlight, 1, k)
  BY DEF Crash
<1>3. inFlight' \in Seq(Snapshots)
  BY <1>1, <1>2, SubSeqProperties, ElementOfSeq, LenProperties
<1>4. crashes' \in 0..MaxCrashes
  <2>1. crashes \in 0..MaxCrashes /\ crashes < MaxCrashes /\ crashes' = crashes + 1
    BY DEF TypeOK, Crash
  <2> QED
    BY <2>1, BoundsAssumption
<1>5. bundle' \in [objs : SUBSET Objects, gen : Nat] /\ lastSent' \in 0..bundle'.gen /\ WorkerOK'
  BY DEF Crash, EmptyBundle, WorkerOK
<1>6. seen' \in [Names -> Nat] /\ (\A n \in Names : seen'[n] <= Len(log[n])) /\ queue' \subseteq Names
  BY LogType DEF Crash
<1>7. incarnation' \in Nat
  BY DEF Crash, NextIncarnation, TypeOK
<1>8. UNCHANGED <<log, known, latest, newest, changes, errors>>
  BY DEF Crash
<1> QED
  BY <1>3, <1>4, <1>5, <1>6, <1>7, <1>8 DEF TypeOK, WorkerOK, Steps

\* Every step keeps every variable's type.
LEMMA TypeStep == TypeOK /\ [Next]_vars => TypeOK'
<1> SUFFICES ASSUME TypeOK, [Next]_vars PROVE TypeOK'
  OBVIOUS
<1>1. CASE UNCHANGED vars
  <2>1. WorkerOK' = WorkerOK
    BY <1>1 DEF vars, WorkerOK, cluster, process
  <2> QED
    BY <1>1, <2>1 DEF TypeOK, WorkerOK, Steps, vars, cluster, process, hub, bounds
<1> QED
  BY <1>1, OthersType, InformerType, ReconcileType, FinalizerType, BundleType, SyncType, DeliverType, CrashType
  DEF Next

\* Every variable keeps the type its field has in the code, and the reconciler
\* and the cache are at states that the objects were in.
THEOREM TypeCorrect == Spec => []TypeOK
<1>1. Init => TypeOK
  <2> SUFFICES ASSUME Init PROVE TypeOK
    OBVIOUS
  <2>1. \A n \in Names : log[n] = <<>> /\ Len(log[n]) = 0 /\ log[n] \in Seq(States)
    BY EmptySeq DEF Init
  <2>2. log \in [Names -> Seq(States)] /\ seen \in [Names -> Nat] /\ \A n \in Names : seen[n] <= Len(log[n])
    BY <2>1 DEF Init
  <2>3. inFlight \in Seq(Snapshots)
    BY EmptySeq DEF Init
  <2>4. known \in Snapshots /\ latest \in Versions
    BY DEF Init, Snapshots, Versions, NewBundleVersion
  <2>5. changes \in 0..MaxChanges /\ errors \in 0..MaxErrors /\ crashes \in 0..MaxCrashes
    BY BoundsAssumption DEF Init
  <2>6. bundle \in [objs : SUBSET Objects, gen : Nat] /\ lastSent \in 0..bundle.gen /\ WorkerOK
    BY DEF Init, EmptyBundle, WorkerOK
  <2> QED
    BY <2>2, <2>3, <2>4, <2>5, <2>6 DEF TypeOK, WorkerOK, Steps, Init
<1> QED
  BY <1>1, TypeStep, PTL DEF Spec

---------------------------------------------------------------------------
(* The finalizer.                                                          *)

\* What an object's log tells: UIDs are those of the writes that created, a
\* deletion timestamp stays, and while the cache may still show an object
\* with the finalizer that is not being deleted, the object has the finalizer.
LogInv ==
    \A n \in Names : \A i \in 1..Len(log[n]) :
        LET s == log[n][i]
        IN  /\ Exists(s) \/ s = Absent
            /\ s.uid <= i
            /\ s.deleting => Current(n).uid # s.uid \/ Current(n).deleting
            /\ (i >= seen[n] /\ s.finalizer /\ ~s.deleting) =>
                   Current(n).uid = s.uid /\ Current(n).finalizer

\* What the reconciler knows at each of its steps; before it releases the
\* finalizer the object is out of the bundle.
WorkerInv ==
    /\ worker.step # "idle" => Exists(InHand)
    /\ worker.step \in {"finalize", "delete", "release"} => worker.rv <= seen[worker.name]
    /\ worker.step = "finalize" => ~InHand.deleting /\ ~InHand.finalizer
    /\ worker.step = "update" =>
         /\ ~InHand.deleting /\ InHand.finalizer
         /\ Current(worker.name).uid = InHand.uid /\ Current(worker.name).finalizer
    /\ worker.step \in {"delete", "release"} => InHand.deleting
    /\ worker.step = "release" =>
         \A o \in bundle.objs : o.name = worker.name => o.uid # InHand.uid

GuardInv == LogInv /\ WorkerInv /\ FinalizerGuards

\* What a write may make of the current object: nothing is left of it, it is
\* a new one, or it has its UID and deletion timestamp still.  The finalizer
\* goes only from what is known to be deleted.
Succeeds(n, t) ==
    /\ t \in States
    /\ \/ t = Absent
       \/ ~Exists(Current(n)) /\ t.uid = Len(log[n]) + 1 /\ ~t.deleting
       \/ Exists(t) /\ t.uid = Current(n).uid /\ (Current(n).deleting => t.deleting)
    /\ Current(n).finalizer =>
         \/ t.finalizer /\ t.uid = Current(n).uid
         \/ Current(n).deleting /\ seen[n] = Len(log[n])

\* An object without a log, or gone, is as if there never was one.
LEMMA CurrentAbsent ==
  ASSUME TypeOK, LogInv, NEW n \in Names
  PROVE  (Exists(Current(n)) \/ Current(n) = Absent) /\ Current(n).uid <= Len(log[n])
<1>1. Len(log[n]) \in Nat
  BY LogType
<1>2. CASE Len(log[n]) = 0
  BY <1>2 DEF Current, StateAt, Absent
<1>3. CASE Len(log[n]) # 0
  <2>1. Len(log[n]) \in 1..Len(log[n]) /\ Current(n) = log[n][Len(log[n])]
    BY <1>1, <1>3 DEF Current, StateAt
  <2> QED
    BY <2>1 DEF LogInv
<1> QED
  BY <1>2, <1>3

\* The writes of others are of that kind, and keep the finalizer.
LEMMA OthersSucceed ==
  ASSUME TypeOK, LogInv, NEW n \in Names, NEW s \in States, Continues(n, s)
  PROVE  /\ Succeeds(n, Finalized(s))
         /\ Current(n).finalizer => Finalized(s).finalizer /\ Finalized(s).uid = Current(n).uid
<1>1. /\ Exists(Current(n)) \/ Current(n) = Absent
      /\ Current(n) \in States
  BY CurrentAbsent, CurrentType
<1>2. Finalized(s) \in {s, Absent} /\ (s.finalizer => Finalized(s) = s)
  BY DEF Finalized
<1> QED
  BY <1>1, <1>2, AbsentType DEF Succeeds, Continues, Exists

\* So are those of the reconciler: it writes the current object.
LEMMA WorkerSucceeds ==
  ASSUME TypeOK, LogInv, WorkerInv, worker.step \in {"finalize", "release"},
         worker.rv = Len(log[worker.name]),
         NEW s, s = [InHand EXCEPT !.finalizer = (worker.step = "finalize")]
  PROVE  /\ Succeeds(worker.name, Finalized(s))
         /\ InHand = Current(worker.name)
         /\ seen[worker.name] = Len(log[worker.name])
         /\ worker.step = "finalize" => Finalized(s) = s /\ s.finalizer /\ s.uid = InHand.uid /\ ~s.deleting
<1>1. /\ worker.name \in Names /\ worker.rv \in 1..Len(log[worker.name])
      /\ InHand = log[worker.name][worker.rv] /\ InHand \in States
  BY WorkerType
<1>2. seen[worker.name] \in Nat /\ seen[worker.name] <= Len(log[worker.name])
  BY <1>1, LogType
<1>3. InHand = Current(worker.name) /\ seen[worker.name] = Len(log[worker.name])
  BY <1>1, <1>2 DEF Current, StateAt, WorkerInv
<1>4. /\ s \in States /\ s.uid = InHand.uid /\ s.deleting = InHand.deleting
      /\ s.finalizer = (worker.step = "finalize")
  BY <1>1 DEF States
<1>5. Exists(InHand) /\ (worker.step = "finalize" => ~InHand.deleting) /\ (worker.step = "release" => InHand.deleting)
  BY DEF WorkerInv
<1>6. Finalized(s) \in {s, Absent} /\ (s.finalizer => Finalized(s) = s)
  BY DEF Finalized
<1> QED
  BY <1>3, <1>4, <1>5, <1>6, AbsentType DEF Succeeds, Exists

\* A write that succeeds the current object so keeps what logs tell.
LEMMA LogStep ==
  ASSUME TypeOK, LogInv, NEW n \in Names, NEW s \in States, Write(n, s), seen' = seen,
         Succeeds(n, Finalized(s))
  PROVE  LogInv'
<1> DEFINE t == Finalized(s)
<1>1. /\ \A m \in Names : m # n => log'[m] = log[m]
      /\ Len(log'[n]) = Len(log[n]) + 1
      /\ \A i \in 1..Len(log[n]) : log'[n][i] = log[n][i]
      /\ log'[n][Len(log[n]) + 1] = t
  BY WriteType
<1>2. Len(log[n]) \in Nat /\ Current(n) \in States /\ \A i \in 1..Len(log[n]) : log[n][i] \in States
  BY LogType, CurrentType
<1>3. Current(n)' = t /\ \A m \in Names : m # n => Current(m)' = Current(m)
  BY <1>1, <1>2 DEF Current, StateAt
<1>4. /\ Exists(Current(n)) \/ Current(n) = Absent
      /\ Current(n).uid <= Len(log[n])
  BY CurrentAbsent
<1>5. t \in States
  BY DEF Succeeds
<1> HIDE DEF t
<1>6. Exists(t) \/ t = Absent
  BY <1>2, <1>5 DEF Succeeds, Exists, t
<1>7. t.uid <= Len(log[n]) + 1
  BY <1>2, <1>4, <1>5 DEF Succeeds, Absent, States, t
<1> SUFFICES ASSUME NEW m \in Names, NEW i \in 1..Len(log'[m])
             PROVE  /\ Exists(log'[m][i]) \/ log'[m][i] = Absent
                    /\ log'[m][i].uid <= i
                    /\ log'[m][i].deleting => Current(m)'.uid # log'[m][i].uid \/ Current(m)'.deleting
                    /\ (i >= seen[m] /\ log'[m][i].finalizer /\ ~log'[m][i].deleting) =>
                         Current(m)'.uid = log'[m][i].uid /\ Current(m)'.finalizer
  BY DEF LogInv, Exists
<1>8. CASE m # n
  BY <1>1, <1>3, <1>8 DEF LogInv
<1>9. CASE m = n /\ i = Len(log[n]) + 1
  BY <1>1, <1>3, <1>6, <1>7, <1>9
<1>10. CASE m = n /\ i \in 1..Len(log[n])
  <2> DEFINE r == log[n][i]
  <2>1. r = log'[m][i] /\ r \in States
    BY <1>1, <1>2, <1>10
  <2>2. /\ Exists(r) \/ r = Absent
        /\ r.uid <= i
        /\ r.deleting => Current(n).uid # r.uid \/ Current(n).deleting
        /\ (i >= seen[n] /\ r.finalizer /\ ~r.deleting) => Current(n).uid = r.uid /\ Current(n).finalizer
    BY <1>10 DEF LogInv
  <2> HIDE DEF r
  <2>3. r.deleting => t.uid # r.uid \/ t.deleting
    <3>1. r.deleting => r.uid # 0
      BY <2>2, AbsentType DEF Exists
    <3>2. r.uid # Len(log[n]) + 1
      BY <1>2, <1>10, <2>1, <2>2 DEF States
    <3> QED
      BY <2>2, <3>1, <3>2 DEF Succeeds, Absent, t
  <2>4. (i >= seen[n] /\ r.finalizer /\ ~r.deleting) => t.uid = r.uid /\ t.finalizer
    <3>1. SUFFICES ASSUME i >= seen[n], r.finalizer, ~r.deleting, ~(t.uid = r.uid /\ t.finalizer)
                   PROVE  FALSE
      OBVIOUS
    <3>2. Current(n).uid = r.uid /\ Current(n).finalizer
      BY <2>2, <3>1
    <3>3. Current(n).deleting /\ seen[n] = Len(log[n])
      BY <3>1, <3>2 DEF Succeeds, t
    <3>4. i = Len(log[n])
      BY <1>2, <1>10, <3>1, <3>3
    <3>5. r = Current(n)
      BY <1>2, <1>10, <3>4 DEF Current, StateAt, r
    <3> QED
      BY <3>1, <3>3, <3>5
  <2> QED
    BY <1>3, <1>10, <2>1, <2>2, <2>3, <2>4
<1> QED
  BY <1>1, <1>2, <1>8, <1>9, <1>10

\* Where logs, cache, reconciler and bundle stay as they are, so does what is
\* known of them.
LEMMA GuardUnchanged ==
  ASSUME GuardInv, UNCHANGED <<log, seen, worker, bundle>>
  PROVE  GuardInv'
BY DEF GuardInv, LogInv, WorkerInv, FinalizerGuards, InHand, Current, StateAt, Exists

\* After a write the reconciler has the same object in its hands.
LEMMA InHandKept ==
  ASSUME TypeOK, NEW n \in Names, NEW s \in States, Write(n, s), worker' = worker, worker.step # "idle"
  PROVE  InHand' = InHand
<1>1. worker.name \in Names /\ worker.rv \in 1..Len(log[worker.name]) /\ Len(log[worker.name]) \in Nat
  BY WorkerType, LogType
<1>2. log'[worker.name][worker.rv] = log[worker.name][worker.rv]
  BY <1>1, WriteKeeps
<1> QED
  BY <1>1, <1>2 DEF InHand, StateAt

\* The current states after a write.
LEMMA CurrentNext ==
  ASSUME TypeOK, NEW n \in Names, NEW s \in States, Write(n, s)
  PROVE  Current(n)' = Finalized(s) /\ \A m \in Names : m # n => Current(m)' = Current(m)
BY WriteType, LogType DEF Current, StateAt

\* Others take no finalizer from an object that the bundle holds.
LEMMA OthersGuard ==
  ASSUME TypeOK, GuardInv, NEW n \in Names,
         Create(n) \/ Modify(n) \/ RequestDelete(n) \/ ReleaseByOthers(n)
  PROVE  GuardInv'
<1>1. PICK s \in States : WriteByOthers(n, s) /\ Continues(n, s)
  BY OthersWrite
<1>2. /\ Write(n, s) /\ seen' = seen /\ worker' = worker /\ bundle' = bundle
      /\ LogInv /\ WorkerInv /\ FinalizerGuards
  BY <1>1 DEF WriteByOthers, process, GuardInv
<1>3. /\ Succeeds(n, Finalized(s))
      /\ Current(n).finalizer => Finalized(s).finalizer /\ Finalized(s).uid = Current(n).uid
  BY <1>1, <1>2, OthersSucceed
<1>4. LogInv'
  BY <1>2, <1>3, LogStep
<1>5. \A m \in Names : Current(m).finalizer => Current(m)'.finalizer /\ Current(m)'.uid = Current(m).uid
  BY <1>2, <1>3, CurrentNext
<1>6. FinalizerGuards'
  <2>1. \A o \in bundle.objs : o.name \in Names
    BY DEF TypeOK, Objects
  <2> QED
    BY <1>2, <1>5, <2>1 DEF FinalizerGuards
<1>7. WorkerInv'
  <2>1. worker.step # "idle" => worker.name \in Names /\ InHand' = InHand
    BY <1>2, InHandKept, WorkerType
  <2> QED
    BY <1>2, <1>5, <2>1 DEF WorkerInv, Exists
<1> QED
  BY <1>4, <1>6, <1>7 DEF GuardInv

\* What the informer does keeps the invariant.
LEMMA InformerGuard ==
  ASSUME TypeOK, GuardInv, NEW n \in Names, Watch(n) \/ Resync(n)
  PROVE  GuardInv'
<1>1. CASE Resync(n)
  BY <1>1, GuardUnchanged DEF Resync, cluster
<1>2. CASE Watch(n)
  <2>1. /\ log' = log /\ worker' = worker /\ bundle' = bundle
        /\ \A m \in Names : seen[m] \in Nat /\ seen'[m] \in Nat /\ seen[m] <= seen'[m] /\ Len(log[m]) \in Nat
    BY <1>2, LogType DEF Watch, TypeOK
  <2>2. LogInv'
    BY <2>1 DEF GuardInv, LogInv, Current, StateAt, Exists
  <2>3. WorkerInv'
    <3>1. worker.step # "idle" => worker.name \in Names /\ worker.rv \in Nat
      BY WorkerType
    <3> QED
      BY <2>1, <3>1 DEF GuardInv, WorkerInv, InHand, Current, StateAt, Exists
  <2>4. FinalizerGuards'
    BY <2>1 DEF GuardInv, FinalizerGuards, Current, StateAt
  <2> QED
    BY <2>2, <2>3, <2>4 DEF GuardInv
<1> QED
  BY <1>1, <1>2

\* A reconciliation starts at the step that the object in the cache calls for.
LEMMA ReconcileStep ==
  ASSUME TypeOK, NEW n \in Names, Reconcile(n)
  PROVE  /\ worker = Idle /\ n \in queue /\ queue' = queue \ {n}
         /\ UNCHANGED <<cluster, bundle, lastSent, incarnation, hub, bounds>>
         /\ LET s == StateAt(n, seen[n])
            IN  /\ ~Exists(s) => worker' = Idle
                /\ Exists(s) =>
                     /\ seen[n] \in 1..Len(log[n]) /\ s = log[n][seen[n]] /\ s \in States
                     /\ worker'.name = n /\ worker'.rv = seen[n] /\ InHand' = s
                     /\ \/ worker'.step = "delete" /\ s.deleting
                        \/ worker'.step = "finalize" /\ ~s.deleting /\ ~s.finalizer
                        \/ worker'.step = "update" /\ ~s.deleting /\ s.finalizer
<1> DEFINE s == StateAt(n, seen[n])
<1>1. seen[n] \in 0..Len(log[n]) /\ Len(log[n]) \in Nat
  BY LogType
<1>2. s \in States
  BY <1>1, StateType
<1>3. /\ worker = Idle /\ n \in queue /\ queue' = queue \ {n}
      /\ UNCHANGED <<cluster, bundle, lastSent, incarnation, hub, bounds>>
      /\ worker' = IF Exists(s) THEN Working(FirstStep(s), n, seen[n]) ELSE Idle
  BY DEF Reconcile
<1>4. ASSUME Exists(s)
      PROVE  seen[n] \in 1..Len(log[n]) /\ s = log[n][seen[n]]
  BY <1>1, <1>4, AbsentType DEF StateAt
<1>5. ASSUME Exists(s)
      PROVE  /\ worker'.name = n /\ worker'.rv = seen[n] /\ worker'.step = FirstStep(s)
             /\ InHand' = s
  BY <1>3, <1>5 DEF Working, InHand, cluster, StateAt
<1>6. \/ FirstStep(s) = "delete" /\ s.deleting
      \/ FirstStep(s) = "finalize" /\ ~s.deleting /\ ~s.finalizer
      \/ FirstStep(s) = "update" /\ ~s.deleting /\ s.finalizer
  BY <1>2 DEF FirstStep, States
<1> HIDE DEF s
<1> QED
  BY <1>2, <1>3, <1>4, <1>5, <1>6 DEF s

\* Taking a request keeps the invariant: what the cache shows with the
\* finalizer and not being deleted is still so.
LEMMA ReconcileGuard ==
  ASSUME TypeOK, GuardInv, NEW n \in Names, Reconcile(n)
  PROVE  GuardInv'
<1> DEFINE s == StateAt(n, seen[n])
<1>1. log' = log /\ seen' = seen /\ bundle' = bundle
  BY ReconcileStep DEF cluster
<1>2. LogInv' /\ FinalizerGuards'
  BY <1>1 DEF GuardInv, LogInv, FinalizerGuards, Current, StateAt, Exists
<1>3. CASE ~Exists(s)
  <2>1. worker' = Idle
    BY <1>3, ReconcileStep
  <2> QED
    BY <1>2, <2>1 DEF GuardInv, WorkerInv, Idle
<1>4. CASE Exists(s)
  <2>1. /\ seen[n] \in 1..Len(log[n]) /\ s = log[n][seen[n]] /\ s \in States
        /\ worker'.name = n /\ worker'.rv = seen[n] /\ InHand' = s
        /\ \/ worker'.step = "delete" /\ s.deleting
           \/ worker'.step = "finalize" /\ ~s.deleting /\ ~s.finalizer
           \/ worker'.step = "update" /\ ~s.deleting /\ s.finalizer
    BY <1>4, ReconcileStep
  <2>2. s.finalizer /\ ~s.deleting => Current(n).uid = s.uid /\ Current(n).finalizer
    BY <2>1 DEF GuardInv, LogInv
  <2>3. Current(n)' = Current(n) /\ seen[n] <= seen'[n]
    BY <1>1, LogType DEF Current, StateAt
  <2> HIDE DEF s
  <2>4. WorkerInv'
    BY <1>4, <2>1, <2>2, <2>3 DEF WorkerInv, Exists
  <2> QED
    BY <1>2, <2>4 DEF GuardInv
<1> QED
  BY <1>3, <1>4

\* What an API call of the reconciler can come to.
Requeued == log' = log /\ worker' = Idle /\ queue' = queue \cup {worker.name}

Written(s, next) ==
    /\ s \in States
    /\ Write(worker.name, s)
    /\ worker.rv = Len(log[worker.name])
    /\ InHand = Current(worker.name)
    /\ seen[worker.name] = Len(log[worker.name])
    /\ Succeeds(worker.name, Finalized(s))
    /\ \/ worker' = next /\ queue' = queue
       \/ worker' = Idle /\ queue' = queue \cup {worker.name}

\* Adding the finalizer: the object is the one in hand, or the call is retried.
LEMMA AddStep ==
  ASSUME TypeOK, GuardInv, AddFinalizer
  PROVE  \/ Requeued
         \/ \E s : /\ Written(s, Working("update", worker.name, worker.rv + 1))
                   /\ Finalized(s) = s
                   /\ s.finalizer /\ ~s.deleting /\ s.uid = Current(worker.name).uid
<1> DEFINE s == [InHand EXCEPT !.finalizer = TRUE]
           next == Working("update", worker.name, worker.rv + 1)
<1>1. worker.step = "finalize" /\ Update(s, next)
  BY DEF AddFinalizer
<1>2. s \in States
  BY <1>1, FinalizerStates
<1>3. s = [InHand EXCEPT !.finalizer = (worker.step = "finalize")]
  BY <1>1
<1> HIDE DEF s, next
<1>4. \/ Requeued
      \/ /\ worker.rv = Len(log[worker.name])
         /\ Write(worker.name, s)
         /\ \/ worker' = next /\ queue' = queue
            \/ worker' = Idle /\ queue' = queue \cup {worker.name}
  BY <1>1, UpdateStep DEF Requeued
<1>5. ASSUME worker.rv = Len(log[worker.name])
      PROVE  /\ Succeeds(worker.name, Finalized(s))
             /\ InHand = Current(worker.name)
             /\ seen[worker.name] = Len(log[worker.name])
             /\ Finalized(s) = s /\ s.finalizer /\ s.uid = InHand.uid /\ ~s.deleting
  BY <1>1, <1>3, <1>5, WorkerSucceeds DEF GuardInv
<1>6. \/ Requeued
      \/ /\ Written(s, next) /\ Finalized(s) = s
         /\ s.finalizer /\ ~s.deleting /\ s.uid = Current(worker.name).uid
  BY <1>2, <1>4, <1>5 DEF Written
<1> QED
  BY <1>6 DEF next

\* Removing the finalizer: the same.
LEMMA RemoveStep ==
  ASSUME TypeOK, GuardInv, RemoveFinalizer
  PROVE  Requeued \/ \E s : Written(s, Idle)
<1> DEFINE s == [InHand EXCEPT !.finalizer = FALSE]
<1>1. worker.step = "release" /\ Update(s, Idle)
  BY DEF RemoveFinalizer
<1>2. s \in States
  BY <1>1, FinalizerStates
<1>3. s = [InHand EXCEPT !.finalizer = (worker.step = "finalize")]
  BY <1>1
<1> HIDE DEF s
<1>4. \/ Requeued
      \/ /\ worker.rv = Len(log[worker.name])
         /\ Write(worker.name, s)
         /\ \/ worker' = Idle /\ queue' = queue
            \/ worker' = Idle /\ queue' = queue \cup {worker.name}
  BY <1>1, UpdateStep DEF Requeued
<1>5. ASSUME worker.rv = Len(log[worker.name])
      PROVE  /\ Succeeds(worker.name, Finalized(s))
             /\ InHand = Current(worker.name)
             /\ seen[worker.name] = Len(log[worker.name])
  BY <1>1, <1>3, <1>5, WorkerSucceeds DEF GuardInv
<1> QED
  BY <1>2, <1>4, <1>5 DEF Written

\* The API calls keep the invariant: when the finalizer is removed, no object
\* of that name is in the bundle any more.
LEMMA FinalizerGuard ==
  ASSUME TypeOK, GuardInv, AddFinalizer \/ RemoveFinalizer
  PROVE  GuardInv'
<1> DEFINE n == worker.name
<1>1. /\ seen' = seen /\ bundle' = bundle
      /\ worker.step \in {"finalize", "release"} /\ worker.step # "idle"
  BY DEF AddFinalizer, RemoveFinalizer
<1>2. n \in Names /\ worker.rv \in 1..Len(log[n]) /\ Len(log[n]) \in Nat
  BY <1>1, WorkerType, LogType
<1>3. CASE Requeued
  <2>1. WorkerInv'
    BY <1>3 DEF Requeued, WorkerInv, Idle
  <2>2. LogInv' /\ FinalizerGuards'
    BY <1>1, <1>3 DEF GuardInv, LogInv, FinalizerGuards, Current, StateAt, Exists, Requeued
  <2> QED
    BY <2>1, <2>2 DEF GuardInv
<1>4. ASSUME AddFinalizer, NEW s, Written(s, Working("update", n, worker.rv + 1)),
             Finalized(s) = s, s.finalizer, ~s.deleting, s.uid = Current(n).uid
      PROVE  GuardInv'
  <2>1. /\ s \in States /\ Write(n, s) /\ Succeeds(n, Finalized(s))
        /\ worker.rv = Len(log[n])
        /\ worker' \in {Working("update", n, worker.rv + 1), Idle}
    BY <1>4 DEF Written
  <2>2. LogInv'
    BY <1>1, <1>2, <2>1, LogStep DEF GuardInv
  <2>3. \A m \in Names : Current(m)' = IF m = n THEN s ELSE Current(m)
    BY <1>2, <1>4, <2>1, CurrentNext
  <2>4. FinalizerGuards'
    <3>1. \A o \in bundle.objs : o.name \in Names
      BY DEF TypeOK, Objects
    <3> QED
      BY <1>1, <1>4, <2>3, <3>1 DEF GuardInv, FinalizerGuards
  <2>5. WorkerInv'
    <3>1. CASE worker' = Idle
      BY <3>1 DEF WorkerInv, Idle
    <3>2. CASE worker' = Working("update", n, worker.rv + 1)
      <4>1. worker'.step = "update" /\ worker'.name = n /\ worker'.rv = Len(log[n]) + 1
        BY <2>1, <3>2 DEF Working
      <4>2. log'[n][Len(log[n]) + 1] = s
        BY <1>2, <1>4, <2>1, WriteType
      <4>3. InHand' = s
        BY <1>2, <4>1, <4>2 DEF InHand, StateAt
      <4>4. Exists(s)
        BY <1>1, <1>4 DEF GuardInv, WorkerInv, Written, Exists
      <4>5. \A m \in Names : m = worker'.name => Current(m)' = s
        BY <2>3, <4>1
      <4>6. Current(worker.name)' = s
        BY <1>2, <4>1, <4>5
      <4> QED
        BY <1>4, <4>1, <4>3, <4>4, <4>6 DEF WorkerInv, Exists
    <3> QED
      BY <2>1, <3>1, <3>2
  <2> QED
    BY <2>2, <2>4, <2>5 DEF GuardInv
<1>5. ASSUME RemoveFinalizer, NEW s, Written(s, Idle)
      PROVE  GuardInv'
  <2>1. /\ s \in States /\ Write(n, s) /\ Succeeds(n, Finalized(s))
        /\ worker' = Idle /\ InHand = Current(n)
    BY <1>5 DEF Written
  <2>2. LogInv'
    BY <1>1, <1>2, <2>1, LogStep DEF GuardInv
  <2>3. \A o \in bundle.objs : o.name \in Names /\ o.name # n
    <3>1. \A o \in bundle.objs : o.name \in Names /\ Current(o.name).uid = o.uid
      BY DEF TypeOK, Objects, GuardInv, FinalizerGuards
    <3> QED
      BY <1>5, <2>1, <3>1 DEF GuardInv, WorkerInv, RemoveFinalizer
  <2>4. FinalizerGuards'
    <3>1. \A m \in Names : m # n => Current(m)' = Current(m)
      BY <1>2, <2>1, CurrentNext
    <3> QED
      BY <1>1, <2>3, <3>1 DEF GuardInv, FinalizerGuards
  <2>5. WorkerInv'
    BY <2>1 DEF WorkerInv, Idle
  <2> QED
    BY <2>2, <2>4, <2>5 DEF GuardInv
<1> QED
  BY <1>3, <1>4, <1>5, AddStep, RemoveStep

\* What the bundle's operations make of its objects.
LEMMA GenericObjects ==
  ASSUME NEW b, NEW o
  PROVE  /\ \A q \in GenericUpdate(b, o).objs : q = o \/ q \in b.objs
         /\ \A q \in GenericUpdate(b, o).objs :
               q # o /\ o \notin b.objs => <<q.name, q.uid>> # <<o.name, o.uid>>
         /\ o \in GenericUpdate(b, o).objs
         /\ GenericDelete(b, o).objs = {q \in b.objs : <<q.name, q.uid>> # <<o.name, o.uid>>}
BY DEF GenericUpdate, GenericDelete, Others

\* The steps on the bundle keep the invariant.
LEMMA BundleGuard ==
  ASSUME TypeOK, GuardInv, UpdateObject \/ DeleteObject
  PROVE  GuardInv'
<1> DEFINE n == worker.name
           o == Clean(worker.name, worker.rv)
<1>1. log' = log /\ seen' = seen /\ worker.step # "idle"
  BY DEF UpdateObject, DeleteObject, cluster
<1>2. /\ worker.rv \in 1..Len(log[n]) /\ n \in Names
      /\ o.name = n /\ o.rv = worker.rv /\ o.uid = InHand.uid
  BY <1>1, CleanType, WorkerType
<1>3. LogInv'
  BY <1>1 DEF GuardInv, LogInv, Current, StateAt, Exists
<1>4. \A m \in Names : Current(m)' = Current(m)
  BY <1>1 DEF Current, StateAt
<1>5. \A q \in bundle.objs : q.name \in Names /\ Current(q.name).uid = q.uid /\ Current(q.name).finalizer
  BY DEF TypeOK, Objects, GuardInv, FinalizerGuards
<1> HIDE DEF o
<1>6. CASE UpdateObject
  <2>1. worker' = Idle /\ bundle' = GenericUpdate(bundle, o) /\ worker.step = "update"
    BY <1>6 DEF UpdateObject, o
  <2>2. Current(n).uid = o.uid /\ Current(n).finalizer
    BY <1>2, <2>1 DEF GuardInv, WorkerInv
  <2>3. FinalizerGuards'
    <3>1. \A q \in bundle'.objs : q = o \/ q \in bundle.objs
      BY <2>1, GenericObjects
    <3> QED
      BY <1>2, <1>4, <1>5, <2>2, <3>1 DEF FinalizerGuards
  <2>4. WorkerInv'
    BY <2>1 DEF WorkerInv, Idle
  <2> QED
    BY <1>3, <2>3, <2>4 DEF GuardInv
<1>7. CASE DeleteObject
  <2>1. /\ bundle' = GenericDelete(bundle, o) /\ worker.step = "delete"
        /\ worker' \in {Idle, [worker EXCEPT !.step = "release"]}
    BY <1>7 DEF DeleteObject, o
  <2>2. bundle'.objs = {q \in bundle.objs : <<q.name, q.uid>> # <<o.name, o.uid>>}
    BY <2>1, GenericObjects
  <2>3. FinalizerGuards'
    BY <1>4, <1>5, <2>2 DEF FinalizerGuards
  <2>4. WorkerInv'
    <3>1. CASE worker' = Idle
      BY <3>1 DEF WorkerInv, Idle
    <3>2. CASE worker' = [worker EXCEPT !.step = "release"]
      <4>1. worker \in [step : Steps, name : Names, rv : Nat]
        BY <1>1, WorkerType
      <4>2. worker'.step = "release" /\ worker'.name = n /\ worker'.rv = worker.rv
        BY <3>2, <4>1
      <4>3. InHand' = InHand
        BY <1>1, <4>2 DEF InHand, StateAt
      <4>4. worker.rv <= seen[n] /\ InHand.deleting /\ Exists(InHand)
        BY <1>1, <2>1 DEF GuardInv, WorkerInv
      <4>5. \A q \in bundle'.objs : q.name = n => q.uid # InHand.uid
        BY <1>2, <2>2
      <4> QED
        BY <1>1, <4>2, <4>3, <4>4, <4>5 DEF WorkerInv, Exists
    <3> QED
      BY <2>1, <3>1, <3>2
  <2> QED
    BY <1>3, <2>3, <2>4 DEF GuardInv
<1> QED
  BY <1>6, <1>7

\* A restart: the bundle is empty, and the cache shows the current objects.
LEMMA CrashGuard == ASSUME TypeOK, GuardInv, Crash PROVE GuardInv'
<1>1. /\ log' = log /\ worker' = Idle /\ bundle' = EmptyBundle
      /\ \A n \in Names : seen'[n] = Len(log[n])
  BY DEF Crash
<1>2. WorkerInv' /\ FinalizerGuards'
  BY <1>1 DEF WorkerInv, Idle, FinalizerGuards, EmptyBundle
<1>3. LogInv'
  <2>1. ASSUME NEW n \in Names, NEW i \in 1..Len(log[n]), i >= Len(log[n])
        PROVE  log[n][i] = Current(n)
    <3>1. Len(log[n]) \in Nat
      BY LogType
    <3>2. i = Len(log[n]) /\ i # 0
      BY <2>1, <3>1
    <3> QED
      BY <3>2 DEF Current, StateAt
  <2>2. \A n \in Names : Current(n)' = Current(n)
    BY <1>1 DEF Current, StateAt
  <2> QED
    BY <1>1, <2>1, <2>2 DEF GuardInv, LogInv, Exists
<1> QED
  BY <1>2, <1>3 DEF GuardInv

\* Every step keeps the invariant.
LEMMA GuardStep == TypeOK /\ GuardInv /\ [Next]_vars => GuardInv'
<1> SUFFICES ASSUME TypeOK, GuardInv, [Next]_vars PROVE GuardInv'
  OBVIOUS
<1>1. CASE Sync \/ Deliver \/ UNCHANGED vars
  BY <1>1, GuardUnchanged DEF Sync, Deliver, vars, cluster, process
<1> QED
  BY <1>1, OthersGuard, InformerGuard, ReconcileGuard, FinalizerGuard, BundleGuard, CrashGuard DEF Next

\* ... which holds at all times.
LEMMA Guarded == Spec => []GuardInv
<1>1. Init => GuardInv
  <2> SUFFICES ASSUME Init PROVE GuardInv
    OBVIOUS
  <2>1. \A n \in Names : Len(log[n]) = 0
    BY EmptySeq DEF Init
  <2>2. LogInv
    BY <2>1 DEF LogInv
  <2>3. WorkerInv /\ FinalizerGuards
    BY DEF Init, WorkerInv, Idle, FinalizerGuards, EmptyBundle
  <2> QED
    BY <2>2, <2>3 DEF GuardInv
<1> QED
  BY <1>1, GuardStep, TypeCorrect, PTL DEF Spec

\* An object is in the bundle only while the API server keeps that object for
\* the sake of the controller's finalizer, whatever the cache missed, however
\* often calls fail and the process restarts.
THEOREM FinalizerHolds == Spec => []FinalizerGuards
<1>1. GuardInv => FinalizerGuards
  BY DEF GuardInv
<1> QED
  BY <1>1, Guarded, PTL

---------------------------------------------------------------------------
(* What is left to reconcile.                                              *)

IsLive(n) == Exists(Current(n)) /\ ~Current(n).deleting

\* The bundle has of n what it should have.
Holds(n) ==
    /\ \A o \in bundle.objs : o.name = n => IsLive(n) /\ o = Clean(n, Len(log[n]))
    /\ IsLive(n) => Clean(n, Len(log[n])) \in bundle.objs

InWork(n, steps) == worker.step \in steps /\ worker.name = n

\* Once the cache shows an object's current state, a request for it waits, the
\* reconciler has that state in its hands, or the bundle is right and no older
\* state is about to be written over it.
Handled(n) ==
    seen[n] = Len(log[n]) =>
        \/ n \in queue
        \/ InWork(n, {"finalize", "update", "delete"}) /\ worker.rv = Len(log[n])
        \/ Holds(n) /\ ~InWork(n, {"update", "delete"})

\* A bundle has one object of a name.
OneEach(objs) == \A o, q \in objs : o.name = q.name => o = q

HandledInv == OneEach(bundle.objs) /\ \A n \in Names : Handled(n)

\* What has nothing to do with n leaves it handled.
LEMMA HandledKept ==
  ASSUME NEW n \in Names, Handled(n), log'[n] = log[n], seen'[n] = seen[n],
         n \in queue => n \in queue',
         \A o : o.name = n => (o \in bundle.objs <=> o \in bundle'.objs),
         worker' = worker \/ (~InWork(n, Steps) /\ ~InWork(n, Steps)')
  PROVE  Handled(n)'
<1>1. Current(n)' = Current(n) /\ Clean(n, Len(log[n]))' = Clean(n, Len(log[n]))
  BY DEF Current, Clean, StateAt
<1>2. IsLive(n)' = IsLive(n) /\ Clean(n, Len(log[n])).name = n
  BY <1>1 DEF IsLive, Exists, Clean
<1>3. Holds(n)' = Holds(n)
  BY <1>1, <1>2 DEF Holds
<1> QED
  BY <1>3 DEF Handled, InWork, Steps

\* A write leaves the cache behind.
LEMMA WriteHandled ==
  ASSUME TypeOK, HandledInv, NEW n \in Names, NEW s \in States, Write(n, s),
         seen' = seen, bundle' = bundle, queue \subseteq queue',
         \A m \in Names : m # n => worker' = worker \/ (~InWork(m, Steps) /\ ~InWork(m, Steps)')
  PROVE  HandledInv'
<1>1. Handled(n)'
  <2>1. Len(log'[n]) = Len(log[n]) + 1 /\ seen[n] \in Nat /\ seen[n] <= Len(log[n]) /\ Len(log[n]) \in Nat
    BY WriteType, LogType
  <2> QED
    BY <2>1 DEF Handled
<1>2. ASSUME NEW m \in Names, m # n PROVE Handled(m)'
  <2>1. log'[m] = log[m]
    BY <1>2, WriteType
  <2> QED
    BY <1>2, <2>1, HandledKept DEF HandledInv
<1> QED
  BY <1>1, <1>2 DEF HandledInv

\* What others and the informer do.
LEMMA OutsideHandled ==
  ASSUME TypeOK, HandledInv, NEW n \in Names,
         Create(n) \/ Modify(n) \/ RequestDelete(n) \/ ReleaseByOthers(n) \/ Watch(n) \/ Resync(n)
  PROVE  HandledInv'
<1>1. CASE Create(n) \/ Modify(n) \/ RequestDelete(n) \/ ReleaseByOthers(n)
  <2>1. PICK s \in States : WriteByOthers(n, s)
    BY <1>1, OthersWrite
  <2>2. Write(n, s) /\ seen' = seen /\ bundle' = bundle /\ queue' = queue /\ worker' = worker
    BY <2>1 DEF WriteByOthers, process
  <2> QED
    BY <2>2, WriteHandled
<1>2. CASE Watch(n) \/ Resync(n)
  <2>1. /\ log' = log /\ bundle' = bundle /\ worker' = worker /\ queue' = queue \cup {n}
        /\ \A m \in Names : m # n => seen'[m] = seen[m]
    BY <1>2 DEF Watch, Resync, cluster, TypeOK
  <2>2. Handled(n)'
    BY <2>1 DEF Handled
  <2>3. \A m \in Names : m # n => Handled(m)'
    BY <2>1, HandledKept DEF HandledInv
  <2> QED
    BY <2>1, <2>2, <2>3 DEF HandledInv
<1> QED
  BY <1>1, <1>2

\* What does not exist is not in the bundle.
LEMMA NotThere ==
  ASSUME TypeOK, GuardInv, NEW n \in Names, ~Exists(Current(n))
  PROVE  ~IsLive(n) /\ \A o \in bundle.objs : o.name # n
<1>1. Current(n) = Absent
  BY CurrentAbsent DEF GuardInv
<1> QED
  BY <1>1, AbsentType DEF GuardInv, FinalizerGuards, IsLive

\* A request that is taken is worked on, or there was nothing to do.
LEMMA ReconcileHandled ==
  ASSUME TypeOK, GuardInv, HandledInv, NEW n \in Names, Reconcile(n)
  PROVE  HandledInv'
<1> DEFINE s == StateAt(n, seen[n])
<1>1. /\ log' = log /\ seen' = seen /\ bundle' = bundle /\ worker = Idle /\ queue' = queue \ {n}
  BY ReconcileStep DEF cluster
<1>2. worker' = Idle \/ worker'.name = n
  BY ReconcileStep
<1>3. ASSUME NEW m \in Names, m # n PROVE Handled(m)'
  <2>1. ~InWork(m, Steps) /\ ~InWork(m, Steps)'
    BY <1>1, <1>2, <1>3 DEF InWork, Idle, Steps
  <2> QED
    BY <1>1, <1>3, <2>1, HandledKept DEF HandledInv
<1>4. ASSUME seen[n] = Len(log[n]) PROVE Handled(n)'
  <2>1. s = Current(n)
    BY <1>4 DEF Current
  <2>2. CASE Exists(s)
    <3>1. /\ worker'.name = n /\ worker'.rv = Len(log[n])
          /\ worker'.step \in {"finalize", "update", "delete"}
      BY <1>4, <2>2, ReconcileStep
    <3> QED
      BY <1>1, <3>1 DEF Handled, InWork
  <2>3. CASE ~Exists(s)
    <3>1. worker' = Idle
      BY <2>3, ReconcileStep
    <3>2. ~IsLive(n) /\ \A o \in bundle.objs : o.name # n
      BY <2>1, <2>3, NotThere
    <3>3. IsLive(n)' = IsLive(n)
      BY <1>1 DEF IsLive, Current, StateAt, Exists
    <3> QED
      BY <1>1, <3>1, <3>2, <3>3 DEF Handled, Holds, InWork, Idle
  <2> QED
    BY <2>2, <2>3
<1>5. seen[n] # Len(log[n]) => Handled(n)'
  BY <1>1 DEF Handled
<1> QED
  BY <1>1, <1>3, <1>4, <1>5 DEF HandledInv

\* The API calls of the reconciler make the cache late, or are retried.
LEMMA FinalizerHandled ==
  ASSUME TypeOK, GuardInv, HandledInv, AddFinalizer \/ RemoveFinalizer
  PROVE  HandledInv'
<1>1. PICK n \in Names : n = worker.name
  BY WorkerType DEF AddFinalizer, RemoveFinalizer
<1>2. seen' = seen /\ bundle' = bundle
  BY DEF AddFinalizer, RemoveFinalizer
<1>3. \/ Requeued
      \/ \E s, next : Written(s, next) /\ next \in {Idle, Working("update", n, worker.rv + 1)}
  BY <1>1, AddStep, RemoveStep
<1>4. CASE Requeued
  <2>1. log' = log /\ worker' = Idle /\ queue' = queue \cup {n}
    BY <1>1, <1>4 DEF Requeued
  <2>2. Handled(n)'
    BY <2>1 DEF Handled
  <2>3. ASSUME NEW m \in Names, m # n PROVE Handled(m)'
    <3>1. ~InWork(m, Steps) /\ ~InWork(m, Steps)'
      BY <1>1, <2>1, <2>3 DEF InWork, Idle, Steps
    <3> QED
      BY <1>2, <2>1, <2>3, <3>1, HandledKept DEF HandledInv
  <2> QED
    BY <1>2, <2>2, <2>3 DEF HandledInv
<1>5. ASSUME NEW s, NEW next, Written(s, next), next \in {Idle, Working("update", n, worker.rv + 1)}
      PROVE  HandledInv'
  <2>1. s \in States /\ Write(n, s) /\ queue \subseteq queue' /\ worker' \in {next, Idle}
    BY <1>1, <1>5 DEF Written
  <2>2. \A m \in Names : m # n => ~InWork(m, Steps) /\ ~InWork(m, Steps)'
    BY <1>1, <1>5, <2>1 DEF InWork, Idle, Working, Steps
  <2> QED
    BY <1>2, <2>1, <2>2, WriteHandled
<1> QED
  BY <1>3, <1>4, <1>5

\* The bundle comes to hold the state in hand and, of that name, nothing else.
LEMMA UpdateHolds ==
  ASSUME TypeOK, GuardInv, HandledInv, UpdateObject,
         NEW n, n = worker.name, NEW o, o = Clean(worker.name, worker.rv)
  PROVE  /\ o.name = n /\ o.uid = InHand.uid /\ o.rv = worker.rv
         /\ o \in bundle'.objs
         /\ \A q \in bundle'.objs : q = o \/ (q.name # n /\ q \in bundle.objs)
         /\ \A q \in bundle.objs : q.name # n => q \in bundle'.objs
         /\ OneEach(bundle'.objs)
<1>1. worker.step = "update" /\ bundle' = GenericUpdate(bundle, o) /\ log' = log
  BY DEF UpdateObject, cluster
<1>2. o.name = n /\ o.uid = InHand.uid /\ o.rv = worker.rv /\ n \in Names
  BY <1>1, CleanType, WorkerType
<1>3. Current(n).uid = o.uid
  BY <1>1, <1>2 DEF GuardInv, WorkerInv
<1>4. \A q \in bundle.objs : q.name = n => q.uid = o.uid
  BY <1>3 DEF GuardInv, FinalizerGuards
<1>5. \A q \in bundle'.objs : q = o \/ (q.name # n /\ q \in bundle.objs)
  <2>1. CASE o \in bundle.objs
    BY <1>1, <1>2, <2>1 DEF GenericUpdate, HandledInv, OneEach
  <2>2. CASE o \notin bundle.objs
    BY <1>1, <1>2, <1>4, <2>2, GenericObjects
  <2> QED
    BY <2>1, <2>2
<1>6. o \in bundle'.objs
  BY <1>1, GenericObjects
<1>7. \A q \in bundle.objs : q.name # n => q \in bundle'.objs
  BY <1>1, <1>2 DEF GenericUpdate, Others
<1>8. OneEach(bundle'.objs)
  BY <1>2, <1>5 DEF HandledInv, OneEach
<1> QED
  BY <1>2, <1>5, <1>6, <1>7, <1>8

\* What an object that is being deleted leaves in the bundle.
LEMMA DeleteHolds ==
  ASSUME TypeOK, GuardInv, DeleteObject, NEW n, n = worker.name
  PROVE  /\ bundle'.objs = {q \in bundle.objs : <<q.name, q.uid>> # <<n, InHand.uid>>}
         /\ worker.rv = Len(log[n]) => \A q \in bundle'.objs : q.name # n
<1>1. worker.step = "delete" /\ bundle' = GenericDelete(bundle, Clean(worker.name, worker.rv))
  BY DEF DeleteObject
<1>2. bundle'.objs = {q \in bundle.objs : <<q.name, q.uid>> # <<n, InHand.uid>>}
  BY <1>1, CleanType, GenericObjects
<1>3. ASSUME worker.rv = Len(log[n]) PROVE InHand = Current(n)
  BY <1>3 DEF InHand, Current
<1>4. \A q \in bundle.objs : Current(q.name).uid = q.uid
  BY DEF GuardInv, FinalizerGuards
<1> QED
  BY <1>2, <1>3, <1>4

\* The steps on the bundle handle the object in hand, if it is the current one.
LEMMA BundleHandled ==
  ASSUME TypeOK, GuardInv, HandledInv, UpdateObject \/ DeleteObject
  PROVE  HandledInv'
<1>1. PICK n \in Names : n = worker.name
  BY WorkerType DEF UpdateObject, DeleteObject
<1>2. /\ log' = log /\ seen' = seen /\ queue' = queue
      /\ worker.step \in {"update", "delete"}
      /\ Current(n)' = Current(n)
  BY DEF UpdateObject, DeleteObject, cluster, Current, StateAt
<1>3. ASSUME seen[n] = Len(log[n]), n \notin queue
      PROVE  worker.rv = Len(log[n]) /\ InHand = Current(n)
  BY <1>1, <1>2, <1>3 DEF HandledInv, Handled, InWork, InHand, Current
<1>4. worker \in [step : Steps, name : Names, rv : Nat]
  BY <1>2, WorkerType
<1>5. worker' = Idle \/ (worker'.name = n /\ worker'.step = "release")
  BY <1>1, <1>4 DEF UpdateObject, DeleteObject
<1>6. CASE UpdateObject
  <2> DEFINE o == Clean(worker.name, worker.rv)
  <2>1. /\ o.name = n /\ o.uid = InHand.uid /\ o.rv = worker.rv
        /\ o \in bundle'.objs
        /\ \A q \in bundle'.objs : q = o \/ (q.name # n /\ q \in bundle.objs)
        /\ \A q \in bundle.objs : q.name # n => q \in bundle'.objs
        /\ OneEach(bundle'.objs)
    BY <1>1, <1>6, UpdateHolds
  <2>2. ASSUME seen[n] = Len(log[n]), n \notin queue PROVE Holds(n)'
    <3>1. IsLive(n)'
      BY <1>2, <1>3, <1>6, <2>2 DEF GuardInv, WorkerInv, UpdateObject, IsLive, Exists
    <3>2. o = Clean(n, Len(log[n]))'
      BY <1>1, <1>2, <1>3, <2>2 DEF Clean, StateAt
    <3> HIDE DEF o
    <3> QED
      BY <2>1, <3>1, <3>2 DEF Holds
  <2> HIDE DEF o
  <2>3. Handled(n)'
    BY <1>2, <1>5, <2>2 DEF Handled, InWork, Idle
  <2>4. \A m \in Names : m # n => Handled(m)'
    <3>1. ASSUME NEW m \in Names, m # n
          PROVE  /\ \A q : q.name = m => (q \in bundle.objs <=> q \in bundle'.objs)
                 /\ ~InWork(m, Steps) /\ ~InWork(m, Steps)'
      BY <1>1, <1>5, <2>1, <3>1 DEF InWork, Idle, Steps
    <3> QED
      BY <1>2, <3>1, HandledKept DEF HandledInv
  <2> QED
    BY <2>1, <2>3, <2>4 DEF HandledInv
<1>7. CASE DeleteObject
  <2>1. /\ bundle'.objs = {q \in bundle.objs : <<q.name, q.uid>> # <<n, InHand.uid>>}
        /\ worker.rv = Len(log[n]) => \A q \in bundle'.objs : q.name # n
    BY <1>1, <1>7, DeleteHolds
  <2>2. ASSUME seen[n] = Len(log[n]), n \notin queue PROVE Holds(n)'
    <3>1. ~IsLive(n)'
      BY <1>2, <1>3, <1>7, <2>2 DEF GuardInv, WorkerInv, DeleteObject, IsLive
    <3> QED
      BY <1>3, <2>1, <2>2, <3>1 DEF Holds
  <2>3. Handled(n)'
    BY <1>2, <1>5, <2>2 DEF Handled, InWork, Idle
  <2>4. \A m \in Names : m # n => Handled(m)'
    <3>1. ASSUME NEW m \in Names, m # n
          PROVE  /\ \A q : q.name = m => (q \in bundle.objs <=> q \in bundle'.objs)
                 /\ ~InWork(m, Steps) /\ ~InWork(m, Steps)'
      BY <1>1, <1>5, <2>1, <3>1 DEF InWork, Idle, Steps
    <3> QED
      BY <1>2, <3>1, HandledKept DEF HandledInv
  <2> QED
    BY <2>1, <2>3, <2>4 DEF HandledInv, OneEach
<1> QED
  BY <1>6, <1>7

\* A restart queues a request for everything that exists.
LEMMA CrashHandled == ASSUME TypeOK, Crash PROVE HandledInv'
<1>1. /\ log' = log /\ worker' = Idle /\ bundle'.objs = {}
      /\ queue' = {n \in Names : Exists(Current(n))}
  BY DEF Crash, EmptyBundle
<1>2. \A n \in Names : IsLive(n)' = IsLive(n)
  BY <1>1 DEF IsLive, Current, StateAt, Exists
<1> QED
  BY <1>1, <1>2 DEF HandledInv, OneEach, Handled, Holds, IsLive, InWork, Idle

\* Every step leaves every object handled.
LEMMA HandledStep == TypeOK /\ GuardInv /\ HandledInv /\ [Next]_vars => HandledInv'
<1> SUFFICES ASSUME TypeOK, GuardInv, HandledInv, [Next]_vars PROVE HandledInv'
  OBVIOUS
<1>1. CASE Sync \/ Deliver \/ UNCHANGED vars
  <2>1. log' = log /\ seen' = seen /\ queue' = queue /\ worker' = worker /\ bundle' = bundle
    BY <1>1 DEF Sync, Deliver, vars, cluster, process
  <2> QED
    BY <2>1, HandledKept DEF HandledInv
<1> QED
  BY <1>1, OutsideHandled, ReconcileHandled, FinalizerHandled, BundleHandled, CrashHandled DEF Next

\* ... at all times.
LEMMA AllHandled == Spec => []HandledInv
<1>1. Init => HandledInv
  <2> SUFFICES ASSUME Init PROVE HandledInv
    OBVIOUS
  <2>1. \A n \in Names : Len(log[n]) = 0
    BY EmptySeq DEF Init
  <2>2. \A n \in Names : ~IsLive(n)
    BY <2>1, AbsentType DEF IsLive, Current, StateAt
  <2> QED
    BY <2>2 DEF Init, HandledInv, OneEach, Handled, Holds, InWork, Idle, EmptyBundle
<1> QED
  BY <1>1, HandledStep, TypeCorrect, Guarded, PTL DEF Spec

\* When nothing is left to reconcile, every object is as it should be in the
\* bundle.
LEMMA HandledCaughtUp == ASSUME TypeOK, HandledInv PROVE CaughtUp
<1> SUFFICES ASSUME Reconciled PROVE bundle.objs = Live
  BY DEF CaughtUp
<1>1. \A n \in Names : Holds(n)
  BY DEF HandledInv, Handled, Reconciled, InWork, Idle
<1>2. \A o \in bundle.objs : o.name \in Names
  BY DEF TypeOK, Objects
<1>3. bundle.objs \subseteq Live
  BY <1>1, <1>2 DEF Holds, Live, IsLive
<1>4. Live \subseteq bundle.objs
  BY <1>1 DEF Holds, Live, IsLive
<1> QED
  BY <1>3, <1>4

\* When nothing is left to reconcile the bundle holds exactly the objects that
\* are not being deleted, as they are: no conflict, failed call, retry, missed
\* event or restart makes it miss a change or keep what is gone.
THEOREM BundleCatchesUp == Spec => []CaughtUp
BY HandledCaughtUp, TypeCorrect, AllHandled, PTL

=============================================================================
