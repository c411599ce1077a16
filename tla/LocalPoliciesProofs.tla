------------------------ MODULE LocalPoliciesProofs ------------------------
(* What holds of the two controllers for every value of the constants.     *)
EXTENDS LocalPolicies, ComplianceBundlesProofs, SequenceTheorems

---------------------------------------------------------------------------
(* Types.                                                                  *)

\* No object is a state like any other; it does not exist.
LEMMA AbsentType == Absent \in States /\ ~Exists(Absent) /\ ~Absent.deleting
<1>1. NoStatus \in Statuses
  BY DEF NoStatus, Statuses, Lists
<1> QED
  BY <1>1 DEF Absent, States, Exists, Controllers

\* Every resource version that was ever given stands for a state.
LEMMA StateType ==
  ASSUME TypeOK, NEW n \in Names, NEW rv \in 0..Len(log[n])
  PROVE  StateAt(n, rv) \in States
<1>1. log[n] \in Seq(States)
  BY DEF TypeOK
<1>2. ASSUME rv # 0 PROVE log[n][rv] \in States
  BY <1>1, <1>2
<1> QED
  BY <1>2, AbsentType DEF StateAt

\* Current states are of the type.
LEMMA CurrentType == ASSUME TypeOK, NEW n \in Names PROVE Current(n) \in States
<1>1. Len(log[n]) \in 0..Len(log[n])
  BY LenProperties DEF TypeOK
<1> QED
  BY <1>1, StateType DEF Current

\* What a write does to an object's log; it leaves all earlier states as they
\* are.
LEMMA WriteType ==
  ASSUME TypeOK, NEW n \in Names, NEW s \in States, Write(n, s)
  PROVE  /\ log' \in [Names -> Seq(States)]
         /\ \A m \in Names : m # n => log'[m] = log[m]
         /\ Len(log'[n]) = Len(log[n]) + 1
         /\ \A i \in 1..Len(log[n]) : log'[n][i] = log[n][i]
         /\ log'[n][Len(log[n]) + 1] = Finalized(s)
<1>1. Finalized(s) \in States
  BY AbsentType DEF Finalized
<1>2. log[n] \in Seq(States)
  BY DEF TypeOK
<1>3. /\ Append(log[n], Finalized(s)) \in Seq(States)
      /\ Len(Append(log[n], Finalized(s))) = Len(log[n]) + 1
      /\ \A i \in 1..Len(log[n]) : Append(log[n], Finalized(s))[i] = log[n][i]
      /\ Append(log[n], Finalized(s))[Len(log[n]) + 1] = Finalized(s)
  BY <1>1, <1>2, AppendProperties
<1>4. log' = [log EXCEPT ![n] = Append(log[n], Finalized(s))] /\ log \in [Names -> Seq(States)]
  BY DEF Write, TypeOK
<1> QED
  BY <1>3, <1>4

\* A write does no harm to the reconcilers that do not move, nor to the cache.
LEMMA WriteKeeps ==
  ASSUME TypeOK, NEW n \in Names, NEW s \in States, Write(n, s)
  PROVE  /\ log' \in [Names -> Seq(States)]
         /\ \A m \in Names : seen[m] <= Len(log'[m])
         /\ \A c \in Controllers : worker'[c] = worker[c] => WorkerOK(c)'
<1>1. /\ log' \in [Names -> Seq(States)]
      /\ \A m \in Names : m # n => log'[m] = log[m]
      /\ Len(log'[n]) = Len(log[n]) + 1
      /\ \A i \in 1..Len(log[n]) : log'[n][i] = log[n][i]
  BY WriteType
<1>2. \A m \in Names : Len(log[m]) \in Nat /\ seen[m] \in Nat /\ seen[m] <= Len(log[m])
  BY LenProperties DEF TypeOK
<1>3. ASSUME NEW c \in Controllers, worker'[c] = worker[c] PROVE WorkerOK(c)'
  <2>1. CASE worker[c] = Idle
    BY <1>3, <2>1 DEF WorkerOK
  <2>2. CASE worker[c] # Idle
    <3> DEFINE m == worker[c].name
               rv == worker[c].rv
    <3>1. /\ worker[c] \in [step : {"finalize", "update", "delete", "release"}, name : Names, rv : Nat]
          /\ m \in Names /\ rv \in 1..Len(log[m]) /\ Exists(InHand(c))
      BY <2>2 DEF TypeOK, WorkerOK
    <3>2. rv \in 1..Len(log'[m]) /\ log'[m][rv] = log[m][rv]
      BY <3>1, <1>1, <1>2
    <3>3. InHand(c)' = InHand(c)
      BY <1>3, <3>1, <3>2 DEF InHand, StateAt
    <3> QED
      BY <1>3, <3>1, <3>2, <3>3 DEF WorkerOK, Exists
  <2> QED
    BY <2>1, <2>2
<1> QED
  BY <1>1, <1>2, <1>3

\* The object in a busy reconciler's hands is an existing state.
LEMMA InHandType ==
  ASSUME TypeOK, NEW c \in Controllers, worker[c] # Idle
  PROVE  /\ worker[c].name \in Names
         /\ worker[c].rv \in 1..Len(log[worker[c].name])
         /\ InHand(c) \in States /\ InHand(c).uid \in Policies
<1>1. /\ worker[c].name \in Names
      /\ worker[c].rv \in 1..Len(log[worker[c].name])
      /\ Exists(InHand(c))
  BY DEF TypeOK, WorkerOK
<1>2. Len(log[worker[c].name]) \in Nat
  BY <1>1, LenProperties DEF TypeOK
<1>3. InHand(c) \in States
  BY <1>1, <1>2, StateType DEF InHand
<1> QED
  BY <1>1, <1>3 DEF Exists, States

\* What others write are states.
LEMMA OthersWrite ==
  ASSUME TypeOK, NEW n \in Names, Create(n) \/ SetStatus(n) \/ ChangeOwner(n) \/ RequestDelete(n)
  PROVE  \E s \in States : WriteByOthers(n, s)
<1>1. Current(n) \in States
  BY CurrentType
<1>2. CASE Create(n)
  <2>1. PICK u \in Policies, o \in Controllers, s \in StatusValues :
           WriteByOthers(n, [Absent EXCEPT !.uid = u, !.owner = o, !.status = s])
    BY <1>2 DEF Create
  <2>2. [Absent EXCEPT !.uid = u, !.owner = o, !.status = s] \in States
    BY LocalAssumption DEF Absent, States
  <2> QED
    BY <2>1, <2>2
<1>3. CASE SetStatus(n)
  <2>1. PICK s \in StatusValues : WriteByOthers(n, [Current(n) EXCEPT !.status = s])
    BY <1>3 DEF SetStatus
  <2>2. [Current(n) EXCEPT !.status = s] \in States
    BY <1>1, LocalAssumption DEF States
  <2> QED
    BY <2>1, <2>2
<1>4. CASE ChangeOwner(n)
  <2>1. PICK o \in Controllers : WriteByOthers(n, [Current(n) EXCEPT !.owner = o])
    BY <1>4 DEF ChangeOwner
  <2>2. [Current(n) EXCEPT !.owner = o] \in States
    BY <1>1 DEF States
  <2> QED
    BY <2>1, <2>2
<1>5. CASE RequestDelete(n)
  <2>1. [Current(n) EXCEPT !.deleting = TRUE] \in States
    BY <1>1 DEF States
  <2> QED
    BY <1>5, <2>1 DEF RequestDelete
<1> QED
  BY <1>2, <1>3, <1>4, <1>5

\* The writes of others keep the types.
LEMMA OthersType ==
  ASSUME TypeOK, NEW n \in Names, Create(n) \/ SetStatus(n) \/ ChangeOwner(n) \/ RequestDelete(n)
  PROVE  TypeOK'
<1>1. PICK s \in States : WriteByOthers(n, s)
  BY OthersWrite
<1>2. Write(n, s)
  BY <1>1 DEF WriteByOthers
<1>3. /\ log' \in [Names -> Seq(States)]
      /\ \A m \in Names : seen[m] <= Len(log'[m])
      /\ worker' = worker => \A c \in Controllers : WorkerOK(c)'
  BY <1>2, WriteKeeps
<1>4. changes' \in 0..MaxChanges /\ mixed' \subseteq Names
  <2>1. changes \in 0..MaxChanges /\ mixed \subseteq Names
    BY DEF TypeOK
  <2>2. changes < MaxChanges /\ changes' = changes + 1 /\ mixed' \in {mixed, mixed \cup {n}}
    BY <1>1 DEF WriteByOthers
  <2> QED
    BY <2>1, <2>2, LocalAssumption
<1>5. GenerationOf("cpp")' = GenerationOf("cpp") /\ GenerationOf("complete")' = GenerationOf("complete")
      /\ GenerationOf("spec")' = GenerationOf("spec")
  BY <1>1 DEF WriteByOthers, bundles, GenerationOf
<1> QED
  BY <1>1, <1>3, <1>4, <1>5 DEF TypeOK, WriteByOthers, bundles, sync, Entries

\* A bundle that keeps its version keeps its entry's order with what was sent.
LEMMA GenerationKept ==
  ASSUME UNCHANGED bundles
  PROVE  \A e \in Entries : GenerationOf(e)' = GenerationOf(e)
BY DEF bundles, GenerationOf, Entries

\* The informer's steps keep the types.
LEMMA WatchType == ASSUME TypeOK, NEW n \in Names, Watch(n) PROVE TypeOK'
<1>1. seen' \in [Names -> Nat] /\ \A m \in Names : seen'[m] <= Len(log[m])
  <2>1. Len(log[n]) \in Nat
    BY LenProperties DEF TypeOK
  <2> QED
    BY <2>1 DEF Watch, TypeOK
<1>2. queue' \in [Controllers -> SUBSET Names]
  BY DEF Watch, TypeOK
<1>3. \A c \in Controllers : WorkerOK(c)'
  BY DEF Watch, TypeOK, WorkerOK, InHand, StateAt, Exists
<1> QED
  BY <1>1, <1>2, <1>3, GenerationKept DEF TypeOK, Watch, bundles, sync, config

\* A reconciler that goes on to a well typed step, with the logs as they are,
\* leaves every reconciler well typed.
LEMMA GotoType ==
  ASSUME TypeOK, log' = log, NEW c \in Controllers, NEW w, Goto(c, w),
         \/ w = Idle
         \/ /\ w \in [step : {"finalize", "update", "delete", "release"}, name : Names, rv : Nat]
            /\ w.rv \in 1..Len(log[w.name])
            /\ Exists(StateAt(w.name, w.rv))
  PROVE  worker' = [d \in Controllers |-> worker'[d]] /\ \A d \in Controllers : WorkerOK(d)'
<1>1. worker' = [d \in Controllers |-> IF d = c THEN w ELSE worker[d]]
  BY DEF Goto, TypeOK
<1>2. WorkerOK(c)'
  BY <1>1 DEF WorkerOK, InHand, StateAt, Exists
<1>3. ASSUME NEW d \in Controllers, d # c PROVE WorkerOK(d)'
  BY <1>1, <1>3 DEF WorkerOK, TypeOK, InHand, StateAt, Exists
<1> QED
  BY <1>1, <1>2, <1>3

\* Taking a request keeps the types.
LEMMA ReconcileType ==
  ASSUME TypeOK, NEW c \in Controllers, NEW n \in Names, Reconcile(c, n)
  PROVE  TypeOK'
<1> DEFINE s == StateAt(n, seen[n])
           w == IF Exists(s) THEN [step |-> FirstStep(s), name |-> n, rv |-> seen[n]] ELSE Idle
<1>1. Len(log[n]) \in Nat /\ seen[n] \in Nat /\ seen[n] <= Len(log[n])
  BY LenProperties DEF TypeOK
<1>2. log' = log /\ Goto(c, w)
  BY DEF Reconcile, cluster
<1>3. ASSUME Exists(s) PROVE seen[n] \in 1..Len(log[n])
  BY <1>1, <1>3, AbsentType DEF StateAt
<1>4. worker' = [d \in Controllers |-> worker'[d]] /\ \A d \in Controllers : WorkerOK(d)'
  <2>1. CASE Exists(s)
    <3>1. w = [step |-> FirstStep(s), name |-> n, rv |-> seen[n]]
      BY <2>1
    <3>2. FirstStep(s) \in {"finalize", "update", "delete", "release"}
      BY DEF FirstStep
    <3> HIDE DEF w
    <3>3. /\ w \in [step : {"finalize", "update", "delete", "release"}, name : Names, rv : Nat]
          /\ w.name = n /\ w.rv = seen[n]
      BY <1>1, <3>1, <3>2
    <3> QED
      BY <1>2, <1>3, <2>1, <3>3, GotoType
  <2>2. CASE ~Exists(s)
    <3>1. w = Idle
      BY <2>2
    <3> HIDE DEF w
    <3> QED
      BY <1>2, <3>1, GotoType
  <2> QED
    BY <2>1, <2>2
<1>5. queue' \in [Controllers -> SUBSET Names]
  BY DEF Reconcile, TypeOK
<1> QED
  BY <1>4, <1>5, GenerationKept DEF TypeOK, Reconcile, cluster, bundles, sync, config

\* An API call keeps the types, whether it succeeds or conflicts.
LEMMA UpdateType ==
  ASSUME TypeOK, NEW c \in Controllers, worker[c] # Idle, NEW s \in States, NEW next,
         Update(c, s, next),
         \/ next = Idle
         \/ /\ next = [step |-> "update", name |-> worker[c].name, rv |-> worker[c].rv + 1]
            /\ Exists(Finalized(s))
  PROVE  TypeOK'
<1> DEFINE n == worker[c].name
<1>1. n \in Names /\ worker[c].rv \in 1..Len(log[n]) /\ Len(log[n]) \in Nat
  BY InHandType, LenProperties DEF TypeOK
<1>2. CASE worker[c].rv = Len(log[n])
  <2>1. Write(n, s) /\ Goto(c, next) /\ UNCHANGED queue
    BY <1>2 DEF Update
  <2>2. /\ log' \in [Names -> Seq(States)]
        /\ \A m \in Names : seen[m] <= Len(log'[m])
        /\ \A d \in Controllers : worker'[d] = worker[d] => WorkerOK(d)'
    BY <1>1, <2>1, WriteKeeps
  <2>3. worker' = [d \in Controllers |-> IF d = c THEN next ELSE worker[d]]
    BY <2>1 DEF Goto, TypeOK
  <2>4. WorkerOK(c)'
    <3>1. CASE next = Idle
      BY <2>3, <3>1 DEF WorkerOK
    <3>2. CASE next # Idle
      <4>1. worker'[c] = [step |-> "update", name |-> n, rv |-> Len(log[n]) + 1]
        BY <1>2, <2>3, <3>2
      <4>2. Len(log'[n]) = Len(log[n]) + 1 /\ log'[n][Len(log[n]) + 1] = Finalized(s)
        BY <1>1, <2>1, WriteType
      <4>3. InHand(c)' = Finalized(s)
        BY <1>1, <4>1, <4>2 DEF InHand, StateAt
      <4> QED
        BY <1>1, <3>2, <4>1, <4>2, <4>3 DEF WorkerOK, Exists
    <3> QED
      BY <3>1, <3>2
  <2> QED
    BY <2>1, <2>2, <2>3, <2>4, GenerationKept DEF TypeOK, Update, bundles, sync, config
<1>3. CASE worker[c].rv # Len(log[n])
  <2>1. log' = log /\ Goto(c, Idle) /\ queue' = [queue EXCEPT ![c] = @ \cup {n}]
    BY <1>3 DEF Update
  <2>2. worker' = [d \in Controllers |-> worker'[d]] /\ \A d \in Controllers : WorkerOK(d)'
    BY <2>1, GotoType
  <2>3. queue' \in [Controllers -> SUBSET Names]
    BY <1>1, <2>1 DEF TypeOK
  <2> QED
    BY <2>1, <2>2, <2>3, GenerationKept DEF TypeOK, Update, bundles, sync, config
<1> QED
  BY <1>2, <1>3

\* Both API calls of a reconciliation keep the types.
LEMMA FinalizerType ==
  ASSUME TypeOK, NEW c \in Controllers, AddFinalizer(c) \/ RemoveFinalizer(c)
  PROVE  TypeOK'
<1>1. worker[c] # Idle
  BY DEF AddFinalizer, RemoveFinalizer, Idle
<1>2. InHand(c) \in States /\ InHand(c).uid \in Policies
  BY <1>1, InHandType
<1> DEFINE with == [InHand(c) EXCEPT !.finalizer = TRUE]
           without == [InHand(c) EXCEPT !.finalizer = FALSE]
<1>3. with \in States /\ without \in States /\ with.uid \in Policies /\ with.finalizer
  BY <1>2 DEF States
<1>4. Exists(Finalized(with))
  BY <1>3, LocalAssumption DEF Finalized, Exists
<1> HIDE DEF with, without
<1> QED
  BY <1>1, <1>3, <1>4, UpdateType DEF AddFinalizer, RemoveFinalizer, with, without

\* The generic status bundle keeps its type, and its version does not go back.
LEMMA SpecBundleType ==
  ASSUME TypeOK, NEW o \in SpecObjects, NEW u
  PROVE  /\ SpecUpdate(spec, o) \in [objs : SUBSET SpecObjects, gen : Nat]
         /\ SpecDelete(spec, u) \in [objs : SUBSET SpecObjects, gen : Nat]
         /\ SpecUpdate(spec, o).gen >= spec.gen /\ SpecDelete(spec, u).gen >= spec.gen
BY DEF TypeOK, SpecUpdate, SpecDelete

\* The versions of the compliance bundles do not go back.
LEMMA GenerationsGrow ==
  ASSUME TypeOK, NEW p, NEW s
  PROVE  /\ CppUpdate(cpp, p, s).gen >= cpp.gen /\ CppDelete(cpp, p).gen >= cpp.gen
         /\ CompleteUpdate(complete, p, s).gen >= complete.gen
         /\ CompleteDelete(complete, p).gen = complete.gen
<1>1. cpp.gen \in Nat /\ complete.gen \in Nat
  BY DEF TypeOK, IsBundle
<1>2. PICK o, n : complete = [objs |-> o, gen |-> n]
  BY DEF TypeOK, IsBundle
<1>3. CompleteDelete(complete, p).gen = complete.gen
  BY <1>2 DEF CompleteDelete
<1> QED
  BY <1>1, <1>3 DEF CppUpdate, CppDelete, CompleteUpdate

\* The entries before the spec bundle get the object with its status.
LEMMA SharedStatus ==
  ASSUME NEW s
  PROVE  StatusFor("cpp", s) = s.status /\ StatusFor("complete", s) = s.status
<1>1. ASSUME NEW j \in DOMAIN Collection, Collection[j] \in {"cpp", "complete"}
      PROVE  ~Contains(SubSeq(Collection, 1, j - 1), "spec")
  <2>1. j \in {1, 2}
    BY <1>1 DEF Collection
  <2>2. /\ Collection[1] = "cpp" /\ Collection[2] = "complete"
        /\ Collection \in Seq({"cpp", "complete", "spec"})
    BY DEF Collection
  <2>3. /\ Len(SubSeq(Collection, 1, j - 1)) = j - 1
        /\ \A i \in 1..(j - 1) : SubSeq(Collection, 1, j - 1)[i] = Collection[i]
    <3>1. \A i \in 1..(j - 1) : Collection[i] \in {"cpp", "complete"}
      BY <2>1, <2>2
    <3> QED
      BY <2>1, <3>1, SubSeqProperties
  <2> QED
    BY <2>1, <2>2, <2>3 DEF Contains
<1> QED
  BY <1>1 DEF StatusFor

\* The local policies controller's step on its bundles keeps the types.
LEMMA LocalType == ASSUME TypeOK, UpdateLocal \/ DeleteLocal PROVE TypeOK'
<1> DEFINE s == InHand("local")
<1>1. worker["local"] # Idle /\ "local" \in Controllers
  BY DEF UpdateLocal, DeleteLocal, Idle, Controllers
<1>2. /\ s \in States /\ s.uid \in Policies /\ s.status \in Statuses
      /\ worker["local"].name \in Names
      /\ worker["local"].rv \in 1..Len(log[worker["local"].name])
      /\ Len(log[worker["local"].name]) \in Nat
  BY <1>1, InHandType, LenProperties DEF States, TypeOK
<1>3. /\ IsBundle(cpp', Statuses) /\ IsBundle(complete', FailingLists)
      /\ spec' \in [objs : SUBSET SpecObjects, gen : Nat]
      /\ cpp'.gen >= cpp.gen /\ complete'.gen >= complete.gen /\ spec'.gen >= spec.gen
  <2>1. Clean(worker["local"].name, worker["local"].rv) \in SpecObjects
    <3>1. Clean(worker["local"].name, worker["local"].rv).uid = s.uid
      BY DEF Clean, InHand
    <3> QED
      BY <1>2, <3>1 DEF Clean, SpecObjects
  <2>2. IsBundle(cpp, Statuses) /\ IsBundle(complete, FailingLists) /\ complete.gen \in Nat
    BY DEF TypeOK, IsBundle
  <2>3. CASE UpdateLocal
    <3>1. /\ cpp' = CppUpdate(cpp, s.uid, s.status)
          /\ complete' = CompleteUpdate(complete, s.uid, s.status)
          /\ spec' = SpecUpdate(spec, Clean(worker["local"].name, worker["local"].rv))
      BY <2>3, SharedStatus DEF UpdateLocal
    <3> HIDE DEF s
    <3> QED
      BY <1>2, <2>1, <2>2, <3>1, CppUpdateType, CompleteUpdateType, SpecBundleType, GenerationsGrow
  <2>4. CASE DeleteLocal
    <3>1. /\ cpp' = CppDelete(cpp, s.uid)
          /\ complete' = CompleteDelete(complete, s.uid)
          /\ spec' = SpecDelete(spec, s.uid)
      BY <2>4 DEF DeleteLocal
    <3> HIDE DEF s
    <3> QED
      BY <1>2, <2>1, <2>2, <3>1, CppDeleteType, CompleteDeleteType, SpecBundleType, GenerationsGrow
  <2> QED
    BY <2>3, <2>4
<1>4. \A e \in Entries : lastSent[e] <= GenerationOf(e)'
  <2>1. /\ lastSent["cpp"] <= cpp.gen /\ lastSent["complete"] <= complete.gen
        /\ lastSent["spec"] <= spec.gen
        /\ cpp.gen \in Nat /\ complete.gen \in Nat /\ spec.gen \in Nat
        /\ lastSent["cpp"] \in Nat /\ lastSent["complete"] \in Nat /\ lastSent["spec"] \in Nat
    BY DEF TypeOK, Entries, GenerationOf, IsBundle
  <2>2. cpp'.gen \in Nat /\ complete'.gen \in Nat /\ spec'.gen \in Nat
    BY <1>3 DEF IsBundle
  <2> QED
    BY <1>3, <2>1, <2>2 DEF Entries, GenerationOf
<1>5. worker' = [d \in Controllers |-> worker'[d]] /\ \A d \in Controllers : WorkerOK(d)'
  <2>1. PICK w : /\ Goto("local", w)
                 /\ w = Idle \/ w = [worker["local"] EXCEPT !.step = "release"]
    BY DEF UpdateLocal, DeleteLocal, AfterDelete
  <2>2. log' = log
    BY DEF UpdateLocal, DeleteLocal, cluster
  <2>3. CASE w = Idle
    BY <1>1, <2>1, <2>2, <2>3, GotoType
  <2>4. CASE w # Idle
    <3>1. worker["local"] \in [step : {"finalize", "update", "delete", "release"}, name : Names, rv : Nat]
          /\ Exists(InHand("local"))
      BY <1>1 DEF TypeOK, WorkerOK
    <3>2. /\ w \in [step : {"finalize", "update", "delete", "release"}, name : Names, rv : Nat]
          /\ w.name = worker["local"].name /\ w.rv = worker["local"].rv
      BY <2>1, <2>4, <3>1
    <3> QED
      BY <1>1, <1>2, <2>1, <2>2, <3>1, <3>2, GotoType DEF InHand
  <2> QED
    BY <2>3, <2>4
<1> QED
  BY <1>3, <1>4, <1>5 DEF TypeOK, UpdateLocal, DeleteLocal, cluster, sync, config

\* The policies controller's step on its bundle keeps the types.
LEMMA GlobalType == ASSUME TypeOK, UpdateGlobal \/ DeleteGlobal PROVE TypeOK'
<1> DEFINE s == InHand("global")
           n == worker["global"].name
<1>1. worker["global"] # Idle /\ "global" \in Controllers
  BY DEF UpdateGlobal, DeleteGlobal, Idle, Controllers
<1>2. s \in States /\ s.status \in Statuses /\ n \in Names /\ worker["global"].rv \in 1..Len(log[n])
  BY <1>1, InHandType DEF States
<1>3. DOMAIN reported' \subseteq Names /\ reported' \in [DOMAIN reported' -> Statuses]
  <2>1. DOMAIN reported \subseteq Names /\ reported \in [DOMAIN reported -> Statuses]
    BY DEF TypeOK
  <2>2. reported' \in {reported, Put(reported, n, s.status), Drop(reported, n)}
    BY DEF UpdateGlobal, DeleteGlobal
  <2> HIDE DEF s, n
  <2> QED
    BY <1>2, <2>1, <2>2 DEF Put, Drop
<1>4. worker' = [d \in Controllers |-> worker'[d]] /\ \A d \in Controllers : WorkerOK(d)'
  <2>1. PICK w : /\ Goto("global", w)
                 /\ w = Idle \/ w = [worker["global"] EXCEPT !.step = "release"]
    BY DEF UpdateGlobal, DeleteGlobal, AfterDelete
  <2>2. log' = log
    BY DEF UpdateGlobal, DeleteGlobal, cluster
  <2>3. CASE w = Idle
    BY <1>1, <2>1, <2>2, <2>3, GotoType
  <2>4. CASE w # Idle
    <3>1. worker["global"] \in [step : {"finalize", "update", "delete", "release"}, name : Names, rv : Nat]
          /\ Exists(InHand("global"))
      BY <1>1 DEF TypeOK, WorkerOK
    <3>2. /\ w \in [step : {"finalize", "update", "delete", "release"}, name : Names, rv : Nat]
          /\ w.name = n /\ w.rv = worker["global"].rv
      BY <2>1, <2>4, <3>1
    <3> QED
      BY <1>1, <1>2, <2>1, <2>2, <3>1, <3>2, GotoType DEF InHand
  <2> QED
    BY <2>3, <2>4
<1> QED
  BY <1>3, <1>4, GenerationKept DEF TypeOK, UpdateGlobal, DeleteGlobal, cluster, bundles, sync, config

\* What the complete-state bundle says of the clusters that the hub of hubs
\* knows are statuses, without a cluster in two lists.
LEMMA CompleteReceivedType == ASSUME TypeOK PROVE IsMap(ReceivedComplete, Statuses)
<1>1. IsMap(complete.objs, FailingLists) /\ IsMap(received.status, Statuses)
  BY DEF TypeOK, IsBundle
<1>2. ASSUME NEW p \in DOMAIN received.status
      PROVE  ReceivedComplete[p] \in Statuses
  <2> DEFINE known == ClustersOf(received.status[p])
             failing == IF p \in DOMAIN complete.objs THEN complete.objs[p] ELSE Failing(NoStatus)
  <2>1. failing \in FailingLists
    <3>1. Failing(NoStatus) \in FailingLists
      BY DEF Failing, NoStatus, FailingLists, FailingState, ComplianceState
    <3> QED
      BY <1>1, <3>1 DEF IsMap
  <2>2. known \subseteq Clusters
    BY <1>1 DEF IsMap, Statuses, Lists, ClustersOf, ComplianceState
  <2>3. ReceivedComplete[p] =
          [k \in ComplianceState |->
              IF k = "compliant" THEN known \ (failing["nonCompliant"] \cup failing["unknown"])
              ELSE known \cap failing[k]]
    BY DEF ReceivedComplete
  <2> HIDE DEF known, failing
  <2> QED
    BY <2>1, <2>2, <2>3 DEF Statuses, Lists, FailingLists, FailingState, ComplianceState
<1> QED
  BY <1>1, <1>2 DEF IsMap, ReceivedComplete

\* A pass's step keeps the types.
LEMMA SyncType == ASSUME TypeOK, SyncEntry PROVE TypeOK'
<1> DEFINE e == Collection[pass + 1]
<1>1. e \in Entries /\ pass' \in 0..2
  <2>1. /\ Collection[1] = "cpp" /\ Collection[2] = "complete" /\ Collection[3] = "spec"
        /\ Len(Collection) = 3
    BY DEF Collection
  <2> QED
    BY <2>1 DEF SyncEntry, TypeOK, Entries
<1>2. GenerationOf(e) \in Nat
  BY <1>1 DEF TypeOK, GenerationOf, Entries, IsBundle
<1>3. \A d \in Entries : GenerationOf(d)' = GenerationOf(d)
  BY GenerationKept DEF SyncEntry
<1>4. Synced(e)
  BY DEF SyncEntry
<1>5. lastSent' \in [Entries -> Nat] /\ \A d \in Entries : lastSent'[d] <= GenerationOf(d)
  <2>1. lastSent' = lastSent \/ lastSent' = [lastSent EXCEPT ![e] = GenerationOf(e)]
    BY <1>4 DEF Synced
  <2>2. lastSent \in [Entries -> Nat] /\ \A d \in Entries : lastSent[d] <= GenerationOf(d)
    BY DEF TypeOK
  <2> HIDE DEF e
  <2> QED
    BY <1>1, <1>2, <2>1, <2>2
<1>6. /\ received' = [status |-> received'.status, spec |-> received'.spec]
      /\ IsMap(received'.status, Statuses) /\ received'.spec \subseteq SpecObjects
  <2>1. received' = received \/ received' = Received(e)
    BY <1>4 DEF Synced
  <2>2. /\ received = [status |-> received.status, spec |-> received.spec]
        /\ IsMap(received.status, Statuses) /\ received.spec \subseteq SpecObjects
    BY DEF TypeOK
  <2>3. IsMap(cpp.objs, Statuses) /\ spec.objs \subseteq SpecObjects
    BY DEF TypeOK, IsBundle
  <2> QED
    <3>1. PICK a, b : received = [status |-> a, spec |-> b]
      BY <2>2
    <3> HIDE DEF e
    <3> QED
      BY <1>1, <2>1, <2>2, <2>3, <3>1, CompleteReceivedType DEF Received, Entries
<1>7. \A c \in Controllers : WorkerOK(c)'
  BY DEF SyncEntry, cluster, TypeOK, WorkerOK, InHand, StateAt, Exists
<1> QED
  BY <1>1, <1>3, <1>5, <1>6, <1>7 DEF TypeOK, SyncEntry, cluster, bundles, config

\* The initial state is well typed.
LEMMA InitType == ASSUME Init PROVE TypeOK
<1>1. NoStatus \in Statuses
  BY DEF NoStatus, Statuses, Lists
<1>2. /\ IsMap(EmptyMap, Statuses) /\ IsMap(EmptyMap, FailingLists)
      /\ <<>> \in Seq(States) /\ Len(<<>>) = 0
  BY EmptyIsMap, EmptySeq
<1>3. \A e \in Entries : GenerationOf(e) = 0
  BY DEF Init, Entries, GenerationOf
<1>4. \A c \in Controllers : WorkerOK(c)
  BY DEF Init, WorkerOK
<1>5. IsBundle(cpp, Statuses) /\ IsBundle(complete, FailingLists)
  BY <1>2 DEF Init, IsBundle
<1>6. received = [status |-> EmptyMap, spec |-> {}]
  BY DEF Init
<1>7. reported \in [DOMAIN reported -> Statuses] /\ DOMAIN reported \subseteq Names
  BY DEF Init
<1>8. \A n \in Names : log[n] = <<>> /\ seen[n] = 0
  BY DEF Init
<1>9. lastSent \in [Entries -> Nat] /\ \A e \in Entries : lastSent[e] <= GenerationOf(e)
  BY <1>3 DEF Init
<1>10. /\ log \in [Names -> Seq(States)] /\ seen \in [Names -> Nat]
       /\ \A n \in Names : seen[n] <= Len(log[n])
  BY <1>2, <1>8 DEF Init
<1>11. queue \in [Controllers -> SUBSET Names] /\ worker = [c \in Controllers |-> worker[c]]
  <2>1. worker = [c \in Controllers |-> Idle] /\ queue = [c \in Controllers |-> {}]
    BY DEF Init
  <2> QED
    BY <2>1
<1>12. /\ received = [status |-> received.status, spec |-> received.spec]
       /\ IsMap(received.status, Statuses) /\ received.spec \subseteq SpecObjects
  <2>1. received.status = EmptyMap /\ received.spec = {}
    BY <1>6
  <2> QED
    BY <1>2, <1>6, <2>1
<1>13. /\ spec \in [objs : SUBSET SpecObjects, gen : Nat] /\ pass \in 0..2
       /\ full \in BOOLEAN /\ enabled \in BOOLEAN /\ mixed \subseteq Names /\ changes \in 0..MaxChanges
  <2>1. spec = [objs |-> {}, gen |-> 0]
    BY DEF Init
  <2>2. spec \in [objs : SUBSET SpecObjects, gen : Nat]
    BY <2>1
  <2>3. pass = 0 /\ full = FALSE /\ enabled = FALSE /\ mixed = {} /\ changes = 0
    BY DEF Init
  <2>4. 0 \in 0..MaxChanges
    BY LocalAssumption
  <2>5. full \in BOOLEAN /\ enabled \in BOOLEAN
    BY <2>3
  <2>6. pass \in 0..2 /\ mixed \subseteq Names /\ changes \in 0..MaxChanges
    BY <2>3, <2>4
  <2> QED
    BY <2>2, <2>5, <2>6
<1> QED
  BY <1>4, <1>5, <1>7, <1>9, <1>10, <1>11, <1>12, <1>13 DEF TypeOK

\* A new configuration keeps the types.
LEMMA ConfigType == ASSUME TypeOK, SetConfig PROVE TypeOK'
<1>1. \A c \in Controllers : WorkerOK(c)'
  BY DEF SetConfig, cluster, TypeOK, WorkerOK, InHand, StateAt, Exists
<1>2. changes' \in 0..MaxChanges
  BY LocalAssumption DEF SetConfig, TypeOK
<1> QED
  BY <1>1, <1>2, GenerationKept DEF TypeOK, SetConfig, cluster, bundles, sync

\* Every step keeps the types.
LEMMA NextType == ASSUME TypeOK, [Next]_vars PROVE TypeOK'
<1>1. ASSUME NEW n \in Names, Create(n) \/ SetStatus(n) \/ ChangeOwner(n) \/ RequestDelete(n)
      PROVE  TypeOK'
  BY <1>1, OthersType
<1>2. ASSUME NEW n \in Names, Watch(n) PROVE TypeOK'
  BY <1>2, WatchType
<1>3. ASSUME NEW n \in Names, NEW c \in Controllers, Reconcile(c, n) PROVE TypeOK'
  BY <1>3, ReconcileType
<1>4. ASSUME NEW c \in Controllers, Work(c) PROVE TypeOK'
  BY <1>4, FinalizerType, LocalType, GlobalType DEF Work
<1>5. CASE SyncEntry
  BY <1>5, SyncType
<1>6. CASE SetConfig
  BY <1>6, ConfigType
<1>7. CASE UNCHANGED vars
  <2>1. \A c \in Controllers : WorkerOK(c)'
    BY <1>7 DEF vars, cluster, TypeOK, WorkerOK, InHand, StateAt, Exists
  <2> QED
    BY <1>7, <2>1, GenerationKept DEF TypeOK, vars, cluster, bundles, sync, config
<1> QED
  BY <1>1, <1>2, <1>3, <1>4, <1>5, <1>6, <1>7 DEF Next

\* Every variable keeps its type; in particular no reconciler works on what
\* never existed, and no list has a cluster twice.
THEOREM TypeCorrect == Spec => []TypeOK
BY InitType, NextType, PTL DEF Spec

---------------------------------------------------------------------------
(* The shared object.                                                      *)

\* The bundles agree after an update: the version of the object that the
\* compliance bundles see has its status.
LEMMA UpdateAgrees ==
  ASSUME TypeOK, LocalBundlesAgree, NEW p \in Policies, NEW s \in Statuses, NEW o \in SpecObjects,
         o.uid = p,
         cpp' = CppUpdate(cpp, p, s),
         complete' = CompleteUpdate(complete, p, s),
         spec' = SpecUpdate(spec, o)
  PROVE  LocalBundlesAgree'
<1>1. DOMAIN cpp'.objs = DOMAIN cpp.objs \cup {p}
      /\ \A q \in DOMAIN cpp'.objs : cpp'.objs[q] = IF q = p THEN s ELSE cpp.objs[q]
  BY DEF CppUpdate, Put
<1>2. {q.uid : q \in spec'.objs} = {q.uid : q \in spec.objs} \cup {p}
  BY DEF SpecUpdate
<1>3. /\ \A q \in DOMAIN complete.objs : q # p =>
            q \in DOMAIN complete'.objs /\ complete'.objs[q] = complete.objs[q]
      /\ DOMAIN complete'.objs \subseteq DOMAIN complete.objs \cup {p}
  BY DEF CompleteUpdate, Put, Drop
<1>4. IF HasFailing(Failing(s)) THEN p \in DOMAIN complete'.objs /\ complete'.objs[p] = Failing(s)
      ELSE p \notin DOMAIN complete'.objs
  <2>1. CASE p \in DOMAIN complete.objs /\ complete.objs[p] = Failing(s)
    <3>1. HasFailing(Failing(s))
      BY <2>1 DEF LocalBundlesAgree
    <3> QED
      BY <2>1, <3>1 DEF CompleteUpdate, FailingChanged
  <2>2. CASE p \notin DOMAIN complete.objs /\ ~HasFailing(Failing(s))
    BY <2>2 DEF CompleteUpdate
  <2>3. CASE /\ p \in DOMAIN complete.objs => complete.objs[p] # Failing(s)
             /\ p \notin DOMAIN complete.objs => HasFailing(Failing(s))
    BY <2>3 DEF CompleteUpdate, FailingChanged, Put, Drop
  <2> QED
    BY <2>1, <2>2, <2>3
<1> QED
  BY <1>1, <1>2, <1>3, <1>4 DEF LocalBundlesAgree

\* The bundles agree after a deletion.
LEMMA DeleteAgrees ==
  ASSUME TypeOK, LocalBundlesAgree, NEW p \in Policies,
         cpp' = CppDelete(cpp, p),
         complete' = CompleteDelete(complete, p),
         spec' = SpecDelete(spec, p)
  PROVE  LocalBundlesAgree'
<1>1. DOMAIN cpp'.objs = DOMAIN cpp.objs \ {p}
      /\ \A q \in DOMAIN cpp'.objs : cpp'.objs[q] = cpp.objs[q]
  BY DEF CppDelete, Drop
<1>2. {q.uid : q \in spec'.objs} = {q.uid : q \in spec.objs} \ {p}
  BY DEF SpecDelete
<1>3. complete'.objs = Drop(complete.objs, p)
  <2>1. PICK m, n : complete = [objs |-> m, gen |-> n]
    BY DEF TypeOK, IsBundle
  <2> QED
    BY <2>1 DEF CompleteDelete
<1>4. DOMAIN complete'.objs = DOMAIN complete.objs \ {p}
      /\ \A q \in DOMAIN complete'.objs : complete'.objs[q] = complete.objs[q]
  BY <1>3 DEF Drop
<1> QED
  BY <1>1, <1>2, <1>4 DEF LocalBundlesAgree

\* Only the local policies controller's step touches its bundles.
LEMMA BundlesChange ==
  ASSUME [Next]_vars, ~UpdateLocal, ~DeleteLocal
  PROVE  UNCHANGED bundles
BY DEF Next, Create, SetStatus, ChangeOwner, RequestDelete, WriteByOthers, Watch, Reconcile,
       Work, AddFinalizer, RemoveFinalizer, Update, UpdateGlobal, DeleteGlobal,
       SyncEntry, SetConfig, vars

\* The three bundles agree at all times, though one of them clears the status
\* of the object that all of them are handed.
THEOREM SharedObjectHarmless == Spec => []LocalBundlesAgree
<1>1. Init => LocalBundlesAgree
  BY DEF Init, LocalBundlesAgree, EmptyMap
<1>2. ASSUME TypeOK, LocalBundlesAgree, [Next]_vars
      PROVE  LocalBundlesAgree'
  <2> DEFINE s == InHand("local")
             o == Clean(worker["local"].name, worker["local"].rv)
  <2>1. ASSUME UpdateLocal \/ DeleteLocal
        PROVE  s.uid \in Policies /\ s.status \in Statuses /\ o \in SpecObjects /\ o.uid = s.uid
    <3>1. worker["local"] # Idle /\ "local" \in Controllers
      BY <2>1 DEF UpdateLocal, DeleteLocal, Idle, Controllers
    <3>2. /\ worker["local"].name \in Names
          /\ worker["local"].rv \in 1..Len(log[worker["local"].name])
          /\ s \in States /\ s.uid \in Policies
      BY <1>2, <3>1, InHandType
    <3>3. worker["local"].rv \in Nat \ {0}
      BY <1>2, <3>2, LenProperties DEF TypeOK
    <3>4. o.uid = s.uid
      BY DEF Clean, InHand
    <3> QED
      BY <3>2, <3>3, <3>4 DEF Clean, SpecObjects, States
  <2>2. CASE UpdateLocal
    <3>1. /\ cpp' = CppUpdate(cpp, s.uid, s.status)
          /\ complete' = CompleteUpdate(complete, s.uid, s.status)
          /\ spec' = SpecUpdate(spec, o)
      BY <2>2, SharedStatus DEF UpdateLocal
    <3> HIDE DEF s, o
    <3> QED
      BY <1>2, <2>1, <2>2, <3>1, UpdateAgrees
  <2>3. CASE DeleteLocal
    <3>1. /\ cpp' = CppDelete(cpp, s.uid)
          /\ complete' = CompleteDelete(complete, s.uid)
          /\ spec' = SpecDelete(spec, s.uid)
      BY <2>3 DEF DeleteLocal
    <3> HIDE DEF s, o
    <3> QED
      BY <1>2, <2>1, <2>3, <3>1, DeleteAgrees
  <2>4. CASE ~UpdateLocal /\ ~DeleteLocal
    <3>1. UNCHANGED bundles
      BY <1>2, <2>4, BundlesChange
    <3> QED
      BY <1>2, <3>1 DEF bundles, LocalBundlesAgree
  <2> QED
    BY <2>2, <2>3, <2>4
<1> QED
  BY <1>1, <1>2, TypeCorrect, PTL DEF Spec

---------------------------------------------------------------------------
(* Deletions.                                                              *)

BeingDeleted(n) == Exists(Current(n)) /\ Current(n).deleting

\* The policy's own controller has a request for it, or is deleting it in its
\* current state.
Served(n) ==
    LET c == Current(n).owner
    IN  \/ n \in queue[c]
        \/ /\ worker[c].step \in {"delete", "release"}
           /\ worker[c].name = n /\ worker[c].rv = Len(log[n])

\* What is being deleted still has the finalizer; once the cache shows it, the
\* controller it belongs to will not forget it.
DeletionInv ==
    /\ \A n \in Names : \A i \in 1..Len(log[n]) :
         (Exists(log[n][i]) /\ log[n][i].deleting) => log[n][i].finalizer
    /\ \A n \in Names : (seen[n] = Len(log[n]) /\ BeingDeleted(n)) => Served(n)

\* After a write the cache is behind on the object, and on no other one
\* anything has changed.
LEMMA WriteDeletion ==
  ASSUME TypeOK, DeletionInv, NEW n \in Names, NEW s \in States, Write(n, s), seen' = seen,
         \A m \in Names : (m # n /\ seen[m] = Len(log[m]) /\ BeingDeleted(m)) =>
            LET c == Current(m).owner
            IN  \/ m \in queue'[c]
                \/ worker'[c] = worker[c] /\ queue'[c] = queue[c]
  PROVE  DeletionInv'
<1>1. /\ \A m \in Names : m # n => log'[m] = log[m]
      /\ Len(log'[n]) = Len(log[n]) + 1
      /\ \A i \in 1..Len(log[n]) : log'[n][i] = log[n][i]
      /\ log'[n][Len(log[n]) + 1] = Finalized(s)
  BY WriteType
<1>2. \A m \in Names : Len(log[m]) \in Nat /\ seen[m] \in Nat /\ seen[m] <= Len(log[m])
  BY LenProperties DEF TypeOK
<1>3. ASSUME Exists(Finalized(s)), Finalized(s).deleting PROVE Finalized(s).finalizer
  BY <1>3, AbsentType DEF Finalized
<1>4. ASSUME NEW m \in Names, NEW i \in 1..Len(log'[m]), Exists(log'[m][i]), log'[m][i].deleting
      PROVE  log'[m][i].finalizer
  <2>1. CASE m # n
    BY <1>1, <1>4, <2>1 DEF DeletionInv
  <2>2. CASE m = n /\ i # Len(log[n]) + 1
    <3>1. i \in 1..Len(log[n])
      BY <1>1, <1>2, <2>2
    <3> QED
      BY <1>1, <1>4, <2>2, <3>1 DEF DeletionInv
  <2>3. CASE m = n /\ i = Len(log[n]) + 1
    BY <1>1, <1>3, <1>4, <2>3
  <2> QED
    BY <2>1, <2>2, <2>3
<1>5. ASSUME NEW m \in Names, seen'[m] = Len(log'[m]), BeingDeleted(m)'
      PROVE  Served(m)'
  <2>1. m # n
    BY <1>1, <1>2, <1>5
  <2>2. log'[m] = log[m] /\ Current(m)' = Current(m)
    BY <1>1, <2>1 DEF Current, StateAt
  <2>3. seen[m] = Len(log[m]) /\ BeingDeleted(m)
    BY <1>5, <2>2 DEF BeingDeleted, Exists
  <2> QED
    BY <2>1, <2>2, <2>3 DEF DeletionInv, Served
<1> QED
  BY <1>4, <1>5 DEF DeletionInv, Exists

\* Where the logs and the cache stay as they are, it is enough that what is
\* being deleted stays with its controller.
LEMMA ServedDeletion ==
  ASSUME DeletionInv, log' = log, seen' = seen,
         \A n \in Names : (seen[n] = Len(log[n]) /\ BeingDeleted(n)) => Served(n)'
  PROVE  DeletionInv'
BY DEF DeletionInv, BeingDeleted, Current, StateAt, Exists

\* The last event of an object that is being deleted passes the filter of the
\* controller it belongs to.
LEMMA WatchDeletion ==
  ASSUME TypeOK, DeletionInv, NEW n \in Names, Watch(n)
  PROVE  DeletionInv'
<1>1. log' = log /\ worker' = worker /\ seen' = [seen EXCEPT ![n] = @ + 1]
  BY DEF Watch
<1>2. \A c \in Controllers : queue[c] \subseteq queue'[c]
  BY DEF Watch
<1>3. seen \in [Names -> Nat] /\ seen[n] < Len(log[n]) /\ Len(log[n]) \in Nat
  BY LenProperties DEF Watch, TypeOK
<1>4. ASSUME NEW m \in Names, seen'[m] = Len(log'[m]), BeingDeleted(m)'
      PROVE  Served(m)'
  <2>1. Current(m)' = Current(m) /\ BeingDeleted(m) /\ Current(m).owner \in Controllers
    BY <1>1, <1>4, CurrentType DEF BeingDeleted, Current, StateAt, Exists, States
  <2>2. CASE m # n
    <3>1. Served(m)
      BY <1>1, <1>3, <1>4, <2>1, <2>2 DEF DeletionInv
    <3> QED
      BY <1>1, <1>2, <2>1, <3>1 DEF Served
  <2>3. CASE m = n
    <3>1. StateAt(n, seen[n] + 1) = Current(n)
      BY <1>1, <1>3, <1>4, <2>3 DEF Current
    <3>2. n \in queue'[Current(n).owner]
      BY <2>1, <2>3, <3>1 DEF Watch, Passes, BeingDeleted
    <3> QED
      BY <2>1, <2>3, <3>2 DEF Served
  <2> QED
    BY <2>2, <2>3
<1> QED
  BY <1>1, <1>4 DEF DeletionInv

\* A request that is taken goes on to the deletion.
LEMMA ReconcileDeletion ==
  ASSUME TypeOK, DeletionInv, NEW c \in Controllers, NEW n \in Names, Reconcile(c, n)
  PROVE  DeletionInv'
<1>1. /\ log' = log /\ seen' = seen /\ worker[c] = Idle
      /\ queue' = [queue EXCEPT ![c] = @ \ {n}]
  BY DEF Reconcile, cluster
<1>2. ASSUME NEW m \in Names, seen[m] = Len(log[m]), BeingDeleted(m)
      PROVE  Served(m)'
  <2> DEFINE d == Current(m).owner
  <2>1. Current(m)' = Current(m) /\ d \in Controllers /\ Served(m)
    BY <1>1, <1>2, CurrentType DEF Current, StateAt, States, DeletionInv
  <2>2. CASE d # c
    <3>1. queue'[d] = queue[d] /\ worker'[d] = worker[d]
      BY <1>1, <2>1, <2>2 DEF Reconcile, Goto, TypeOK
    <3> QED
      BY <1>1, <2>1, <3>1 DEF Served
  <2>3. CASE d = c /\ m # n
    <3>1. m \in queue[c]
      BY <1>1, <2>1, <2>3 DEF Served, Idle
    <3> QED
      BY <1>1, <2>1, <2>3, <3>1 DEF Served, TypeOK
  <2>4. CASE d = c /\ m = n
    <3>1. StateAt(n, seen[n]) = Current(n) /\ Exists(Current(n)) /\ Current(n).deleting
      BY <1>2, <2>4 DEF Current, BeingDeleted
    <3>2. worker' = [worker EXCEPT ![c] = [step |-> "delete", name |-> n, rv |-> seen[n]]]
      BY <3>1 DEF Reconcile, Goto, FirstStep
    <3>3. worker'[c] = [step |-> "delete", name |-> n, rv |-> seen[n]]
      BY <3>2 DEF TypeOK
    <3> QED
      BY <1>1, <1>2, <2>1, <2>4, <3>3 DEF Served
  <2> QED
    BY <2>2, <2>3, <2>4
<1> QED
  BY <1>1, <1>2, ServedDeletion

\* An API call leaves the cache behind, or the request is queued again.
LEMMA UpdateDeletion ==
  ASSUME TypeOK, DeletionInv, NEW c \in Controllers, AddFinalizer(c) \/ RemoveFinalizer(c)
  PROVE  DeletionInv'
<1> DEFINE n == worker[c].name
           rv == worker[c].rv
<1>1. worker[c] # Idle /\ worker[c].step \in {"finalize", "release"}
  BY DEF AddFinalizer, RemoveFinalizer, Idle
<1>2. n \in Names /\ InHand(c) \in States
  BY <1>1, InHandType
<1>3. PICK s, next : s \in States /\ Update(c, s, next)
  <2>1. CASE AddFinalizer(c)
    <3>1. [InHand(c) EXCEPT !.finalizer = TRUE] \in States
      BY <1>2 DEF States
    <3> QED
      BY <2>1, <3>1 DEF AddFinalizer
  <2>2. CASE RemoveFinalizer(c)
    <3>1. [InHand(c) EXCEPT !.finalizer = FALSE] \in States
      BY <1>2 DEF States
    <3> QED
      BY <2>2, <3>1 DEF RemoveFinalizer
  <2> QED
    BY <2>1, <2>2
<1>4. seen' = seen /\ \A d \in Controllers : d # c => worker'[d] = worker[d]
  BY <1>3 DEF Update, Goto, TypeOK
<1>5. ASSUME NEW m \in Names, seen[m] = Len(log[m]), BeingDeleted(m)
      PROVE  /\ Current(m).owner \in Controllers /\ Served(m)
             /\ (Current(m).owner = c /\ m # n) => m \in queue[c]
  BY <1>5, CurrentType DEF States, DeletionInv, Served
<1>6. CASE rv = Len(log[n])
  <2>1. Write(n, s) /\ queue' = queue
    BY <1>3, <1>6 DEF Update
  <2>2. ASSUME NEW m \in Names, m # n, seen[m] = Len(log[m]), BeingDeleted(m)
        PROVE  LET d == Current(m).owner
               IN  \/ m \in queue'[d]
                   \/ worker'[d] = worker[d] /\ queue'[d] = queue[d]
    BY <1>4, <1>5, <2>1, <2>2
  <2> QED
    BY <1>2, <1>3, <1>4, <2>1, <2>2, WriteDeletion
<1>7. CASE rv # Len(log[n])
  <2>1. log' = log /\ queue' = [queue EXCEPT ![c] = @ \cup {n}]
    BY <1>3, <1>7 DEF Update
  <2>2. ASSUME NEW m \in Names, seen[m] = Len(log[m]), BeingDeleted(m)
        PROVE  Served(m)'
    <3>1. Current(m)' = Current(m)
      BY <2>1 DEF Current, StateAt
    <3>2. CASE Current(m).owner = c
      <4>1. m \in queue[c] \/ m = n
        BY <1>5, <2>2, <3>2
      <4> QED
        BY <2>1, <3>1, <3>2, <4>1 DEF Served, TypeOK
    <3>3. CASE Current(m).owner # c
      BY <1>4, <1>5, <2>1, <2>2, <3>1, <3>3 DEF Served, TypeOK
    <3> QED
      BY <3>2, <3>3
  <2> QED
    BY <1>4, <2>1, <2>2, ServedDeletion
<1> QED
  BY <1>6, <1>7

\* With the object out of the bundles, its finalizer is released next.
LEMMA BundlesDeletion ==
  ASSUME TypeOK, DeletionInv, UpdateLocal \/ DeleteLocal \/ UpdateGlobal \/ DeleteGlobal
  PROVE  DeletionInv'
<1>1. PICK c \in Controllers :
         /\ \/ worker[c].step = "update" /\ Goto(c, Idle)
            \/ worker[c].step = "delete" /\ Goto(c, AfterDelete(c))
         /\ log' = log /\ seen' = seen /\ queue' = queue
  BY DEF UpdateLocal, DeleteLocal, UpdateGlobal, DeleteGlobal, cluster, Controllers
<1>2. ASSUME NEW m \in Names, seen[m] = Len(log[m]), BeingDeleted(m)
      PROVE  Served(m)'
  <2> DEFINE d == Current(m).owner
  <2>1. Current(m)' = Current(m) /\ d \in Controllers /\ Served(m)
    BY <1>1, <1>2, CurrentType DEF Current, StateAt, States, DeletionInv
  <2>2. CASE m \in queue[d]
    BY <1>1, <2>1, <2>2 DEF Served
  <2>3. CASE m \notin queue[d] /\ d # c
    <3>1. worker'[d] = worker[d]
      BY <1>1, <2>1, <2>3 DEF Goto, TypeOK
    <3> QED
      BY <1>1, <2>1, <3>1 DEF Served
  <2>4. CASE m \notin queue[d] /\ d = c
    <3>1. worker[c].step = "delete" /\ worker[c].name = m /\ worker[c].rv = Len(log[m])
      BY <1>1, <2>1, <2>4 DEF Served
    <3>2. worker[c] # Idle
      BY <3>1 DEF Idle
    <3>3. /\ worker[c].rv \in 1..Len(log[m]) /\ Len(log[m]) \in Nat
          /\ worker[c] \in [step : {"finalize", "update", "delete", "release"}, name : Names, rv : Nat]
      BY <3>1, <3>2, LenProperties DEF TypeOK, WorkerOK
    <3>4. InHand(c) = Current(m) /\ InHand(c) = log[m][Len(log[m])]
      BY <3>1, <3>3 DEF InHand, Current, StateAt
    <3>5. InHand(c).finalizer
      BY <1>2, <3>1, <3>3, <3>4 DEF DeletionInv, BeingDeleted
    <3>6. worker' = [worker EXCEPT ![c] = [worker[c] EXCEPT !.step = "release"]]
      BY <1>1, <3>1, <3>5 DEF Goto, AfterDelete
    <3>7. worker'[c] = [worker[c] EXCEPT !.step = "release"]
      BY <3>6 DEF TypeOK
    <3>8. worker'[c].step = "release" /\ worker'[c].name = m /\ worker'[c].rv = Len(log[m])
      BY <3>1, <3>3, <3>7
    <3> QED
      BY <1>1, <2>1, <2>4, <3>8 DEF Served
  <2> QED
    BY <2>2, <2>3, <2>4
<1> QED
  BY <1>1, <1>2, ServedDeletion

\* Every step keeps deletions on their way.
LEMMA NextDeletion == ASSUME TypeOK, DeletionInv, [Next]_vars PROVE DeletionInv'
<1>1. ASSUME NEW n \in Names, Create(n) \/ SetStatus(n) \/ ChangeOwner(n) \/ RequestDelete(n)
      PROVE  DeletionInv'
  <2>1. PICK s : s \in States /\ WriteByOthers(n, s)
    BY <1>1, OthersWrite
  <2>2. Write(n, s) /\ seen' = seen /\ worker' = worker /\ queue' = queue
    BY <2>1 DEF WriteByOthers
  <2> QED
    BY <2>1, <2>2, WriteDeletion
<1>2. ASSUME NEW n \in Names, Watch(n) PROVE DeletionInv'
  BY <1>2, WatchDeletion
<1>3. ASSUME NEW n \in Names, NEW c \in Controllers, Reconcile(c, n) PROVE DeletionInv'
  BY <1>3, ReconcileDeletion
<1>4. ASSUME NEW c \in Controllers, Work(c) PROVE DeletionInv'
  BY <1>4, UpdateDeletion, BundlesDeletion DEF Work
<1>5. CASE SyncEntry \/ SetConfig \/ UNCHANGED vars
  <2>1. log' = log /\ seen' = seen /\ queue' = queue /\ worker' = worker
    BY <1>5 DEF SyncEntry, SetConfig, vars, cluster
  <2>2. ASSUME NEW n \in Names, Served(n) PROVE Served(n)'
    BY <2>1, <2>2 DEF Served, Current, StateAt
  <2> QED
    BY <2>1, <2>2, ServedDeletion DEF DeletionInv
<1> QED
  BY <1>1, <1>2, <1>3, <1>4, <1>5 DEF Next

\* When nothing is left to reconcile no policy waits to be deleted, whatever
\* hands it went through and however the two controllers interleave.
THEOREM NoDeletionStuck == Spec => []NoneStuck
<1>1. Init => DeletionInv
  <2>1. ASSUME Init, NEW n \in Names PROVE log[n] = <<>>
    BY <2>1 DEF Init
  <2> QED
    BY <2>1, EmptySeq, AbsentType DEF DeletionInv, BeingDeleted, Current, StateAt
<1>2. ASSUME TypeOK, DeletionInv PROVE NoneStuck
  <2>1. ASSUME Reconciled, NEW n \in Names, BeingDeleted(n) PROVE FALSE
    <3>1. seen[n] = Len(log[n]) /\ Current(n).owner \in Controllers
      BY <1>2, <2>1, CurrentType DEF Reconciled, States
    <3>2. Served(n)
      BY <1>2, <2>1, <3>1 DEF DeletionInv
    <3> QED
      BY <2>1, <3>1, <3>2 DEF Served, Reconciled, Idle
  <2> QED
    BY <2>1 DEF NoneStuck, BeingDeleted
<1> QED
  BY <1>1, <1>2, NextDeletion, TypeCorrect, PTL DEF Spec

---------------------------------------------------------------------------
(* What a write makes of an object, and of what the reconcilers hold.      *)

\* The current state is a state of the log, or there was none.
LEMMA CurrentInLog ==
  ASSUME TypeOK, NEW n \in Names
  PROVE  /\ Len(log[n]) \in Nat /\ seen[n] \in Nat /\ seen[n] <= Len(log[n])
         /\ Exists(Current(n)) => Len(log[n]) \in 1..Len(log[n])
         /\ Len(log[n]) # 0 => Current(n) = log[n][Len(log[n])]
<1>1. Len(log[n]) \in Nat /\ seen[n] \in Nat /\ seen[n] <= Len(log[n])
  BY LenProperties DEF TypeOK
<1>2. Len(log[n]) = 0 => ~Exists(Current(n))
  BY AbsentType DEF Current, StateAt
<1> QED
  BY <1>1, <1>2 DEF Current, StateAt

\* The new state is the current one then; other objects, and earlier states,
\* are as they were, also those that the reconcilers hold.
LEMMA AfterWrite ==
  ASSUME TypeOK, NEW n \in Names, NEW s \in States, Write(n, s)
  PROVE  /\ Len(log'[n]) = Len(log[n]) + 1 /\ Len(log[n]) \in Nat
         /\ Current(n)' = Finalized(s)
         /\ log'[n][Len(log[n]) + 1] = Finalized(s)
         /\ \A i \in 1..Len(log[n]) : log'[n][i] = log[n][i]
         /\ \A m \in Names : m # n => log'[m] = log[m] /\ Current(m)' = Current(m)
         /\ \A c \in Controllers : worker[c] # Idle /\ worker'[c] = worker[c] => InHand(c)' = InHand(c)
<1>1. /\ Len(log'[n]) = Len(log[n]) + 1
      /\ \A m \in Names : m # n => log'[m] = log[m]
      /\ \A i \in 1..Len(log[n]) : log'[n][i] = log[n][i]
      /\ log'[n][Len(log[n]) + 1] = Finalized(s)
  BY WriteType
<1>2. Len(log[n]) \in Nat
  BY CurrentInLog
<1>3. Current(n)' = Finalized(s)
  BY <1>1, <1>2 DEF Current, StateAt
<1>4. \A m \in Names : m # n => Current(m)' = Current(m)
  BY <1>1 DEF Current, StateAt
<1>5. ASSUME NEW c \in Controllers, worker[c] # Idle, worker'[c] = worker[c]
      PROVE  InHand(c)' = InHand(c)
  <2>1. worker[c].name \in Names /\ worker[c].rv \in 1..Len(log[worker[c].name])
    BY <1>5, InHandType
  <2>2. log'[worker[c].name][worker[c].rv] = log[worker[c].name][worker[c].rv]
    BY <1>1, <2>1
  <2> QED
    BY <1>5, <2>2 DEF InHand, StateAt
<1> QED
  BY <1>1, <1>2, <1>3, <1>4, <1>5

\* Others create a policy with a UID that never was, or keep the UID and the
\* finalizer of the one there is.
LEMMA WrittenByOthers ==
  ASSUME TypeOK, NEW n \in Names, Create(n) \/ SetStatus(n) \/ ChangeOwner(n) \/ RequestDelete(n)
  PROVE  \E s \in States :
           /\ WriteByOthers(n, s) /\ Exists(s)
           /\ \/ ~Exists(Current(n)) /\ s.uid \notin Used /\ ~s.deleting
              \/ /\ Exists(Current(n))
                 /\ s.uid = Current(n).uid /\ s.finalizer = Current(n).finalizer
                 /\ Current(n).deleting => s.deleting
<1>1. Current(n) \in States
  BY CurrentType
<1>2. CASE Create(n)
  <2>1. PICK u \in Policies \ Used, o \in Controllers, s \in StatusValues :
           WriteByOthers(n, [Absent EXCEPT !.uid = u, !.owner = o, !.status = s])
    BY <1>2 DEF Create
  <2>2. /\ [Absent EXCEPT !.uid = u, !.owner = o, !.status = s] \in States
        /\ [Absent EXCEPT !.uid = u, !.owner = o, !.status = s].uid = u
        /\ [Absent EXCEPT !.uid = u, !.owner = o, !.status = s].deleting = FALSE
    BY LocalAssumption DEF Absent, States
  <2>3. Exists([Absent EXCEPT !.uid = u, !.owner = o, !.status = s])
    BY <2>2, LocalAssumption DEF Exists
  <2> QED
    BY <1>2, <2>1, <2>2, <2>3 DEF Create
<1>3. CASE SetStatus(n)
  <2>1. PICK s \in StatusValues : WriteByOthers(n, [Current(n) EXCEPT !.status = s])
    BY <1>3 DEF SetStatus
  <2>2. /\ [Current(n) EXCEPT !.status = s] \in States
        /\ [Current(n) EXCEPT !.status = s].uid = Current(n).uid
        /\ [Current(n) EXCEPT !.status = s].finalizer = Current(n).finalizer
        /\ [Current(n) EXCEPT !.status = s].deleting = Current(n).deleting
    BY <1>1, LocalAssumption DEF States
  <2> QED
    BY <1>3, <2>1, <2>2 DEF SetStatus, Exists
<1>4. CASE ChangeOwner(n)
  <2>1. PICK o \in Controllers : WriteByOthers(n, [Current(n) EXCEPT !.owner = o])
    BY <1>4 DEF ChangeOwner
  <2>2. /\ [Current(n) EXCEPT !.owner = o] \in States
        /\ [Current(n) EXCEPT !.owner = o].uid = Current(n).uid
        /\ [Current(n) EXCEPT !.owner = o].finalizer = Current(n).finalizer
        /\ [Current(n) EXCEPT !.owner = o].deleting = Current(n).deleting
    BY <1>1 DEF States
  <2> QED
    BY <1>4, <2>1, <2>2 DEF ChangeOwner, Exists
<1>5. CASE RequestDelete(n)
  <2>1. WriteByOthers(n, [Current(n) EXCEPT !.deleting = TRUE])
    BY <1>5 DEF RequestDelete
  <2>2. /\ [Current(n) EXCEPT !.deleting = TRUE] \in States
        /\ [Current(n) EXCEPT !.deleting = TRUE].uid = Current(n).uid
        /\ [Current(n) EXCEPT !.deleting = TRUE].finalizer = Current(n).finalizer
        /\ [Current(n) EXCEPT !.deleting = TRUE].deleting = TRUE
    BY <1>1 DEF States
  <2> QED
    BY <1>5, <2>1, <2>2 DEF RequestDelete, Live, Exists
<1> QED
  BY <1>2, <1>3, <1>4, <1>5

\* An API call of a reconciler writes the object it holds, which is the
\* current one, with another finalizer; or it conflicts and writes nothing.
LEMMA WrittenByReconcilers ==
  ASSUME TypeOK, NEW c \in Controllers, AddFinalizer(c) \/ RemoveFinalizer(c)
  PROVE  /\ worker[c].name \in Names /\ worker[c].rv \in 1..Len(log[worker[c].name])
         /\ Exists(InHand(c)) /\ InHand(c) \in States
         /\ UNCHANGED <<seen, mixed, bundles, reported, sync, config>>
         /\ \A d \in Controllers : d # c => worker'[d] = worker[d]
         /\ \/ /\ worker[c].rv = Len(log[worker[c].name]) /\ InHand(c) = Current(worker[c].name)
               /\ queue' = queue
               /\ \E s \in States :
                    /\ Write(worker[c].name, s) /\ Exists(s)
                    /\ s.uid = InHand(c).uid /\ s.owner = InHand(c).owner
                    /\ s.deleting = InHand(c).deleting
                    /\ \/ /\ AddFinalizer(c) /\ s.finalizer
                          /\ worker'[c] = [step |-> "update", name |-> worker[c].name,
                                           rv |-> worker[c].rv + 1]
                       \/ RemoveFinalizer(c) /\ worker'[c] = Idle
            \/ /\ log' = log /\ worker'[c] = Idle
               /\ queue' = [queue EXCEPT ![c] = @ \cup {worker[c].name}]
<1>1. worker[c] # Idle /\ worker[c].step \in {"finalize", "release"}
  BY DEF AddFinalizer, RemoveFinalizer, Idle
<1>2. /\ worker[c].name \in Names /\ worker[c].rv \in 1..Len(log[worker[c].name])
      /\ InHand(c) \in States /\ Exists(InHand(c))
  BY <1>1, InHandType DEF TypeOK, WorkerOK
<1> DEFINE with == [InHand(c) EXCEPT !.finalizer = TRUE]
           without == [InHand(c) EXCEPT !.finalizer = FALSE]
<1>3. /\ with \in States /\ with.finalizer
      /\ without \in States
      /\ \A s \in {with, without} : /\ s.uid = InHand(c).uid /\ s.owner = InHand(c).owner
                                    /\ s.deleting = InHand(c).deleting
  BY <1>2 DEF States
<1>4. \A s \in {with, without} : Exists(s)
  BY <1>2, <1>3 DEF Exists
<1> HIDE DEF with, without
<1>5. PICK s, next : /\ Update(c, s, next)
                     /\ \/ /\ AddFinalizer(c) /\ s = with
                           /\ next = [step |-> "update", name |-> worker[c].name, rv |-> worker[c].rv + 1]
                        \/ RemoveFinalizer(c) /\ s = without /\ next = Idle
  BY DEF AddFinalizer, RemoveFinalizer, with, without
<1>6. /\ UNCHANGED <<seen, mixed, bundles, reported, sync, config>>
      /\ \A d \in Controllers : d # c => worker'[d] = worker[d]
  BY <1>5 DEF Update, Goto, TypeOK
<1>7. CASE worker[c].rv = Len(log[worker[c].name])
  <2>1. Write(worker[c].name, s) /\ Goto(c, next) /\ queue' = queue
    BY <1>5, <1>7 DEF Update
  <2>2. worker'[c] = next
    BY <2>1 DEF Goto, TypeOK
  <2>3. InHand(c) = Current(worker[c].name)
    BY <1>7 DEF InHand, Current
  <2> QED
    BY <1>2, <1>3, <1>4, <1>5, <1>6, <1>7, <2>1, <2>2, <2>3
<1>8. CASE worker[c].rv # Len(log[worker[c].name])
  <2>1. /\ log' = log /\ Goto(c, Idle)
        /\ queue' = [queue EXCEPT ![c] = @ \cup {worker[c].name}]
    BY <1>5, <1>8 DEF Update
  <2>2. worker'[c] = Idle
    BY <2>1 DEF Goto, TypeOK
  <2> QED
    BY <1>2, <1>6, <2>1, <2>2
<1> QED
  BY <1>7, <1>8

---------------------------------------------------------------------------
(* Who a UID belongs to.                                                   *)

\* No two names have had policies of the same UID.
UidInv ==
    \A n, m \in Names : \A i \in 1..Len(log[n]), j \in 1..Len(log[m]) :
        Exists(log[n][i]) /\ log[n][i].uid = log[m][j].uid => n = m

\* A write keeps UIDs apart, if it writes no policy, one of a UID that the
\* name had, or one of a UID that never was.
LEMMA WriteUid ==
  ASSUME TypeOK, UidInv, NEW n \in Names, NEW s \in States, Write(n, s),
         \/ \E i \in 1..Len(log[n]) : Exists(log[n][i]) /\ log[n][i].uid = s.uid
         \/ \A m \in Names : \A j \in 1..Len(log[m]) : log[m][j].uid # s.uid
  PROVE  UidInv'
<1>1. /\ Len(log'[n]) = Len(log[n]) + 1 /\ Len(log[n]) \in Nat
      /\ log'[n][Len(log[n]) + 1] = Finalized(s)
      /\ \A i \in 1..Len(log[n]) : log'[n][i] = log[n][i]
      /\ \A m \in Names : m # n => log'[m] = log[m]
  BY AfterWrite
<1>2. Exists(Finalized(s)) => Finalized(s).uid = s.uid
  BY AbsentType DEF Finalized
<1>3. ~Exists(Finalized(s)) => Finalized(s).uid = NoPolicy
  BY DEF Exists
<1>4. ASSUME NEW m \in Names, m # n, NEW j \in 1..Len(log[m]),
             Exists(Finalized(s)) \/ Exists(log[m][j])
      PROVE  log[m][j].uid # Finalized(s).uid
  <2>1. CASE Exists(Finalized(s))
    BY <1>2, <1>4, <2>1 DEF UidInv
  <2>2. CASE ~Exists(Finalized(s))
    BY <1>3, <1>4, <2>2 DEF Exists
  <2> QED
    BY <2>1, <2>2
<1>5. ASSUME NEW a \in Names, NEW b \in Names, NEW i \in 1..Len(log'[a]), NEW j \in 1..Len(log'[b]),
             Exists(log'[a][i]), log'[a][i].uid = log'[b][j].uid, a # b
      PROVE  FALSE
  <2>1. CASE a = n
    <3>1. log'[b] = log[b] /\ j \in 1..Len(log[b])
      BY <1>1, <1>5, <2>1
    <3>2. CASE i = Len(log[n]) + 1
      BY <1>1, <1>4, <1>5, <2>1, <3>1, <3>2
    <3>3. CASE i # Len(log[n]) + 1
      <4>1. i \in 1..Len(log[n])
        BY <1>1, <2>1, <3>3
      <4> QED
        BY <1>1, <1>5, <2>1, <3>1, <4>1 DEF UidInv
    <3> QED
      BY <3>2, <3>3
  <2>2. CASE b = n
    <3>1. log'[a] = log[a] /\ i \in 1..Len(log[a])
      BY <1>1, <1>5, <2>2
    <3>2. CASE j = Len(log[n]) + 1
      BY <1>1, <1>4, <1>5, <2>2, <3>1, <3>2
    <3>3. CASE j # Len(log[n]) + 1
      <4>1. j \in 1..Len(log[n])
        BY <1>1, <2>2, <3>3
      <4> QED
        BY <1>1, <1>5, <2>2, <3>1, <4>1 DEF UidInv
    <3> QED
      BY <3>2, <3>3
  <2>3. CASE a # n /\ b # n
    BY <1>1, <1>5, <2>3 DEF UidInv
  <2> QED
    BY <2>1, <2>2, <2>3
<1> QED
  BY <1>5 DEF UidInv, Exists

\* Every step keeps UIDs apart.
LEMMA NextUid == ASSUME TypeOK, UidInv, [Next]_vars PROVE UidInv'
<1>1. ASSUME NEW n \in Names, Create(n) \/ SetStatus(n) \/ ChangeOwner(n) \/ RequestDelete(n)
      PROVE  UidInv'
  <2>1. PICK s \in States :
           /\ WriteByOthers(n, s)
           /\ \/ s.uid \notin Used
              \/ Exists(Current(n)) /\ s.uid = Current(n).uid
    BY <1>1, WrittenByOthers
  <2>2. Write(n, s)
    BY <2>1 DEF WriteByOthers
  <2>3. CASE s.uid \notin Used
    <3>1. ASSUME NEW m \in Names, NEW j \in 1..Len(log[m]) PROVE log[m][j].uid # s.uid
      <4>1. DOMAIN log[m] = 1..Len(log[m])
        BY LenProperties DEF TypeOK
      <4> QED
        BY <2>3, <3>1, <4>1 DEF Used, Range
    <3> QED
      BY <2>2, <3>1, WriteUid
  <2>4. CASE Exists(Current(n)) /\ s.uid = Current(n).uid
    BY <2>2, <2>4, WriteUid, CurrentInLog
  <2> QED
    BY <2>1, <2>3, <2>4
<1>2. ASSUME NEW c \in Controllers, AddFinalizer(c) \/ RemoveFinalizer(c) PROVE UidInv'
  <2>1. CASE log' = log
    BY <2>1 DEF UidInv, Exists
  <2>2. CASE log' # log
    <3> DEFINE n == worker[c].name
    <3>1. /\ n \in Names /\ worker[c].rv \in 1..Len(log[n]) /\ Exists(InHand(c))
          /\ \E s \in States : Write(n, s) /\ s.uid = InHand(c).uid
      BY <1>2, <2>2, WrittenByReconcilers
    <3>2. InHand(c) = log[n][worker[c].rv]
      BY <3>1, CurrentInLog DEF InHand, StateAt
    <3> QED
      BY <3>1, <3>2, WriteUid
  <2> QED
    BY <2>1, <2>2
<1>3. CASE log' = log
  BY <1>3 DEF UidInv, Exists
<1> QED
  BY <1>1, <1>2, <1>3
  DEF Next, Work, Watch, Reconcile, UpdateLocal, DeleteLocal, UpdateGlobal, DeleteGlobal,
      SyncEntry, SetConfig, vars, cluster

LEMMA UidsApart == Spec => []UidInv
<1>1. Init => UidInv
  <2>1. ASSUME Init, NEW n \in Names PROVE log[n] = <<>>
    BY <2>1 DEF Init
  <2> QED
    BY <2>1, EmptySeq DEF UidInv
<1> QED
  BY <1>1, NextUid, TypeCorrect, PTL DEF Spec

---------------------------------------------------------------------------
(* The controller a policy belongs to reports it.                          *)

\* The policies are reported with their status, by whom they belong to.
Reports(n) ==
    LET s == Current(n)
    IN  IF s.owner = "local"
        THEN /\ s.uid \in DOMAIN cpp.objs /\ cpp.objs[s.uid] = s.status
             /\ Clean(n, Len(log[n])) \in spec.objs
        ELSE n \in DOMAIN reported /\ reported[n] = s.status

\* The owner has a request for the policy, or its current state in hand, or
\* it has reported that and holds no older one.
Attended(n) ==
    LET c == Current(n).owner
    IN  \/ n \in queue[c]
        \/ /\ worker[c].step \in {"finalize", "update"}
           /\ worker[c].name = n /\ worker[c].rv = Len(log[n])
        \/ Reports(n) /\ (worker[c] = Idle \/ worker[c].name # n)

\* Whatever the cache shows as it is, its owner sees to.
OwnerInv == \A n \in Names : (seen[n] = Len(log[n]) /\ Live(n)) => Attended(n)

\* With logs and cache as they are, attention is all that counts.
LEMMA AttendedKept ==
  ASSUME OwnerInv, log' = log, seen' = seen,
         \A n \in Names : (seen[n] = Len(log[n]) /\ Live(n)) => Attended(n)'
  PROVE  OwnerInv'
BY DEF OwnerInv, Live, Current, StateAt, Exists

\* After a write, the cache is behind on the object.
LEMMA WriteOwner ==
  ASSUME TypeOK, OwnerInv, NEW n \in Names, NEW s \in States, Write(n, s), seen' = seen,
         UNCHANGED <<bundles, reported>>,
         \A c \in Controllers : queue'[c] = queue[c],
         \A c \in Controllers : worker'[c] = worker[c] \/
            (worker[c].name = n /\ (worker'[c] = Idle \/ worker'[c].name = n))
  PROVE  OwnerInv'
<1>1. ASSUME NEW m \in Names, seen'[m] = Len(log'[m]), Live(m)'
      PROVE  Attended(m)'
  <2>1. m # n
    BY <1>1, AfterWrite, CurrentInLog
  <2>2. log'[m] = log[m] /\ Current(m)' = Current(m)
    BY <2>1, AfterWrite
  <2>3. seen[m] = Len(log[m]) /\ Live(m) /\ Current(m).owner \in Controllers
    BY <1>1, <2>2, CurrentType DEF Live, Exists, States
  <2>4. Attended(m)
    BY <2>3 DEF OwnerInv
  <2>5. Clean(m, Len(log[m]))' = Clean(m, Len(log[m]))
    BY <2>2 DEF Clean, StateAt
  <2>6. Reports(m) => Reports(m)'
    BY <2>2, <2>5 DEF Reports, bundles
  <2> QED
    BY <2>1, <2>2, <2>3, <2>4, <2>6 DEF Attended
<1> QED
  BY <1>1 DEF OwnerInv

\* The informer queues what it shows as it is with its owner.
LEMMA WatchOwner ==
  ASSUME TypeOK, OwnerInv, NEW n \in Names, Watch(n)
  PROVE  OwnerInv'
<1>1. /\ log' = log /\ worker' = worker /\ seen' = [seen EXCEPT ![n] = @ + 1]
      /\ UNCHANGED <<bundles, reported>>
  BY DEF Watch
<1>2. \A c \in Controllers : queue[c] \subseteq queue'[c]
  BY DEF Watch
<1>3. ASSUME NEW m \in Names, seen'[m] = Len(log'[m]), Live(m)'
      PROVE  Attended(m)'
  <2>1. Current(m)' = Current(m) /\ Live(m) /\ Current(m).owner \in Controllers
    BY <1>1, <1>3, CurrentType DEF Live, Current, StateAt, Exists, States
  <2>2. CASE m # n
    <3>1. Attended(m)
      BY <1>1, <1>3, <2>1, <2>2 DEF OwnerInv, TypeOK
    <3>2. Reports(m) => Reports(m)'
      BY <1>1, <2>1 DEF Reports, bundles, Clean, StateAt
    <3> QED
      BY <1>1, <1>2, <2>1, <3>1, <3>2 DEF Attended
  <2>3. CASE m = n
    <3>1. StateAt(n, seen[n] + 1) = Current(n)
      BY <1>1, <1>3, <2>3 DEF Current, TypeOK
    <3>2. n \in queue'[Current(n).owner]
      BY <2>1, <2>3, <3>1 DEF Watch, Passes, Live
    <3> QED
      BY <2>1, <2>3, <3>2 DEF Attended
  <2> QED
    BY <2>2, <2>3
<1> QED
  BY <1>3 DEF OwnerInv

\* A request that is taken is taken for the current state.
LEMMA ReconcileOwner ==
  ASSUME TypeOK, OwnerInv, NEW c \in Controllers, NEW n \in Names, Reconcile(c, n)
  PROVE  OwnerInv'
<1>1. /\ log' = log /\ seen' = seen /\ worker[c] = Idle
      /\ queue' = [queue EXCEPT ![c] = @ \ {n}]
      /\ UNCHANGED <<bundles, reported>>
  BY DEF Reconcile, cluster
<1>2. PICK w : /\ worker' = [worker EXCEPT ![c] = w]
               /\ w = Idle \/ w = [step |-> FirstStep(StateAt(n, seen[n])), name |-> n, rv |-> seen[n]]
               /\ Exists(StateAt(n, seen[n])) =>
                    w = [step |-> FirstStep(StateAt(n, seen[n])), name |-> n, rv |-> seen[n]]
  BY DEF Reconcile, Goto
<1>3. worker'[c] = w /\ \A d \in Controllers : d # c => worker'[d] = worker[d] /\ queue'[d] = queue[d]
  BY <1>1, <1>2 DEF TypeOK
<1>4. ASSUME NEW m \in Names, seen[m] = Len(log[m]), Live(m)
      PROVE  Attended(m)'
  <2>1. Current(m)' = Current(m) /\ Current(m).owner \in Controllers /\ Attended(m)
    BY <1>1, <1>4, CurrentType DEF Current, StateAt, States, OwnerInv
  <2>2. Reports(m) => Reports(m)'
    BY <1>1, <2>1 DEF Reports, bundles, Clean, StateAt
  <2>3. CASE Current(m).owner # c
    BY <1>1, <1>3, <2>1, <2>2, <2>3 DEF Attended
  <2>4. CASE Current(m).owner = c /\ m # n
    <3>1. m \in queue'[c] \/ Reports(m)
      BY <1>1, <2>1, <2>4 DEF Attended, Idle, TypeOK
    <3>2. w = Idle \/ w.name # m
      BY <1>2, <2>4
    <3> QED
      BY <1>3, <2>1, <2>2, <2>4, <3>1, <3>2 DEF Attended
  <2>5. CASE Current(m).owner = c /\ m = n
    <3>1. StateAt(n, seen[n]) = Current(n) /\ Exists(Current(n)) /\ ~Current(n).deleting
      BY <1>4, <2>5 DEF Current, Live
    <3>2. w = [step |-> FirstStep(Current(n)), name |-> n, rv |-> seen[n]]
      BY <1>2, <3>1
    <3>3. FirstStep(Current(n)) \in {"finalize", "update"}
      BY <3>1 DEF FirstStep
    <3> QED
      BY <1>1, <1>3, <1>4, <2>1, <2>5, <3>2, <3>3 DEF Attended
  <2> QED
    BY <2>3, <2>4, <2>5
<1> QED
  BY <1>1, <1>4, AttendedKept

\* An API call leaves the cache behind, or its request is queued again.
LEMMA UpdateOwner ==
  ASSUME TypeOK, OwnerInv, NEW c \in Controllers, AddFinalizer(c) \/ RemoveFinalizer(c)
  PROVE  OwnerInv'
<1>1. CASE log' # log
  <2>1. PICK n \in Names : /\ n = worker[c].name /\ \E s \in States : Write(n, s)
                           /\ worker'[c] = Idle \/ worker'[c].name = n
    <3>1. /\ worker[c].name \in Names /\ \E s \in States : Write(worker[c].name, s)
          /\ \/ worker'[c] = [step |-> "update", name |-> worker[c].name, rv |-> worker[c].rv + 1]
             \/ worker'[c] = Idle
      BY <1>1, WrittenByReconcilers
    <3> QED
      BY <3>1
  <2>2. /\ queue' = queue /\ seen' = seen /\ UNCHANGED <<bundles, reported>>
        /\ \A d \in Controllers : d # c => worker'[d] = worker[d]
    BY <1>1, WrittenByReconcilers
  <2> QED
    BY <2>1, <2>2, WriteOwner
<1>2. CASE log' = log
  <2>1. /\ worker[c].name \in Names /\ worker'[c] = Idle /\ seen' = seen
        /\ queue' = [queue EXCEPT ![c] = @ \cup {worker[c].name}]
        /\ UNCHANGED <<bundles, reported>>
        /\ \A d \in Controllers : d # c => worker'[d] = worker[d]
    <3>1. worker[c].name \in Names
      BY WrittenByReconcilers
    <3>2. ASSUME NEW s \in States PROVE ~Write(worker[c].name, s)
      <4>1. PICK n \in Names : n = worker[c].name
        BY <3>1
      <4>2. CASE Write(n, s)
        <5>1. Len(log'[n]) = Len(log[n]) + 1 /\ Len(log[n]) \in Nat
          BY <4>2, AfterWrite
        <5> QED
          BY <1>2, <5>1
      <4> QED
        BY <4>1, <4>2
    <3> QED
      BY <3>1, <3>2, WrittenByReconcilers
  <2>2. ASSUME NEW m \in Names, seen[m] = Len(log[m]), Live(m)
        PROVE  Attended(m)'
    <3>1. Current(m)' = Current(m) /\ Current(m).owner \in Controllers /\ Attended(m)
      BY <1>2, <2>2, CurrentType DEF Current, StateAt, States, OwnerInv
    <3>2. Reports(m) => Reports(m)'
      BY <1>2, <2>1, <3>1 DEF Reports, bundles, Clean, StateAt
    <3>3. CASE Current(m).owner # c
      BY <1>2, <2>1, <3>1, <3>2, <3>3 DEF Attended, TypeOK
    <3>4. CASE Current(m).owner = c /\ m = worker[c].name
      BY <2>1, <3>1, <3>4 DEF Attended, TypeOK
    <3>5. CASE Current(m).owner = c /\ m # worker[c].name
      BY <1>2, <2>1, <3>1, <3>2, <3>5 DEF Attended, TypeOK
    <3> QED
      BY <3>3, <3>4, <3>5
  <2> QED
    BY <1>2, <2>1, <2>2, AttendedKept
<1> QED
  BY <1>1, <1>2

\* The policy in the local policies controller's hand is told apart from
\* those of other names.
LEMMA OtherUid ==
  ASSUME TypeOK, UidInv, NEW c \in Controllers, worker[c] # Idle,
         NEW m \in Names, worker[c].name # m, Exists(Current(m))
  PROVE  InHand(c).uid # Current(m).uid
<1>1. worker[c].name \in Names /\ worker[c].rv \in 1..Len(log[worker[c].name])
  BY InHandType
<1>2. InHand(c) = log[worker[c].name][worker[c].rv]
  BY <1>1, CurrentInLog DEF InHand, StateAt
<1>3. Len(log[m]) \in 1..Len(log[m]) /\ Current(m) = log[m][Len(log[m])]
  BY CurrentInLog
<1> QED
  BY <1>1, <1>2, <1>3 DEF UidInv

\* A local policy's report stands while another policy is written or deleted.
LEMMA ReportsStand ==
  ASSUME TypeOK, UidInv, UpdateLocal \/ DeleteLocal, NEW m \in Names, Live(m),
         Reports(m), Current(m).owner = "local", worker["local"].name # m
  PROVE  Reports(m)'
<1> DEFINE u == InHand("local").uid
           p == Current(m).uid
           o == Clean(worker["local"].name, worker["local"].rv)
<1>1. worker["local"] # Idle /\ "local" \in Controllers
  BY DEF UpdateLocal, DeleteLocal, Idle, Controllers
<1>2. u # p
  BY <1>1, OtherUid DEF Live
<1>3. /\ p \in DOMAIN cpp.objs /\ cpp.objs[p] = Current(m).status
      /\ Clean(m, Len(log[m])) \in spec.objs
  BY DEF Reports
<1>4. o.uid = u /\ Clean(m, Len(log[m])).uid = p
  BY DEF Clean, InHand, Current
<1>5. log' = log
  BY DEF UpdateLocal, DeleteLocal, cluster
<1>6. Current(m)' = Current(m) /\ Clean(m, Len(log[m]))' = Clean(m, Len(log[m]))
  BY <1>5 DEF Current, Clean, StateAt
<1>7. CASE UpdateLocal
  <2>1. PICK s : cpp' = CppUpdate(cpp, u, s) /\ spec' = SpecUpdate(spec, o)
    BY <1>7 DEF UpdateLocal
  <2> HIDE DEF u, p, o
  <2>2. p \in DOMAIN cpp'.objs /\ cpp'.objs[p] = cpp.objs[p]
    BY <1>2, <1>3, <2>1, CppUpdateHas
  <2>3. Clean(m, Len(log[m])) \in spec'.objs
    BY <1>2, <1>3, <1>4, <2>1 DEF SpecUpdate
  <2> QED
    BY <1>3, <1>6, <2>2, <2>3 DEF Reports, p
<1>8. CASE DeleteLocal
  <2>1. cpp' = CppDelete(cpp, u) /\ spec' = SpecDelete(spec, u)
    BY <1>8 DEF DeleteLocal
  <2> HIDE DEF u, p, o
  <2>2. p \in DOMAIN cpp'.objs /\ cpp'.objs[p] = cpp.objs[p]
    BY <1>2, <1>3, <2>1, CppDeleteHas
  <2>3. Clean(m, Len(log[m])) \in spec'.objs
    BY <1>2, <1>3, <1>4, <2>1 DEF SpecDelete
  <2> QED
    BY <1>3, <1>6, <2>2, <2>3 DEF Reports, p
<1> QED
  BY <1>7, <1>8

\* An update with the current state in hand reports it.
LEMMA UpdateReports ==
  ASSUME TypeOK, NEW m \in Names, Live(m), NEW c \in Controllers, c = Current(m).owner,
         worker[c].name = m, worker[c].rv = Len(log[m]),
         (c = "local" /\ UpdateLocal) \/ (c = "global" /\ UpdateGlobal)
  PROVE  Reports(m)'
<1>1. InHand(c) = Current(m)
  BY DEF InHand, Current
<1>2. log' = log
  BY DEF UpdateLocal, UpdateGlobal, cluster
<1>3. Current(m)' = Current(m) /\ Clean(m, Len(log[m]))' = Clean(m, Len(log[m]))
  BY <1>2 DEF Current, Clean, StateAt
<1>4. CASE c = "local" /\ UpdateLocal
  <2>1. /\ cpp' = CppUpdate(cpp, Current(m).uid, Current(m).status)
        /\ spec' = SpecUpdate(spec, Clean(m, Len(log[m])))
    BY <1>1, <1>4, SharedStatus DEF UpdateLocal
  <2>2. Current(m).uid \in DOMAIN cpp'.objs /\ cpp'.objs[Current(m).uid] = Current(m).status
    BY <2>1, CppUpdateHas
  <2>3. Clean(m, Len(log[m])) \in spec'.objs
    BY <2>1 DEF SpecUpdate
  <2> QED
    BY <1>3, <1>4, <2>2, <2>3 DEF Reports
<1>5. CASE c = "global" /\ UpdateGlobal
  <2>1. reported' = Put(reported, m, Current(m).status)
    BY <1>1, <1>5 DEF UpdateGlobal
  <2> QED
    BY <1>3, <1>5, <2>1 DEF Reports, Put
<1> QED
  BY <1>4, <1>5

\* The controllers' steps on their bundles keep what they owe.
LEMMA BundlesOwner ==
  ASSUME TypeOK, UidInv, OwnerInv, UpdateLocal \/ DeleteLocal \/ UpdateGlobal \/ DeleteGlobal
  PROVE  OwnerInv'
<1>1. PICK c \in Controllers :
         /\ \/ c = "local" /\ (UpdateLocal \/ DeleteLocal) /\ UNCHANGED reported
            \/ c = "global" /\ (UpdateGlobal \/ DeleteGlobal) /\ UNCHANGED bundles
         /\ \/ /\ (c = "local" /\ UpdateLocal) \/ (c = "global" /\ UpdateGlobal)
               /\ worker[c].step = "update" /\ Goto(c, Idle)
            \/ worker[c].step = "delete" /\ Goto(c, AfterDelete(c))
         /\ log' = log /\ seen' = seen /\ queue' = queue
  <2>1. CASE UpdateLocal \/ DeleteLocal
    BY <2>1 DEF UpdateLocal, DeleteLocal, cluster, Controllers
  <2>2. CASE UpdateGlobal \/ DeleteGlobal
    BY <2>2 DEF UpdateGlobal, DeleteGlobal, cluster, Controllers
  <2> QED
    BY <2>1, <2>2
<1>2. /\ \A d \in Controllers : d # c => worker'[d] = worker[d]
      /\ worker'[c] = Idle \/ worker'[c].name = worker[c].name
      /\ worker[c].step = "update" => worker'[c] = Idle
  <2>1. worker[c] # Idle
    BY <1>1 DEF Idle
  <2>2. worker[c] \in [step : {"finalize", "update", "delete", "release"}, name : Names, rv : Nat]
    BY <2>1 DEF TypeOK, WorkerOK
  <2>3. AfterDelete(c) = Idle \/ AfterDelete(c).name = worker[c].name
    BY <2>2 DEF AfterDelete
  <2>4. /\ \A d \in Controllers : d # c => worker'[d] = worker[d]
        /\ worker'[c] = Idle \/ (worker[c].step = "delete" /\ worker'[c] = AfterDelete(c))
    BY <1>1 DEF Goto, TypeOK
  <2> QED
    BY <2>3, <2>4
<1>3. ASSUME NEW m \in Names, seen[m] = Len(log[m]), Live(m)
      PROVE  Attended(m)'
  <2> DEFINE d == Current(m).owner
  <2>1. Current(m)' = Current(m) /\ d \in Controllers /\ Attended(m)
    BY <1>1, <1>3, CurrentType DEF Current, StateAt, States, OwnerInv
  <2>2. CASE m \in queue[d]
    BY <1>1, <2>1, <2>2 DEF Attended
  <2>3. CASE d # c
    <3>1. Reports(m) => Reports(m)'
      BY <1>1, <2>1, <2>3 DEF Reports, bundles, Clean, StateAt, Controllers
    <3> QED
      BY <1>1, <1>2, <2>1, <2>3, <3>1 DEF Attended
  <2>4. CASE m \notin queue[d] /\ d = c /\ worker[c].name = m
    <3>1. worker[c].step = "update" /\ worker[c].rv = Len(log[m])
      BY <1>1, <2>1, <2>4 DEF Attended, Idle
    <3>2. (c = "local" /\ UpdateLocal) \/ (c = "global" /\ UpdateGlobal)
      BY <1>1, <3>1
    <3>3. Reports(m)'
      BY <1>3, <2>4, <3>1, <3>2, UpdateReports
    <3> QED
      BY <1>2, <2>1, <2>4, <3>1, <3>3 DEF Attended
  <2>5. CASE m \notin queue[d] /\ d = c /\ worker[c].name # m
    <3>1. Reports(m)
      BY <2>1, <2>5 DEF Attended
    <3>2. Reports(m)'
      <4>1. CASE c = "local"
        BY <1>1, <1>3, <2>5, <3>1, <4>1, ReportsStand
      <4>2. CASE c = "global"
        <5>1. m \in DOMAIN reported /\ reported[m] = Current(m).status
          BY <2>5, <3>1, <4>2 DEF Reports
        <5>2. m \in DOMAIN reported' /\ reported'[m] = reported[m]
          BY <1>1, <2>5, <4>2, <5>1 DEF UpdateGlobal, DeleteGlobal, Put, Drop
        <5> QED
          BY <2>1, <2>5, <4>2, <5>1, <5>2 DEF Reports
      <4> QED
        BY <4>1, <4>2 DEF Controllers
    <3> QED
      BY <1>2, <2>1, <2>5, <3>2 DEF Attended
  <2> QED
    BY <2>2, <2>3, <2>4, <2>5
<1> QED
  BY <1>1, <1>3, AttendedKept

\* Every step keeps the owners attentive.
LEMMA NextOwner == ASSUME TypeOK, UidInv, OwnerInv, [Next]_vars PROVE OwnerInv'
<1>1. ASSUME NEW n \in Names, Create(n) \/ SetStatus(n) \/ ChangeOwner(n) \/ RequestDelete(n)
      PROVE  OwnerInv'
  <2>1. PICK s \in States : WriteByOthers(n, s)
    BY <1>1, OthersWrite
  <2>2. Write(n, s) /\ UNCHANGED <<seen, worker, queue, bundles, reported>>
    BY <2>1 DEF WriteByOthers
  <2> QED
    BY <2>2, WriteOwner
<1>2. ASSUME NEW n \in Names, Watch(n) PROVE OwnerInv'
  BY <1>2, WatchOwner
<1>3. ASSUME NEW n \in Names, NEW c \in Controllers, Reconcile(c, n) PROVE OwnerInv'
  BY <1>3, ReconcileOwner
<1>4. ASSUME NEW c \in Controllers, Work(c) PROVE OwnerInv'
  BY <1>4, UpdateOwner, BundlesOwner DEF Work
<1>5. CASE SyncEntry \/ SetConfig \/ UNCHANGED vars
  <2>1. UNCHANGED <<log, seen, queue, worker, bundles, reported>>
    BY <1>5 DEF SyncEntry, SetConfig, vars, cluster
  <2>2. ASSUME NEW n \in Names, Attended(n) PROVE Attended(n)'
    BY <2>1, <2>2 DEF Attended, Reports, Current, StateAt, Clean, bundles
  <2> QED
    BY <2>1, <2>2, AttendedKept DEF OwnerInv
<1> QED
  BY <1>1, <1>2, <1>3, <1>4, <1>5 DEF Next

\* When nothing is left to reconcile, the controller that a policy belongs to
\* reports it with its latest status, and the local policies controller its
\* spec: whatever hands the policy went through, and however often its name
\* was used before.
THEOREM OwnersReport == Spec => []OwnerReports
<1>1. Init => OwnerInv
  <2>1. ASSUME Init, NEW n \in Names PROVE ~Live(n)
    <3>1. log[n] = <<>>
      BY <2>1 DEF Init
    <3> QED
      BY <3>1, EmptySeq, AbsentType DEF Live, Current, StateAt
  <2> QED
    BY <2>1 DEF OwnerInv
<1>2. ASSUME TypeOK, OwnerInv PROVE OwnerReports
  <2> SUFFICES ASSUME Reconciled, NEW n \in Names, Live(n) PROVE Reports(n)
    BY DEF OwnerReports, Reports
  <2>1. seen[n] = Len(log[n]) /\ Current(n).owner \in Controllers
    BY <1>2, CurrentType DEF Reconciled, States
  <2>2. Attended(n)
    BY <1>2, <2>1 DEF OwnerInv
  <2> QED
    BY <2>1, <2>2 DEF Attended, Reconciled, Idle
<1> QED
  BY <1>1, <1>2, NextOwner, UidsApart, TypeCorrect, PTL DEF Spec

---------------------------------------------------------------------------
(* Whose a policy's name is.                                               *)

\* All policies that the name ever had were the controller's; or the name is
\* one of those whose policies were of both kinds.
Belongs(n, c) ==
    \/ n \in mixed
    \/ /\ Len(log[n]) # 0
       /\ \A i \in 1..Len(log[n]) : Exists(log[n][i]) => log[n][i].owner = c

\* No log begins with an absence, nor reports one twice.
HistoryInv ==
    \A n \in Names : \A i \in 1..Len(log[n]) :
        ~Exists(log[n][i]) => i > 1 /\ Exists(log[n][i - 1])

\* A controller handles what belongs to it, and reports nothing else.
KindInv ==
    /\ \A n \in Names : Len(log[n]) # 0 => \E c \in Controllers : Belongs(n, c)
    /\ \A c \in Controllers : \A n \in queue[c] : Belongs(n, c)
    /\ \A c \in Controllers : worker[c] # Idle => Belongs(worker[c].name, c)
    /\ \A o \in spec.objs : Belongs(o.name, "local")
    /\ \A n \in DOMAIN reported : Belongs(n, "global")

\* Whoever writes, writes an object that exists or makes one; an owner that
\* no policy of the name had before makes the name mixed.
LEMMA Writes ==
  ASSUME TypeOK, [Next]_vars
  PROVE  /\ mixed \subseteq mixed'
         /\ \/ log' = log
            \/ \E n \in Names, s \in States :
                 /\ Write(n, s) /\ Exists(s) /\ (Exists(Current(n)) \/ ~s.deleting)
                 /\ \/ n \in mixed'
                    \/ \A i \in 1..Len(log[n]) : Exists(log[n][i]) => log[n][i].owner = s.owner
                    \/ \E i \in 1..Len(log[n]) : Exists(log[n][i]) /\ log[n][i].owner = s.owner
<1>1. ASSUME NEW n \in Names, Create(n) \/ SetStatus(n) \/ ChangeOwner(n) \/ RequestDelete(n)
      PROVE  /\ mixed \subseteq mixed'
             /\ \E s \in States :
                  /\ Write(n, s) /\ Exists(s) /\ (Exists(Current(n)) \/ ~s.deleting)
                  /\ \/ n \in mixed'
                     \/ \A i \in 1..Len(log[n]) : Exists(log[n][i]) => log[n][i].owner = s.owner
  <2>1. PICK s \in States : /\ WriteByOthers(n, s) /\ Exists(s)
                            /\ Exists(Current(n)) \/ ~s.deleting
    BY <1>1, WrittenByOthers
  <2>2. DOMAIN log[n] = 1..Len(log[n])
    BY LenProperties DEF TypeOK
  <2>3. /\ Write(n, s)
        /\ mixed' = IF \E i \in DOMAIN log[n] : Exists(log[n][i]) /\ log[n][i].owner # s.owner
                    THEN mixed \cup {n} ELSE mixed
    BY <2>1 DEF WriteByOthers
  <2> QED
    BY <2>1, <2>2, <2>3
<1>2. ASSUME NEW c \in Controllers, AddFinalizer(c) \/ RemoveFinalizer(c), log' # log
      PROVE  /\ mixed \subseteq mixed'
             /\ \E n \in Names, s \in States :
                  /\ Write(n, s) /\ Exists(s) /\ (Exists(Current(n)) \/ ~s.deleting)
                  /\ \E i \in 1..Len(log[n]) : Exists(log[n][i]) /\ log[n][i].owner = s.owner
  <2>1. PICK n \in Names : n = worker[c].name
    BY <1>2, WrittenByReconcilers
  <2>2. /\ worker[c].rv \in 1..Len(log[n]) /\ InHand(c) = Current(n) /\ Exists(InHand(c))
        /\ \E s \in States : Write(n, s) /\ Exists(s) /\ s.owner = InHand(c).owner
        /\ mixed' = mixed
    BY <1>2, <2>1, WrittenByReconcilers
  <2>3. InHand(c) = log[n][worker[c].rv]
    BY <2>1, <2>2, CurrentInLog DEF InHand, StateAt
  <2> QED
    BY <2>2, <2>3
<1>3. CASE log' = log /\ mixed' = mixed
  BY <1>3
<1>4. ASSUME NEW c \in Controllers, AddFinalizer(c) \/ RemoveFinalizer(c) PROVE mixed' = mixed
  BY <1>4, WrittenByReconcilers
<1>5. CASE \E n \in Names : Watch(n) \/ \E c \in Controllers : Reconcile(c, n)
  BY <1>3, <1>5 DEF Watch, Reconcile, cluster
<1>6. CASE UpdateLocal \/ DeleteLocal \/ UpdateGlobal \/ DeleteGlobal
  BY <1>3, <1>6 DEF UpdateLocal, DeleteLocal, UpdateGlobal, DeleteGlobal, cluster
<1>7. CASE SyncEntry \/ SetConfig \/ UNCHANGED vars
  BY <1>3, <1>7 DEF SyncEntry, SetConfig, vars, cluster
<1> QED
  BY <1>1, <1>2, <1>4, <1>5, <1>6, <1>7 DEF Next, Work

\* Every step keeps logs free of such absences.
LEMMA NextHistory == ASSUME TypeOK, HistoryInv, [Next]_vars PROVE HistoryInv'
<1>1. CASE log' = log
  BY <1>1 DEF HistoryInv, Exists
<1>2. CASE log' # log
  <2>1. PICK n \in Names, s \in States :
           Write(n, s) /\ Exists(s) /\ (Exists(Current(n)) \/ ~s.deleting)
    BY <1>2, Writes
  <2>2. /\ Len(log'[n]) = Len(log[n]) + 1 /\ Len(log[n]) \in Nat
        /\ log'[n][Len(log[n]) + 1] = Finalized(s)
        /\ \A i \in 1..Len(log[n]) : log'[n][i] = log[n][i]
        /\ \A m \in Names : m # n => log'[m] = log[m]
    BY <2>1, AfterWrite
  <2>3. ASSUME NEW m \in Names, NEW i \in 1..Len(log'[m]), ~Exists(log'[m][i])
        PROVE  i > 1 /\ Exists(log'[m][i - 1])
    <3>1. CASE m # n
      <4>1. log'[m] = log[m]
        BY <2>2, <3>1
      <4>2. i \in 1..Len(log[m]) /\ ~Exists(log[m][i])
        BY <2>3, <4>1
      <4>3. i > 1 /\ Exists(log[m][i - 1])
        BY <4>2 DEF HistoryInv
      <4> QED
        BY <4>1, <4>3
    <3>2. CASE m = n /\ i \in 1..Len(log[n])
      <4>1. ~Exists(log[n][i]) /\ log'[n][i] = log[n][i]
        BY <2>2, <2>3, <3>2
      <4>2. i > 1 /\ Exists(log[n][i - 1])
        BY <3>2, <4>1 DEF HistoryInv
      <4>3. i - 1 \in 1..Len(log[n])
        BY <2>2, <3>2, <4>2
      <4> QED
        BY <2>2, <3>2, <4>2, <4>3
    <3>3. CASE m = n /\ i = Len(log[n]) + 1
      <4>1. ~Exists(Finalized(s))
        BY <2>2, <2>3, <3>3
      <4>2. Exists(Current(n))
        BY <2>1, <4>1 DEF Finalized
      <4>3. Len(log[n]) \in 1..Len(log[n]) /\ Current(n) = log[n][Len(log[n])]
        BY <4>2, CurrentInLog
      <4> QED
        BY <2>2, <3>3, <4>2, <4>3
    <3> QED
      BY <2>2, <2>3, <3>1, <3>2, <3>3
  <2> QED
    BY <2>3 DEF HistoryInv, Exists
<1> QED
  BY <1>1, <1>2

\* What belongs to a controller belongs to it for good, or becomes mixed; an
\* object's first state decides.
LEMMA BelongsKept ==
  ASSUME TypeOK, HistoryInv, [Next]_vars
  PROVE  /\ \A n \in Names, c \in Controllers : Belongs(n, c) => Belongs(n, c)'
         /\ (\A n \in Names : Len(log[n]) # 0 => \E c \in Controllers : Belongs(n, c))
              => \A n \in Names : Len(log'[n]) # 0 => \E c \in Controllers : Belongs(n, c)'
<1>1. mixed \subseteq mixed'
  BY Writes
<1>2. CASE log' = log
  BY <1>1, <1>2 DEF Belongs, Exists
<1>3. CASE log' # log
  <2>1. PICK n \in Names, s \in States :
           /\ Write(n, s) /\ Exists(s)
           /\ \/ n \in mixed'
              \/ \A i \in 1..Len(log[n]) : Exists(log[n][i]) => log[n][i].owner = s.owner
              \/ \E i \in 1..Len(log[n]) : Exists(log[n][i]) /\ log[n][i].owner = s.owner
    BY <1>3, Writes
  <2>2. /\ Len(log'[n]) = Len(log[n]) + 1 /\ Len(log[n]) \in Nat
        /\ log'[n][Len(log[n]) + 1] = Finalized(s)
        /\ \A i \in 1..Len(log[n]) : log'[n][i] = log[n][i]
        /\ \A m \in Names : m # n => log'[m] = log[m]
    BY <2>1, AfterWrite
  <2>3. Exists(Finalized(s)) => Finalized(s).owner = s.owner
    BY AbsentType DEF Finalized
  <2>4. ASSUME NEW c \in Controllers, n \notin mixed',
               \A i \in 1..Len(log[n]) : Exists(log[n][i]) => log[n][i].owner = c,
               s.owner = c
        PROVE  Belongs(n, c)'
    <3>1. ASSUME NEW i \in 1..Len(log'[n]), Exists(log'[n][i]) PROVE log'[n][i].owner = c
      <4>1. CASE i = Len(log[n]) + 1
        BY <2>2, <2>3, <2>4, <3>1, <4>1
      <4>2. CASE i \in 1..Len(log[n])
        BY <2>2, <2>4, <3>1, <4>2
      <4> QED
        BY <2>2, <4>1, <4>2
    <3> QED
      BY <2>2, <3>1 DEF Belongs, Exists
  <2>5. ASSUME NEW c \in Controllers, Belongs(n, c) PROVE Belongs(n, c)'
    <3>1. CASE n \in mixed'
      BY <3>1 DEF Belongs
    <3>2. CASE n \notin mixed'
      <4>1. Len(log[n]) # 0 /\ \A i \in 1..Len(log[n]) : Exists(log[n][i]) => log[n][i].owner = c
        BY <1>1, <2>5, <3>2 DEF Belongs
      <4>2. Exists(log[n][1]) /\ 1 \in 1..Len(log[n])
        BY <2>2, <4>1 DEF HistoryInv
      <4>3. s.owner = c
        BY <2>1, <3>2, <4>1, <4>2
      <4> QED
        BY <2>4, <3>2, <4>1, <4>3
    <3> QED
      BY <3>1, <3>2
  <2>6. ASSUME NEW m \in Names, m # n, NEW c \in Controllers, Belongs(m, c) PROVE Belongs(m, c)'
    BY <1>1, <2>2, <2>6 DEF Belongs, Exists
  <2>7. ASSUME \A m \in Names : Len(log[m]) # 0 => \E c \in Controllers : Belongs(m, c),
               NEW m \in Names, Len(log'[m]) # 0
        PROVE  \E c \in Controllers : Belongs(m, c)'
    <3>1. CASE Len(log[m]) # 0
      BY <2>5, <2>6, <2>7, <3>1
    <3>2. CASE Len(log[m]) = 0
      <4>1. m = n /\ s.owner \in Controllers
        BY <2>2, <2>7, <3>2 DEF States
      <4> QED
        BY <2>2, <2>4, <3>2, <4>1 DEF Belongs
    <3> QED
      BY <3>1, <3>2
  <2> QED
    BY <2>5, <2>6, <2>7
<1> QED
  BY <1>2, <1>3


\* Requests are for objects that the controller had a request for, or holds,
\* or saw a state of; so are the objects it takes up, and what it reports is
\* what it holds.
LEMMA Handled ==
  ASSUME TypeOK, HistoryInv, [Next]_vars
  PROVE  /\ \A c \in Controllers : \A n \in queue'[c] :
              \/ n \in queue[c]
              \/ worker[c] # Idle /\ worker[c].name = n
              \/ \E i \in 1..Len(log[n]) : Exists(log[n][i]) /\ log[n][i].owner = c
         /\ \A c \in Controllers : worker'[c] # Idle =>
              \/ worker'[c].name \in queue[c]
              \/ worker[c] # Idle /\ worker'[c].name = worker[c].name
         /\ \A o \in spec'.objs : o \in spec.objs \/
              (worker["local"].step = "update" /\ o = Clean(worker["local"].name, worker["local"].rv))
         /\ \A n \in DOMAIN reported' : n \in DOMAIN reported \/
              (worker["global"].step = "update" /\ n = worker["global"].name
               /\ InHand("global").owner = "global")
<1>1. ASSUME NEW n \in Names, Create(n) \/ SetStatus(n) \/ ChangeOwner(n) \/ RequestDelete(n)
      PROVE  UNCHANGED <<queue, worker, spec, reported>>
  <2>1. PICK s \in States : WriteByOthers(n, s)
    BY <1>1, OthersWrite
  <2> QED
    BY <2>1 DEF WriteByOthers, bundles
<1>2. CASE UNCHANGED <<queue, worker, spec, reported>>
  BY <1>2
<1>3. ASSUME NEW n \in Names, Watch(n)
      PROVE  /\ UNCHANGED <<worker, spec, reported>>
             /\ \A c \in Controllers : \A m \in queue'[c] :
                  \/ m \in queue[c]
                  \/ \E i \in 1..Len(log[m]) : Exists(log[m][i]) /\ log[m][i].owner = c
  <2>1. UNCHANGED <<worker, spec, reported>>
    BY <1>3 DEF Watch, bundles
  <2>2. seen[n] + 1 \in 1..Len(log[n]) /\ seen[n] \in Nat
    BY <1>3, CurrentInLog DEF Watch
  <2>3. PICK e : /\ e = IF Exists(StateAt(n, seen[n] + 1)) THEN StateAt(n, seen[n] + 1)
                        ELSE StateAt(n, seen[n])
                 /\ queue' = [c \in Controllers |-> IF e.owner = c THEN queue[c] \cup {n} ELSE queue[c]]
    BY <1>3 DEF Watch, Passes
  <2>4. StateAt(n, seen[n] + 1) = log[n][seen[n] + 1]
    BY <2>2 DEF StateAt
  <2>5. PICK i \in 1..Len(log[n]) : e = log[n][i] /\ Exists(log[n][i])
    <3>1. CASE Exists(log[n][seen[n] + 1])
      BY <2>2, <2>3, <2>4, <3>1
    <3>2. CASE ~Exists(log[n][seen[n] + 1])
      <4>1. seen[n] + 1 > 1 /\ Exists(log[n][seen[n] + 1 - 1])
        BY <2>2, <3>2 DEF HistoryInv
      <4>2. seen[n] \in 1..Len(log[n]) /\ Exists(log[n][seen[n]]) /\ seen[n] # 0
        BY <2>2, <4>1, CurrentInLog
      <4> QED
        BY <2>3, <2>4, <3>2, <4>2 DEF StateAt
    <3> QED
      BY <3>1, <3>2
  <2>6. ASSUME NEW c \in Controllers, NEW m \in queue'[c], m \notin queue[c]
        PROVE  m = n /\ e.owner = c
    BY <2>3, <2>6
  <2> QED
    BY <2>1, <2>5, <2>6
<1>4. ASSUME NEW c \in Controllers, NEW n \in Names, Reconcile(c, n)
      PROVE  /\ UNCHANGED <<spec, reported>>
             /\ \A d \in Controllers : queue'[d] \subseteq queue[d]
             /\ \A d \in Controllers : worker'[d] = worker[d] \/ worker'[d] = Idle
                                       \/ worker'[d].name \in queue[d]
  BY <1>4 DEF Reconcile, Goto, bundles, TypeOK
<1>5. ASSUME NEW c \in Controllers, AddFinalizer(c) \/ RemoveFinalizer(c)
      PROVE  /\ UNCHANGED <<spec, reported>>
             /\ \A d \in Controllers : \A m \in queue'[d] :
                  m \in queue[d] \/ (worker[d] # Idle /\ worker[d].name = m)
             /\ \A d \in Controllers : worker'[d] = worker[d] \/ worker'[d] = Idle
                  \/ (worker[d] # Idle /\ worker'[d].name = worker[d].name)
  <2>1. worker[c] # Idle
    BY <1>5 DEF AddFinalizer, RemoveFinalizer, Idle
  <2>2. UNCHANGED <<spec, reported>> /\ \A d \in Controllers : d # c => worker'[d] = worker[d]
    BY <1>5, WrittenByReconcilers DEF bundles
  <2>3. worker'[c] = Idle \/ worker'[c].name = worker[c].name
    <3>1. \/ worker'[c] = [step |-> "update", name |-> worker[c].name, rv |-> worker[c].rv + 1]
          \/ worker'[c] = Idle
      BY <1>5, WrittenByReconcilers
    <3> QED
      BY <3>1
  <2>4. queue' = queue \/ queue' = [queue EXCEPT ![c] = @ \cup {worker[c].name}]
    BY <1>5, WrittenByReconcilers
  <2> QED
    BY <2>1, <2>2, <2>3, <2>4 DEF TypeOK
<1>6. CASE UpdateLocal \/ DeleteLocal
  <2>1. queue' = queue /\ reported' = reported /\ worker["local"] # Idle
    BY <1>6 DEF UpdateLocal, DeleteLocal, Idle
  <2>2. \A o \in spec'.objs : o \in spec.objs \/
          (worker["local"].step = "update" /\ o = Clean(worker["local"].name, worker["local"].rv))
    BY <1>6 DEF UpdateLocal, DeleteLocal, SpecUpdate, SpecDelete
  <2>3. AfterDelete("local") = Idle \/ AfterDelete("local").name = worker["local"].name
    <3>1. worker["local"] \in [step : {"finalize", "update", "delete", "release"}, name : Names, rv : Nat]
      BY <2>1 DEF TypeOK, WorkerOK, Controllers
    <3> QED
      BY <3>1 DEF AfterDelete
  <2>4. \A d \in Controllers : worker'[d] = worker[d] \/ worker'[d] = Idle
          \/ (worker[d] # Idle /\ worker'[d].name = worker[d].name)
    BY <1>6, <2>1, <2>3 DEF UpdateLocal, DeleteLocal, Goto, TypeOK
  <2> QED
    BY <2>1, <2>2, <2>4
<1>7. CASE UpdateGlobal \/ DeleteGlobal
  <2>1. queue' = queue /\ spec' = spec /\ worker["global"] # Idle
    BY <1>7 DEF UpdateGlobal, DeleteGlobal, Idle, bundles
  <2>2. \A n \in DOMAIN reported' : n \in DOMAIN reported \/
          (worker["global"].step = "update" /\ n = worker["global"].name
           /\ InHand("global").owner = "global")
    BY <1>7 DEF UpdateGlobal, DeleteGlobal, Put, Drop
  <2>3. AfterDelete("global") = Idle \/ AfterDelete("global").name = worker["global"].name
    <3>1. worker["global"] \in [step : {"finalize", "update", "delete", "release"}, name : Names, rv : Nat]
      BY <2>1 DEF TypeOK, WorkerOK, Controllers
    <3> QED
      BY <3>1 DEF AfterDelete
  <2>4. \A d \in Controllers : worker'[d] = worker[d] \/ worker'[d] = Idle
          \/ (worker[d] # Idle /\ worker'[d].name = worker[d].name)
    BY <1>7, <2>1, <2>3 DEF UpdateGlobal, DeleteGlobal, Goto, TypeOK
  <2> QED
    BY <2>1, <2>2, <2>4
<1>8. CASE SyncEntry \/ SetConfig \/ UNCHANGED vars
  BY <1>2, <1>8 DEF SyncEntry, SetConfig, vars, bundles
<1> QED
  BY <1>1, <1>2, <1>3, <1>4, <1>5, <1>6, <1>7, <1>8 DEF Next, Work

\* Every step keeps to the kinds.
LEMMA NextKind == ASSUME TypeOK, HistoryInv, KindInv, [Next]_vars PROVE KindInv'
<1> USE DEF KindInv
<1>1. /\ \A n \in Names, c \in Controllers : Belongs(n, c) => Belongs(n, c)'
      /\ \A n \in Names : Len(log'[n]) # 0 => \E c \in Controllers : Belongs(n, c)'
  BY BelongsKept
<1>2. ASSUME NEW n \in Names, NEW c \in Controllers,
             \E i \in 1..Len(log[n]) : Exists(log[n][i]) /\ log[n][i].owner = c
      PROVE  Belongs(n, c)
  <2>1. PICK i \in 1..Len(log[n]) : Exists(log[n][i]) /\ log[n][i].owner = c
    BY <1>2
  <2>2. Len(log[n]) # 0
    BY CurrentInLog
  <2>3. PICK d \in Controllers : Belongs(n, d)
    BY <2>2
  <2> QED
    BY <2>1, <2>3 DEF Belongs
<1>3. /\ \A c \in Controllers : queue'[c] \subseteq Names
      /\ \A c \in Controllers : queue[c] \subseteq Names
      /\ \A c \in Controllers : worker[c] # Idle => worker[c].name \in Names
      /\ \A o \in spec.objs : o.name \in Names
      /\ DOMAIN reported \subseteq Names
      /\ "local" \in Controllers /\ "global" \in Controllers
  <2>1. TypeOK'
    BY NextType
  <2>2. \A c \in Controllers : queue'[c] \subseteq Names /\ queue[c] \subseteq Names
    BY <2>1 DEF TypeOK
  <2>3. \A o \in spec.objs : o.name \in Names
    BY DEF TypeOK, SpecObjects
  <2> QED
    BY <2>2, <2>3, InHandType DEF TypeOK, Controllers
<1>4. ASSUME NEW c \in Controllers, NEW n \in queue'[c] PROVE Belongs(n, c)'
  <2>1. \/ n \in queue[c]
        \/ worker[c] # Idle /\ worker[c].name = n
        \/ \E i \in 1..Len(log[n]) : Exists(log[n][i]) /\ log[n][i].owner = c
    BY <1>4, Handled
  <2>2. Belongs(n, c) /\ n \in Names
    BY <1>2, <1>3, <2>1
  <2> QED
    BY <1>1, <2>2
<1>5. ASSUME NEW c \in Controllers, worker'[c] # Idle PROVE Belongs(worker[c].name, c)'
  <2>1. \/ worker'[c].name \in queue[c]
        \/ worker[c] # Idle /\ worker'[c].name = worker[c].name
    BY <1>5, Handled
  <2>2. PICK n \in Names : n = worker'[c].name /\ Belongs(n, c)
    BY <1>3, <2>1
  <2>3. Belongs(n, c)'
    BY <1>1, <2>2
  <2> QED
    BY <2>2, <2>3 DEF Belongs
<1>6. ASSUME NEW o \in spec'.objs PROVE Belongs(o.name, "local")'
  <2>1. o \in spec.objs \/ (worker["local"] # Idle /\ o.name = worker["local"].name)
    BY <1>6, Handled DEF Clean, Idle
  <2>2. Belongs(o.name, "local") /\ o.name \in Names
    BY <1>3, <2>1
  <2> QED
    BY <1>1, <1>3, <2>2
<1>7. ASSUME NEW n \in DOMAIN reported' PROVE Belongs(n, "global")'
  <2>1. n \in DOMAIN reported \/ (worker["global"] # Idle /\ n = worker["global"].name)
    BY <1>7, Handled DEF Idle
  <2>2. Belongs(n, "global") /\ n \in Names
    BY <1>3, <2>1
  <2> QED
    BY <1>1, <1>3, <2>2
<1> QED
  BY <1>1, <1>4, <1>5, <1>6, <1>7


---------------------------------------------------------------------------
(* What the finalizer protects.                                            *)

\* A policy that only those can remove who saw it being deleted.
Alive(s) == Exists(s) /\ s.finalizer /\ ~s.deleting

\* No reconciler is past the cache in deleting; so a policy that the cache
\* has not yet shown being deleted is still there, with its finalizer.
CacheInv ==
    /\ \A n \in Names : \A i \in 1..Len(log[n]) :
         i >= seen[n] /\ Alive(log[n][i]) => Current(n).uid = log[n][i].uid /\ Current(n).finalizer
    /\ \A c \in Controllers : worker[c].step \in {"delete", "release"} =>
         InHand(c).deleting /\ worker[c].rv <= seen[worker[c].name]

\* Where logs and cache are as they are, the reconcilers' places count.
LEMMA CacheKept ==
  ASSUME TypeOK, CacheInv, log' = log, \A n \in Names : seen'[n] \in Nat /\ seen[n] <= seen'[n],
         \A c \in Controllers : worker'[c].step \in {"delete", "release"} =>
            \/ /\ worker[c].step \in {"delete", "release"}
               /\ worker'[c].name = worker[c].name /\ worker'[c].rv = worker[c].rv
            \/ /\ worker'[c].name \in Names /\ StateAt(worker'[c].name, worker'[c].rv).deleting
               /\ worker'[c].rv <= seen[worker'[c].name] /\ worker'[c].rv \in Nat
  PROVE  CacheInv'
<1>1. ASSUME NEW n \in Names, NEW i \in 1..Len(log[n]), i >= seen'[n], Alive(log[n][i])
      PROVE  Current(n)'.uid = log[n][i].uid /\ Current(n)'.finalizer
  <2>1. i >= seen[n] /\ Current(n)' = Current(n)
    BY <1>1, CurrentInLog DEF Current, StateAt
  <2> QED
    BY <1>1, <2>1 DEF CacheInv
<1>2. ASSUME NEW c \in Controllers, worker'[c].step \in {"delete", "release"}
      PROVE  InHand(c)'.deleting /\ worker'[c].rv <= seen'[worker'[c].name]
  <2>1. InHand(c)' = StateAt(worker'[c].name, worker'[c].rv)
    BY DEF InHand, StateAt
  <2>2. CASE worker[c].step \in {"delete", "release"} /\ worker'[c].name = worker[c].name
             /\ worker'[c].rv = worker[c].rv
    <3>1. worker[c].name \in Names /\ worker[c].rv \in 1..Len(log[worker[c].name])
      BY <2>2, InHandType DEF Idle
    <3>2. InHand(c).deleting /\ worker[c].rv <= seen[worker[c].name] /\ seen[worker[c].name] \in Nat
      BY <2>2, <3>1, CurrentInLog DEF CacheInv
    <3> QED
      BY <2>1, <2>2, <3>1, <3>2 DEF InHand
  <2>3. CASE /\ worker'[c].name \in Names /\ StateAt(worker'[c].name, worker'[c].rv).deleting
             /\ worker'[c].rv <= seen[worker'[c].name] /\ worker'[c].rv \in Nat
    BY <2>1, <2>3, CurrentInLog
  <2> QED
    BY <1>2, <2>2, <2>3
<1> QED
  BY <1>1, <1>2 DEF CacheInv, Alive, Exists

\* A write does no harm that keeps what the cache shows alive.
LEMMA WriteCache ==
  ASSUME TypeOK, CacheInv, NEW n \in Names, NEW s \in States, Write(n, s), seen' = seen,
         \A i \in 1..Len(log[n]) : i >= seen[n] /\ Alive(log[n][i])
            => Exists(s) /\ s.uid = Current(n).uid /\ s.finalizer,
         \A c \in Controllers :
            worker'[c] = worker[c] \/ worker'[c].step \notin {"delete", "release"}
  PROVE  CacheInv'
<1>1. /\ Len(log'[n]) = Len(log[n]) + 1 /\ Len(log[n]) \in Nat
      /\ Current(n)' = Finalized(s)
      /\ log'[n][Len(log[n]) + 1] = Finalized(s)
      /\ \A i \in 1..Len(log[n]) : log'[n][i] = log[n][i]
      /\ \A m \in Names : m # n => log'[m] = log[m] /\ Current(m)' = Current(m)
      /\ \A c \in Controllers : worker[c] # Idle /\ worker'[c] = worker[c] => InHand(c)' = InHand(c)
  BY AfterWrite
<1>2. ASSUME NEW m \in Names, NEW i \in 1..Len(log'[m]), i >= seen[m], Alive(log'[m][i])
      PROVE  Current(m)'.uid = log'[m][i].uid /\ Current(m)'.finalizer
  <2>1. CASE m # n
    BY <1>1, <1>2, <2>1 DEF CacheInv
  <2>2. CASE m = n /\ i = Len(log[n]) + 1
    BY <1>1, <1>2, <2>2 DEF Alive
  <2>3. CASE m = n /\ i \in 1..Len(log[n])
    <3>1. /\ Current(n).uid = log[n][i].uid
          /\ s.uid = Current(n).uid /\ s.finalizer
      BY <1>1, <1>2, <2>3 DEF CacheInv
    <3>2. Finalized(s) = s
      BY <3>1 DEF Finalized
    <3> QED
      BY <1>1, <2>3, <3>1, <3>2
  <2> QED
    BY <1>1, <1>2, <2>1, <2>2, <2>3
<1>3. ASSUME NEW c \in Controllers, worker'[c].step \in {"delete", "release"}
      PROVE  InHand(c)'.deleting /\ worker'[c].rv <= seen[worker'[c].name]
  <2>1. worker'[c] = worker[c] /\ worker[c] # Idle
    BY <1>3 DEF Idle
  <2> QED
    BY <1>1, <1>3, <2>1 DEF CacheInv
<1> QED
  BY <1>2, <1>3 DEF CacheInv, Alive, Exists

\* Every step keeps the cache in front.
LEMMA NextCache == ASSUME TypeOK, CacheInv, [Next]_vars PROVE CacheInv'
<1>1. ASSUME NEW n \in Names, Create(n) \/ SetStatus(n) \/ ChangeOwner(n) \/ RequestDelete(n)
      PROVE  CacheInv'
  <2>1. PICK s \in States :
           /\ WriteByOthers(n, s) /\ Exists(s)
           /\ ~Exists(Current(n))
              \/ (s.uid = Current(n).uid /\ s.finalizer = Current(n).finalizer)
    BY <1>1, WrittenByOthers
  <2>2. Write(n, s) /\ seen' = seen /\ worker' = worker
    BY <2>1 DEF WriteByOthers
  <2>3. ASSUME NEW i \in 1..Len(log[n]), i >= seen[n], Alive(log[n][i])
        PROVE  s.uid = Current(n).uid /\ s.finalizer
    BY <2>1, <2>3 DEF CacheInv, Alive, Exists
  <2> QED
    BY <2>1, <2>2, <2>3, WriteCache
<1>2. ASSUME NEW c \in Controllers, AddFinalizer(c) \/ RemoveFinalizer(c) PROVE CacheInv'
  <2>1. /\ seen' = seen /\ worker[c].name \in Names
        /\ worker[c].rv \in 1..Len(log[worker[c].name])
        /\ \A d \in Controllers : d # c => worker'[d] = worker[d]
    BY <1>2, WrittenByReconcilers
  <2>2. worker'[c].step \notin {"delete", "release"}
    <3>1. \/ worker'[c] = [step |-> "update", name |-> worker[c].name, rv |-> worker[c].rv + 1]
          \/ worker'[c] = Idle
      BY <1>2, WrittenByReconcilers
    <3> QED
      BY <3>1 DEF Idle
  <2>3. CASE log' = log
    <3>1. \A n \in Names : seen'[n] \in Nat /\ seen[n] <= seen'[n]
      BY <2>1, CurrentInLog
    <3> QED
      BY <2>1, <2>2, <2>3, <3>1, CacheKept
  <2>4. CASE log' # log
    <3>1. PICK n \in Names : n = worker[c].name
      BY <2>1
    <3>2. PICK s \in States :
            /\ Write(n, s) /\ Exists(s) /\ worker[c].rv = Len(log[n]) /\ InHand(c) = Current(n)
            /\ s.uid = InHand(c).uid
            /\ (AddFinalizer(c) /\ s.finalizer) \/ RemoveFinalizer(c)
      BY <1>2, <2>4, <3>1, WrittenByReconcilers
    <3>3. ASSUME NEW i \in 1..Len(log[n]), i >= seen[n], Alive(log[n][i])
          PROVE  s.finalizer
      <4>1. CASE RemoveFinalizer(c)
        <5>1. worker[c].step = "release"
          BY <4>1 DEF RemoveFinalizer
        <5>2. Current(n).deleting /\ Len(log[n]) <= seen[n]
          BY <3>1, <3>2, <5>1 DEF CacheInv
        <5>3. i = Len(log[n])
          BY <3>3, <5>2, CurrentInLog
        <5>4. Current(n) = log[n][i]
          BY <5>3, CurrentInLog
        <5> QED
          BY <3>3, <5>2, <5>4 DEF Alive
      <4> QED
        BY <3>2, <4>1
    <3> QED
      BY <2>1, <2>2, <3>2, <3>3, WriteCache
  <2> QED
    BY <2>3, <2>4
<1>3. ASSUME NEW n \in Names, Watch(n) PROVE CacheInv'
  <2>1. log' = log /\ worker' = worker /\ seen' = [seen EXCEPT ![n] = @ + 1]
    BY <1>3 DEF Watch
  <2>2. \A m \in Names : seen'[m] \in Nat /\ seen[m] <= seen'[m]
    BY <2>1 DEF TypeOK
  <2> QED
    BY <2>1, <2>2, CacheKept
<1>4. ASSUME log' = log, seen' = seen,
             \A c \in Controllers : worker'[c].step \in {"delete", "release"} =>
               \/ /\ worker[c].step \in {"delete", "release"}
                  /\ worker'[c].name = worker[c].name /\ worker'[c].rv = worker[c].rv
               \/ /\ worker'[c].name \in Names /\ StateAt(worker'[c].name, worker'[c].rv).deleting
                  /\ worker'[c].rv <= seen[worker'[c].name] /\ worker'[c].rv \in Nat
      PROVE  CacheInv'
  <2>1. \A m \in Names : seen'[m] \in Nat /\ seen[m] <= seen'[m]
    BY <1>4, CurrentInLog
  <2> QED
    BY <1>4, <2>1, CacheKept
<1>5. ASSUME NEW c \in Controllers, NEW n \in Names, Reconcile(c, n) PROVE CacheInv'
  <2>1. log' = log /\ seen' = seen /\ seen[n] \in Nat
    BY <1>5, CurrentInLog DEF Reconcile, cluster
  <2>2. PICK w : /\ worker' = [worker EXCEPT ![c] = w]
                 /\ w = Idle \/ w = [step |-> FirstStep(StateAt(n, seen[n])), name |-> n, rv |-> seen[n]]
    BY <1>5 DEF Reconcile, Goto
  <2>3. w.step \in {"delete", "release"} =>
          w.name = n /\ w.rv = seen[n] /\ StateAt(n, seen[n]).deleting
    BY <2>2 DEF Idle, FirstStep
  <2>4. worker'[c] = w /\ \A d \in Controllers : d # c => worker'[d] = worker[d]
    BY <2>2 DEF TypeOK
  <2> QED
    BY <1>4, <2>1, <2>3, <2>4
<1>6. ASSUME UpdateLocal \/ DeleteLocal \/ UpdateGlobal \/ DeleteGlobal PROVE CacheInv'
  <2>1. PICK c \in Controllers :
           /\ \/ Goto(c, Idle)
              \/ worker[c].step = "delete" /\ Goto(c, AfterDelete(c))
           /\ log' = log /\ seen' = seen
    BY <1>6 DEF UpdateLocal, DeleteLocal, UpdateGlobal, DeleteGlobal, cluster, Controllers
  <2>2. \A d \in Controllers : d # c => worker'[d] = worker[d]
    BY <2>1 DEF Goto, TypeOK
  <2>3. worker'[c] = Idle \/ (worker[c].step = "delete" /\ worker'[c] = AfterDelete(c))
    BY <2>1 DEF Goto, TypeOK
  <2>4. worker[c].step = "delete" =>
          worker[c] \in [step : {"finalize", "update", "delete", "release"}, name : Names, rv : Nat]
    BY DEF TypeOK, WorkerOK, Idle
  <2>5. worker'[c].step \in {"delete", "release"} =>
          /\ worker[c].step \in {"delete", "release"}
          /\ worker'[c].name = worker[c].name /\ worker'[c].rv = worker[c].rv
    BY <2>3, <2>4 DEF AfterDelete, Idle
  <2> QED
    BY <1>4, <2>1, <2>2, <2>5
<1>7. CASE SyncEntry \/ SetConfig \/ UNCHANGED vars
  <2>1. log' = log /\ seen' = seen /\ worker' = worker
    BY <1>7 DEF SyncEntry, SetConfig, vars, cluster
  <2> QED
    BY <1>4, <2>1
<1> QED
  BY <1>1, <1>2, <1>3, <1>5, <1>6, <1>7 DEF Next, Work


\* The name's current policy has the UID, and the finalizer; or the name is
\* mixed.
Protected(n, u) == n \in mixed \/ (Current(n).uid = u /\ Current(n).finalizer)

\* What a controller is about to report, and what it reports, is protected
\* until the report is taken back.
HeldInv ==
    /\ \A c \in Controllers : worker[c].step = "update" => Protected(worker[c].name, InHand(c).uid)
    /\ \A o \in spec.objs : Protected(o.name, o.uid)
    /\ \A n \in DOMAIN reported : \E u \in Policies : Protected(n, u)
    /\ worker["local"].step = "release" => \A o \in spec.objs : o.uid # InHand("local").uid
    /\ worker["global"].step = "release" =>
         worker["global"].name \in mixed \/ worker["global"].name \notin DOMAIN reported

\* Only a reconciler takes the finalizer away, from the policy in its hands.
LEMMA FinalizerStays ==
  ASSUME TypeOK, [Next]_vars, NEW n \in Names, Exists(Current(n)), Current(n).finalizer
  PROVE  \/ Current(n)'.uid = Current(n).uid /\ Current(n)'.finalizer
         \/ \E c \in Controllers : worker[c].step = "release" /\ worker[c].name = n
                                   /\ InHand(c) = Current(n)
<1>1. CASE log' = log
  BY <1>1 DEF Current, StateAt
<1>2. ASSUME NEW m \in Names, Create(m) \/ SetStatus(m) \/ ChangeOwner(m) \/ RequestDelete(m)
      PROVE  Current(n)'.uid = Current(n).uid /\ Current(n)'.finalizer
  <2>1. PICK s \in States :
           /\ WriteByOthers(m, s) /\ Exists(s)
           /\ ~Exists(Current(m))
              \/ (s.uid = Current(m).uid /\ s.finalizer = Current(m).finalizer)
    BY <1>2, WrittenByOthers
  <2>2. Current(m)' = Finalized(s) /\ (m # n => Current(n)' = Current(n))
    BY <2>1, AfterWrite DEF WriteByOthers
  <2>3. CASE m = n
    BY <2>1, <2>2, <2>3 DEF Finalized
  <2> QED
    BY <2>2, <2>3
<1>3. ASSUME NEW c \in Controllers, AddFinalizer(c) \/ RemoveFinalizer(c), log' # log
      PROVE  \/ Current(n)'.uid = Current(n).uid /\ Current(n)'.finalizer
             \/ worker[c].step = "release" /\ worker[c].name = n /\ InHand(c) = Current(n)
  <2>1. PICK m \in Names : m = worker[c].name
    BY <1>3, WrittenByReconcilers
  <2>2. PICK s \in States :
           /\ Write(m, s) /\ Exists(s) /\ InHand(c) = Current(m) /\ s.uid = InHand(c).uid
           /\ (AddFinalizer(c) /\ s.finalizer) \/ RemoveFinalizer(c)
    BY <1>3, <2>1, WrittenByReconcilers
  <2>3. Current(m)' = Finalized(s) /\ (m # n => Current(n)' = Current(n))
    BY <2>2, AfterWrite
  <2>4. CASE m = n /\ s.finalizer
    BY <2>2, <2>3, <2>4 DEF Finalized
  <2>5. CASE m = n /\ RemoveFinalizer(c)
    BY <2>1, <2>2, <2>5 DEF RemoveFinalizer
  <2> QED
    BY <2>2, <2>3, <2>4, <2>5
<1>4. CASE \E m \in Names : Watch(m) \/ \E c \in Controllers : Reconcile(c, m)
  BY <1>1, <1>4 DEF Watch, Reconcile, cluster
<1>5. CASE UpdateLocal \/ DeleteLocal \/ UpdateGlobal \/ DeleteGlobal \/ SyncEntry \/ SetConfig
           \/ UNCHANGED vars
  BY <1>1, <1>5 DEF UpdateLocal, DeleteLocal, UpdateGlobal, DeleteGlobal, SyncEntry, SetConfig,
                    vars, cluster
<1> QED
  BY <1>1, <1>2, <1>3, <1>4, <1>5 DEF Next, Work

\* It is the controller that the name belongs to who does.
LEMMA ProtectedStays ==
  ASSUME TypeOK, KindInv, [Next]_vars, NEW n \in Names, NEW c \in Controllers, Belongs(n, c),
         NEW u \in Policies, Protected(n, u),
         n \notin mixed => (worker[c].step = "release" /\ worker[c].name = n => InHand(c).uid # u)
  PROVE  Protected(n, u)'
<1>1. CASE n \in mixed'
  BY <1>1 DEF Protected
<1>2. CASE n \notin mixed'
  <2>1. n \notin mixed /\ Current(n).uid = u /\ Current(n).finalizer
    BY <1>2, Writes DEF Protected
  <2>2. Exists(Current(n))
    BY <2>1, LocalAssumption DEF Exists
  <2>3. ASSUME NEW d \in Controllers, worker[d].step = "release", worker[d].name = n,
               InHand(d) = Current(n)
        PROVE  FALSE
    <3>1. Belongs(n, d)
      BY <2>3 DEF KindInv, Idle
    <3>2. Current(n).owner = c /\ Current(n).owner = d
      BY <2>1, <2>2, <3>1, CurrentInLog DEF Belongs
    <3> QED
      BY <2>1, <2>3, <3>2
  <2>4. Current(n)'.uid = Current(n).uid /\ Current(n)'.finalizer
    BY <2>1, <2>2, <2>3, FinalizerStays
  <2> QED
    BY <2>1, <2>4 DEF Protected
<1> QED
  BY <1>1, <1>2

\* An update begins with an object that has the finalizer, and that is so
\* still: the cache shows it, or the reconciler has just written it.
LEMMA UpdateBegins ==
  ASSUME TypeOK, CacheInv, [Next]_vars, NEW c \in Controllers, worker'[c].step = "update"
  PROVE  \/ worker'[c] = worker[c]
         \/ Protected(worker[c].name, InHand(c).uid)'
<1>1. ASSUME NEW n \in Names, Create(n) \/ SetStatus(n) \/ ChangeOwner(n) \/ RequestDelete(n)
      PROVE  worker' = worker
  <2>1. PICK s \in States : WriteByOthers(n, s)
    BY <1>1, OthersWrite
  <2> QED
    BY <2>1 DEF WriteByOthers
<1>2. CASE \E n \in Names : Watch(n)
  BY <1>2 DEF Watch
<1>3. ASSUME NEW d \in Controllers, NEW n \in Names, Reconcile(d, n), worker'[c] # worker[c]
      PROVE  Protected(worker[c].name, InHand(c).uid)'
  <2>1. log' = log /\ seen[n] \in Nat /\ seen[n] <= Len(log[n]) /\ Len(log[n]) \in Nat
    BY <1>3, CurrentInLog DEF Reconcile, cluster
  <2>2. PICK w : /\ worker' = [worker EXCEPT ![d] = w]
                 /\ w = Idle \/ (Exists(StateAt(n, seen[n])) /\
                      w = [step |-> FirstStep(StateAt(n, seen[n])), name |-> n, rv |-> seen[n]])
    BY <1>3 DEF Reconcile, Goto
  <2>3. worker'[c] = w
    BY <1>3, <2>2 DEF TypeOK
  <2>4. /\ Exists(StateAt(n, seen[n])) /\ FirstStep(StateAt(n, seen[n])) = "update"
        /\ w.name = n /\ w.rv = seen[n]
    BY <2>2, <2>3 DEF Idle
  <2>5. seen[n] # 0 /\ StateAt(n, seen[n]) = log[n][seen[n]]
    BY <2>4, AbsentType DEF StateAt
  <2>6. Alive(log[n][seen[n]])
    BY <2>4, <2>5 DEF FirstStep, Alive
  <2>7. Current(n).uid = log[n][seen[n]].uid /\ Current(n).finalizer
    BY <2>1, <2>5, <2>6 DEF CacheInv
  <2>8. InHand(c)' = log[n][seen[n]] /\ Current(n)' = Current(n) /\ worker'[c].name = n
    BY <2>1, <2>3, <2>4, <2>5 DEF InHand, StateAt, Current
  <2>9. Current(worker[c].name)' = Current(n)
    BY <2>1, <2>8 DEF Current, StateAt
  <2> QED
    BY <2>7, <2>8, <2>9 DEF Protected
<1>4. ASSUME NEW d \in Controllers, AddFinalizer(d) \/ RemoveFinalizer(d), worker'[c] # worker[c]
      PROVE  Protected(worker[c].name, InHand(c).uid)'
  <2>1. d = c
    BY <1>4, WrittenByReconcilers
  <2>2. PICK n \in Names : n = worker[c].name
    BY <1>4, <2>1, WrittenByReconcilers
  <2>3. worker'[c] # Idle
    BY DEF Idle
  <2>4. PICK s \in States :
          /\ Write(n, s) /\ s.finalizer /\ worker[c].rv = Len(log[n])
          /\ worker'[c] = [step |-> "update", name |-> n, rv |-> worker[c].rv + 1]
    BY <1>4, <2>1, <2>2, <2>3, WrittenByReconcilers
  <2>5. Current(n)' = s /\ log'[n][Len(log[n]) + 1] = s /\ Len(log[n]) \in Nat
    BY <2>4, AfterWrite DEF Finalized
  <2>6. InHand(c)' = s
    BY <2>4, <2>5 DEF InHand, StateAt
  <2>7. Current(worker[c].name)' = s
    BY <2>4, <2>5 DEF Current, StateAt
  <2> QED
    BY <2>4, <2>6, <2>7 DEF Protected
<1>5. CASE UpdateLocal \/ DeleteLocal \/ UpdateGlobal \/ DeleteGlobal
  <2>1. PICK d \in Controllers : Goto(d, Idle) \/ (Goto(d, AfterDelete(d)) /\ worker[d].step = "delete")
    BY <1>5 DEF UpdateLocal, DeleteLocal, UpdateGlobal, DeleteGlobal, Controllers
  <2>2. AfterDelete(d).step # "update" \/ worker[d].step # "delete"
    <3>1. CASE worker[d].step = "delete"
      <4>1. worker[d] \in [step : {"finalize", "update", "delete", "release"}, name : Names, rv : Nat]
        BY <3>1 DEF TypeOK, WorkerOK, Idle
      <4> QED
        BY <4>1 DEF AfterDelete, Idle
    <3> QED
      BY <3>1
  <2>3. worker'[d] = Idle \/ (worker[d].step = "delete" /\ worker'[d] = AfterDelete(d))
    BY <2>1 DEF Goto, TypeOK
  <2>4. c # d
    BY <2>2, <2>3 DEF Idle
  <2> QED
    BY <2>1, <2>4 DEF Goto, TypeOK
<1>6. CASE SyncEntry \/ SetConfig \/ UNCHANGED vars
  BY <1>6 DEF SyncEntry, SetConfig, vars
<1> QED
  BY <1>1, <1>2, <1>3, <1>4, <1>5, <1>6 DEF Next, Work


\* A reconciler that stays where it is holds the same object.
LEMMA InHandStays ==
  ASSUME TypeOK, [Next]_vars, NEW c \in Controllers, worker[c] # Idle, worker'[c] = worker[c]
  PROVE  InHand(c)' = InHand(c)
<1>1. CASE log' = log
  BY <1>1 DEF InHand, StateAt
<1>2. CASE log' # log
  BY <1>2, Writes, AfterWrite
<1> QED
  BY <1>1, <1>2

\* The finalizer is released when the report was taken back, and until then
\* nothing is reported.
LEMMA ReleaseBegins ==
  ASSUME TypeOK, [Next]_vars
  PROVE  /\ worker'["local"].step = "release" =>
              DeleteLocal \/ (worker'["local"] = worker["local"] /\ spec' = spec)
         /\ worker'["global"].step = "release" =>
              DeleteGlobal \/ (worker'["global"] = worker["global"] /\ reported' = reported)
<1>1. ASSUME NEW n \in Names, Create(n) \/ SetStatus(n) \/ ChangeOwner(n) \/ RequestDelete(n)
      PROVE  UNCHANGED <<worker, spec, reported>>
  <2>1. PICK s \in States : WriteByOthers(n, s)
    BY <1>1, OthersWrite
  <2> QED
    BY <2>1 DEF WriteByOthers, bundles
<1>2. CASE \E n \in Names : Watch(n)
  BY <1>2 DEF Watch, bundles
<1>3. ASSUME NEW c \in Controllers, NEW n \in Names, Reconcile(c, n)
      PROVE  /\ UNCHANGED <<spec, reported>>
             /\ \A d \in Controllers : worker'[d] = worker[d] \/ worker'[d].step # "release"
  <2>1. PICK w : /\ worker' = [worker EXCEPT ![c] = w]
                 /\ w = Idle \/ w = [step |-> FirstStep(StateAt(n, seen[n])), name |-> n, rv |-> seen[n]]
    BY <1>3 DEF Reconcile, Goto
  <2>2. w.step # "release"
    BY <2>1 DEF Idle, FirstStep
  <2> QED
    BY <1>3, <2>1, <2>2 DEF Reconcile, bundles, TypeOK
<1>4. ASSUME NEW c \in Controllers, AddFinalizer(c) \/ RemoveFinalizer(c)
      PROVE  /\ UNCHANGED <<spec, reported>>
             /\ \A d \in Controllers : worker'[d] = worker[d] \/ worker'[d].step # "release"
  <2>1. \/ worker'[c] = [step |-> "update", name |-> worker[c].name, rv |-> worker[c].rv + 1]
        \/ worker'[c] = Idle
    BY <1>4, WrittenByReconcilers
  <2>2. worker'[c].step # "release"
    BY <2>1 DEF Idle
  <2>3. UNCHANGED <<spec, reported>> /\ \A d \in Controllers : d # c => worker'[d] = worker[d]
    BY <1>4, WrittenByReconcilers DEF bundles
  <2> QED
    BY <2>2, <2>3
<1>5. CASE UpdateLocal \/ UpdateGlobal \/ DeleteLocal \/ DeleteGlobal
  <2>1. /\ UpdateLocal => worker'["local"].step # "release"
        /\ UpdateGlobal => worker'["global"].step # "release"
    BY DEF UpdateLocal, UpdateGlobal, Goto, Idle, TypeOK, Controllers
  <2>2. /\ UpdateLocal \/ DeleteLocal => worker'["global"] = worker["global"] /\ reported' = reported
        /\ UpdateGlobal \/ DeleteGlobal => worker'["local"] = worker["local"] /\ spec' = spec
    BY DEF UpdateLocal, DeleteLocal, UpdateGlobal, DeleteGlobal, Goto, bundles, TypeOK, Controllers
  <2> QED
    BY <1>5, <2>1, <2>2
<1>6. CASE SyncEntry \/ SetConfig \/ UNCHANGED vars
  BY <1>6 DEF SyncEntry, SetConfig, vars, bundles
<1> QED
  BY <1>1, <1>2, <1>3, <1>4, <1>5, <1>6 DEF Next, Work, Controllers

\* Every step protects what is reported.
LEMMA NextHeld ==
  ASSUME TypeOK, HistoryInv, KindInv, CacheInv, HeldInv, [Next]_vars
  PROVE  HeldInv'
<1> "local" \in Controllers /\ "global" \in Controllers
  BY DEF Controllers
<1>1. ASSUME NEW c \in Controllers, worker[c].step = "update"
      PROVE  \E n \in Names, u \in Policies :
                n = worker[c].name /\ u = InHand(c).uid /\ Protected(n, u)'
  <2>1. worker[c] # Idle
    BY <1>1 DEF Idle
  <2>2. PICK n \in Names : n = worker[c].name
    BY <2>1, InHandType
  <2>3. PICK u \in Policies : u = InHand(c).uid
    BY <2>1, InHandType
  <2>4. Belongs(n, c) /\ Protected(n, u)
    BY <1>1, <2>1, <2>2, <2>3 DEF KindInv, HeldInv
  <2>5. Protected(n, u)'
    BY <1>1, <2>4, ProtectedStays
  <2> QED
    BY <2>2, <2>3, <2>5
<1>2. ASSUME NEW c \in Controllers, worker'[c].step = "update"
      PROVE  Protected(worker[c].name, InHand(c).uid)'
  <2>1. CASE worker'[c] = worker[c]
    <3>1. PICK n \in Names, u \in Policies :
             n = worker[c].name /\ u = InHand(c).uid /\ Protected(n, u)'
      BY <1>1, <1>2, <2>1
    <3>2. InHand(c)' = InHand(c)
      BY <1>2, <2>1, InHandStays DEF Idle
    <3> QED
      BY <2>1, <3>1, <3>2 DEF Protected
  <2> QED
    BY <1>2, <2>1, UpdateBegins
<1>3. ASSUME NEW o \in spec'.objs PROVE Protected(o.name, o.uid)'
  <2>1. CASE o \in spec.objs
    <3>1. o.name \in Names /\ o.uid \in Policies
      BY <2>1 DEF TypeOK, SpecObjects
    <3>2. Belongs(o.name, "local") /\ Protected(o.name, o.uid)
      BY <2>1 DEF KindInv, HeldInv
    <3>3. worker["local"].step = "release" => InHand("local").uid # o.uid
      BY <2>1 DEF HeldInv
    <3> QED
      BY <3>1, <3>2, <3>3, ProtectedStays
  <2>2. CASE worker["local"].step = "update" /\ o = Clean(worker["local"].name, worker["local"].rv)
    <3>1. PICK n \in Names, u \in Policies :
             n = worker["local"].name /\ u = InHand("local").uid /\ Protected(n, u)'
      BY <1>1, <2>2
    <3>2. o.name = n /\ o.uid = u
      BY <2>2, <3>1 DEF Clean, InHand
    <3> QED
      BY <3>1, <3>2
  <2> QED
    BY <2>1, <2>2, Handled
<1>4. ASSUME NEW n \in DOMAIN reported' PROVE \E u \in Policies : Protected(n, u)'
  <2>1. CASE n \in DOMAIN reported
    <3>1. n \in Names
      BY <2>1 DEF TypeOK
    <3>2. PICK u \in Policies : Protected(n, u)
      BY <2>1 DEF HeldInv
    <3>3. Belongs(n, "global")
      BY <2>1 DEF KindInv
    <3>4. n \notin mixed => ~(worker["global"].step = "release" /\ worker["global"].name = n)
      BY <2>1 DEF HeldInv
    <3> QED
      BY <3>1, <3>2, <3>3, <3>4, ProtectedStays
  <2>2. CASE worker["global"].step = "update" /\ n = worker["global"].name
    BY <1>1, <2>2
  <2> QED
    BY <2>1, <2>2, Handled
<1>5. ASSUME worker'["local"].step = "release", NEW o \in spec'.objs
      PROVE  o.uid # InHand("local")'.uid
  <2>1. CASE DeleteLocal
    <3>1. /\ spec' = SpecDelete(spec, InHand("local").uid) /\ log' = log
          /\ worker["local"].step = "delete"
          /\ worker'["local"] = AfterDelete("local")
      BY <2>1 DEF DeleteLocal, Goto, cluster, TypeOK
    <3>2. worker["local"] \in [step : {"finalize", "update", "delete", "release"}, name : Names, rv : Nat]
      BY <3>1 DEF TypeOK, WorkerOK, Idle
    <3>3. worker'["local"].name = worker["local"].name /\ worker'["local"].rv = worker["local"].rv
      BY <1>5, <3>1, <3>2 DEF AfterDelete, Idle
    <3>4. InHand("local")' = InHand("local")
      BY <3>1, <3>3 DEF InHand, StateAt
    <3>5. o.uid # InHand("local").uid
      BY <1>5, <3>1 DEF SpecDelete
    <3> QED
      BY <3>4, <3>5
  <2>2. CASE worker'["local"] = worker["local"] /\ spec' = spec
    <3>1. InHand("local")' = InHand("local")
      BY <1>5, <2>2, InHandStays DEF Idle
    <3> QED
      BY <1>5, <2>2, <3>1 DEF HeldInv
  <2> QED
    BY <1>5, <2>1, <2>2, ReleaseBegins
<1>6. ASSUME worker'["global"].step = "release"
      PROVE  worker'["global"].name \in mixed' \/ worker'["global"].name \notin DOMAIN reported'
  <2>1. CASE DeleteGlobal
    <3>1. /\ worker["global"].step = "delete"
          /\ worker'["global"] = AfterDelete("global")
          /\ mixed' = mixed
          /\ InHand("global").owner = "global" => reported' = Drop(reported, worker["global"].name)
      BY <2>1 DEF DeleteGlobal, Goto, cluster, TypeOK
    <3>2. worker["global"] # Idle
      BY <3>1 DEF Idle
    <3>3. worker["global"] \in [step : {"finalize", "update", "delete", "release"}, name : Names, rv : Nat]
      BY <3>2 DEF TypeOK, WorkerOK
    <3>4. worker'["global"].name = worker["global"].name
      BY <1>6, <3>1, <3>3 DEF AfterDelete, Idle
    <3>5. CASE InHand("global").owner = "global"
      BY <3>1, <3>4, <3>5 DEF Drop
    <3>6. CASE InHand("global").owner # "global"
      <4>1. Belongs(worker["global"].name, "global")
        BY <3>2 DEF KindInv
      <4>2. /\ worker["global"].rv \in 1..Len(log[worker["global"].name])
            /\ Exists(InHand("global"))
        BY <3>2 DEF TypeOK, WorkerOK
      <4>3. InHand("global") = log[worker["global"].name][worker["global"].rv]
        BY <3>3, <4>2, CurrentInLog DEF InHand, StateAt
      <4> QED
        BY <3>1, <3>4, <3>6, <4>1, <4>2, <4>3 DEF Belongs
    <3> QED
      BY <3>5, <3>6
  <2>2. CASE worker'["global"] = worker["global"] /\ reported' = reported
    BY <1>6, <2>2, Writes DEF HeldInv
  <2> QED
    BY <1>6, <2>1, <2>2, ReleaseBegins
<1> QED
  BY <1>2, <1>3, <1>4, <1>5, <1>6 DEF HeldInv

\* When nothing is left to reconcile, what the controllers report are
\* policies that exist and are theirs, except under names whose policies were
\* of both kinds: no report outlives its policy, as the shared finalizer keeps
\* it until the one controller that saw it has taken the report back.
THEOREM OthersDoNotReport == Spec => []OthersDoNot
<1> DEFINE Inv == HistoryInv /\ KindInv /\ CacheInv /\ HeldInv
<1>1. Init => Inv
  <2> SUFFICES ASSUME Init PROVE Inv
    OBVIOUS
  <2>1. ASSUME NEW n \in Names PROVE Len(log[n]) = 0
    BY EmptySeq DEF Init
  <2>2. \A c \in Controllers : queue[c] = {} /\ worker[c] = Idle /\ worker[c].step = "idle"
    BY DEF Init, Idle
  <2>3. spec.objs = {} /\ DOMAIN reported = {}
    BY DEF Init
  <2>4. HistoryInv
    BY <2>1 DEF HistoryInv
  <2>5. KindInv
    BY <2>1, <2>2, <2>3 DEF KindInv
  <2>6. CacheInv
    BY <2>1, <2>2 DEF CacheInv
  <2>7. HeldInv
    BY <2>2, <2>3 DEF HeldInv, Controllers
  <2> QED
    BY <2>4, <2>5, <2>6, <2>7
<1>2. ASSUME TypeOK, Inv, [Next]_vars PROVE Inv'
  BY <1>2, NextHistory, NextKind, NextCache, NextHeld
<1>3. ASSUME TypeOK, NoneStuck, Inv PROVE OthersDoNot
  <2>1. ASSUME NEW n \in Names, NEW c \in Controllers, n \notin mixed, Belongs(n, c), Reconciled,
               NEW u \in Policies, Protected(n, u)
        PROVE  Live(n) /\ Current(n).uid = u /\ Current(n).owner = c
    <3>1. Current(n).uid = u /\ Exists(Current(n))
      BY <2>1, LocalAssumption DEF Protected, Exists
    <3>2. ~Current(n).deleting
      BY <1>3, <2>1, <3>1 DEF NoneStuck
    <3>3. Current(n).owner = c
      BY <1>3, <2>1, <3>1, CurrentInLog DEF Belongs
    <3> QED
      BY <3>1, <3>2, <3>3 DEF Live
  <2>2. ASSUME Reconciled, NEW o \in spec.objs, o.name \notin mixed
        PROVE  Live(o.name) /\ Current(o.name).uid = o.uid /\ Current(o.name).owner = "local"
    <3>1. o.name \in Names /\ o.uid \in Policies /\ "local" \in Controllers
      BY <1>3, <2>2 DEF TypeOK, SpecObjects, Controllers
    <3>2. Belongs(o.name, "local") /\ Protected(o.name, o.uid)
      BY <1>3, <2>2 DEF KindInv, HeldInv
    <3> QED
      BY <2>1, <2>2, <3>1, <3>2
  <2>3. ASSUME Reconciled, NEW n \in DOMAIN reported, n \notin mixed
        PROVE  Live(n) /\ Current(n).owner = "global"
    <3>1. n \in Names /\ "global" \in Controllers
      BY <1>3, <2>3 DEF TypeOK, Controllers
    <3>2. Belongs(n, "global") /\ \E u \in Policies : Protected(n, u)
      BY <1>3, <2>3 DEF KindInv, HeldInv
    <3> QED
      BY <2>1, <2>3, <3>1, <3>2
  <2> QED
    BY <2>2, <2>3 DEF OthersDoNot
<1> QED
  BY <1>1, <1>2, <1>3, NoDeletionStuck, TypeCorrect, PTL DEF Spec


---------------------------------------------------------------------------
(* What the hub of hubs was told of the local policies.                    *)

\* The entry's last version was sent.
Arrived(e) == lastSent[e] = GenerationOf(e)

\* What each version stands for, when it was the last one sent: the policies
\* and their clusters; which of those fail, given that the clusters are
\* known; and the specs.
SentInv ==
    /\ Arrived("cpp") =>
         /\ DOMAIN received.status = DOMAIN cpp.objs
         /\ \A p \in DOMAIN cpp.objs : ClustersOf(received.status[p]) = ClustersOf(cpp.objs[p])
    /\ Arrived("cpp") /\ Arrived("complete") =>
         \A p \in DOMAIN received.status : Failing(received.status[p]) = ListedIn(complete.objs, p)
    /\ Arrived("spec") => received.spec = spec.objs

\* What the complete-state bundle lists of a policy are those of the clusters
\* of the clusters-per-policy bundle that fail.
LEMMA ListedFails ==
  ASSUME LocalBundlesAgree, NEW p \in DOMAIN cpp.objs
  PROVE  ListedIn(complete.objs, p) = Failing(cpp.objs[p])
<1>1. PICK f : f = Failing(cpp.objs[p]) /\ f = [k \in FailingState |-> f[k]]
  BY DEF Failing
<1>2. CASE HasFailing(f)
  BY <1>1, <1>2 DEF LocalBundlesAgree, ListedIn
<1>3. CASE ~HasFailing(f)
  <2>1. p \notin DOMAIN complete.objs
    BY <1>1, <1>3 DEF LocalBundlesAgree
  <2>2. \A k \in FailingState : f[k] = {}
    BY <1>3 DEF HasFailing
  <2>3. f = [k \in FailingState |-> {}]
    BY <1>1, <2>2
  <2> QED
    BY <1>1, <2>1, <2>3 DEF ListedIn
<1> QED
  BY <1>2, <1>3

\* The generations, and what was sent of them, are counts.
LEMMA SentBehind ==
  ASSUME TypeOK
  PROVE  /\ cpp.gen \in Nat /\ complete.gen \in Nat /\ spec.gen \in Nat
         /\ lastSent["cpp"] \in Nat /\ lastSent["cpp"] <= cpp.gen
         /\ lastSent["complete"] \in Nat /\ lastSent["complete"] <= complete.gen
         /\ lastSent["spec"] \in Nat /\ lastSent["spec"] <= spec.gen
BY DEF TypeOK, Entries, GenerationOf, IsBundle

\* A bundle that changes what it stands for has a version that was not sent;
\* a removal from the complete-state bundle has none, but the
\* clusters-per-policy bundle then does.
LEMMA BundlesSent ==
  ASSUME TypeOK, LocalBundlesAgree, SentInv, UpdateLocal \/ DeleteLocal
  PROVE  SentInv'
<1> DEFINE u == InHand("local").uid
           s == InHand("local").status
           o == Clean(worker["local"].name, worker["local"].rv)
<1>1. UNCHANGED <<lastSent, received>>
  BY DEF UpdateLocal, DeleteLocal, sync
<1>2. \/ /\ cpp' = CppUpdate(cpp, u, s) /\ complete' = CompleteUpdate(complete, u, s)
         /\ spec' = SpecUpdate(spec, o)
      \/ /\ cpp' = CppDelete(cpp, u) /\ complete' = CompleteDelete(complete, u)
         /\ spec' = SpecDelete(spec, u)
  BY SharedStatus DEF UpdateLocal, DeleteLocal
<1> HIDE DEF u, s, o
<1>3. IsBundle(cpp, Statuses) /\ IsBundle(complete, FailingLists)
  BY DEF TypeOK
<1>4. ASSUME Arrived("cpp")'
      PROVE  /\ Arrived("cpp")
             /\ DOMAIN cpp'.objs = DOMAIN cpp.objs
             /\ \A p \in DOMAIN cpp.objs : ClustersOf(cpp'.objs[p]) = ClustersOf(cpp.objs[p])
             /\ cpp' = CppDelete(cpp, u) => u \notin DOMAIN cpp.objs \/ cpp'.gen # cpp.gen
  <2>1. cpp'.gen = lastSent["cpp"]
    BY <1>1, <1>4 DEF Arrived, GenerationOf
  <2>2. cpp'.gen = cpp.gen
    <3>1. cpp'.gen \in {cpp.gen, cpp.gen + 1}
      BY <1>2, <1>3, CppVersion
    <3> QED
      BY <2>1, <3>1, SentBehind
  <2>3. CASE cpp' = CppUpdate(cpp, u, s)
    <3>1. u \in DOMAIN cpp.objs /\ ClustersOf(cpp.objs[u]) = ClustersOf(s)
      BY <1>3, <2>2, <2>3, CppVersion
    <3>2. /\ DOMAIN cpp'.objs = DOMAIN cpp.objs \cup {u} /\ cpp'.objs[u] = s
          /\ \A q \in DOMAIN cpp.objs : q # u => cpp'.objs[q] = cpp.objs[q]
      BY <2>3, CppUpdateHas
    <3>3. u \in DOMAIN cpp.objs => (cpp' = CppDelete(cpp, u) => cpp'.gen # cpp.gen)
      BY <1>3 DEF CppDelete, IsBundle
    <3> QED
      BY <2>1, <2>2, <3>1, <3>2, <3>3 DEF Arrived, GenerationOf
  <2>4. CASE cpp' = CppDelete(cpp, u)
    <3>1. cpp' = cpp
      BY <1>3, <2>2, <2>4, CppVersion
    <3>2. u \notin DOMAIN cpp.objs
      BY <1>3, <2>2, <2>4 DEF CppDelete, IsBundle
    <3> QED
      BY <2>1, <3>1, <3>2 DEF Arrived, GenerationOf
  <2> QED
    BY <1>2, <2>3, <2>4
<1>5. ASSUME Arrived("cpp")', Arrived("complete")'
      PROVE  /\ Arrived("complete")
             /\ \A p \in DOMAIN cpp.objs : ListedIn(complete'.objs, p) = ListedIn(complete.objs, p)
  <2>1. complete'.gen = lastSent["complete"]
    BY <1>1, <1>5 DEF Arrived, GenerationOf
  <2>2. complete'.gen = complete.gen
    BY <1>2, <1>3, <2>1, CompleteVersion, SentBehind
  <2>3. CASE complete' = CompleteUpdate(complete, u, s)
    <3>1. complete' = complete
      BY <1>3, <2>2, <2>3, CompleteVersion
    <3> QED
      BY <2>1, <3>1 DEF Arrived, GenerationOf
  <2>4. CASE complete' = CompleteDelete(complete, u) /\ cpp' = CppDelete(cpp, u)
    <3>1. u \notin DOMAIN cpp.objs
      BY <1>1, <1>3, <1>4, <1>5, <2>4, CppVersion, SentBehind DEF Arrived, GenerationOf
    <3>2. complete'.objs = Drop(complete.objs, u)
      <4>1. PICK m, n : complete = [objs |-> m, gen |-> n]
        BY <1>3 DEF IsBundle
      <4> QED
        BY <2>4, <4>1 DEF CompleteDelete
    <3>3. \A p : p # u => ListedIn(complete'.objs, p) = ListedIn(complete.objs, p)
      BY <3>2 DEF ListedIn, Drop
    <3> QED
      BY <2>1, <2>2, <3>1, <3>3 DEF Arrived, GenerationOf
  <2> QED
    BY <1>2, <2>3, <2>4
<1>6. ASSUME Arrived("spec")' PROVE Arrived("spec") /\ spec' = spec
  <2>1. spec'.gen = lastSent["spec"]
    BY <1>1, <1>6 DEF Arrived, GenerationOf
  <2>2. spec'.gen = spec.gen + 1 \/ spec' = spec
    BY <1>2 DEF SpecUpdate, SpecDelete
  <2> QED
    BY <2>1, <2>2, SentBehind DEF Arrived, GenerationOf
<1> QED
  BY <1>1, <1>4, <1>5, <1>6 DEF SentInv

\* A pass's step sends what the version stands for.
LEMMA SyncSent ==
  ASSUME TypeOK, LocalBundlesAgree, SentInv, SyncEntry
  PROVE  SentInv'
<1> DEFINE e == Collection[pass + 1]
<1>1. e \in Entries
  <2>1. /\ Collection[1] = "cpp" /\ Collection[2] = "complete" /\ Collection[3] = "spec"
    BY DEF Collection
  <2> QED
    BY <2>1 DEF TypeOK, Entries
<1>2. UNCHANGED <<cpp, complete, spec>> /\ Synced(e)
  BY DEF SyncEntry, bundles
<1> HIDE DEF e
<1>3. \A d \in Entries : GenerationOf(d)' = GenerationOf(d)
  BY <1>2, GenerationKept DEF bundles
<1>4. received = [status |-> received.status, spec |-> received.spec]
  BY DEF TypeOK
<1>5. CASE UNCHANGED <<received, lastSent>>
  BY <1>2, <1>3, <1>5 DEF SentInv, Arrived, Entries
<1>6. CASE received' = Received(e) /\ lastSent' = [lastSent EXCEPT ![e] = GenerationOf(e)]
  <2>1. \A d \in Entries : d # e => (Arrived(d)' <=> Arrived(d))
    BY <1>3, <1>6 DEF Arrived, TypeOK
  <2>2. PICK a, b : received = [status |-> a, spec |-> b]
    BY <1>4
  <2>3. CASE e = "cpp"
    <3>1. received'.status = cpp.objs /\ received'.spec = received.spec
      BY <1>6, <2>2, <2>3 DEF Received
    <3>2. \A p \in DOMAIN cpp.objs : Failing(cpp.objs[p]) = ListedIn(complete.objs, p)
      BY ListedFails
    <3> QED
      BY <1>2, <2>1, <2>3, <3>1, <3>2 DEF SentInv, Entries
  <2>4. CASE e = "complete"
    <3>1. received'.status = ReceivedComplete /\ received'.spec = received.spec
      BY <1>6, <2>2, <2>4 DEF Received
    <3>2. ASSUME NEW p \in DOMAIN received.status
          PROVE  /\ ClustersOf(ReceivedComplete[p]) = ClustersOf(received.status[p])
                 /\ \A k \in FailingState : ReceivedComplete[p][k] =
                       ClustersOf(received.status[p]) \cap ListedIn(complete.objs, p)[k]
      <4>1. Failing(NoStatus) = [k \in FailingState |-> {}]
        BY DEF Failing, NoStatus, FailingState, ComplianceState
      <4> DEFINE known == ClustersOf(received.status[p])
                 failing == ListedIn(complete.objs, p)
      <4>2. ReceivedComplete[p] =
              [k \in ComplianceState |->
                 IF k = "compliant" THEN known \ (failing["nonCompliant"] \cup failing["unknown"])
                 ELSE known \cap failing[k]]
        <5>1. failing = IF p \in DOMAIN complete.objs THEN complete.objs[p] ELSE Failing(NoStatus)
          BY <4>1 DEF ListedIn
        <5> HIDE DEF failing
        <5> QED
          BY <3>2, <5>1 DEF ReceivedComplete
      <4> HIDE DEF known, failing
      <4>3. /\ ClustersOf(ReceivedComplete[p]) = known
            /\ \A k \in FailingState : ReceivedComplete[p][k] = known \cap failing[k]
        BY <4>2 DEF ClustersOf, ComplianceState, FailingState
      <4> QED
        BY <4>3 DEF known, failing
    <3>3. DOMAIN ReceivedComplete = DOMAIN received.status
      BY DEF ReceivedComplete
    <3>4. ASSUME Arrived("cpp"), NEW p \in DOMAIN received.status
          PROVE  Failing(ReceivedComplete[p]) = ListedIn(complete.objs, p)
      <4>1. p \in DOMAIN cpp.objs /\ ClustersOf(received.status[p]) = ClustersOf(cpp.objs[p])
        BY <3>4 DEF SentInv
      <4>2. ListedIn(complete.objs, p) = Failing(cpp.objs[p])
        BY <4>1, ListedFails
      <4>3. \A k \in FailingState : Failing(cpp.objs[p])[k] \subseteq ClustersOf(cpp.objs[p])
        BY DEF Failing, ClustersOf, FailingState, ComplianceState
      <4>4. \A k \in FailingState : ReceivedComplete[p][k] = Failing(cpp.objs[p])[k]
        BY <3>2, <3>4, <4>1, <4>2, <4>3
      <4> QED
        BY <4>2, <4>4 DEF Failing
    <3> QED
      BY <1>2, <2>1, <2>4, <3>1, <3>2, <3>3, <3>4 DEF SentInv, Entries
  <2>5. CASE e = "spec"
    <3>1. received'.spec = spec.objs /\ received'.status = received.status
      BY <1>6, <2>2, <2>5 DEF Received
    <3> QED
      BY <1>2, <2>1, <2>5, <3>1 DEF SentInv, Entries
  <2> QED
    BY <1>1, <2>3, <2>4, <2>5 DEF Entries
<1> QED
  BY <1>2, <1>5, <1>6 DEF Synced

\* When all versions are sent, the hub of hubs knows every local policy's
\* status and spec, whatever was switched off, and on again, in between: in
\* the middle of a pass, or between passes.
THEOREM LocalNothingIsLost == Spec => []LocalNothingLost
<1>1. Init => SentInv
  BY DEF Init, SentInv, EmptyMap
<1>2. ASSUME TypeOK, LocalBundlesAgree, SentInv, [Next]_vars PROVE SentInv'
  <2>1. CASE SyncEntry
    BY <1>2, <2>1, SyncSent
  <2>2. CASE UpdateLocal \/ DeleteLocal
    BY <1>2, <2>2, BundlesSent
  <2>3. CASE ~SyncEntry /\ ~UpdateLocal /\ ~DeleteLocal
    <3>1. UNCHANGED bundles
      BY <1>2, <2>3, BundlesChange
    <3>2. UNCHANGED <<lastSent, received>>
      BY <1>2, <2>3
      DEF Next, Create, SetStatus, ChangeOwner, RequestDelete, WriteByOthers, Watch, Reconcile,
          Work, AddFinalizer, RemoveFinalizer, Update, UpdateGlobal, DeleteGlobal,
          SetConfig, vars, sync
    <3> QED
      BY <1>2, <3>1, <3>2 DEF SentInv, Arrived, GenerationOf, bundles
  <2> QED
    BY <2>1, <2>2, <2>3
<1>3. ASSUME TypeOK, LocalBundlesAgree, SentInv PROVE LocalNothingLost
  <2> SUFFICES ASSUME \A e \in Entries : Arrived(e)
               PROVE  received = [status |-> cpp.objs, spec |-> spec.objs]
    BY DEF LocalNothingLost, Arrived
  <2>1. /\ DOMAIN received.status = DOMAIN cpp.objs
        /\ \A p \in DOMAIN cpp.objs : ClustersOf(received.status[p]) = ClustersOf(cpp.objs[p])
        /\ \A p \in DOMAIN received.status : Failing(received.status[p]) = ListedIn(complete.objs, p)
        /\ received.spec = spec.objs
    BY <1>3 DEF SentInv, Entries
  <2>2. IsMap(received.status, Statuses) /\ IsMap(cpp.objs, Statuses)
        /\ received = [status |-> received.status, spec |-> received.spec]
    BY <1>3 DEF TypeOK, IsBundle
  <2>3. ASSUME NEW p \in DOMAIN cpp.objs PROVE received.status[p] = cpp.objs[p]
    <3>1. received.status[p] \in Statuses /\ cpp.objs[p] \in Statuses
      BY <2>1, <2>2 DEF IsMap
    <3>2. ListedIn(complete.objs, p) = Failing(cpp.objs[p])
      BY <1>3, ListedFails
    <3> QED
      BY <2>1, <3>1, <3>2, SameStatus
  <2>4. received.status = cpp.objs
    BY <2>1, <2>2, <2>3 DEF IsMap
  <2> QED
    BY <2>1, <2>2, <2>4
<1> QED
  BY <1>1, <1>2, <1>3, SharedObjectHarmless, TypeCorrect, PTL DEF Spec

=============================================================================
