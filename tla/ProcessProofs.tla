--------------------------- MODULE ProcessProofs ---------------------------
(***************************************************************************)
(* What holds of the process for either transport, and for every value of  *)
(* the constants: its intervals, its panics, and what becomes of messages. *)
(***************************************************************************)
EXTENDS Process, SequenceTheorems, TLAPS

---------------------------------------------------------------------------
(* Steps.                                                                  *)

\* The process's steps, without their bounds.
LEMMA Steps ==
  ASSUME [Next]_vars, ~UNCHANGED vars
  PROVE  /\ ~panicked
         /\ \/ StartTransport \/ CreateManager \/ ManagerReturns \/ StopTransport \/ Exit
            \/ Lead \/ Cancel
            \/ \E p \in Generics : AddController(p) \/ UpdateBundle(p) \/ SyncBundles(p)
            \/ \E p \in Periodic : NewTicker(p) \/ AttemptCallback(p) \/ SendReturns(p)
            \/ SyncBundle \/ ContextDone
            \/ Transporting \/ ChangeConfigMap \/ ReconcileIntervals
<1>1. Alive
  BY DEF Next, Step
<1> QED
  BY <1>1 DEF Next, Step, Main, PeriodicSync, Alive, Periodic

\* What a step may do to the transport's variables.
LEMMA Channels ==
  ASSUME [Next]_vars
  PROVE  /\ transport' = transport
         /\ \/ UNCHANGED channel
            \/ ~panicked /\ StartTransport
            \/ ~panicked /\ StopTransport
            \/ ~panicked /\ \E p \in Generics : SyncBundles(p) /\ gen[p] > lastSent[p]
            \/ ~panicked /\ SyncBundle
            \/ ~panicked /\ \E p \in Periodic : AttemptCallback(p)
            \/ ~panicked /\ Transporting
<1>1. CASE UNCHANGED vars
  BY <1>1 DEF vars, channel
<1>2. CASE ~UNCHANGED vars
  <2>1. /\ ~panicked
        /\ \/ StartTransport \/ CreateManager \/ ManagerReturns \/ StopTransport \/ Exit
           \/ Lead \/ Cancel
           \/ \E p \in Generics : AddController(p) \/ UpdateBundle(p) \/ SyncBundles(p)
           \/ \E p \in Periodic : NewTicker(p) \/ AttemptCallback(p) \/ SendReturns(p)
           \/ SyncBundle \/ ContextDone
           \/ Transporting \/ ChangeConfigMap \/ ReconcileIntervals
    BY <1>2, Steps
  <2>2. CASE \/ CreateManager \/ ManagerReturns \/ Exit \/ Lead \/ Cancel
             \/ \E p \in Generics : AddController(p) \/ UpdateBundle(p)
             \/ \E p \in Periodic : NewTicker(p) \/ SendReturns(p)
             \/ ContextDone \/ ChangeConfigMap \/ ReconcileIntervals
    BY <2>2 DEF CreateManager, ManagerReturns, Exit, Lead, Cancel, AddController, UpdateBundle,
                NewTicker, SendReturns, ContextDone, ChangeConfigMap, ReconcileIntervals, channel
  <2>3. CASE StartTransport \/ StopTransport \/ Transporting \/ SyncBundle
             \/ \E p \in Periodic : AttemptCallback(p)
    BY <2>1, <2>3 DEF StartTransport, StopTransport, Transporting, SyncBundle, AttemptCallback, SendAsync
  <2>4. ASSUME NEW p \in Generics, SyncBundles(p)
        PROVE  transport' = transport /\ (UNCHANGED channel \/ gen[p] > lastSent[p])
    BY <2>4 DEF SyncBundles, SendAsync, channel
  <2> QED
    BY <2>1, <2>2, <2>3, <2>4
<1> QED
  BY <1>1, <1>2

---------------------------------------------------------------------------
(* The intervals.                                                          *)

\* What the reconciler holds is the config map, or a request waits for it;
\* what it holds is in force, or it has still to set it; and an interval that
\* is no period comes from a config map that had it.
IntervalInv ==
    /\ requested \/ snapshot = configMap
    /\ \A k \in I!Keys :
         /\ I!Defined(snapshot, k) =>
              intervals[k] = snapshot[k] \/ \E i \in 1..Len(remaining) : remaining[i] = k
         /\ intervals[k] > 0 \/ unfit
         /\ I!Defined(snapshot, k) => snapshot[k] > 0 \/ unfit
         /\ I!Defined(configMap, k) => configMap[k] > 0 \/ unfit

\* The intervals' variables have their types.
IntervalTypes ==
    /\ {configMap, snapshot} \subseteq {NotFound} \cup [I!Keys -> Values]
    /\ requested \in BOOLEAN /\ unfit \in BOOLEAN
    /\ remaining \in Seq(I!Keys)
    /\ intervals \in [I!Keys -> Int]
    /\ configChanges \in 0..MaxConfigChanges

\* The value that a config map has for a key is a number of seconds.
LEMMA DefinedType ==
  ASSUME NEW cm \in {NotFound} \cup [I!Keys -> Values], NEW k \in I!Keys, I!Defined(cm, k)
  PROVE  cm[k] \in Int
BY DEF I!Defined, Values

\* A change of the config map requests a reconciliation and is remembered if
\* it gives an interval that is no period.
LEMMA ChangeInterval ==
  ASSUME IntervalTypes, IntervalInv, NEW cm \in ConfigMaps, I!ChangeConfigMap(cm)
  PROVE  IntervalTypes' /\ IntervalInv'
<1>1. /\ configMap' = cm /\ requested' = TRUE /\ configChanges' = configChanges + 1
      /\ configChanges < MaxConfigChanges
      /\ unfit' = (unfit \/ \E k \in I!Keys : I!Defined(cm, k) /\ cm[k] <= 0)
      /\ UNCHANGED <<snapshot, remaining, intervals>>
  BY DEF I!ChangeConfigMap
<1>2. cm \in {NotFound} \cup [I!Keys -> Values]
  BY ConfigMapsAssumption
<1>3. unfit' \in BOOLEAN
  BY <1>1, Zenon DEF IntervalTypes
<1>4. ASSUME NEW k \in I!Keys, I!Defined(cm, k) PROVE cm[k] > 0 \/ unfit'
  <2>1. cm[k] \in Int
    BY <1>2, <1>4, DefinedType
  <2>2. CASE cm[k] <= 0
    BY <1>1, <1>4, <2>2, Zenon
  <2> QED
    BY <2>1, <2>2
<1>5. unfit => unfit'
  BY <1>1
<1>6. IntervalTypes'
  BY <1>1, <1>2, <1>3, ConstantsAssumption DEF IntervalTypes
<1>7. IntervalInv'
  BY <1>1, <1>4, <1>5 DEF IntervalInv, I!Defined
<1> QED
  BY <1>6, <1>7

\* The reconciler takes up the config map as it is.
LEMMA ReconcileInterval ==
  ASSUME IntervalTypes, IntervalInv, I!Reconcile
  PROVE  IntervalTypes' /\ IntervalInv'
<1>1. /\ requested' = FALSE /\ snapshot' = configMap
      /\ UNCHANGED <<configMap, intervals, unfit, configChanges>>
  BY DEF I!Reconcile
<1>2. /\ remaining' \in Seq(I!Keys)
      /\ configMap # NotFound => \A k \in I!Keys : \E i \in 1..Len(remaining') : remaining'[i] = k
  <2>1. CASE configMap = NotFound
    BY <2>1 DEF I!Reconcile
  <2>2. CASE configMap # NotFound
    <3>1. remaining' = <<"managed_clusters", "policies", "control_info">>
      BY <2>2 DEF I!Reconcile
    <3>2. /\ remaining' \in Seq(I!Keys) /\ Len(remaining') = 3 /\ remaining'[1] = "managed_clusters"
          /\ remaining'[2] = "policies" /\ remaining'[3] = "control_info"
      BY <3>1 DEF I!Keys
    <3> QED
      BY <3>2 DEF I!Keys
  <2> QED
    BY <2>1, <2>2
<1> QED
  BY <1>1, <1>2 DEF IntervalTypes, IntervalInv, I!Defined

\* The reconciler sets the next of the intervals.
LEMMA SetInterval ==
  ASSUME IntervalTypes, IntervalInv, I!SetSyncInterval
  PROVE  IntervalTypes' /\ IntervalInv'
<1>1. /\ remaining # <<>> /\ remaining' = Tail(remaining)
      /\ UNCHANGED <<configMap, requested, snapshot, unfit, configChanges>>
  BY DEF I!SetSyncInterval
<1>2. remaining \in Seq(I!Keys)
  BY DEF IntervalTypes
<1>3. /\ Head(remaining) \in I!Keys /\ Tail(remaining) \in Seq(I!Keys)
      /\ Head(remaining) = remaining[1]
      /\ Len(remaining) \in Nat /\ Len(Tail(remaining)) = Len(remaining) - 1
      /\ \A i \in 1..Len(Tail(remaining)) : Tail(remaining)[i] = remaining[i + 1]
  BY <1>1, <1>2, HeadTailProperties, LenProperties
<1>4. PICK k \in I!Keys : k = Head(remaining)
  BY <1>3
<1>5. intervals' = IF I!Defined(snapshot, k) THEN [intervals EXCEPT ![k] = snapshot[k]] ELSE intervals
  BY <1>4 DEF I!SetSyncInterval, I!WithInterval
<1>6. I!Defined(snapshot, k) => snapshot[k] \in Int
  BY DefinedType DEF IntervalTypes
<1>7. intervals' \in [I!Keys -> Int]
  BY <1>5, <1>6 DEF IntervalTypes
<1>8. ASSUME NEW j \in I!Keys
      PROVE  /\ I!Defined(snapshot, j) =>
                  intervals'[j] = snapshot[j] \/ \E i \in 1..Len(remaining') : remaining'[i] = j
             /\ intervals'[j] > 0 \/ unfit
  <2>1. /\ I!Defined(snapshot, k) => intervals'[k] = snapshot[k]
        /\ ~I!Defined(snapshot, k) => intervals'[k] = intervals[k]
        /\ j # k => intervals'[j] = intervals[j]
    BY <1>5 DEF IntervalTypes
  <2>2. intervals'[j] > 0 \/ unfit
    BY <2>1 DEF IntervalInv
  <2>3. ASSUME I!Defined(snapshot, j), NEW i \in 1..Len(remaining), remaining[i] = j, j # k
        PROVE  \E h \in 1..Len(remaining') : remaining'[h] = j
    <3>1. i # 1
      BY <1>3, <1>4, <2>3
    <3>2. i - 1 \in 1..Len(Tail(remaining)) /\ Tail(remaining)[i - 1] = remaining[i]
      BY <1>3, <3>1
    <3> QED
      BY <1>1, <2>3, <3>2
  <2> QED
    BY <2>1, <2>2, <2>3 DEF IntervalInv
<1> QED
  BY <1>1, <1>3, <1>7, <1>8 DEF IntervalTypes, IntervalInv, I!Defined

\* The intervals' variables change in two kinds of steps only.
LEMMA ConfigSteps ==
  ASSUME [Next]_vars
  PROVE  UNCHANGED config \/ ChangeConfigMap \/ ReconcileIntervals
<1>1. CASE ~UNCHANGED vars
  <2>1. CASE StartTransport \/ CreateManager \/ ManagerReturns \/ StopTransport \/ Exit
             \/ Lead \/ Cancel \/ SyncBundle \/ ContextDone \/ Transporting
    BY <2>1 DEF StartTransport, CreateManager, ManagerReturns, StopTransport, Exit, Lead, Cancel,
                SyncBundle, ContextDone, Transporting
  <2>2. ASSUME NEW p \in Generics, AddController(p) \/ UpdateBundle(p) \/ SyncBundles(p)
        PROVE  UNCHANGED config
    BY <2>2 DEF AddController, UpdateBundle, SyncBundles
  <2>3. ASSUME NEW p \in Periodic, NewTicker(p) \/ AttemptCallback(p) \/ SendReturns(p)
        PROVE  UNCHANGED config
    BY <2>3 DEF NewTicker, AttemptCallback, SendReturns
  <2> QED
    BY <1>1, <2>1, <2>2, <2>3, Steps
<1> QED
  BY <1>1 DEF vars

\* Every step of the process keeps the intervals in order.
LEMMA NextInterval == ASSUME IntervalTypes, IntervalInv, [Next]_vars PROVE IntervalTypes' /\ IntervalInv'
<1>1. CASE UNCHANGED config
  BY <1>1 DEF config, IntervalTypes, IntervalInv, I!Defined
<1>2. CASE ChangeConfigMap
  BY <1>2, ChangeInterval DEF ChangeConfigMap
<1>3. CASE ReconcileIntervals
  BY <1>3, ReconcileInterval, SetInterval DEF ReconcileIntervals
<1> QED
  BY <1>1, <1>2, <1>3, ConfigSteps

\* They are so when the process starts.
LEMMA InitialIntervals == Init => IntervalTypes /\ IntervalInv
<1> SUFFICES ASSUME Init PROVE IntervalTypes /\ IntervalInv
  OBVIOUS
<1>1. /\ configMap = NotFound /\ requested = FALSE /\ snapshot = NotFound /\ remaining = <<>>
      /\ intervals = [managed_clusters |-> 5, policies |-> 5, control_info |-> 60]
      /\ unfit = FALSE /\ configChanges = 0
  BY DEF Init, I!Init, I!Defaults
<1>2. intervals \in [I!Keys -> Int] /\ \A k \in I!Keys : intervals[k] > 0
  BY <1>1 DEF I!Keys
<1>3. IntervalTypes
  <2>1. remaining \in Seq(I!Keys)
    BY <1>1
  <2>2. configChanges \in 0..MaxConfigChanges
    BY <1>1, ConstantsAssumption
  <2> QED
    BY <1>1, <1>2, <2>1, <2>2 DEF IntervalTypes
<1>4. IntervalInv
  BY <1>1, <1>2 DEF IntervalInv, I!Defined
<1> QED
  BY <1>3, <1>4

\* The intervals are in order at all times.
LEMMA IntervalsInOrder == Spec => [](IntervalTypes /\ IntervalInv)
BY InitialIntervals, NextInterval, PTL DEF Spec

\* With nothing left to reconcile, the intervals of the config map are in
\* force: however often it changed while the reconciler was setting those of
\* an earlier state, one by one.
THEOREM IntervalsComeToRest == Spec => []IntervalsSettle
<1>1. ASSUME IntervalTypes, IntervalInv PROVE IntervalsSettle
  <2> SUFFICES ASSUME I!Settled, NEW k \in I!Keys, I!Defined(configMap, k)
               PROVE  intervals[k] = configMap[k]
    BY DEF IntervalsSettle
  <2>1. ~requested /\ Len(remaining) = 0
    BY EmptySeq DEF I!Settled
  <2> QED
    BY <1>1, <2>1 DEF IntervalInv
<1> QED
  BY <1>1, IntervalsInOrder, PTL

---------------------------------------------------------------------------
(* Panics.                                                                 *)

\* A transport that is being stopped stays so.  A goroutine panics if it is,
\* or if its ticker is to have a period that is none.
LEMMA Panics ==
  ASSUME transport \in TransportTypes, [Next]_vars, ~panicked
  PROVE  /\ stop # "no" => stop' # "no"
         /\ panicked' => \/ stop' # "no"
                         \/ \E p \in Periodic : ~(intervals[p] > 0) /\ UNCHANGED config
<1>1. CASE StartTransport
  BY <1>1, ConstantsAssumption DEF StartTransport, K!Start, S!Start
<1>2. CASE StopTransport
  BY <1>2, ConstantsAssumption
  DEF StopTransport, K!Stop, K!HandToken, K!CloseDeliveryChan, K!CloseClient,
      S!Stop, S!PutToken, S!CloseStopChan, S!CloseMsgChan
<1>3. ASSUME NEW m, SendAsync(m) PROVE stop' = stop /\ (panicked' => stop = "closed")
  BY <1>3, ConstantsAssumption
  DEF SendAsync, K!SendAsync, K!Produce, K!Refuse, K!ProduceOnClosed, S!SendAsync
<1>4. CASE SyncBundle
  BY <1>3, <1>4 DEF SyncBundle
<1>5. ASSUME NEW p \in Periodic, SetTicker(p)
      PROVE  panicked' => ~(intervals[p] > 0)
  BY <1>5 DEF SetTicker
<1>6. ASSUME NEW p \in Generics, SyncBundles(p)
      PROVE  \/ stop' = stop /\ (panicked' => stop = "closed")
             \/ stop' = stop /\ (panicked' => ~(intervals[p] > 0)) /\ UNCHANGED config
  <2>1. CASE gen[p] > lastSent[p]
    BY <1>3, <1>6, <2>1 DEF SyncBundles
  <2>2. CASE ~(gen[p] > lastSent[p])
    BY <1>5, <1>6, <2>2 DEF SyncBundles, ResolveSyncInterval, Periodic, channel, common
  <2> QED
    BY <2>1, <2>2
<1>7. ASSUME NEW p \in Periodic, AttemptCallback(p) PROVE UNCHANGED <<stop, panicked>>
  BY <1>7 DEF AttemptCallback, K!Attempt, K!producer
<1>8. ASSUME NEW p \in Periodic, NewTicker(p) \/ SendReturns(p)
      PROVE  stop' = stop /\ (panicked' => ~(intervals[p] > 0)) /\ UNCHANGED config
  BY <1>5, <1>8 DEF NewTicker, SendReturns, ResolveSyncInterval, channel, common
<1>9. CASE Transporting
  <2>1. CASE K!Work
    BY <2>1 DEF K!Work, K!Answer, K!Poll, K!ReceiveReport, K!HandleDeliveryReport, K!producer
  <2>2. CASE S!Work
    BY <2>2 DEF S!Work, S!Receive, S!ReceiveStop, S!ReceiveNil, S!UpdateObject, S!UpdateObjectData,
                S!Report
  <2> QED
    BY <1>9, <2>1, <2>2 DEF Transporting
<1>10. CASE \/ CreateManager \/ ManagerReturns \/ Exit \/ Lead \/ Cancel \/ ContextDone
            \/ ChangeConfigMap \/ ReconcileIntervals
            \/ \E p \in Generics : AddController(p) \/ UpdateBundle(p)
            \/ UNCHANGED vars
  BY <1>10 DEF CreateManager, ManagerReturns, Exit, Lead, Cancel, ContextDone, ChangeConfigMap,
               ReconcileIntervals, AddController, UpdateBundle, vars, channel, common
<1>11. Generics \subseteq Periodic
  BY DEF Periodic
<1> QED
  BY <1>1, <1>2, <1>4, <1>6, <1>7, <1>8, <1>9, <1>10, <1>11, Steps

\* The transport's type never changes.
LEMMA TransportStays == Spec => [](transport \in TransportTypes)
<1>1. Init => transport \in TransportTypes
  BY DEF Init
<1>2. ASSUME transport \in TransportTypes, [Next]_vars PROVE (transport \in TransportTypes)'
  <2>1. transport' = transport
    BY <1>2, Channels
  <2> QED
    BY <1>2, <2>1
<1> QED
  BY <1>1, <1>2, PTL DEF Spec

\* Only what a config map says makes a process panic that is not stopping its
\* transport: whichever transport it is, and wherever its goroutines are.
THEOREM PanicsExplained == Spec => []PanicsAreExplained
<1>1. Init => PanicsAreExplained
  BY DEF Init, PanicsAreExplained
<1>2. ASSUME transport \in TransportTypes, IntervalTypes, IntervalInv, PanicsAreExplained, [Next]_vars
      PROVE  PanicsAreExplained'
  <2>1. CASE panicked
    <3>1. UNCHANGED vars
      BY <1>2, <2>1, Steps
    <3> QED
      BY <1>2, <3>1 DEF PanicsAreExplained, vars, channel, common, config
  <2>2. CASE ~panicked
    <3>1. ASSUME NEW p \in Periodic, ~(intervals[p] > 0) PROVE unfit
      <4>1. p \in I!Keys
        BY ConstantsAssumption DEF Periodic, I!Keys
      <4> QED
        BY <1>2, <3>1, <4>1 DEF IntervalInv
    <3>2. panicked' => stop' # "no" \/ \E p \in Periodic : ~(intervals[p] > 0) /\ UNCHANGED config
      BY <1>2, <2>2, Panics
    <3> QED
      BY <3>1, <3>2 DEF PanicsAreExplained, config
  <2> QED
    BY <2>1, <2>2
<1> QED
  BY <1>1, <1>2, TransportStays, IntervalsInOrder, PTL DEF Spec

---------------------------------------------------------------------------
(* What both transports have in common: the messages that were handed      *)
(* over, what became of them, and which of them arrived.                   *)

EventNames == {"attempt", "success", "failure"}

\* The types of the messages, and their events and arrivals.
CommonTypes ==
    /\ handed \in Seq(Messages)
    /\ events \in Seq(Seq(EventNames)) /\ Len(events) = Len(handed)
    /\ arrived \in Seq(1..Len(handed))
    /\ errors \in 0..MaxErrors

ArrivedBefore(n) == \A i \in 1..Len(arrived) : arrived[i] < n

SucceededBefore(n) == \A i \in 1..Len(handed) : T!HasEvent(i, "success") => i < n

\* Messages arrive in the order in which they were handed over.
ArrivedInv == \A i, j \in 1..Len(arrived) : i < j => arrived[i] < arrived[j]

\* What the types say, in numbers.
LEMMA CommonLengths ==
  ASSUME CommonTypes
  PROVE  /\ Len(handed) \in Nat /\ Len(arrived) \in Nat
         /\ DOMAIN handed = 1..Len(handed) /\ DOMAIN events = 1..Len(handed)
         /\ DOMAIN arrived = 1..Len(arrived)
         /\ \A i \in 1..Len(handed) : events[i] \in Seq(EventNames) /\ Len(events[i]) \in Nat
         /\ \A i \in 1..Len(arrived) : arrived[i] \in 1..Len(handed) /\ arrived[i] \in Nat
BY LenProperties, ElementOfSeq DEF CommonTypes

\* A message is handed over: it is the last one, and no other changes.
LEMMA Handing ==
  ASSUME CommonTypes, NEW m \in Messages, NEW e \in {<<>>, <<"failure">>},
         handed' = Append(handed, m), events' = Append(events, e), arrived' = arrived,
         errors' \in 0..MaxErrors
  PROVE  /\ CommonTypes'
         /\ Len(handed') = Len(handed) + 1
         /\ \A i \in 1..Len(handed) : handed'[i] = handed[i] /\ events'[i] = events[i]
         /\ handed'[Len(handed) + 1] = m /\ events'[Len(handed) + 1] = e
<1>1. /\ handed \in Seq(Messages) /\ events \in Seq(Seq(EventNames)) /\ Len(events) = Len(handed)
      /\ Len(handed) \in Nat
  BY CommonLengths DEF CommonTypes
<1>2. e \in Seq(EventNames)
  <2>1. <<>> \in Seq(EventNames) /\ <<"failure">> \in Seq(EventNames)
    BY DEF EventNames
  <2> QED
    BY <2>1
<1>3. /\ handed' \in Seq(Messages) /\ Len(handed') = Len(handed) + 1
      /\ \A i \in 1..Len(handed) : handed'[i] = handed[i]
      /\ handed'[Len(handed) + 1] = m
  BY <1>1, AppendProperties
<1>4. /\ events' \in Seq(Seq(EventNames)) /\ Len(events') = Len(handed) + 1
      /\ \A i \in 1..Len(handed) : events'[i] = events[i]
      /\ events'[Len(handed) + 1] = e
  BY <1>1, <1>2, AppendProperties
<1>5. arrived' \in Seq(1..Len(handed'))
  <2>1. arrived \in Seq(1..Len(handed))
    BY DEF CommonTypes
  <2>2. \A i \in 1..Len(arrived) : arrived[i] \in 1..Len(handed')
    BY <1>1, <1>3, CommonLengths
  <2> QED
    BY <2>1, <2>2, CommonLengths
<1> QED
  BY <1>3, <1>4, <1>5 DEF CommonTypes

\* An event occurs for a message.
LEMMA Occurring ==
  ASSUME CommonTypes, NEW i \in 1..Len(handed), NEW e \in EventNames,
         events' = [events EXCEPT ![i] = Append(@, e)], handed' = handed, arrived' = arrived,
         errors' \in 0..MaxErrors
  PROVE  /\ CommonTypes'
         /\ events'[i] = Append(events[i], e)
         /\ \A j \in 1..Len(handed) : j # i => events'[j] = events[j]
         /\ \A j \in 1..Len(handed), f \in EventNames :
              T!HasEvent(j, f)' <=> (T!HasEvent(j, f) \/ (j = i /\ f = e))
<1>1. events \in Seq(Seq(EventNames)) /\ Len(events) = Len(handed) /\ Len(handed) \in Nat
  BY CommonLengths DEF CommonTypes
<1>2. /\ events[i] \in Seq(EventNames) /\ Len(events[i]) \in Nat
      /\ Append(events[i], e) \in Seq(EventNames)
      /\ Len(Append(events[i], e)) = Len(events[i]) + 1
      /\ \A k \in 1..Len(events[i]) : Append(events[i], e)[k] = events[i][k]
      /\ Append(events[i], e)[Len(events[i]) + 1] = e
  BY CommonLengths, AppendProperties
<1>3. /\ events' \in Seq(Seq(EventNames)) /\ Len(events') = Len(events)
      /\ events'[i] = Append(events[i], e)
      /\ \A j \in 1..Len(handed) : j # i => events'[j] = events[j]
  BY <1>1, <1>2, ExceptSeq
<1>4. ASSUME NEW j \in 1..Len(handed), NEW f \in EventNames
      PROVE  T!HasEvent(j, f)' <=> (T!HasEvent(j, f) \/ (j = i /\ f = e))
  <2>1. CASE j # i
    BY <1>3, <2>1 DEF T!HasEvent
  <2>2. CASE j = i
    <3>1. T!HasEvent(j, f)' <=> \E k \in 1..(Len(events[i]) + 1) : Append(events[i], e)[k] = f
      BY <1>2, <1>3, <2>2 DEF T!HasEvent, T!Contains
    <3>2. T!HasEvent(j, f) <=> \E k \in 1..Len(events[i]) : events[i][k] = f
      BY <2>2 DEF T!HasEvent, T!Contains
    <3> QED
      BY <1>2, <2>2, <3>1, <3>2
  <2> QED
    BY <2>1, <2>2
<1> QED
  BY <1>1, <1>3, <1>4 DEF CommonTypes

\* A message arrives, and is the last one that did.
LEMMA Arriving ==
  ASSUME CommonTypes, ArrivedInv, NEW n \in 1..Len(handed), ArrivedBefore(n),
         arrived' = Append(arrived, n), handed' = handed, events' = events,
         errors' \in 0..MaxErrors
  PROVE  /\ CommonTypes' /\ ArrivedInv'
         /\ \A m \in Nat : n < m => ArrivedBefore(m)'
         /\ \A m : T!Contains(arrived, m) \/ m = n => T!Contains(arrived, m)'
<1>1. arrived \in Seq(1..Len(handed)) /\ Len(arrived) \in Nat
  BY CommonLengths DEF CommonTypes
<1>2. /\ arrived' \in Seq(1..Len(handed)) /\ Len(arrived') = Len(arrived) + 1
      /\ \A i \in 1..Len(arrived) : arrived'[i] = arrived[i]
      /\ arrived'[Len(arrived) + 1] = n
  BY <1>1, AppendProperties
<1>3. ArrivedInv'
  <2>4. Len(arrived') = Len(arrived) + 1
    BY <1>2
  <2> SUFFICES ASSUME NEW i \in 1..(Len(arrived) + 1), NEW j \in 1..(Len(arrived) + 1), i < j
               PROVE  arrived'[i] < arrived'[j]
    BY <2>4 DEF ArrivedInv
  <2>1. i \in 1..Len(arrived) /\ arrived'[i] = arrived[i]
    BY <1>1, <1>2
  <2>2. CASE j \in 1..Len(arrived)
    BY <1>2, <2>1, <2>2 DEF ArrivedInv
  <2>3. CASE j = Len(arrived) + 1
    BY <1>2, <2>1, <2>3 DEF ArrivedBefore
  <2>5. j \in 1..Len(arrived) \/ j = Len(arrived) + 1
    <3>1. PICK n0 \in Nat : n0 = Len(arrived)
      BY <1>1
    <3> QED
      BY <3>1
  <2> QED
    BY <2>2, <2>3, <2>5
<1>4. ASSUME NEW m \in Nat, n < m PROVE ArrivedBefore(m)'
  <2>1. \A i \in 1..Len(arrived) : arrived[i] < n /\ arrived[i] \in Nat
    BY CommonLengths DEF ArrivedBefore
  <2>2. n \in Nat
    BY CommonLengths
  <2>3. \A i \in 1..Len(arrived) : arrived'[i] < m
    <3> SUFFICES ASSUME NEW i \in 1..Len(arrived) PROVE arrived'[i] < m
      OBVIOUS
    <3>1. arrived'[i] = arrived[i]
      BY <1>2
    <3>2. arrived[i] < n /\ arrived[i] \in Nat
      BY <2>1
    <3> QED
      BY <1>4, <2>2, <3>1, <3>2
  <2>4. arrived'[Len(arrived) + 1] < m
    BY <1>2, <1>4
  <2> QED
    BY <1>1, <1>2, <2>3, <2>4 DEF ArrivedBefore
<1>5. \A m : T!Contains(arrived, m) \/ m = n => T!Contains(arrived, m)'
  BY <1>1, <1>2 DEF T!Contains
<1> QED
  BY <1>2, <1>3, <1>4, <1>5 DEF CommonTypes

\* To hand a message over is a step of the abstract transport.
LEMMA HandStep ==
  ASSUME CommonTypes, NEW m \in Messages, NEW e \in {<<>>, <<"failure">>},
         handed' = Append(handed, m), events' = Append(events, e), arrived' = arrived
  PROVE  T!Next
<1>1. Len(handed) \in Nat /\ handed \in Seq(Messages)
  BY CommonLengths DEF CommonTypes
<1>2. /\ handed' \in Seq(Messages) /\ Len(handed') = Len(handed) + 1
      /\ \A i \in 1..Len(handed) : handed'[i] = handed[i]
  BY <1>1, AppendProperties
<1>3. T!Front(handed') = handed
  <2>1. SubSeq(handed', 1, Len(handed)) = handed
    BY <1>1
  <2> QED
    BY <1>1, <1>2, <2>1 DEF T!Front
<1>4. handed' # <<>>
  BY <1>1, <1>2
<1> QED
  BY <1>3, <1>4 DEF T!Hand, T!Next

\* So is it for a message to arrive that has no outcome yet.
LEMMA ArriveStep ==
  ASSUME CommonTypes, NEW n \in 1..Len(handed), ~T!HasOutcome(n), ArrivedBefore(n),
         arrived' = Append(arrived, n), handed' = handed, events' = events
  PROVE  T!Next
<1>1. DOMAIN handed = 1..Len(handed) /\ DOMAIN arrived = 1..Len(arrived)
  BY CommonLengths DEF CommonTypes
<1> QED
  BY <1>1 DEF T!Next, T!Arrive, ArrivedBefore

\* And so is the report of an event.
LEMMA ReportStep ==
  ASSUME CommonTypes, NEW i \in 1..Len(handed), NEW e \in EventNames,
         ~T!HasEvent(i, e), e # "attempt" => ~T!HasOutcome(i),
         e = "success" => T!Contains(arrived, i) /\ SucceededBefore(i),
         events' = [events EXCEPT ![i] = Append(@, e)], UNCHANGED <<handed, arrived>>
  PROVE  T!Next
<1>1. DOMAIN handed = 1..Len(handed)
  BY CommonLengths DEF CommonTypes
<1>2. T!Report(i, e)
  BY <1>1 DEF T!Report, T!Outcomes, SucceededBefore
<1> QED
  BY <1>1, <1>2 DEF T!Next, EventNames, T!Outcomes

---------------------------------------------------------------------------
(* The Edge Sync Service.                                                  *)

SyncTypes == worker \in S!WorkerSteps /\ stop \in S!StopSteps /\ taken \in 0..Len(handed)

Serving == {"object", "data", "success", "failure"}

\* No event has occurred for a message that waits to be received, and none of
\* those has arrived.  The message in the goroutine's hands has no outcome; it
\* has not arrived while it is being sent, and has if its success is reported.
SyncInv ==
    /\ \A i \in 1..Len(handed) : i > taken => events[i] = <<>>
    /\ ArrivedBefore(taken + 1)
    /\ worker \in {"object", "data"} => ArrivedBefore(taken)
    /\ worker \in Serving => taken >= 1 /\ ~T!HasOutcome(taken)
    /\ worker = "success" => T!Contains(arrived, taken)

\* A message waits to be received by sendMessages.
LEMMA SyncSend ==
  ASSUME CommonTypes, ArrivedInv, SyncTypes, SyncInv, NEW m \in Messages, S!SendAsync(m)
  PROVE  /\ CommonTypes' /\ ArrivedInv' /\ SyncTypes' /\ SyncInv'
         /\ T!Next \/ UNCHANGED T!vars
<1>1. CASE UNCHANGED <<handed, events>>
  <2>1. UNCHANGED <<handed, events, arrived, taken, worker, stop, errors>>
    BY <1>1 DEF S!SendAsync
  <2>2. CommonTypes' /\ ArrivedInv'
    BY <2>1 DEF CommonTypes, ArrivedInv
  <2>3. SyncTypes' /\ SyncInv'
    BY <2>1 DEF SyncTypes, SyncInv, ArrivedBefore, T!HasOutcome, T!HasEvent
  <2> QED
    BY <2>1, <2>2, <2>3 DEF T!vars
<1>2. CASE handed' = Append(handed, m) /\ events' = Append(events, <<>>)
  <2>1. UNCHANGED <<arrived, taken, worker, stop, errors>>
    BY DEF S!SendAsync
  <2>2. errors' \in 0..MaxErrors
    BY <2>1 DEF CommonTypes
  <2>3. /\ CommonTypes' /\ Len(handed') = Len(handed) + 1
        /\ \A i \in 1..Len(handed) : events'[i] = events[i]
        /\ events'[Len(handed) + 1] = <<>>
    BY <1>2, <2>1, <2>2, Handing
  <2>4. T!Next
    BY <1>2, <2>1, HandStep
  <2>5. ArrivedInv'
    BY <2>1 DEF ArrivedInv
  <2>6. Len(handed) \in Nat /\ taken \in 0..Len(handed)
    BY CommonLengths DEF SyncTypes
  <2>7. SyncTypes'
    BY <2>1, <2>3, <2>6 DEF SyncTypes
  <2>8. \A i \in 1..Len(handed') : i > taken' => events'[i] = <<>>
    BY <2>1, <2>3, <2>6 DEF SyncInv
  <2>9. worker' \in Serving => taken' >= 1 /\ ~T!HasOutcome(taken)'
    <3>1. taken >= 1 => events'[taken] = events[taken]
      BY <2>3, <2>6
    <3> QED
      BY <2>1, <3>1 DEF SyncInv, T!HasOutcome, T!HasEvent
  <2> QED
    BY <2>1, <2>3, <2>4, <2>5, <2>7, <2>8, <2>9 DEF SyncInv, ArrivedBefore
<1> QED
  BY <1>1, <1>2 DEF S!SendAsync

\* sendMessages receives a message, and its attempt is reported.
LEMMA SyncReceive ==
  ASSUME CommonTypes, ArrivedInv, SyncTypes, SyncInv, S!Receive
  PROVE  CommonTypes' /\ ArrivedInv' /\ SyncTypes' /\ SyncInv' /\ T!Next
<1>1. /\ worker = "select" /\ taken < Len(handed) /\ taken' = taken + 1 /\ worker' = "object"
      /\ events' = [events EXCEPT ![taken + 1] = Append(@, "attempt")]
      /\ UNCHANGED <<handed, arrived, stop, errors>>
  BY DEF S!Receive, S!Occurs
<1>2. Len(handed) \in Nat /\ taken \in 0..Len(handed) /\ taken + 1 \in 1..Len(handed)
  BY <1>1, CommonLengths DEF SyncTypes
<1>3. events[taken + 1] = <<>>
  BY <1>2 DEF SyncInv
<1>4. \A f : ~T!HasEvent(taken + 1, f)
  BY <1>3 DEF T!HasEvent, T!Contains
<1>5. "attempt" \in EventNames /\ errors' \in 0..MaxErrors
  BY <1>1 DEF EventNames, CommonTypes
<1>6. /\ CommonTypes'
      /\ events'[taken + 1] = Append(events[taken + 1], "attempt")
      /\ \A j \in 1..Len(handed) : j # taken + 1 => events'[j] = events[j]
  BY <1>1, <1>2, <1>5, Occurring
<1>7. T!Next
  BY <1>1, <1>2, <1>4, <1>5, ReportStep
<1>8. ~T!HasOutcome(taken)'
  <2>1. events'[taken'] = <<"attempt">>
    BY <1>1, <1>3, <1>6
  <2> QED
    BY <2>1 DEF T!HasOutcome, T!Outcomes, T!HasEvent, T!Contains
<1>9. SyncTypes'
  BY <1>1, <1>2 DEF SyncTypes, S!WorkerSteps
<1>10. \A i \in 1..Len(handed') : i > taken' => events'[i] = <<>>
  BY <1>1, <1>2, <1>6 DEF SyncInv
<1>11. ArrivedBefore(taken)' /\ ArrivedBefore(taken + 1)'
  <2>1. \A i \in 1..Len(arrived) : arrived[i] \in Nat /\ arrived[i] < taken + 1
    BY CommonLengths DEF SyncInv, ArrivedBefore
  <2> QED
    BY <1>1, <1>2, <2>1 DEF ArrivedBefore
<1>12. ArrivedInv'
  BY <1>1 DEF ArrivedInv
<1>13. SyncInv'
  BY <1>1, <1>2, <1>8, <1>10, <1>11 DEF SyncInv
<1> QED
  BY <1>6, <1>7, <1>9, <1>12, <1>13

\* The goroutine returns, panics, or goes on without sending; so do Start and
\* Stop.
LEMMA SyncMoves ==
  ASSUME CommonTypes, ArrivedInv, SyncTypes, SyncInv,
         S!Start \/ S!ReceiveStop \/ S!ReceiveNil \/ S!UpdateObject \/ S!Stop
  PROVE  /\ CommonTypes' /\ ArrivedInv' /\ SyncTypes' /\ SyncInv'
         /\ UNCHANGED T!vars
<1>1. /\ UNCHANGED <<handed, events, arrived, taken>>
      /\ errors' = errors \/ (errors < MaxErrors /\ errors' = errors + 1)
  BY DEF S!Start, S!ReceiveStop, S!ReceiveNil, S!UpdateObject, S!Stop, S!Fail
<1>2. /\ \/ worker' = worker \/ worker' \in {"select", "returned"}
         \/ (worker = "object" /\ worker' \in {"data", "failure"})
      /\ stop' \in S!StopSteps
  BY DEF S!Start, S!ReceiveStop, S!ReceiveNil, S!UpdateObject, S!Stop, S!Fail,
         S!PutToken, S!CloseStopChan, S!CloseMsgChan, SyncTypes, S!StopSteps
<1>3. errors' \in 0..MaxErrors
  BY <1>1, ConstantsAssumption DEF CommonTypes
<1>4. CommonTypes' /\ ArrivedInv'
  BY <1>1, <1>3 DEF CommonTypes, ArrivedInv
<1>5. SyncTypes'
  BY <1>1, <1>2 DEF SyncTypes, S!WorkerSteps
<1>6. SyncInv'
  BY <1>1, <1>2 DEF SyncInv, Serving, ArrivedBefore, T!HasOutcome, T!HasEvent
<1> QED
  BY <1>1, <1>4, <1>5, <1>6 DEF T!vars

\* The data are sent, and arrive or not.
LEMMA SyncUpdateData ==
  ASSUME CommonTypes, ArrivedInv, SyncTypes, SyncInv, S!UpdateObjectData
  PROVE  /\ CommonTypes' /\ ArrivedInv' /\ SyncTypes' /\ SyncInv'
         /\ T!Next \/ UNCHANGED T!vars
<1>1. /\ worker = "data" /\ worker' \in {"success", "failure"}
      /\ worker' = "success" => arrived' = Append(arrived, taken)
      /\ arrived' = arrived \/ arrived' = Append(arrived, taken)
      /\ errors' = errors \/ (errors < MaxErrors /\ errors' = errors + 1)
      /\ UNCHANGED <<handed, events, taken, stop>>
  BY DEF S!UpdateObjectData, S!Fail
<1>2. errors' \in 0..MaxErrors
  BY <1>1, ConstantsAssumption DEF CommonTypes
<1>3. /\ Len(handed) \in Nat /\ taken \in 1..Len(handed) /\ ~T!HasOutcome(taken) /\ ArrivedBefore(taken)
  BY <1>1, CommonLengths DEF SyncTypes, SyncInv, Serving
<1>4. SyncTypes'
  BY <1>1 DEF SyncTypes, S!WorkerSteps
<1>5. /\ \A i \in 1..Len(handed') : i > taken' => events'[i] = <<>>
      /\ worker' \in Serving => taken' >= 1 /\ ~T!HasOutcome(taken)'
  BY <1>1, <1>3 DEF SyncInv, Serving, T!HasOutcome, T!HasEvent
<1>6. CASE arrived' = arrived
  <2>1. CommonTypes' /\ ArrivedInv'
    BY <1>1, <1>2, <1>6 DEF CommonTypes, ArrivedInv
  <2>2. worker' # "success"
    <3>1. arrived \in Seq(1..Len(handed)) /\ Len(arrived) \in Nat
      BY CommonLengths DEF CommonTypes
    <3>2. Len(Append(arrived, taken)) # Len(arrived)
      BY <1>3, <3>1, AppendProperties
    <3> QED
      BY <1>1, <1>6, <3>2
  <2>3. SyncInv'
    BY <1>1, <1>5, <1>6, <2>2 DEF SyncInv, ArrivedBefore
  <2> QED
    BY <1>1, <1>4, <1>6, <2>1, <2>3 DEF T!vars
<1>7. CASE arrived' = Append(arrived, taken)
  <2>1. /\ CommonTypes' /\ ArrivedInv'
        /\ \A m \in Nat : taken < m => ArrivedBefore(m)'
        /\ \A m : T!Contains(arrived, m) \/ m = taken => T!Contains(arrived, m)'
    BY <1>1, <1>2, <1>3, <1>7, Arriving
  <2>2. T!Next
    BY <1>1, <1>3, <1>7, ArriveStep
  <2>3. ArrivedBefore(taken + 1)'
    BY <1>1, <1>3, <2>1 DEF ArrivedBefore
  <2>4. T!Contains(arrived, taken)'
    BY <1>1, <2>1 DEF T!Contains
  <2>5. SyncInv'
    BY <1>1, <1>5, <2>3, <2>4 DEF SyncInv
  <2> QED
    BY <1>4, <2>1, <2>2, <2>5
<1> QED
  BY <1>1, <1>6, <1>7

\* The outcome is reported, and sendMessages waits for the next message.
LEMMA SyncReport ==
  ASSUME CommonTypes, ArrivedInv, SyncTypes, SyncInv, S!Report
  PROVE  CommonTypes' /\ ArrivedInv' /\ SyncTypes' /\ SyncInv' /\ T!Next
<1>1. /\ worker \in {"success", "failure"} /\ worker' = "select"
      /\ events' = [events EXCEPT ![taken] = Append(@, worker)]
      /\ UNCHANGED <<handed, arrived, taken, stop, errors>>
  BY DEF S!Report, S!Occurs
<1>2. Len(handed) \in Nat /\ taken \in 1..Len(handed) /\ ~T!HasOutcome(taken)
  BY <1>1, CommonLengths DEF SyncTypes, SyncInv, Serving
<1>3. worker \in EventNames /\ errors' \in 0..MaxErrors
  BY <1>1 DEF EventNames, CommonTypes
<1>4. /\ CommonTypes'
      /\ \A j \in 1..Len(handed) : j # taken => events'[j] = events[j]
  BY <1>1, <1>2, <1>3, Occurring
<1>5. SucceededBefore(taken)
  <2> SUFFICES ASSUME NEW i \in 1..Len(handed), T!HasEvent(i, "success") PROVE i < taken
    BY DEF SucceededBefore
  <2>1. i # taken
    BY <1>2 DEF T!HasOutcome, T!Outcomes
  <2>2. events[i] # <<>>
    BY DEF T!HasEvent, T!Contains
  <2> QED
    BY <1>2, <2>1, <2>2 DEF SyncInv
<1>6. ~T!HasEvent(taken, worker)
  BY <1>1, <1>2 DEF T!HasOutcome, T!Outcomes
<1>7. worker = "success" => T!Contains(arrived, taken)
  BY DEF SyncInv
<1>8. T!Next
  BY <1>1, <1>2, <1>3, <1>5, <1>6, <1>7, ReportStep
<1>9. SyncTypes'
  BY <1>1 DEF SyncTypes, S!WorkerSteps
<1>10. ArrivedInv'
  BY <1>1 DEF ArrivedInv
<1>11. SyncInv'
  BY <1>1, <1>2, <1>4 DEF SyncInv, Serving, ArrivedBefore
<1> QED
  BY <1>4, <1>8, <1>9, <1>10, <1>11

---------------------------------------------------------------------------
(* The Kafka producer.                                                     *)

Known == 1..Len(handed)

KafkaTypes ==
    /\ worker \in K!WorkerSteps
    /\ stop \in K!StopSteps
    /\ queue \in Seq([msg : Known, answer : K!Answers])
    /\ report \in {K!NoReport} \cup [msg : Known, answer : T!Outcomes]
    /\ attempts \subseteq Known
    /\ poller \in {"poll", "deliver", "gone"}

\* A report may be given: its message has no outcome, none that was handed
\* over later is reported as delivered, and a success is told of what arrived.
Due(r) ==
    /\ ~T!HasOutcome(r.msg) /\ SucceededBefore(r.msg)
    /\ r.answer = "success" => T!Contains(arrived, r.msg)

\* The client owes the reports in the order of the messages, all of them are
\* due, and what is not answered has not arrived, nor has anything after it.
QueueInv ==
    /\ \A j, k \in 1..Len(queue) : j < k => queue[j].msg < queue[k].msg
    /\ \A k \in 1..Len(queue) :
         Due(queue[k]) /\ (queue[k].answer = "pending" => ArrivedBefore(queue[k].msg))

\* The poller delivers a report that it has, and the one in the handler's
\* hands is due and comes before all others.
ReportInv ==
    /\ poller = "deliver" => queue # <<>> /\ queue[1].answer # "pending"
    /\ worker = "callback" =>
         /\ report.msg \in Known /\ report.answer \in T!Outcomes
         /\ Due(report)
         /\ \A k \in 1..Len(queue) : report.msg < queue[k].msg

AttemptInv == \A i \in attempts : ~T!HasEvent(i, "attempt")

KafkaInv == QueueInv /\ ReportInv /\ AttemptInv

\* A sequence is one of whatever its elements are.
LEMMA SequenceOf ==
  ASSUME NEW A, NEW B, NEW q \in Seq(A), \A k \in 1..Len(q) : q[k] \in B
  PROVE  q \in Seq(B)
<1>1. Len(q) \in Nat /\ q = [k \in 1..Len(q) |-> q[k]]
  BY LenProperties
<1> QED
  BY <1>1

\* What the queue's type says of its reports.
LEMMA QueueTypes ==
  ASSUME CommonTypes, KafkaTypes
  PROVE  /\ Len(queue) \in Nat /\ Len(handed) \in Nat
         /\ \A k \in 1..Len(queue) :
              /\ queue[k] \in [msg : Known, answer : K!Answers]
              /\ queue[k].msg \in Known /\ queue[k].msg \in Nat
<1>1. Len(queue) \in Nat /\ \A k \in 1..Len(queue) : queue[k] \in [msg : Known, answer : K!Answers]
  BY LenProperties, ElementOfSeq DEF KafkaTypes
<1> QED
  BY <1>1, CommonLengths DEF Known

\* To hand a message over changes no report that is due, and no attempt.
LEMMA HandingDue ==
  ASSUME CommonTypes, NEW m \in Messages, NEW e \in {<<>>, <<"failure">>},
         handed' = Append(handed, m), events' = Append(events, e), arrived' = arrived,
         errors' \in 0..MaxErrors, NEW n, n = Len(handed) + 1
  PROVE  /\ \A r : r.msg \in Known /\ Due(r) => Due(r)'
         /\ \A i \in Known : T!HasEvent(i, "attempt")' <=> T!HasEvent(i, "attempt")
         /\ e = <<>> => /\ Due([msg |-> n, answer |-> "pending"])'
                        /\ ArrivedBefore(n)'
                        /\ ~T!HasEvent(n, "attempt")'
<1>1. /\ Len(handed) \in Nat /\ Len(handed') = Len(handed) + 1
      /\ \A i \in 1..Len(handed) : events'[i] = events[i]
      /\ events'[Len(handed) + 1] = e
  BY Handing, CommonLengths
<1>2. ASSUME NEW i \in 1..Len(handed), NEW f PROVE T!HasEvent(i, f)' <=> T!HasEvent(i, f)
  BY <1>1, <1>2 DEF T!HasEvent
<1>3. ~T!HasEvent(n, "success")'
  BY <1>1 DEF T!HasEvent, T!Contains
<1>4. ASSUME NEW i \in 1..Len(handed), ~T!HasOutcome(i) PROVE ~T!HasOutcome(i)'
  BY <1>2, <1>4 DEF T!HasOutcome
<1>5. ASSUME NEW j \in 1..Len(handed), SucceededBefore(j) PROVE SucceededBefore(j)'
  <2> SUFFICES ASSUME NEW i \in 1..Len(handed'), T!HasEvent(i, "success")' PROVE i < j
    BY DEF SucceededBefore
  <2>1. i \in 1..Len(handed)
    BY <1>1, <1>3
  <2> QED
    BY <1>2, <1>5, <2>1 DEF SucceededBefore
<1>6. ASSUME NEW r, r.msg \in Known, Due(r) PROVE Due(r)'
  <2>1. PICK j \in 1..Len(handed) : j = r.msg
    BY <1>6 DEF Known
  <2>2. ~T!HasOutcome(j) /\ SucceededBefore(j)
    BY <1>6, <2>1 DEF Due
  <2>3. ~T!HasOutcome(j)' /\ SucceededBefore(j)'
    BY <1>4, <1>5, <2>2
  <2> QED
    BY <1>6, <2>1, <2>3 DEF Due
<1>7. ASSUME e = <<>>
      PROVE  /\ Due([msg |-> n, answer |-> "pending"])'
             /\ ArrivedBefore(n)'
             /\ ~T!HasEvent(n, "attempt")'
  <2>2. \A f : ~T!HasEvent(n, f)'
    BY <1>1, <1>7 DEF T!HasEvent, T!Contains
  <2>3. ~T!HasOutcome(n)'
    BY <2>2 DEF T!HasOutcome
  <2>4. SucceededBefore(n)'
    BY <1>1, <1>3 DEF SucceededBefore
  <2>5. ArrivedBefore(n)'
    BY <1>1, CommonLengths DEF ArrivedBefore
  <2>6. Due([msg |-> n, answer |-> "pending"])'
    BY <2>3, <2>4 DEF Due
  <2> QED
    BY <2>2, <2>5, <2>6
<1> QED
  BY <1>2, <1>6, <1>7 DEF Known

\* Nor does an attempt that is reported, or an outcome of an earlier message.
LEMMA OccurringDue ==
  ASSUME CommonTypes, NEW i \in Known, NEW e \in EventNames,
         events' = [events EXCEPT ![i] = Append(@, e)], handed' = handed, arrived' = arrived,
         errors' \in 0..MaxErrors,
         NEW r, r.msg \in Known, Due(r), e = "attempt" \/ i < r.msg
  PROVE  Due(r)'
<1>1. PICK n \in 1..Len(handed) : n = r.msg
  BY DEF Known
<1>2. ASSUME NEW j \in 1..Len(handed), NEW f \in EventNames
      PROVE  T!HasEvent(j, f)' <=> (T!HasEvent(j, f) \/ (j = i /\ f = e))
  BY Occurring DEF Known
<1>3. ~T!HasOutcome(n) /\ SucceededBefore(n) /\ (e = "attempt" \/ i < n)
  BY <1>1 DEF Due
<1>4. ~T!HasOutcome(n)'
  <2>1. ASSUME NEW f \in {"success", "failure"} PROVE ~T!HasEvent(n, f)'
    <3>1. ~T!HasEvent(n, f) /\ f \in EventNames
      BY <1>3 DEF T!HasOutcome, T!Outcomes, EventNames
    <3> QED
      BY <1>2, <1>3, <3>1
  <2> QED
    BY <2>1 DEF T!HasOutcome, T!Outcomes
<1>5. SucceededBefore(n)'
  <2> SUFFICES ASSUME NEW j \in 1..Len(handed), T!HasEvent(j, "success")' PROVE j < n
    BY DEF SucceededBefore
  <2>1. T!HasEvent(j, "success") \/ (j = i /\ e = "success")
    BY <1>2 DEF EventNames
  <2> QED
    BY <1>3, <2>1 DEF SucceededBefore
<1> QED
  BY <1>1, <1>4, <1>5 DEF Due

\* SendAsync leaves a message with the client, or refuses it, or panics.
LEMMA KafkaSend ==
  ASSUME CommonTypes, ArrivedInv, KafkaTypes, KafkaInv, NEW m \in Messages, K!SendAsync(m)
  PROVE  /\ CommonTypes' /\ ArrivedInv' /\ KafkaTypes' /\ KafkaInv'
         /\ T!Next \/ UNCHANGED T!vars
<1>1. /\ UNCHANGED <<arrived, report, worker, stop, poller>>
      /\ errors' = errors \/ (errors < MaxErrors /\ errors' = errors + 1)
  BY DEF K!SendAsync, K!Produce, K!Refuse, K!ProduceOnClosed
<1>2. errors' \in 0..MaxErrors
  BY <1>1, ConstantsAssumption DEF CommonTypes
<1>3. PICK n \in Nat : n = Len(handed) + 1
  BY CommonLengths
<1>4. \/ UNCHANGED <<handed, events, queue, attempts>>
      \/ \E e \in {<<>>, <<"failure">>} :
           /\ handed' = Append(handed, m) /\ events' = Append(events, e)
           /\ \/ UNCHANGED <<queue, attempts>>
              \/ /\ e = <<>> /\ attempts' = attempts \cup {n}
                 /\ queue' = Append(queue, [msg |-> n, answer |-> "pending"])
  BY <1>3 DEF K!SendAsync, K!Produce, K!Refuse, K!ProduceOnClosed, K!Hand
<1>5. CASE UNCHANGED <<handed, events, queue, attempts>>
  <2>1. CommonTypes' /\ ArrivedInv'
    BY <1>1, <1>2, <1>5 DEF CommonTypes, ArrivedInv
  <2>2. KafkaTypes' /\ KafkaInv'
    BY <1>1, <1>5 DEF KafkaTypes, KafkaInv, QueueInv, ReportInv, AttemptInv, Known, Due,
       ArrivedBefore, SucceededBefore, T!HasOutcome, T!HasEvent
  <2> QED
    BY <1>1, <1>5, <2>1, <2>2 DEF T!vars
<1>6. ASSUME NEW e \in {<<>>, <<"failure">>},
             handed' = Append(handed, m), events' = Append(events, e)
      PROVE  /\ CommonTypes' /\ ArrivedInv' /\ T!Next
             /\ Len(handed) \in Nat /\ Len(handed') = n
             /\ \A r : r.msg \in Known /\ Due(r) => Due(r)'
             /\ \A i \in Known : T!HasEvent(i, "attempt")' <=> T!HasEvent(i, "attempt")
             /\ e = <<>> => /\ Due([msg |-> n, answer |-> "pending"])'
                            /\ ArrivedBefore(n)'
                            /\ ~T!HasEvent(n, "attempt")'
  <2>1. CommonTypes' /\ Len(handed') = n
    BY <1>1, <1>2, <1>3, <1>6, Handing
  <2>2. ArrivedInv'
    BY <1>1 DEF ArrivedInv
  <2>3. T!Next
    BY <1>1, <1>6, HandStep
  <2> QED
    BY <1>1, <1>2, <1>3, <1>6, <2>1, <2>2, <2>3, HandingDue, CommonLengths
<1>7. /\ Len(queue) \in Nat
      /\ \A k \in 1..Len(queue) :
           /\ queue[k] \in [msg : Known, answer : K!Answers]
           /\ queue[k].msg \in Known /\ queue[k].msg \in Nat
  BY QueueTypes
<1>8. ASSUME NEW e \in {<<>>, <<"failure">>},
             handed' = Append(handed, m), events' = Append(events, e), UNCHANGED <<queue, attempts>>
      PROVE  KafkaTypes' /\ KafkaInv'
  <2>1. Known \subseteq Known'
    BY <1>3, <1>6, <1>8 DEF Known
  <2>2. queue \in Seq([msg : Known', answer : K!Answers])
    <3>1. \A k \in 1..Len(queue) : queue[k] \in [msg : Known', answer : K!Answers]
      BY <1>7, <2>1
    <3>2. queue \in Seq([msg : Known, answer : K!Answers])
      BY DEF KafkaTypes
    <3> QED
      BY <3>1, <3>2, SequenceOf
  <2>3. KafkaTypes'
    BY <1>1, <1>8, <2>1, <2>2 DEF KafkaTypes
  <2>4. ASSUME NEW k \in 1..Len(queue)
        PROVE  /\ Due(queue[k])' /\ (queue[k].answer = "pending" => ArrivedBefore(queue[k].msg)')
    BY <1>1, <1>6, <1>7, <1>8 DEF KafkaInv, QueueInv, ArrivedBefore
  <2>5. QueueInv'
    BY <1>8, <2>4 DEF KafkaInv, QueueInv
  <2>6. ReportInv'
    BY <1>1, <1>6, <1>8, <2>1 DEF KafkaInv, ReportInv
  <2>7. AttemptInv'
    BY <1>6, <1>8 DEF KafkaInv, AttemptInv, KafkaTypes
  <2> QED
    BY <2>3, <2>5, <2>6, <2>7 DEF KafkaInv
<1>9. ASSUME handed' = Append(handed, m), events' = Append(events, <<>>),
             attempts' = attempts \cup {n},
             queue' = Append(queue, [msg |-> n, answer |-> "pending"])
      PROVE  KafkaTypes' /\ KafkaInv'
  <2>1. Known' = Known \cup {n} /\ \A i \in Known : i < n
    BY <1>3, <1>6, <1>9 DEF Known
  <2>2. PICK last \in [msg : Known', answer : K!Answers] : last = [msg |-> n, answer |-> "pending"]
    BY <2>1 DEF K!Answers
  <2>3. queue \in Seq([msg : Known', answer : K!Answers])
    <3>1. \A k \in 1..Len(queue) : queue[k] \in [msg : Known', answer : K!Answers]
      BY <1>7, <2>1
    <3>2. queue \in Seq([msg : Known, answer : K!Answers])
      BY DEF KafkaTypes
    <3> QED
      BY <3>1, <3>2, SequenceOf
  <2>4. /\ queue' \in Seq([msg : Known', answer : K!Answers])
        /\ Len(queue') = Len(queue) + 1
        /\ \A k \in 1..Len(queue) : queue'[k] = queue[k]
        /\ queue'[Len(queue) + 1] = last
    BY <1>9, <2>2, <2>3, AppendProperties
  <2>5. KafkaTypes'
    BY <1>1, <1>9, <2>1, <2>4 DEF KafkaTypes
  <2>6. /\ Due(last)' /\ ArrivedBefore(n)' /\ ~T!HasEvent(n, "attempt")'
        /\ last.msg = n
    BY <1>6, <1>9, <2>2
  <2>7. ASSUME NEW k \in 1..Len(queue)
        PROVE  Due(queue[k])' /\ (queue[k].answer = "pending" => ArrivedBefore(queue[k].msg)')
    BY <1>1, <1>6, <1>7, <1>9 DEF KafkaInv, QueueInv, ArrivedBefore
  <2>8. QueueInv'
    <3>1. ASSUME NEW j \in 1..Len(queue'), NEW k \in 1..Len(queue'), j < k
          PROVE  queue'[j].msg < queue'[k].msg
      <4>1. j \in 1..Len(queue) /\ queue'[j].msg = queue[j].msg /\ queue[j].msg < n
        <5>1. j \in 1..Len(queue)
          BY <1>7, <2>4, <3>1
        <5> QED
          BY <1>7, <2>1, <2>4, <5>1
      <4>2. CASE k \in 1..Len(queue)
        BY <2>4, <3>1, <4>1, <4>2 DEF KafkaInv, QueueInv
      <4>3. CASE k = Len(queue) + 1
        BY <2>4, <2>6, <4>1, <4>3
      <4> QED
        BY <1>7, <2>4, <4>2, <4>3
    <3>2. ASSUME NEW k \in 1..Len(queue')
          PROVE  Due(queue[k])' /\ (queue'[k].answer = "pending" => ArrivedBefore(queue[k].msg)')
      <4>1. CASE k \in 1..Len(queue)
        <5>1. queue'[k] = queue[k]
          BY <2>4, <4>1
        <5> QED
          BY <2>7, <4>1, <5>1 DEF Due, ArrivedBefore, SucceededBefore, T!HasOutcome, T!HasEvent
      <4>2. CASE k = Len(queue) + 1
        <5>1. queue'[k] = last
          BY <2>4, <4>2
        <5> QED
          BY <2>6, <5>1 DEF Due, ArrivedBefore, SucceededBefore, T!HasOutcome, T!HasEvent
      <4> QED
        BY <1>7, <2>4, <4>1, <4>2
    <3> QED
      BY <3>1, <3>2 DEF QueueInv
  <2>9. ReportInv'
    <3>1. poller' = "deliver" => queue' # <<>> /\ queue'[1].answer # "pending"
      <4>1. ASSUME poller = "deliver" PROVE queue # <<>> /\ queue[1].answer # "pending"
        BY <4>1 DEF KafkaInv, ReportInv
      <4>2. queue # <<>> => 1 \in 1..Len(queue)
        BY <1>7, EmptySeq DEF KafkaTypes
      <4> QED
        BY <1>1, <1>7, <2>4, <4>1, <4>2, EmptySeq
    <3>2. ASSUME worker' = "callback"
          PROVE  /\ report.msg \in Known' /\ report.answer \in T!Outcomes
                 /\ Due(report)'
                 /\ \A k \in 1..Len(queue') : report.msg < queue'[k].msg
      BY <1>1, <1>6, <1>7, <1>9, <2>1, <2>4, <2>6, <3>2 DEF KafkaInv, ReportInv
    <3> QED
      BY <1>1, <3>1, <3>2 DEF ReportInv
  <2>10. AttemptInv'
    BY <1>6, <1>9, <2>6 DEF KafkaInv, AttemptInv, KafkaTypes
  <2> QED
    BY <2>5, <2>8, <2>9, <2>10 DEF KafkaInv
<1> QED
  BY <1>4, <1>5, <1>6, <1>8, <1>9

\* The handler or the poller goes on without a message; so do Start and Stop.
LEMMA KafkaMoves ==
  ASSUME CommonTypes, ArrivedInv, KafkaTypes, KafkaInv, K!Start \/ K!Poll \/ K!Stop
  PROVE  /\ CommonTypes' /\ ArrivedInv' /\ KafkaTypes' /\ KafkaInv'
         /\ UNCHANGED T!vars
<1>1. UNCHANGED <<handed, events, arrived, attempts, queue, report, errors>>
  BY DEF K!Start, K!Poll, K!Stop, K!client
<1>2. /\ worker' = worker \/ worker' \in {"select", "returned"}
      /\ \/ poller' = poller \/ poller' = "gone"
         \/ (poller' = "deliver" /\ queue # <<>> /\ Head(queue).answer # "pending")
      /\ stop' \in K!StopSteps
  BY DEF K!Start, K!Poll, K!Stop, K!client, K!HandToken, K!CloseDeliveryChan, K!CloseClient,
         KafkaTypes, K!StopSteps
<1>3. CommonTypes' /\ ArrivedInv'
  BY <1>1 DEF CommonTypes, ArrivedInv
<1>4. KafkaTypes'
  BY <1>1, <1>2 DEF KafkaTypes, Known, K!WorkerSteps
<1>5. QueueInv' /\ AttemptInv'
  BY <1>1 DEF KafkaInv, QueueInv, AttemptInv, Due, ArrivedBefore, SucceededBefore,
              T!HasOutcome, T!HasEvent
<1>6. ReportInv'
  <2>1. queue # <<>> => Head(queue) = queue[1]
    BY HeadTailProperties DEF KafkaTypes
  <2>2. poller' = "deliver" => queue # <<>> /\ queue[1].answer # "pending"
    BY <1>2, <2>1 DEF KafkaInv, ReportInv
  <2> QED
    BY <1>1, <1>2, <2>2 DEF KafkaInv, ReportInv, Known, Due, ArrivedBefore, SucceededBefore,
                            T!HasOutcome, T!HasEvent
<1> QED
  BY <1>1, <1>3, <1>4, <1>5, <1>6 DEF KafkaInv, T!vars

\* The attempt of a message is reported.
LEMMA KafkaAttempt ==
  ASSUME CommonTypes, ArrivedInv, KafkaTypes, KafkaInv, NEW i, K!Attempt(i)
  PROVE  CommonTypes' /\ ArrivedInv' /\ KafkaTypes' /\ KafkaInv' /\ T!Next
<1>1. /\ i \in attempts /\ attempts' = attempts \ {i}
      /\ events' = [events EXCEPT ![i] = Append(@, "attempt")]
      /\ UNCHANGED <<handed, arrived, report, errors, worker, stop, panicked, queue, poller>>
  BY DEF K!Attempt, K!InvokeCallback, K!producer, K!client
<1>2. i \in 1..Len(handed) /\ i \in Known
  BY <1>1 DEF KafkaTypes, Known
<1>3. "attempt" \in EventNames /\ errors' \in 0..MaxErrors
  BY <1>1 DEF EventNames, CommonTypes
<1>4. /\ CommonTypes'
      /\ \A j \in 1..Len(handed) : j # i => events'[j] = events[j]
  BY <1>1, <1>2, <1>3, Occurring
<1>5. T!Next
  <2>1. ~T!HasEvent(i, "attempt")
    BY <1>1 DEF KafkaInv, AttemptInv
  <2> QED
    BY <1>1, <1>2, <1>3, <2>1, ReportStep
<1>6. \A r : r.msg \in Known /\ Due(r) => Due(r)'
  BY <1>1, <1>2, <1>3, OccurringDue
<1>7. ArrivedInv' /\ KafkaTypes'
  BY <1>1 DEF ArrivedInv, KafkaTypes, Known
<1>8. QueueInv'
  <2>1. ASSUME NEW k \in 1..Len(queue) PROVE Due(queue[k])'
    <3>1. PICK r : r = queue[k]
      OBVIOUS
    <3>2. Due(r) /\ r.msg \in Known
      BY <3>1, QueueTypes DEF KafkaInv, QueueInv
    <3> QED
      BY <1>1, <1>6, <3>1, <3>2
  <2> QED
    BY <1>1, <2>1 DEF KafkaInv, QueueInv, ArrivedBefore
<1>9. ReportInv'
  <2>1. worker = "callback" => Due(report)'
    <3>1. PICK r : r = report
      OBVIOUS
    <3> QED
      BY <1>1, <1>6, <3>1 DEF KafkaInv, ReportInv
  <2> QED
    BY <1>1, <2>1 DEF KafkaInv, ReportInv, Known
<1>10. AttemptInv'
  <2> SUFFICES ASSUME NEW j \in attempts, j # i PROVE ~T!HasEvent(j, "attempt")'
    BY <1>1 DEF AttemptInv
  <2>1. j \in 1..Len(handed) /\ ~T!HasEvent(j, "attempt")
    BY DEF KafkaTypes, Known, KafkaInv, AttemptInv
  <2> QED
    BY <1>4, <2>1 DEF T!HasEvent
<1> QED
  BY <1>4, <1>5, <1>7, <1>8, <1>9, <1>10 DEF KafkaInv

\* The handler takes the report that the poller delivers.
LEMMA KafkaReceive ==
  ASSUME CommonTypes, ArrivedInv, KafkaTypes, KafkaInv, K!ReceiveReport
  PROVE  CommonTypes' /\ ArrivedInv' /\ KafkaTypes' /\ KafkaInv' /\ UNCHANGED T!vars
<1>1. /\ poller = "deliver" /\ worker' = "callback" /\ poller' = "poll"
      /\ report' = Head(queue) /\ queue' = Tail(queue)
      /\ UNCHANGED <<handed, events, arrived, attempts, errors, stop>>
  BY DEF K!ReceiveReport
<1>2. queue # <<>> /\ queue[1].answer # "pending"
  BY <1>1 DEF KafkaInv, ReportInv
<1>3. /\ Head(queue) = queue[1] /\ Tail(queue) \in Seq([msg : Known, answer : K!Answers])
      /\ Len(queue) \in Nat /\ 1 \in 1..Len(queue) /\ Len(Tail(queue)) = Len(queue) - 1
      /\ \A k \in 1..Len(Tail(queue)) : k + 1 \in 1..Len(queue) /\ Tail(queue)[k] = queue[k + 1]
  <2>1. queue \in Seq([msg : Known, answer : K!Answers]) /\ Len(queue) \in Nat
    BY QueueTypes DEF KafkaTypes
  <2> QED
    BY <1>2, <2>1, HeadTailProperties, EmptySeq
<1>4. report' \in [msg : Known, answer : T!Outcomes] /\ report' = queue[1]
  <2>1. queue[1] \in [msg : Known, answer : K!Answers]
    BY <1>3, QueueTypes
  <2>2. queue[1].answer \in T!Outcomes
    BY <1>2, <2>1 DEF K!Answers, T!Outcomes
  <2> QED
    BY <1>1, <1>3, <2>1, <2>2
<1>5. CommonTypes' /\ ArrivedInv'
  BY <1>1 DEF CommonTypes, ArrivedInv
<1>6. KafkaTypes'
  BY <1>1, <1>3, <1>4 DEF KafkaTypes, Known, K!WorkerSteps
<1>7. QueueInv'
  <2>1. ASSUME NEW j \in 1..Len(queue'), NEW k \in 1..Len(queue'), j < k
        PROVE  queue'[j].msg < queue'[k].msg
    BY <1>1, <1>3, <2>1 DEF KafkaInv, QueueInv
  <2>2. ASSUME NEW k \in 1..Len(queue')
        PROVE  Due(queue[k])' /\ (queue'[k].answer = "pending" => ArrivedBefore(queue[k].msg)')
    <3>1. PICK h \in 1..Len(queue) : queue'[k] = queue[h]
      BY <1>1, <1>3
    <3>2. Due(queue[h]) /\ (queue[h].answer = "pending" => ArrivedBefore(queue[h].msg))
      BY DEF KafkaInv, QueueInv
    <3> QED
      BY <1>1, <3>1, <3>2 DEF Due, ArrivedBefore, SucceededBefore, T!HasOutcome, T!HasEvent
  <2> QED
    BY <2>1, <2>2 DEF QueueInv
<1>8. ReportInv'
  <2>1. Due(queue[1])
    BY <1>3 DEF KafkaInv, QueueInv
  <2>2. Due(report)'
    BY <1>1, <1>4, <2>1 DEF Due, ArrivedBefore, SucceededBefore, T!HasOutcome, T!HasEvent
  <2>3. \A k \in 1..Len(queue') : report'.msg < queue'[k].msg
    <3> SUFFICES ASSUME NEW k \in 1..Len(queue') PROVE queue[1].msg < queue'[k].msg
      BY <1>4
    <3>1. k + 1 \in 1..Len(queue) /\ queue'[k] = queue[k + 1] /\ 1 < k + 1
      BY <1>1, <1>3
    <3> QED
      BY <1>3, <3>1 DEF KafkaInv, QueueInv
  <2>4. report'.msg \in Known' /\ report'.answer \in T!Outcomes
    BY <1>1, <1>4 DEF Known
  <2> QED
    BY <1>1, <2>2, <2>3, <2>4 DEF ReportInv
<1>9. AttemptInv'
  BY <1>1 DEF KafkaInv, AttemptInv, T!HasEvent
<1> QED
  BY <1>1, <1>5, <1>6, <1>7, <1>8, <1>9 DEF KafkaInv, T!vars

\* The broker answers for the first message that it has not answered for.
LEMMA KafkaAnswer ==
  ASSUME CommonTypes, ArrivedInv, KafkaTypes, KafkaInv, K!Answer
  PROVE  /\ CommonTypes' /\ ArrivedInv' /\ KafkaTypes' /\ KafkaInv'
         /\ T!Next \/ UNCHANGED T!vars
<1>1. /\ DOMAIN queue = 1..Len(queue) /\ Len(queue) \in Nat
      /\ queue \in Seq([msg : Known, answer : K!Answers])
  BY QueueTypes, LenProperties DEF KafkaTypes
<1>2. PICK k \in 1..Len(queue), a \in {"success", "failure"} :
        /\ queue[k].answer = "pending"
        /\ \A j \in 1..(k - 1) : queue[j].answer # "pending"
        /\ queue' = [queue EXCEPT ![k].answer = a]
        /\ arrived' = arrived \/ arrived' = Append(arrived, queue[k].msg)
        /\ a = "success" => arrived' = Append(arrived, queue[k].msg)
        /\ errors' = errors \/ (errors < MaxErrors /\ errors' = errors + 1)
        /\ UNCHANGED <<handed, events, attempts, report, worker, stop, poller>>
  BY <1>1 DEF K!Answer, K!producer
<1>3. PICK n \in Known : n = queue[k].msg
  BY QueueTypes
<1>4. n \in 1..Len(handed) /\ n \in Nat /\ queue[k] = [msg |-> n, answer |-> "pending"]
  BY <1>2, <1>3, QueueTypes DEF Known
<1>5. Due(queue[k]) /\ ArrivedBefore(n)
  BY <1>2, <1>3 DEF KafkaInv, QueueInv
<1>6. errors' \in 0..MaxErrors
  BY <1>2, ConstantsAssumption DEF CommonTypes
<1>7. /\ queue' \in Seq([msg : Known, answer : K!Answers]) /\ Len(queue') = Len(queue)
      /\ queue'[k] = [msg |-> n, answer |-> a]
      /\ \A j \in 1..Len(queue) : j # k => queue'[j] = queue[j]
      /\ \A j \in 1..Len(queue) : queue'[j].msg = queue[j].msg
  <2>1. PICK r \in [msg : Known, answer : K!Answers] : r = [msg |-> n, answer |-> a]
    BY DEF K!Answers
  <2>2. queue' = [queue EXCEPT ![k] = r]
    <3>1. [queue[k] EXCEPT !.answer = a] = r
      BY <1>4, <2>1
    <3> QED
      BY <1>2, <3>1
  <2>3. /\ queue' \in Seq([msg : Known, answer : K!Answers]) /\ Len(queue') = Len(queue)
        /\ queue'[k] = r /\ \A j \in 1..Len(queue) : j # k => queue'[j] = queue[j]
    BY <1>1, <2>1, <2>2, ExceptSeq
  <2> QED
    BY <1>3, <2>1, <2>3
<1>8. KafkaTypes'
  BY <1>2, <1>7 DEF KafkaTypes, Known
<1>9. AttemptInv'
  BY <1>2 DEF KafkaInv, AttemptInv, T!HasEvent
<1>10. /\ CommonTypes' /\ ArrivedInv' /\ (T!Next \/ UNCHANGED T!vars)
       /\ \A m \in Nat : n < m /\ ArrivedBefore(m) => ArrivedBefore(m)'
       /\ \A m : T!Contains(arrived, m) => T!Contains(arrived, m)'
       /\ a = "success" => T!Contains(arrived, n)'
  <2>1. CASE arrived' = arrived
    <3>1. CommonTypes' /\ ArrivedInv' /\ UNCHANGED T!vars
      BY <1>2, <1>6, <2>1 DEF CommonTypes, ArrivedInv, T!vars
    <3>2. a # "success"
      <4>1. arrived \in Seq(1..Len(handed)) /\ Len(arrived) \in Nat
        BY CommonLengths DEF CommonTypes
      <4>2. Len(Append(arrived, n)) # Len(arrived)
        BY <1>4, <4>1, AppendProperties
      <4> QED
        BY <1>2, <1>3, <2>1, <4>2
    <3> QED
      BY <2>1, <3>1, <3>2 DEF ArrivedBefore, T!Contains
  <2>2. CASE arrived' = Append(arrived, n)
    <3>1. /\ CommonTypes' /\ ArrivedInv'
          /\ \A m \in Nat : n < m => ArrivedBefore(m)'
          /\ \A m : T!Contains(arrived, m) \/ m = n => T!Contains(arrived, m)'
      BY <1>2, <1>4, <1>5, <1>6, <2>2, Arriving
    <3>2. T!Next
      <4>1. ~T!HasOutcome(n)
        BY <1>3, <1>5 DEF Due
      <4> QED
        BY <1>2, <1>4, <1>5, <2>2, <4>1, ArriveStep
    <3> QED
      BY <3>1, <3>2
  <2> QED
    BY <1>2, <1>3, <2>1, <2>2
<1>11. ASSUME NEW r, NEW s, Due(r), s.msg = r.msg, s.answer = "success" => T!Contains(arrived, s.msg)'
       PROVE  Due(s)'
  BY <1>2, <1>11 DEF Due, SucceededBefore, T!HasOutcome, T!HasEvent
<1>12. QueueInv'
  <2>1. \A i, j \in 1..Len(queue') : i < j => queue'[i].msg < queue'[j].msg
    BY <1>7 DEF KafkaInv, QueueInv
  <2>2. ASSUME NEW j \in 1..Len(queue)
        PROVE  Due(queue[j])' /\ (queue'[j].answer = "pending" => ArrivedBefore(queue[j].msg)')
    <3>1. PICK r, s : r = queue[j] /\ s = queue'[j]
      OBVIOUS
    <3>2. /\ Due(r) /\ s.msg = r.msg /\ r.msg \in Nat
          /\ r.answer = "pending" => ArrivedBefore(r.msg)
          /\ j # k => s = r
          /\ j = k => s.answer = a /\ s.msg = n
      BY <1>7, <3>1, QueueTypes DEF KafkaInv, QueueInv
    <3>3. s.answer = "success" => T!Contains(arrived, s.msg)'
      <4>1. CASE j = k
        BY <1>10, <3>2, <4>1
      <4>2. CASE j # k
        BY <1>10, <3>2, <4>2 DEF Due
      <4> QED
        BY <4>1, <4>2
    <3>4. Due(s)'
      BY <1>11, <3>2, <3>3
    <3>5. s.answer = "pending" => ArrivedBefore(s.msg)'
      <4> SUFFICES ASSUME s.answer = "pending" PROVE ArrivedBefore(s.msg)'
        OBVIOUS
      <4>1. j # k
        BY <1>2, <3>2
      <4>2. k < j
        BY <1>1, <1>2, <3>1, <3>2, <4>1
      <4>3. n < r.msg
        BY <1>3, <3>1, <4>2 DEF KafkaInv, QueueInv
      <4> QED
        BY <1>10, <3>2, <4>1, <4>3
    <3> QED
      BY <3>1, <3>4, <3>5
  <2> QED
    BY <1>7, <2>1, <2>2 DEF QueueInv
<1>13. ReportInv'
  <2>1. poller' = "deliver" => queue' # <<>> /\ queue'[1].answer # "pending"
    <3> SUFFICES ASSUME poller = "deliver" PROVE queue' # <<>> /\ queue'[1].answer # "pending"
      BY <1>2
    <3>1. queue[1].answer # "pending"
      BY DEF KafkaInv, ReportInv
    <3>2. queue' # <<>> /\ 1 \in 1..Len(queue)
      BY <1>1, <1>2, <1>7, EmptySeq
    <3> QED
      BY <1>2, <1>7, <3>1, <3>2
  <2>2. ASSUME worker' = "callback"
        PROVE  /\ report'.msg \in Known' /\ report'.answer \in T!Outcomes
               /\ Due(report)'
               /\ \A j \in 1..Len(queue') : report'.msg < queue'[j].msg
    <3>1. /\ report.msg \in Known /\ report.answer \in T!Outcomes
          /\ Due(report) /\ \A j \in 1..Len(queue) : report.msg < queue[j].msg
      BY <1>2, <2>2 DEF KafkaInv, ReportInv
    <3>2. PICK r : r = report
      OBVIOUS
    <3>3. Due(r)'
      <4>1. r.answer = "success" => T!Contains(arrived, r.msg)'
        BY <1>10, <3>1, <3>2 DEF Due
      <4> QED
        BY <1>11, <3>1, <3>2, <4>1
    <3> QED
      BY <1>2, <1>7, <3>1, <3>2, <3>3 DEF Known
  <2> QED
    BY <2>1, <2>2 DEF ReportInv
<1> QED
  BY <1>8, <1>9, <1>10, <1>12, <1>13 DEF KafkaInv

\* The handler finds nobody to tell the outcome, and waits for the next report.
LEMMA KafkaUnheard ==
  ASSUME CommonTypes, ArrivedInv, KafkaTypes, KafkaInv, K!HandleDeliveryReport, UNCHANGED events
  PROVE  /\ CommonTypes' /\ ArrivedInv' /\ KafkaTypes' /\ KafkaInv'
         /\ UNCHANGED T!vars
<1>1. /\ worker' = "select" /\ report' = K!NoReport
      /\ UNCHANGED <<handed, events, arrived, attempts, errors, stop, queue, poller>>
  BY DEF K!HandleDeliveryReport, K!client
<1>2. CommonTypes' /\ ArrivedInv'
  BY <1>1 DEF CommonTypes, ArrivedInv
<1>3. KafkaTypes'
  BY <1>1 DEF KafkaTypes, Known, K!WorkerSteps
<1>4. KafkaInv'
  BY <1>1 DEF KafkaInv, QueueInv, ReportInv, AttemptInv, Due, ArrivedBefore, SucceededBefore,
              T!HasOutcome, T!HasEvent
<1> QED
  BY <1>1, <1>2, <1>3, <1>4 DEF T!vars

\* The handler reports the outcome, and waits for the next report.
LEMMA KafkaReport ==
  ASSUME CommonTypes, ArrivedInv, KafkaTypes, KafkaInv, K!HandleDeliveryReport,
         events' = [events EXCEPT ![report.msg] = Append(@, report.answer)]
  PROVE  CommonTypes' /\ ArrivedInv' /\ KafkaTypes' /\ KafkaInv' /\ T!Next
<1>1. PICK r : r = report
  OBVIOUS
<1>2. /\ worker = "callback" /\ worker' = "select" /\ report' = K!NoReport
      /\ events' = [events EXCEPT ![r.msg] = Append(@, r.answer)]
      /\ UNCHANGED <<handed, arrived, attempts, errors, stop, queue, poller>>
  BY <1>1 DEF K!HandleDeliveryReport, K!client
<1>3. /\ r.msg \in Known /\ r.answer \in T!Outcomes /\ Due(r)
      /\ \A k \in 1..Len(queue) : r.msg < queue[k].msg
  BY <1>1, <1>2 DEF KafkaInv, ReportInv
<1>4. PICK i \in 1..Len(handed), e \in EventNames : i = r.msg /\ e = r.answer /\ e \in T!Outcomes
  BY <1>3 DEF Known, EventNames, T!Outcomes
<1>5. events' = [events EXCEPT ![i] = Append(@, e)] /\ i \in Known /\ errors' \in 0..MaxErrors
  BY <1>2, <1>3, <1>4 DEF CommonTypes
<1>6. /\ CommonTypes'
      /\ \A j \in 1..Len(handed), f \in EventNames :
           T!HasEvent(j, f)' <=> (T!HasEvent(j, f) \/ (j = i /\ f = e))
  BY <1>2, <1>5, Occurring
<1>7. T!Next
  <2>1. ~T!HasOutcome(i) /\ SucceededBefore(i) /\ (e = "success" => T!Contains(arrived, i))
    BY <1>3, <1>4 DEF Due
  <2>2. ~T!HasEvent(i, e)
    BY <1>4, <2>1 DEF T!HasOutcome
  <2> QED
    BY <1>2, <1>5, <2>1, <2>2, ReportStep
<1>8. ArrivedInv' /\ KafkaTypes'
  BY <1>2 DEF ArrivedInv, KafkaTypes, Known, K!WorkerSteps
<1>9. QueueInv'
  <2>1. ASSUME NEW k \in 1..Len(queue) PROVE Due(queue[k])'
    <3>1. PICK q : q = queue[k]
      OBVIOUS
    <3>2. Due(q) /\ q.msg \in Known /\ i < q.msg
      BY <1>3, <1>4, <3>1, QueueTypes DEF KafkaInv, QueueInv
    <3>3. Due(q)'
      BY <1>2, <1>5, <3>2, OccurringDue
    <3> QED
      BY <1>2, <3>1, <3>3
  <2> QED
    BY <1>2, <2>1 DEF KafkaInv, QueueInv, ArrivedBefore
<1>10. ReportInv'
  BY <1>2 DEF KafkaInv, ReportInv
<1>11. AttemptInv'
  <2> SUFFICES ASSUME NEW j \in attempts PROVE ~T!HasEvent(j, "attempt")'
    BY <1>2 DEF AttemptInv
  <2>1. j \in 1..Len(handed) /\ ~T!HasEvent(j, "attempt")
    BY DEF KafkaTypes, Known, KafkaInv, AttemptInv
  <2>2. e # "attempt" /\ "attempt" \in EventNames
    BY <1>4 DEF T!Outcomes, EventNames
  <2> QED
    BY <1>6, <2>1, <2>2
<1> QED
  BY <1>6, <1>7, <1>8, <1>9, <1>10, <1>11 DEF KafkaInv

---------------------------------------------------------------------------
(* The goroutines that send.                                               *)

\* The variables of the transport that there is have their types and are in
\* order.
ChannelInv ==
    /\ CommonTypes /\ ArrivedInv
    /\ transport = "sync-service" => SyncTypes /\ SyncInv
    /\ transport = "kafka" => KafkaTypes /\ KafkaInv

Stages == {"off", "starting", "wait", "sending", "done"}

SenderTypes ==
    /\ main \in Mains
    /\ at \in [Periodic -> Stages]
    /\ ticker \in [Periodic -> Int]
    /\ gen \in [Periodic -> 0..MaxGeneration]
    /\ lastSent \in [Generics -> 0..MaxGeneration]
    /\ panicked \in BOOLEAN

\* A goroutine's bundle has its next version, and is handed over.
Sends(p) ==
    /\ \E k \in Periodic \cup {DeltaKey} :
         handed' = Append(handed, [id |-> p, key |-> k, generation |-> gen'[p]])
    /\ at' = [at EXCEPT ![p] = "sending"] /\ lastSent' = lastSent
    /\ \/ p \in Generics /\ at[p] = "wait" /\ gen[p] > lastSent[p] /\ gen' = gen
       \/ p = "control_info" /\ gen' = [gen EXCEPT ![p] = @ + 1]

\* Nothing is handed over.  Generations do not go back, and what was being
\* sent still is, or the generation that was sent is remembered.
Quiet ==
    /\ UNCHANGED handed
    /\ \A p \in Periodic :
         gen[p] <= gen'[p] /\ (at'[p] = "sending" => at[p] = "sending" \/ panicked')
    /\ \A p \in Generics :
         \/ lastSent'[p] = lastSent[p] /\ (at[p] = "sending" => at'[p] = "sending")
         \/ lastSent'[p] = gen[p]

\* The goroutines' keys, and the intervals for them.
LEMMA Keys ==
  /\ Periodic \subseteq I!Keys /\ Generics \subseteq Periodic
  /\ "control_info" \in Periodic /\ "control_info" \notin Generics
BY ConstantsAssumption DEF Periodic, I!Keys

\* SendAsync hands the message over or panics.
LEMMA Sending ==
  ASSUME transport \in TransportTypes, panicked \in BOOLEAN, NEW m, SendAsync(m)
  PROVE  /\ (UNCHANGED handed /\ panicked' = TRUE) \/ handed' = Append(handed, m)
         /\ panicked' \in BOOLEAN
BY ConstantsAssumption
DEF SendAsync, K!SendAsync, K!Produce, K!Refuse, K!ProduceOnClosed, K!Hand, S!SendAsync

\* The ticker is set, or there is a panic.
LEMMA Ticking ==
  ASSUME IntervalTypes, SenderTypes, NEW p \in Periodic, SetTicker(p)
  PROVE  /\ at' = [at EXCEPT ![p] = "wait"] \/ (at' = at /\ panicked')
         /\ ticker' \in [Periodic -> Int] /\ panicked' \in BOOLEAN
<1>1. intervals[p] \in Int
  BY Keys DEF IntervalTypes
<1>2. CASE intervals[p] > 0
  BY <1>1, <1>2 DEF SetTicker, SenderTypes
<1>3. CASE ~(intervals[p] > 0)
  BY <1>3 DEF SetTicker, SenderTypes
<1> QED
  BY <1>2, <1>3

\* What a step may do to the goroutines that send, and that it keeps their
\* types.
LEMMA SenderSteps ==
  ASSUME transport \in TransportTypes, ChannelInv, IntervalTypes, SenderTypes, [Next]_vars
  PROVE  SenderTypes' /\ (Quiet \/ \E p \in Periodic : Sends(p))
<1>1. CASE UNCHANGED vars
  BY <1>1 DEF vars, channel, common, senders, SenderTypes, Quiet
<1>2. CASE ~UNCHANGED vars
  <2>1. CASE StartTransport \/ StopTransport
    <3>1. UNCHANGED senders /\ main' \in Mains
      BY <2>1 DEF StartTransport, StopTransport, SenderTypes, Mains
    <3>2. K!Start \/ S!Start \/ K!Stop \/ S!Stop
      BY <2>1, ConstantsAssumption DEF StartTransport, StopTransport
    <3>3. UNCHANGED handed
      BY <3>2 DEF K!Start, S!Start, K!Stop, S!Stop
    <3>4. \/ panicked' = panicked \/ panicked' = (poller = "deliver")
          \/ transport = "sync-service" /\ panicked' = (taken < Len(handed))
      BY <2>1, ConstantsAssumption
      DEF StartTransport, StopTransport, K!Start, S!Start, K!Stop, S!Stop, K!HandToken, K!CloseDeliveryChan, K!CloseClient,
          S!PutToken, S!CloseStopChan, S!CloseMsgChan
    <3>5. panicked' \in BOOLEAN
      <4>1. CASE panicked' = panicked \/ panicked' = (poller = "deliver")
        BY <4>1, Zenon DEF SenderTypes
      <4>2. CASE transport = "sync-service" /\ panicked' = (taken < Len(handed))
        <5>1. taken \in Nat /\ Len(handed) \in Nat
          BY <4>2, CommonLengths DEF ChannelInv, SyncTypes
        <5> QED
          BY <4>2, <5>1
      <4> QED
        BY <3>4, <4>1, <4>2
    <3> QED
      BY <3>1, <3>3, <3>5 DEF senders, SenderTypes, Quiet
  <2>2. CASE CreateManager \/ ManagerReturns \/ Exit \/ Cancel
             \/ ChangeConfigMap \/ ReconcileIntervals
    <3>1. UNCHANGED <<handed, senders, panicked>> /\ main' \in Mains
      BY <2>2 DEF CreateManager, ManagerReturns, Exit, Cancel, ChangeConfigMap, ReconcileIntervals,
                  SenderTypes, Mains, channel, common
    <3> QED
      BY <3>1 DEF senders, SenderTypes, Quiet
  <2>3. CASE Lead
    <3>1. /\ at' = [at EXCEPT !["control_info"] = "starting"] /\ main' \in Mains
          /\ UNCHANGED <<handed, panicked, ticker, gen, lastSent>>
      BY <2>3 DEF Lead, Mains, channel, common
    <3> QED
      BY <3>1, Keys DEF SenderTypes, Stages, Quiet
  <2>4. ASSUME NEW p \in Generics, AddController(p)
        PROVE  SenderTypes' /\ Quiet
    <3>1. /\ at[p] = "off" /\ at' = [at EXCEPT ![p] = "starting"]
          /\ UNCHANGED <<main, handed, panicked, ticker, gen, lastSent>>
      BY <2>4 DEF AddController, channel, common
    <3> QED
      BY <3>1, Keys DEF SenderTypes, Stages, Quiet
  <2>5. ASSUME NEW p \in Generics, UpdateBundle(p)
        PROVE  SenderTypes' /\ Quiet
    <3>1. /\ gen[p] < MaxGeneration /\ gen' = [gen EXCEPT ![p] = @ + 1]
          /\ UNCHANGED <<main, handed, panicked, at, ticker, lastSent>>
      BY <2>5 DEF UpdateBundle, channel, common
    <3>2. gen' \in [Periodic -> 0..MaxGeneration] /\ \A q \in Periodic : gen[q] <= gen'[q]
      BY <3>1, Keys, ConstantsAssumption DEF SenderTypes
    <3> QED
      BY <3>1, <3>2 DEF SenderTypes, Quiet
  <2>6. ASSUME NEW p \in Generics, SyncBundles(p)
        PROVE  SenderTypes' /\ (Quiet \/ Sends(p))
    <3>1. at[p] = "wait" /\ UNCHANGED <<main, gen, lastSent>> /\ p \in Periodic
      BY <2>6, Keys DEF SyncBundles
    <3>2. CASE gen[p] > lastSent[p]
      <4> PICK k \in KeysOf(p) : SendAsync([id |-> p, key |-> k, generation |-> gen[p]])
        BY <2>6, <3>2 DEF SyncBundles
      <4>1. /\ at' = [at EXCEPT ![p] = "sending"] /\ UNCHANGED ticker
            /\ \/ UNCHANGED handed /\ panicked' = TRUE
               \/ handed' = Append(handed, [id |-> p, key |-> k, generation |-> gen[p]])
            /\ panicked' \in BOOLEAN
        BY <2>6, <3>2, Sending DEF SyncBundles, SenderTypes
      <4>5. k \in Periodic \cup {DeltaKey}
        BY <3>1 DEF KeysOf
      <4>2. SenderTypes'
        BY <3>1, <4>1 DEF SenderTypes, Stages
      <4>3. CASE UNCHANGED handed /\ panicked' = TRUE
        BY <3>1, <4>1, <4>2, <4>3, Keys DEF SenderTypes, Quiet
      <4>4. CASE handed' = Append(handed, [id |-> p, key |-> k, generation |-> gen[p]])
        BY <3>1, <3>2, <4>1, <4>2, <4>4, <4>5 DEF Sends
      <4> QED
        BY <4>1, <4>2, <4>3, <4>4
    <3>3. CASE ~(gen[p] > lastSent[p])
      <4>1. SetTicker(p) /\ UNCHANGED handed
        BY <2>6, <3>3 DEF SyncBundles, ResolveSyncInterval, channel, common
      <4> QED
        BY <3>1, <4>1, Ticking, Keys DEF SenderTypes, Stages, Quiet
    <3> QED
      BY <3>2, <3>3
  <2>7. CASE SyncBundle
    <3>1. PICK p \in Periodic : p = "control_info"
      BY Keys
    <3>2. /\ gen[p] < MaxGeneration /\ gen' = [gen EXCEPT ![p] = gen[p] + 1]
          /\ SendAsync([id |-> p, key |-> p, generation |-> gen[p] + 1])
          /\ at' = [at EXCEPT ![p] = "sending"]
          /\ UNCHANGED <<main, ticker, lastSent>>
      BY <2>7, <3>1 DEF SyncBundle, NextGeneration
    <3>3. /\ \/ UNCHANGED handed /\ panicked' = TRUE
             \/ handed' = Append(handed, [id |-> p, key |-> p, generation |-> gen[p] + 1])
          /\ panicked' \in BOOLEAN
      BY <3>2, Sending DEF SenderTypes
    <3>4. /\ gen' \in [Periodic -> 0..MaxGeneration] /\ gen'[p] = gen[p] + 1
          /\ \A q \in Periodic : gen[q] <= gen'[q]
      BY <3>2, ConstantsAssumption DEF SenderTypes
    <3>5. SenderTypes'
      BY <3>2, <3>3, <3>4 DEF SenderTypes, Stages
    <3>6. CASE UNCHANGED handed /\ panicked' = TRUE
      BY <3>1, <3>2, <3>4, <3>5, <3>6, Keys DEF SenderTypes, Quiet
    <3>7. CASE handed' = Append(handed, [id |-> p, key |-> p, generation |-> gen[p] + 1])
      BY <3>1, <3>2, <3>4, <3>5, <3>7 DEF Sends
    <3> QED
      BY <3>3, <3>5, <3>6, <3>7
  <2>8. ASSUME NEW p \in Periodic, NewTicker(p)
        PROVE  SenderTypes' /\ Quiet
    <3>1. /\ at[p] = "starting" /\ SetTicker(p)
          /\ UNCHANGED <<main, handed, gen, lastSent>>
      BY <2>8 DEF NewTicker, channel, common
    <3> QED
      BY <3>1, Ticking, Keys DEF SenderTypes, Stages, Quiet
  <2>9. ASSUME NEW p \in Periodic, SendReturns(p)
        PROVE  SenderTypes' /\ Quiet
    <3>1. /\ SetTicker(p) /\ UNCHANGED <<main, handed, gen>>
          /\ lastSent' = IF p \in Generics THEN [lastSent EXCEPT ![p] = gen[p]] ELSE lastSent
      BY <2>9 DEF SendReturns, ResolveSyncInterval, channel, common
    <3>2. /\ at' = [at EXCEPT ![p] = "wait"] \/ at' = at
          /\ ticker' \in [Periodic -> Int] /\ panicked' \in BOOLEAN
      BY <3>1, Ticking
    <3>3. /\ lastSent' \in [Generics -> 0..MaxGeneration]
          /\ \A q \in Generics : lastSent'[q] = IF q = p THEN gen[q] ELSE lastSent[q]
      BY <3>1, Keys DEF SenderTypes
    <3>4. SenderTypes'
      BY <3>1, <3>2, <3>3 DEF SenderTypes, Stages
    <3>5. Quiet
      BY <3>1, <3>2, <3>3, Keys DEF SenderTypes, Quiet
    <3> QED
      BY <3>4, <3>5
  <2>10. CASE ContextDone
    <3>1. /\ at["control_info"] = "wait" /\ at' = [at EXCEPT !["control_info"] = "done"]
          /\ UNCHANGED <<main, handed, panicked, ticker, gen, lastSent>>
      BY <2>10 DEF ContextDone, channel, common
    <3> QED
      BY <3>1, Keys DEF SenderTypes, Stages, Quiet
  <2>11. CASE Transporting \/ \E p \in Periodic : AttemptCallback(p)
    <3>1. UNCHANGED <<main, handed, senders>> /\ panicked' \in BOOLEAN
      <4>1. CASE K!Work /\ UNCHANGED <<main, senders>>
        BY <4>1 DEF K!Work, K!Answer, K!Poll, K!ReceiveReport, K!HandleDeliveryReport, K!producer,
                    SenderTypes
      <4>2. CASE S!Work /\ UNCHANGED <<main, senders>>
        BY <4>2 DEF S!Work, S!Receive, S!ReceiveStop, S!ReceiveNil, S!UpdateObject,
                    S!UpdateObjectData, S!Report, SenderTypes
      <4>3. CASE \E p \in Periodic : AttemptCallback(p)
        BY <4>3 DEF AttemptCallback, K!Attempt, K!producer, SenderTypes
      <4> QED
        BY <2>11, <4>1, <4>2, <4>3 DEF Transporting
    <3> QED
      BY <3>1 DEF senders, SenderTypes, Quiet
  <2> QED
    BY <1>2, <2>1, <2>2, <2>3, <2>4, <2>5, <2>6, <2>7, <2>8, <2>9, <2>10, <2>11, Steps, Keys
<1> QED
  BY <1>1, <1>2

---------------------------------------------------------------------------
(* The process as a whole.                                                 *)

\* Every step of the process keeps the transport in order, and is a step of
\* what is promised of a transport.
LEMMA ChannelSteps ==
  ASSUME transport \in TransportTypes, SenderTypes, ChannelInv, [Next]_vars
  PROVE  ChannelInv' /\ (T!Next \/ UNCHANGED T!vars)
<1>1. transport' = transport /\ transport \in {"kafka", "sync-service"}
  BY Channels, ConstantsAssumption
<1>2. CASE UNCHANGED channel
  <2>1. UNCHANGED <<transport, handed, events, arrived, worker, stop, errors, taken,
                    attempts, queue, poller, report>>
    BY <1>2 DEF channel, common, ofKafka
  <2>2. CommonTypes' /\ ArrivedInv'
    BY <2>1 DEF ChannelInv, CommonTypes, ArrivedInv
  <2>3. SyncTypes /\ SyncInv => SyncTypes' /\ SyncInv'
    BY <2>1 DEF SyncTypes, SyncInv, ArrivedBefore, T!HasOutcome, T!HasEvent
  <2>4. KafkaTypes /\ KafkaInv => KafkaTypes' /\ KafkaInv'
    BY <2>1 DEF KafkaTypes, KafkaInv, QueueInv, ReportInv, AttemptInv, Known, Due, ArrivedBefore,
                SucceededBefore, T!HasOutcome, T!HasEvent
  <2> QED
    BY <2>1, <2>2, <2>3, <2>4 DEF ChannelInv, T!vars
<1>3. ASSUME transport = "kafka" \/ transport = "sync-service",
             transport = "kafka" => /\ CommonTypes' /\ ArrivedInv' /\ KafkaTypes' /\ KafkaInv'
                                    /\ T!Next \/ UNCHANGED T!vars,
             transport = "sync-service" => /\ CommonTypes' /\ ArrivedInv' /\ SyncTypes' /\ SyncInv'
                                           /\ T!Next \/ UNCHANGED T!vars
      PROVE  ChannelInv' /\ (T!Next \/ UNCHANGED T!vars)
  BY <1>1, <1>3 DEF ChannelInv
<1>4. /\ CommonTypes /\ ArrivedInv
      /\ transport = "kafka" => KafkaTypes /\ KafkaInv
      /\ transport = "sync-service" => SyncTypes /\ SyncInv
  BY DEF ChannelInv
<1>5. CASE StartTransport \/ StopTransport
  <2>1. CASE transport = "kafka"
    <3>1. K!Start \/ K!Stop
      BY <1>5, <2>1 DEF StartTransport, StopTransport
    <3> QED
      BY <1>3, <1>4, <2>1, <3>1, KafkaMoves
  <2>2. CASE transport = "sync-service"
    <3>1. S!Start \/ S!Stop
      BY <1>5, <2>2 DEF StartTransport, StopTransport
    <3> QED
      BY <1>3, <1>4, <2>2, <3>1, SyncMoves
  <2> QED
    BY <1>1, <2>1, <2>2
<1>6. ASSUME NEW m \in Messages, SendAsync(m)
      PROVE  ChannelInv' /\ (T!Next \/ UNCHANGED T!vars)
  <2>1. CASE transport = "kafka"
    <3>1. K!SendAsync(m)
      BY <1>6, <2>1 DEF SendAsync
    <3> QED
      BY <1>3, <1>4, <2>1, <3>1, KafkaSend
  <2>2. CASE transport = "sync-service"
    <3>1. S!SendAsync(m)
      BY <1>6, <2>2 DEF SendAsync
    <3> QED
      BY <1>3, <1>4, <2>2, <3>1, SyncSend
  <2> QED
    BY <1>1, <2>1, <2>2
<1>7. ASSUME NEW p \in Generics, SyncBundles(p), gen[p] > lastSent[p]
      PROVE  ChannelInv' /\ (T!Next \/ UNCHANGED T!vars)
  <2>1. PICK k \in KeysOf(p) : SendAsync([id |-> p, key |-> k, generation |-> gen[p]])
    BY <1>7 DEF SyncBundles
  <2>2. PICK m \in Messages : m = [id |-> p, key |-> k, generation |-> gen[p]]
    <3>1. p \in Periodic /\ gen[p] \in 1..MaxGeneration
      BY <1>7, Keys, ConstantsAssumption DEF SenderTypes
    <3>2. k \in Periodic \cup {DeltaKey}
      BY <3>1 DEF KeysOf
    <3> QED
      BY <3>1, <3>2 DEF Messages
  <2> QED
    BY <1>6, <2>1, <2>2
<1>8. CASE SyncBundle
  <2>1. PICK m \in Messages : m = [id |-> "control_info", key |-> "control_info", generation |-> NextGeneration]
    <3>1. NextGeneration \in 1..MaxGeneration
      BY <1>8, Keys, ConstantsAssumption DEF SenderTypes, SyncBundle, NextGeneration
    <3> QED
      BY <3>1, Keys DEF Messages
  <2>2. SendAsync(m)
    BY <1>8, <2>1 DEF SyncBundle
  <2> QED
    BY <1>6, <2>2
<1>9. ASSUME NEW p \in Periodic, AttemptCallback(p)
      PROVE  ChannelInv' /\ (T!Next \/ UNCHANGED T!vars)
  <2>1. PICK i : transport = "kafka" /\ K!Attempt(i)
    BY <1>9 DEF AttemptCallback
  <2> QED
    BY <1>3, <1>4, <2>1, KafkaAttempt
<1>10. CASE Transporting
  <2>1. CASE transport = "kafka"
    <3>1. K!Answer \/ K!Poll \/ K!ReceiveReport \/ K!HandleDeliveryReport
      BY <1>10, <2>1 DEF Transporting, K!Work
    <3>2. K!HandleDeliveryReport =>
            \/ UNCHANGED events
            \/ events' = [events EXCEPT ![report.msg] = Append(@, report.answer)]
      BY DEF K!HandleDeliveryReport, K!InvokeCallback
    <3> QED
      BY <1>3, <1>4, <2>1, <3>1, <3>2, KafkaAnswer, KafkaMoves, KafkaReceive, KafkaUnheard, KafkaReport
  <2>2. CASE transport = "sync-service"
    <3>1. \/ S!Receive \/ S!ReceiveStop \/ S!ReceiveNil
          \/ S!UpdateObject \/ S!UpdateObjectData \/ S!Report
      BY <1>10, <2>2 DEF Transporting, S!Work
    <3> QED
      BY <1>3, <1>4, <2>2, <3>1, SyncReceive, SyncMoves, SyncUpdateData, SyncReport
  <2> QED
    BY <1>1, <2>1, <2>2
<1> QED
  BY <1>2, <1>5, <1>7, <1>8, <1>9, <1>10, Channels

\* Of one sender, a message that was handed over later has a later generation.
\* None is ahead of the bundle, and one of a generic controller is being sent
\* if it is ahead of what the controller remembers to have sent.
VersionInv ==
    /\ \A i, j \in 1..Len(handed) :
         i < j /\ handed[i].id = handed[j].id => handed[i].generation < handed[j].generation
    /\ \A i \in 1..Len(handed) :
         /\ handed[i].generation <= gen[handed[i].id]
         /\ handed[i].id \in Generics =>
              \/ handed[i].generation <= lastSent[handed[i].id]
              \/ at[handed[i].id] = "sending"

\* What is being sent was handed over.
SendingInv ==
    \A p \in Periodic :
        at[p] = "sending" /\ ~panicked => \E i \in 1..Len(handed) : handed[i].id = p

\* Every step of the process keeps the versions in order.
LEMMA VersionSteps ==
  ASSUME transport \in TransportTypes, IntervalTypes, SenderTypes, ChannelInv, [Next]_vars,
         VersionInv, SendingInv
  PROVE  VersionInv' /\ SendingInv'
<1>1. SenderTypes' /\ (Quiet \/ \E p \in Periodic : Sends(p))
  BY SenderSteps
<1>2. /\ Len(handed) \in Nat /\ handed \in Seq(Messages)
      /\ \A i \in 1..Len(handed) :
           /\ handed[i] \in Messages /\ handed[i].id \in Periodic /\ handed[i].generation \in Nat
  <2>1. handed \in Seq(Messages) /\ Len(handed) \in Nat
    BY CommonLengths DEF ChannelInv, CommonTypes
  <2>2. \A i \in 1..Len(handed) : handed[i] \in Messages
    BY <2>1, ElementOfSeq
  <2>3. \A m \in Messages : m.id \in Periodic /\ m.generation \in Nat
    BY DEF Messages
  <2> QED
    BY <2>1, <2>2, <2>3
<1>3. panicked => panicked'
  BY Steps DEF vars
<1>4. CASE Quiet
  <2>1. UNCHANGED handed
    BY <1>4 DEF Quiet
  <2>2. SendingInv'
    BY <1>3, <1>4, <2>1 DEF SendingInv, Quiet
  <2>3. ASSUME NEW i \in 1..Len(handed)
        PROVE  /\ handed[i].generation <= gen'[handed[i].id]
               /\ handed[i].id \in Generics =>
                    \/ handed[i].generation <= lastSent'[handed[i].id]
                    \/ at'[handed[i].id] = "sending"
    <3>1. PICK p \in Periodic, g \in Nat : p = handed[i].id /\ g = handed[i].generation
      BY <1>2
    <3>2. /\ g <= gen[p] /\ gen[p] \in Nat /\ gen'[p] \in Nat
          /\ p \in Generics => g <= lastSent[p] \/ at[p] = "sending"
      BY <1>1, <3>1, ConstantsAssumption DEF VersionInv, SenderTypes
    <3>3. gen[p] <= gen'[p]
      BY <1>4 DEF Quiet
    <3>4. ASSUME p \in Generics PROVE g <= lastSent'[p] \/ at'[p] = "sending"
      <4>1. \/ lastSent'[p] = lastSent[p] /\ (at[p] = "sending" => at'[p] = "sending")
            \/ lastSent'[p] = gen[p]
        BY <1>4, <3>4 DEF Quiet
      <4> QED
        BY <3>2, <3>4, <4>1
    <3> QED
      BY <3>1, <3>2, <3>3, <3>4
  <2> QED
    BY <2>1, <2>2, <2>3 DEF VersionInv
<1>5. ASSUME NEW p \in Periodic, Sends(p) PROVE VersionInv' /\ SendingInv'
  <2>1. PICK g : g = gen'[p]
    OBVIOUS
  <2>2. PICK k \in Periodic \cup {DeltaKey} :
        /\ handed' = Append(handed, [id |-> p, key |-> k, generation |-> g])
        /\ at' = [at EXCEPT ![p] = "sending"] /\ lastSent' = lastSent
        /\ \/ p \in Generics /\ at[p] = "wait" /\ gen[p] > lastSent[p] /\ gen' = gen
           \/ p = "control_info" /\ gen' = [gen EXCEPT ![p] = @ + 1]
    BY <1>5, <2>1 DEF Sends
  <2>3. /\ gen[p] \in Nat /\ g \in Nat /\ \A q \in Periodic : q # p => gen'[q] = gen[q]
        /\ \A q \in Periodic : at'[q] = IF q = p THEN "sending" ELSE at[q]
        /\ p \in Generics => lastSent[p] \in Nat
    <3>1. gen \in [Periodic -> 0..MaxGeneration] /\ gen' \in [Periodic -> 0..MaxGeneration]
      BY <1>1 DEF SenderTypes
    <3>2. gen[p] \in Nat /\ g \in Nat
      BY <2>1, <3>1, ConstantsAssumption
    <3>3. \A q \in Periodic : q # p => gen'[q] = gen[q]
      BY <2>2, <3>1
    <3>4. \A q \in Periodic : at'[q] = IF q = p THEN "sending" ELSE at[q]
      BY <2>2 DEF SenderTypes
    <3>5. p \in Generics => lastSent[p] \in Nat
      BY ConstantsAssumption DEF SenderTypes
    <3> QED
      BY <3>2, <3>3, <3>4, <3>5
  <2>4. /\ Len(handed') = Len(handed) + 1
        /\ \A i \in 1..Len(handed) : handed'[i] = handed[i]
        /\ handed'[Len(handed) + 1] = [id |-> p, key |-> k, generation |-> g]
    <3> DEFINE Any == [id : Periodic, key : Periodic \cup {DeltaKey}, generation : Nat]
    <3>1. handed \in Seq(Any)
      <4>1. \A i \in 1..Len(handed) : handed[i] \in Any
        BY <1>2 DEF Messages
      <4> QED
        BY <1>2, <4>1, SequenceOf
    <3>2. [id |-> p, key |-> k, generation |-> g] \in Any
      BY <2>3
    <3> QED
      BY <2>2, <3>1, <3>2, AppendProperties
  <2>5. ASSUME NEW i \in 1..Len(handed), handed[i].id = p
        PROVE  handed[i].generation < g
    <3>1. /\ handed[i].generation <= gen[p] /\ handed[i].generation \in Nat
          /\ p \in Generics => handed[i].generation <= lastSent[p] \/ at[p] = "sending"
      BY <1>2, <2>5 DEF VersionInv
    <3>2. CASE p \in Generics /\ at[p] = "wait" /\ gen[p] > lastSent[p] /\ gen' = gen
      BY <2>1, <2>3, <3>1, <3>2
    <3>3. CASE p = "control_info" /\ gen' = [gen EXCEPT ![p] = @ + 1]
      <4>1. g = gen[p] + 1
        BY <2>1, <3>3 DEF SenderTypes
      <4> QED
        BY <2>3, <3>1, <4>1
    <3> QED
      BY <2>2, <3>2, <3>3
  <2>6. ASSUME NEW i \in 1..Len(handed'), NEW j \in 1..Len(handed'), i < j,
               handed'[i].id = handed'[j].id
        PROVE  handed'[i].generation < handed'[j].generation
    <3>1. i \in 1..Len(handed) /\ handed'[i] = handed[i]
      <4>1. i \in 1..Len(handed)
        BY <1>2, <2>4, <2>6
      <4> QED
        BY <2>4, <4>1
    <3>2. CASE j \in 1..Len(handed)
      BY <2>4, <2>6, <3>1, <3>2 DEF VersionInv
    <3>3. CASE j = Len(handed) + 1
      BY <2>4, <2>5, <2>6, <3>1, <3>3
    <3> QED
      BY <1>2, <2>4, <3>2, <3>3
  <2>7. ASSUME NEW i \in 1..Len(handed')
        PROVE  /\ handed'[i].generation <= gen'[handed'[i].id]
               /\ handed'[i].id \in Generics =>
                    \/ handed'[i].generation <= lastSent'[handed'[i].id]
                    \/ at'[handed'[i].id] = "sending"
    <3>1. CASE i \in 1..Len(handed)
      <4>1. PICK q \in Periodic, h \in Nat :
              q = handed'[i].id /\ h = handed'[i].generation /\ q = handed[i].id
                /\ h = handed[i].generation
        BY <1>2, <2>4, <3>1
      <4>2. /\ h <= gen[q] /\ (q = p => h < g)
            /\ q \in Generics => h <= lastSent[q] \/ at[q] = "sending"
        BY <2>5, <3>1, <4>1 DEF VersionInv
      <4>3. h <= gen'[q]
        BY <2>1, <2>3, <4>2, <2>5, <3>1, <4>1
      <4> QED
        BY <2>2, <2>3, <4>1, <4>2, <4>3
    <3>2. CASE i = Len(handed) + 1
      BY <2>1, <2>3, <2>4, <3>2
    <3> QED
      BY <1>2, <2>4, <3>1, <3>2
  <2>8. SendingInv'
    <3> SUFFICES ASSUME NEW q \in Periodic, at'[q] = "sending", ~panicked'
                 PROVE  \E i \in 1..Len(handed') : handed'[i].id = q
      BY DEF SendingInv
    <3>1. CASE q = p
      <4>1. Len(handed) + 1 \in 1..Len(handed') /\ handed'[Len(handed) + 1].id = p
        BY <1>2, <2>4
      <4> QED
        BY <3>1, <4>1
    <3>2. CASE q # p
      <4>1. PICK i \in 1..Len(handed) : handed[i].id = q
        BY <1>3, <2>3, <3>2 DEF SendingInv
      <4>2. i \in 1..Len(handed') /\ handed'[i].id = q
        BY <1>2, <2>4, <4>1
      <4> QED
        BY <4>2
    <3> QED
      BY <3>1, <3>2
  <2> QED
    BY <2>6, <2>7, <2>8 DEF VersionInv
<1> QED
  BY <1>1, <1>4, <1>5

\* The process's inductive invariant.
ProcessInv ==
    /\ transport \in TransportTypes
    /\ IntervalTypes /\ IntervalInv
    /\ SenderTypes /\ ChannelInv
    /\ VersionInv /\ SendingInv

\* The process starts in order.
LEMMA ProcessInit == Init => ProcessInv /\ T!Init
<1> SUFFICES ASSUME Init PROVE ProcessInv /\ T!Init
  OBVIOUS
<1>1. /\ transport \in TransportTypes /\ main = "new"
      /\ at = [p \in Periodic |-> "off"] /\ ticker = [p \in Periodic |-> 0]
      /\ gen = [p \in Periodic |-> 0] /\ lastSent = [p \in Generics |-> 0]
      /\ handed = <<>> /\ events = <<>> /\ arrived = <<>>
      /\ worker = "off" /\ stop = "no" /\ panicked = FALSE /\ errors = 0
      /\ taken = 0 /\ attempts = {} /\ queue = <<>> /\ poller = "poll" /\ report = K!NoReport
  BY DEF Init
<1>2. IntervalTypes /\ IntervalInv
  BY InitialIntervals
<1>3. SenderTypes
  <2>1. 0 \in 0..MaxGeneration /\ 0 \in Int /\ "off" \in Stages /\ "new" \in Mains
    BY ConstantsAssumption DEF Stages, Mains
  <2>2. /\ at \in [Periodic -> Stages] /\ ticker \in [Periodic -> Int]
        /\ gen \in [Periodic -> 0..MaxGeneration] /\ lastSent \in [Generics -> 0..MaxGeneration]
    BY <1>1, <2>1
  <2> QED
    BY <1>1, <2>1, <2>2 DEF SenderTypes
<1>4. /\ Len(handed) = 0 /\ Len(events) = 0 /\ Len(arrived) = 0 /\ Len(queue) = 0
      /\ 1..Len(handed) = {} /\ 1..Len(arrived) = {} /\ 1..Len(queue) = {}
  BY <1>1
<1>5. CommonTypes /\ ArrivedInv
  <2>1. handed \in Seq(Messages) /\ events \in Seq(Seq(EventNames)) /\ arrived \in Seq(1..Len(handed))
    BY <1>1
  <2> QED
    BY <1>1, <1>4, <2>1, ConstantsAssumption DEF CommonTypes, ArrivedInv
<1>6. SyncTypes /\ SyncInv
  BY <1>1, <1>4 DEF SyncTypes, SyncInv, S!WorkerSteps, S!StopSteps, Serving, ArrivedBefore
<1>7. KafkaTypes /\ KafkaInv
  <2>1. queue \in Seq([msg : Known, answer : K!Answers])
    BY <1>1
  <2> QED
    BY <1>1, <1>4, <2>1
    DEF KafkaTypes, KafkaInv, QueueInv, ReportInv, AttemptInv, K!WorkerSteps, K!StopSteps
<1>8. VersionInv /\ SendingInv
  BY <1>1, <1>4 DEF VersionInv, SendingInv
<1> QED
  BY <1>1, <1>2, <1>3, <1>5, <1>6, <1>7, <1>8 DEF ProcessInv, ChannelInv, T!Init

\* The process is in order at all times, and every step of it is one that is
\* promised of a transport.
LEMMA ProcessInOrder == Spec => []ProcessInv
<1>1. ASSUME ProcessInv, [Next]_vars PROVE ProcessInv'
  <2>1. transport' = transport
    BY <1>1, Channels
  <2>2. IntervalTypes' /\ IntervalInv'
    BY <1>1, NextInterval DEF ProcessInv
  <2>3. SenderTypes' /\ ChannelInv' /\ VersionInv' /\ SendingInv'
    BY <1>1, SenderSteps, ChannelSteps, VersionSteps DEF ProcessInv
  <2> QED
    BY <1>1, <2>1, <2>2, <2>3 DEF ProcessInv
<1> QED
  BY <1>1, ProcessInit, PTL DEF Spec

\* Every variable has its type, whichever transport there is; and a goroutine
\* that waits for SendAsync to return did hand a message over.
THEOREM TypeCorrect == Spec => []TypeOK
<1>1. ASSUME ProcessInv PROVE TypeOK
  <2>1. /\ transport \in TransportTypes /\ transport \in {"kafka", "sync-service"}
        /\ IntervalTypes /\ SenderTypes /\ CommonTypes /\ SendingInv
        /\ transport = "kafka" => KafkaTypes
        /\ transport = "sync-service" => SyncTypes
    BY <1>1, ConstantsAssumption DEF ProcessInv, ChannelInv
  <2>2. DOMAIN handed = 1..Len(handed)
    BY <2>1, CommonLengths
  <2>3. /\ \A p \in Periodic :
             (at[p] = "sending" /\ ~panicked) => \E i \in DOMAIN handed : handed[i].id = p
        /\ arrived \in Seq(DOMAIN handed)
        /\ events \in Seq(Seq({"attempt", "success", "failure"})) /\ Len(events) = Len(handed)
    BY <2>1, <2>2 DEF SendingInv, CommonTypes, EventNames
  <2>4. transport = "kafka" =>
          /\ worker \in K!WorkerSteps
          /\ stop \in K!StopSteps
          /\ queue \in Seq([msg : DOMAIN handed, answer : K!Answers])
          /\ report \in {K!NoReport} \cup [msg : DOMAIN handed, answer : T!Outcomes]
          /\ attempts \subseteq DOMAIN handed
          /\ poller \in {"poll", "deliver", "gone"}
    BY <2>1, <2>2 DEF KafkaTypes, Known
  <2>5. transport = "sync-service" =>
          worker \in S!WorkerSteps /\ stop \in S!StopSteps /\ taken \in 0..Len(handed)
    BY <2>1 DEF SyncTypes
  <2> QED
    BY <2>1, <2>3, <2>4, <2>5 DEF TypeOK, IntervalTypes, SenderTypes, CommonTypes, Stages
<1> QED
  BY <1>1, ProcessInOrder, PTL

\* The hub of hubs is never given an older version of a bundle after a newer
\* one, however the goroutines of senders, client and handler interleave.
THEOREM HubNeverGoesBack == Spec => []VersionsAdvance
<1>1. ASSUME ProcessInv PROVE VersionsAdvance
  <2>1. CommonTypes /\ ArrivedInv /\ VersionInv
    BY <1>1 DEF ProcessInv, ChannelInv
  <2> SUFFICES ASSUME NEW j \in DOMAIN arrived, NEW i \in 1..(j - 1),
                      handed[arrived[i]].id = handed[arrived[j]].id
               PROVE  handed[arrived[i]].generation < handed[arrived[j]].generation
    BY DEF VersionsAdvance
  <2>2. i \in 1..Len(arrived) /\ j \in 1..Len(arrived) /\ i < j
    BY <2>1, CommonLengths
  <2>3. /\ arrived[i] \in 1..Len(handed) /\ arrived[j] \in 1..Len(handed)
        /\ arrived[i] < arrived[j]
    BY <2>1, <2>2, CommonLengths DEF ArrivedInv
  <2> QED
    BY <2>1, <2>3 DEF VersionInv
<1> QED
  BY <1>1, ProcessInOrder, PTL

\* The Kafka producer and the Edge Sync Service, with all their goroutines and
\* wherever they are stopped, give their callers what Transport says.
THEOREM TransportsKeepPromises == Spec => ImplementsTransport
<1>1. Init => T!Init
  BY ProcessInit
<1>2. ASSUME ProcessInv, [Next]_vars PROVE [T!Next]_(T!vars)
  BY <1>2, ChannelSteps DEF ProcessInv
<1> QED
  BY <1>1, <1>2, ProcessInOrder, PTL DEF Spec, T!Spec, ImplementsTransport

=============================================================================
