------------------------------ MODULE Process ------------------------------
(***************************************************************************)
(* The process from doMain to its end: the transport, of either type, with *)
(* its Start and Stop; the goroutines that send at every tick, of generic  *)
(* status sync controllers and of the control info; and the intervals of   *)
(* their tickers.  What a bundle contains is left out: it has a version.   *)
(***************************************************************************)
EXTENDS Integers, Sequences, FiniteSets, FiniteSetsExt, Functions

CONSTANTS
    Generics,      \* generic controllers, by the keys of their intervals
    TransportTypes,\* values of the environment variable TRANSPORT_TYPE
    MaxGeneration, \* bound: versions of each bundle
    MaxErrors,     \* see SyncService and KafkaProducer
    MaxEffort,     \* bound: versions, errors and config map changes in all
    NotFound, Undefined, Invalid, ConfigMaps, MaxConfigChanges \* see SyncIntervals

ASSUME ConstantsAssumption ==
    /\ Generics \subseteq {"managed_clusters", "policies"}
    /\ TransportTypes \subseteq {"kafka", "sync-service"}
    /\ MaxGeneration \in Nat
    /\ MaxErrors \in Nat
    /\ MaxEffort \in Nat
    /\ MaxConfigChanges \in Nat

VARIABLES
    transport, \* the type of transportObj
    main,      \* how far doMain is
    at,        \* how far each periodicSync is
    ticker,    \* the period of its ticker, which is currentSyncInterval
    gen,       \* generation of its bundle
    lastSent,  \* generation of a generic controller's lastSentBundleVersion
    handed, events, arrived, worker, stop, panicked, errors, \* of both transports
    taken,                           \* of SyncService
    attempts, queue, poller, report, \* of KafkaProducer
    configMap, requested, snapshot, remaining, intervals, unfit, configChanges

S == INSTANCE SyncService
K == INSTANCE KafkaProducer
T == INSTANCE Transport
I == INSTANCE SyncIntervals

\* What a config map may have for a key, in seconds.
Values == Int \cup {Undefined, Invalid}

\* The config map may also be deleted.
ASSUME ConfigMapsAssumption == ConfigMaps \subseteq {NotFound} \cup [I!Keys -> Values]

ofKafka == <<attempts, queue, poller, report>>
common  == <<handed, events, arrived, worker, stop, errors>>
channel == <<transport, common, taken, ofKafka>>
senders == <<at, ticker, gen, lastSent>>
config  == <<configMap, requested, snapshot, remaining, intervals, unfit, configChanges>>
vars    == <<main, channel, panicked, senders, config>>

Periodic == Generics \cup {"control_info"}

Mains == {"new", "adding", "standby", "leading", "cancelled", "stopping", "exited"}

\* The manager's context is done, or doMain returns without a manager.
ShuttingDown == main \in {"cancelled", "stopping", "exited"}

\* A panic in any goroutine ends the process, and so does os.Exit.
Alive == main # "exited" /\ ~panicked

Init ==
    /\ transport \in TransportTypes
    /\ main = "new"
    /\ at = [p \in Periodic |-> "off"]
    /\ ticker = [p \in Periodic |-> 0]
    /\ gen = [p \in Periodic |-> 0]
    /\ lastSent = [p \in Generics |-> 0]
    /\ handed = <<>> /\ events = <<>> /\ arrived = <<>>
    /\ worker = "off" /\ stop = "no" /\ panicked = FALSE /\ errors = 0
    /\ taken = 0
    /\ attempts = {} /\ queue = <<>> /\ poller = "poll" /\ report = K!NoReport
    /\ I!Init

---------------------------------------------------------------------------
(* doMain.                                                                 *)

\* Mutated form: the transport is not started before there is a manager.
NotStarted ==
    /\ main = "new" /\ main' = "adding"
    /\ UNCHANGED <<channel, panicked, senders, config>>

StartTransport ==
    /\ main = "new" /\ main' = "adding"
    /\ CASE transport = "kafka"        -> K!Start /\ UNCHANGED taken
         [] transport = "sync-service" -> S!Start /\ UNCHANGED ofKafka
    /\ UNCHANGED <<transport, senders, config>>

\* createManager: AddControllers starts the goroutine of each generic
\* controller as it goes.
AddController(p) ==
    /\ main = "adding" /\ at[p] = "off"
    /\ at' = [at EXCEPT ![p] = "starting"]
    /\ UNCHANGED <<main, channel, panicked, ticker, gen, lastSent, config>>

CreateManager ==
    /\ main = "adding"
    /\ \/ main' = "standby" /\ \A p \in Generics : at[p] # "off"
       \/ main' = "stopping"
    /\ UNCHANGED <<channel, panicked, senders, config>>

\* The leader's manager starts the control info and the reconcilers.
Lead ==
    /\ main = "standby" /\ main' = "leading"
    /\ at' = [at EXCEPT !["control_info"] = "starting"]
    /\ UNCHANGED <<channel, panicked, ticker, gen, lastSent, config>>

\* A signal, or the lease is lost.
Cancel ==
    /\ main \in {"standby", "leading"} /\ main' = "cancelled"
    /\ UNCHANGED <<channel, panicked, senders, config>>

\* The manager waits for its runnables, but not for ever.
ManagerReturns ==
    /\ main = "cancelled" /\ main' = "stopping"
    /\ UNCHANGED <<channel, panicked, senders, config>>

\* The deferred call.
StopTransport ==
    /\ main = "stopping"
    /\ CASE transport = "kafka"        -> K!Stop /\ UNCHANGED taken
         [] transport = "sync-service" -> S!Stop /\ UNCHANGED ofKafka
    /\ UNCHANGED <<transport, main, senders, config>>

Exit ==
    /\ main = "stopping" /\ stop = "closed" /\ main' = "exited"
    /\ UNCHANGED <<channel, panicked, senders, config>>

Main ==
    \/ StartTransport \/ CreateManager \/ ManagerReturns \/ StopTransport \/ Exit
    \/ \E p \in Generics : AddController(p)

---------------------------------------------------------------------------
(* periodicSync.                                                           *)

\* Neither NewTicker nor Reset takes a period that is not positive.
SetTicker(p) ==
    IF intervals[p] > 0
    THEN /\ at' = [at EXCEPT ![p] = "wait"]
         /\ ticker' = [ticker EXCEPT ![p] = intervals[p]]
         /\ UNCHANGED panicked
    ELSE panicked' = TRUE /\ UNCHANGED <<at, ticker>>

NewTicker(p) ==
    /\ at[p] = "starting"
    /\ SetTicker(p)
    /\ UNCHANGED <<main, channel, gen, lastSent, config>>

\* Mutated form: only the first interval is ever used.
FirstInterval(p) == at' = [at EXCEPT ![p] = "wait"] /\ UNCHANGED <<ticker, panicked>>

\* Reset if the interval has changed; then the goroutine waits again.
ResolveSyncInterval(p) == SetTicker(p)

\* Reconcile brings a new version of a generic controller's bundle, when
\* nobody else has the controller's lock.
UpdateBundle(p) ==
    /\ main \in {"leading", "cancelled", "stopping"} /\ at[p] # "sending"
    /\ gen[p] < MaxGeneration
    /\ gen' = [gen EXCEPT ![p] = @ + 1]
    /\ UNCHANGED <<main, channel, panicked, at, ticker, lastSent, config>>

\* SyncToTransport: a message's key is its ID, but for a delta-state bundle,
\* which is only sent with Kafka: its transportation id is appended, which
\* makes another key than any ID.
DeltaKey == "delta@id"

KeysOf(p) == {p} \cup (IF p = "policies" /\ transport = "kafka" THEN {DeltaKey} ELSE {})

SendAsync(m) ==
    /\ CASE transport = "kafka"        -> K!SendAsync(m) /\ UNCHANGED taken
         [] transport = "sync-service" -> S!SendAsync(m) /\ UNCHANGED ofKafka
    /\ UNCHANGED transport

\* syncBundles at a tick: the lock and, if there is news, SendAsync.
SyncBundles(p) ==
    /\ at[p] = "wait"
    /\ IF gen[p] > lastSent[p]
       THEN /\ \E k \in KeysOf(p) : SendAsync([id |-> p, key |-> k, generation |-> gen[p]])
            /\ at' = [at EXCEPT ![p] = "sending"]
            /\ UNCHANGED ticker
       ELSE ResolveSyncInterval(p) /\ UNCHANGED channel
    /\ UNCHANGED <<main, gen, lastSent, config>>

\* Mutated form: the generation is not increased.
SameGeneration == gen["control_info"]

NextGeneration == gen["control_info"] + 1

\* syncBundle of the control info at a tick: UpdateObject, then SendAsync.
SyncBundle ==
    /\ at["control_info"] = "wait" /\ gen["control_info"] < MaxGeneration
    /\ gen' = [gen EXCEPT !["control_info"] = NextGeneration]
    /\ SendAsync([id |-> "control_info", key |-> "control_info", generation |-> NextGeneration])
    /\ at' = [at EXCEPT !["control_info"] = "sending"]
    /\ UNCHANGED <<main, ticker, lastSent, config>>

\* The message p handed over last.
Latest(p) == Max({i \in DOMAIN handed : handed[i].id = p})

AttemptCallback(p) ==
    /\ transport = "kafka" /\ at[p] = "sending"
    /\ K!Attempt(Latest(p))
    /\ UNCHANGED <<main, transport, taken, senders, config>>

Returned(i) ==
    CASE transport = "kafka"        -> K!Returned(i)
      [] transport = "sync-service" -> S!Returned(i)

\* SendAsync returns, lastSentBundleVersion is set and the lock released.
SendReturns(p) ==
    /\ at[p] = "sending" /\ Returned(Latest(p))
    /\ lastSent' = IF p \in Generics THEN [lastSent EXCEPT ![p] = gen[p]] ELSE lastSent
    /\ ResolveSyncInterval(p)
    /\ UNCHANGED <<main, channel, gen, config>>

\* Only the control info's goroutine has a context.
ContextDone ==
    /\ ShuttingDown /\ at["control_info"] = "wait"
    /\ at' = [at EXCEPT !["control_info"] = "done"]
    /\ UNCHANGED <<main, channel, panicked, ticker, gen, lastSent, config>>

PeriodicSync(p) ==
    \/ NewTicker(p)
    \/ p \in Generics /\ SyncBundles(p)
    \/ p = "control_info" /\ (SyncBundle \/ ContextDone)
    \/ AttemptCallback(p) \/ SendReturns(p)

---------------------------------------------------------------------------
(* The other goroutines.                                                   *)

Transporting ==
    /\ \/ transport = "kafka" /\ K!Work /\ UNCHANGED taken
       \/ transport = "sync-service" /\ S!Work /\ UNCHANGED ofKafka
    /\ UNCHANGED <<main, transport, senders, config>>

\* What the config map is at other times nobody looks at.
ChangeConfigMap ==
    /\ main = "leading"
    /\ \E cm \in ConfigMaps : I!ChangeConfigMap(cm)
    /\ UNCHANGED <<main, channel, panicked, senders>>

ReconcileIntervals ==
    /\ \/ main = "leading" /\ I!Reconcile
       \/ I!SetSyncInterval
    /\ UNCHANGED <<main, channel, panicked, senders>>

\* What is bounded, taken together.
Effort == FoldFunction(+, errors + configChanges, gen)

\* A step of the process, within the bounds.
Step(A) == Alive /\ A /\ Effort' <= MaxEffort

Next ==
    \/ Step(Main) \/ Step(Lead) \/ Step(Cancel)
    \/ \E p \in Generics : Step(UpdateBundle(p))
    \/ \E p \in Periodic : Step(PeriodicSync(p))
    \/ Step(Transporting)
    \/ Step(ChangeConfigMap) \/ Step(ReconcileIntervals)

Spec == Init /\ [][Next]_vars

\* Every goroutine goes on, and the broker or the service answers.  Nothing
\* is assumed of other programs, signals, leases and statuses.
Fairness ==
    /\ WF_vars(Step(Main))
    /\ \A p \in Periodic : WF_vars(Step(PeriodicSync(p)))
    /\ WF_vars(Step(Transporting))
    /\ WF_vars(Step(ReconcileIntervals))

FairSpec == Spec /\ Fairness

---------------------------------------------------------------------------
(* Properties.                                                             *)

Messages == [id : Periodic, key : Periodic \cup {DeltaKey}, generation : 1..MaxGeneration]

\* Every variable has its type, one goroutine sends a message at a time, and
\* what is being sent was handed over.
TypeOK ==
    /\ transport \in TransportTypes
    /\ main \in Mains
    /\ at \in [Periodic -> {"off", "starting", "wait", "sending", "done"}]
    /\ ticker \in [Periodic -> Int]
    /\ gen \in [Periodic -> 0..MaxGeneration]
    /\ lastSent \in [Generics -> 0..MaxGeneration]
    /\ handed \in Seq(Messages)
    /\ \A p \in Periodic : (at[p] = "sending" /\ ~panicked) => \E i \in DOMAIN handed : handed[i].id = p
    /\ events \in Seq(Seq({"attempt", "success", "failure"})) /\ Len(events) = Len(handed)
    /\ arrived \in Seq(DOMAIN handed)
    /\ panicked \in BOOLEAN
    /\ errors \in 0..MaxErrors
    /\ CASE transport = "kafka" ->
              /\ worker \in K!WorkerSteps
              /\ stop \in K!StopSteps
              /\ queue \in Seq([msg : DOMAIN handed, answer : K!Answers])
              /\ report \in {K!NoReport} \cup [msg : DOMAIN handed, answer : T!Outcomes]
              /\ attempts \subseteq DOMAIN handed
              /\ poller \in {"poll", "deliver", "gone"}
         [] transport = "sync-service" ->
              /\ worker \in S!WorkerSteps
              /\ stop \in S!StopSteps
              /\ taken \in 0..Len(handed)
    /\ {configMap, snapshot} \subseteq {NotFound} \cup [I!Keys -> Values]
    /\ requested \in BOOLEAN /\ unfit \in BOOLEAN
    /\ remaining \in Seq(I!Keys)
    /\ intervals \in [I!Keys -> Int]
    /\ configChanges \in 0..MaxConfigChanges

\* Either transport, with its goroutines and whenever it is stopped, gives
\* its callers what Transport says: the order and the outcome of messages.
ImplementsTransport == T!Spec

\* Of one sender's messages a later arrival has a later version: the hub of
\* hubs need not go back, however the senders' goroutines interleave.
VersionsAdvance ==
    \A j \in DOMAIN arrived : \A i \in 1..(j - 1) :
        handed[arrived[i]].id = handed[arrived[j]].id
            => handed[arrived[i]].generation < handed[arrived[j]].generation

\* No goroutine panics in a process that is not stopping its transport,
\* unless somebody configured an interval that is no period.
PanicsAreExplained == panicked => (stop # "no" \/ unfit)

\* With nothing left to reconcile, every interval that the config map gives
\* is in force, wherever it was changed in the middle of a reconciliation.
IntervalsSettle ==
    I!Settled => \A k \in I!Keys : I!Defined(configMap, k) => intervals[k] = configMap[k]

\* SendAsync returns, unless the transport is being stopped: the sender does
\* not keep the controller's lock for ever.
SendsReturn == \A p \in Periodic : []<>(at[p] # "sending" \/ ShuttingDown \/ ~Alive)

\* The attempt was reported of a message whose key is its ID, the outcome not.
Open(i) ==
    i \in DOMAIN handed /\ handed[i].key = handed[i].id /\ T!HasEvent(i, "attempt") /\ ~T!HasOutcome(i)

\* Unless the transport is being stopped, every attempt has an outcome, but
\* for that of a delta, whose outcome nobody is told: the hybrid sync manager
\* hears of every complete-state message whether it was delivered.
AttemptsHaveOutcomes == \A i \in 1..MaxEffort : []<>(~Open(i) \/ ShuttingDown \/ ~Alive)

\* doMain returns, or a panic ends the process: wherever its goroutines are,
\* and also when there is no manager, Stop does not block.
ShutdownEnds == ShuttingDown ~> ~Alive

\* A leader's tickers come to run at the period that the config map gives
\* and keeps giving.
ConfigTakesEffect ==
    \A p \in Generics :
        <>[](main = "leading" /\ ~panicked)
            => <>[](I!Defined(configMap, p) => ticker[p] = configMap[p])

=============================================================================
