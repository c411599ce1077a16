---------------------------- MODULE Incarnation ----------------------------
(***************************************************************************)
(* The start of the process: every instance takes an incarnation from a    *)
(* config map before it takes part in the leader election, and the leader  *)
(* sends under it.  Instances are restarted when they end.                 *)
(***************************************************************************)
EXTENDS BundleVersion

CONSTANTS
    Instances,     \* instances that may run at the same time
    Overlaps,      \* how instances may overlap, as the deployment has it:
                   \* "none": one instance at a time, as with one replica that
                   \* is recreated; "standby": others may be waiting to lead,
                   \* but one is through its start before the next begins;
                   \* "any": no restriction
    MaxStarts,     \* bound: starts of instances
    MaxGeneration, \* bound: messages of one leader
    None           \* no instance; no config map

ASSUME InstancesAssumption ==
    /\ None \notin Instances /\ None \notin Nat
    /\ Overlaps \subseteq {"none", "standby", "any"}
    /\ MaxStarts \in Nat /\ MaxGeneration \in Nat

VARIABLES
    overlap,     \* which of Overlaps it is
    namespace,   \* whether the hoh-local namespace exists
    configMap,   \* the incarnation in the config map
    step,        \* how far each instance is
    read,        \* the config map as an instance read it
    incarnation, \* of each instance
    generation,  \* of the last message of each instance
    leader,      \* who holds the lease
    newest,      \* history: the newest version sent by anyone
    outdated,    \* history: a message was sent that was not newer
    taken,       \* history: incarnations in use so far
    repeated,    \* history: an incarnation was taken twice
    starts       \* counts starts

store    == <<namespace, configMap>>
instance == <<step, read, incarnation, generation>>
messages == <<newest, outdated>>
history  == <<taken, repeated>>
vars     == <<overlap, store, instance, leader, messages, history, starts>>

Steps == {"down", "namespace", "get", "create", "patch", "standby", "leading"}

Starting == {"namespace", "get", "create", "patch"}

Init ==
    /\ overlap \in Overlaps
    /\ namespace \in BOOLEAN
    /\ configMap = None
    /\ step = [i \in Instances |-> "down"]
    /\ read = [i \in Instances |-> 0]
    /\ incarnation = [i \in Instances |-> 0]
    /\ generation = [i \in Instances |-> 0]
    /\ leader = None
    /\ newest = NewBundleVersion(0, 0)
    /\ outdated = FALSE
    /\ taken = {}
    /\ repeated = FALSE
    /\ starts = 0

MayStart ==
    /\ overlap = "none" => \A i \in Instances : step[i] = "down"
    /\ overlap = "standby" => \A i \in Instances : step[i] \notin Starting

Start(i) ==
    /\ step[i] = "down" /\ MayStart
    /\ starts < MaxStarts
    /\ starts' = starts + 1
    /\ step' = [step EXCEPT ![i] = "namespace"]
    /\ UNCHANGED <<store, read, incarnation, generation, leader, messages, history>>

\* The process ends: an API call failed, the lease was lost, it crashed or
\* was stopped.  A lease that is not given up expires.
End(i) ==
    /\ step[i] # "down"
    /\ step' = [step EXCEPT ![i] = "down"]
    /\ generation' = [generation EXCEPT ![i] = 0]
    /\ leader' = IF leader = i THEN None ELSE leader
    /\ UNCHANGED <<store, read, incarnation, messages, history, starts>>

---------------------------------------------------------------------------
(* getIncarnation.                                                         *)

\* createHohLocalNamespaceIfAbsent: only AlreadyExists is a success.
EnsureNamespace(i) ==
    /\ step[i] = "namespace"
    /\ namespace' = TRUE
    /\ step' = [step EXCEPT ![i] = IF namespace THEN "get" ELSE "down"]
    /\ UNCHANGED <<configMap, read, incarnation, generation, leader, messages, history, starts>>

\* Mutated form: without a config map the start goes on.
GetConfigMapOrGoOn(i) ==
    /\ step[i] = "get"
    /\ IF configMap = None
       THEN step' = [step EXCEPT ![i] = "standby"] /\ UNCHANGED read
       ELSE step' = [step EXCEPT ![i] = "patch"] /\ read' = [read EXCEPT ![i] = configMap]
    /\ UNCHANGED <<store, incarnation, generation, leader, messages, history, starts>>

GetConfigMap(i) ==
    /\ step[i] = "get"
    /\ IF configMap = None
       THEN step' = [step EXCEPT ![i] = "create"] /\ UNCHANGED read
       ELSE step' = [step EXCEPT ![i] = "patch"] /\ read' = [read EXCEPT ![i] = configMap]
    /\ UNCHANGED <<store, incarnation, generation, leader, messages, history, starts>>

Take(i, n) ==
    /\ incarnation' = [incarnation EXCEPT ![i] = n]
    /\ taken' = taken \cup {n}
    /\ repeated' = (repeated \/ n \in taken)
    /\ step' = [step EXCEPT ![i] = "standby"]

\* The config map is created with incarnation 0; it is an error if another
\* instance created it in between.
CreateConfigMap(i) ==
    /\ step[i] = "create"
    /\ IF configMap = None
       THEN configMap' = 0 /\ Take(i, 0)
       ELSE step' = [step EXCEPT ![i] = "down"] /\ UNCHANGED <<configMap, incarnation, history>>
    /\ UNCHANGED <<namespace, read, generation, leader, messages, starts>>

\* Mutated form: the incarnation is used without being written back.
PatchNothing(i) ==
    /\ step[i] = "patch"
    /\ Take(i, read[i] + 1)
    /\ UNCHANGED <<store, read, generation, leader, messages, starts>>

\* Mutated form: what is written back is used only from the next start on.
PatchAndUseRead(i) ==
    /\ step[i] = "patch"
    /\ configMap' = read[i] + 1
    /\ Take(i, read[i])
    /\ UNCHANGED <<namespace, read, generation, leader, messages, starts>>

\* A merge patch of the data, whatever the config map has become since.
PatchConfigMap(i) ==
    /\ step[i] = "patch"
    /\ configMap' = read[i] + 1
    /\ Take(i, read[i] + 1)
    /\ UNCHANGED <<namespace, read, generation, leader, messages, starts>>

---------------------------------------------------------------------------
(* mgr.Start: only the leader runs its controllers and sends.              *)

Lead(i) ==
    /\ step[i] = "standby" /\ leader = None
    /\ leader' = i
    /\ step' = [step EXCEPT ![i] = "leading"]
    /\ UNCHANGED <<store, read, incarnation, generation, messages, history, starts>>

Send(i) ==
    /\ step[i] = "leading"
    /\ generation[i] < MaxGeneration
    /\ generation' = [generation EXCEPT ![i] = @ + 1]
    /\ LET version == NewBundleVersion(incarnation[i], generation[i] + 1)
       IN  IF NewerThan(version, newest)
           THEN newest' = version /\ UNCHANGED outdated
           ELSE outdated' = TRUE /\ UNCHANGED newest
    /\ UNCHANGED <<store, step, read, incarnation, leader, history, starts>>

Next ==
    /\ UNCHANGED overlap
    /\ \E i \in Instances :
         \/ Start(i) \/ End(i)
         \/ EnsureNamespace(i) \/ GetConfigMap(i) \/ CreateConfigMap(i) \/ PatchConfigMap(i)
         \/ Lead(i) \/ Send(i)

Spec == Init /\ [][Next]_vars

---------------------------------------------------------------------------
(* Properties.                                                             *)

\* Every variable has its type, the leader is the one that leads, and nobody
\* gets beyond its start without an incarnation.
TypeOK ==
    /\ overlap \in Overlaps
    /\ namespace \in BOOLEAN
    /\ configMap \in Nat \cup {None}
    /\ step \in [Instances -> Steps]
    /\ read \in [Instances -> Nat]
    /\ incarnation \in [Instances -> Nat]
    /\ generation \in [Instances -> Nat]
    /\ leader \in Instances \cup {None}
    /\ newest \in Versions
    /\ outdated \in BOOLEAN
    /\ taken \subseteq Nat
    /\ repeated \in BOOLEAN
    /\ starts \in Nat
    /\ \A i \in Instances : step[i] = "leading" <=> leader = i
    /\ \A i \in Instances : step[i] \in {"standby", "leading"} => incarnation[i] \in taken

\* With one instance at a time, what it sends is more recent than anything
\* sent before, at whatever point the instances before it ended.
MessagesAreMoreRecent == overlap = "none" => ~outdated

\* With one start at a time, no two instances, running or gone, have the same
\* incarnation.
IncarnationsDiffer == overlap # "any" => ~repeated

\* The comment at getIncarnation: "messages transmitted from this instance
\* are more recent than all other existing ones, regardless of their
\* instance-specific generations".
NothingOutdatedIsSent == ~outdated

=============================================================================
