------------------------- MODULE IncarnationProofs -------------------------
(* Theorems about Incarnation, for any number of instances and of starts.  *)
EXTENDS Incarnation, TLAPS

\* A version has its two fields.
LEMMA VersionType ==
    ASSUME NEW i \in Nat, NEW g \in Nat
    PROVE  /\ NewBundleVersion(i, g) \in Versions
           /\ NewBundleVersion(i, g).incarnation = i
           /\ NewBundleVersion(i, g).generation = g
BY DEF NewBundleVersion, Versions

---------------------------------------------------------------------------
\* Type correctness; in particular nobody leads, or waits to, without having
\* taken an incarnation.
THEOREM TypeCorrect == Spec => []TypeOK
<1>1. Init => TypeOK
    <2>1. NewBundleVersion(0, 0) \in Versions
        BY DEF NewBundleVersion, Versions
    <2>2. Init => namespace \in BOOLEAN /\ outdated \in BOOLEAN /\ repeated \in BOOLEAN
        BY Zenon DEF Init
    <2>3. Init => configMap \in Nat \cup {None} /\ leader \in Instances \cup {None}
        BY DEF Init
    <2> QED BY <2>1, <2>2, <2>3, InstancesAssumption DEF Init, TypeOK, Steps
<1>2. TypeOK /\ [Next]_vars => TypeOK'
    <2> SUFFICES ASSUME TypeOK, [Next]_vars PROVE TypeOK'
        OBVIOUS
    <2>0. overlap' \in Overlaps
        BY DEF Next, vars, TypeOK
    <2> USE InstancesAssumption, <2>0
    <2>1. ASSUME NEW i \in Instances, Start(i) PROVE TypeOK'
        BY <2>1 DEF Start, TypeOK, Steps, store, messages, history
    <2>2. ASSUME NEW i \in Instances, End(i) PROVE TypeOK'
        BY <2>2 DEF End, TypeOK, Steps, store, messages, history
    <2>3. ASSUME NEW i \in Instances, EnsureNamespace(i) PROVE TypeOK'
        BY <2>3 DEF EnsureNamespace, TypeOK, Steps, messages, history
    <2>4. ASSUME NEW i \in Instances, GetConfigMap(i) PROVE TypeOK'
        <3>1. CASE configMap = None
            BY <2>4, <3>1 DEF GetConfigMap, TypeOK, Steps, store, messages, history
        <3>2. CASE configMap # None
            BY <2>4, <3>2 DEF GetConfigMap, TypeOK, Steps, store, messages, history
        <3> QED BY <3>1, <3>2
    <2>5. ASSUME NEW i \in Instances, CreateConfigMap(i) PROVE TypeOK'
        <3>1. CASE configMap = None
            <4>1. repeated' \in BOOLEAN
                BY <2>5, <3>1, Zenon DEF CreateConfigMap, Take, TypeOK
            <4>2. taken' \subseteq Nat /\ configMap' \in Nat
                <5>1. taken' = taken \cup {0} /\ configMap' = 0
                    BY <2>5, <3>1, Zenon DEF CreateConfigMap, Take
                <5> QED BY <5>1 DEF TypeOK
            <4>3. \A j \in Instances : step'[j] = "leading" <=> leader' = j
                BY <2>5, <3>1 DEF CreateConfigMap, Take, TypeOK, Steps
            <4>4. \A j \in Instances : step'[j] \in {"standby", "leading"} => incarnation'[j] \in taken'
                BY <2>5, <3>1 DEF CreateConfigMap, Take, TypeOK, Steps
            <4>5. step' \in [Instances -> Steps] /\ incarnation' \in [Instances -> Nat]
                BY <2>5, <3>1 DEF CreateConfigMap, Take, TypeOK, Steps
            <4>6. UNCHANGED <<namespace, read, generation, leader, newest, outdated, starts>>
                BY <2>5 DEF CreateConfigMap, messages
            <4> QED BY <4>1, <4>2, <4>3, <4>4, <4>5, <4>6 DEF TypeOK
        <3>2. CASE configMap # None
            BY <2>5, <3>2 DEF CreateConfigMap, TypeOK, Steps, messages, history
        <3> QED BY <3>1, <3>2
    <2>6. ASSUME NEW i \in Instances, PatchConfigMap(i) PROVE TypeOK'
        <3>1. repeated' \in BOOLEAN
            BY <2>6, Zenon DEF PatchConfigMap, Take, TypeOK
        <3>2. taken' \subseteq Nat /\ configMap' \in Nat
            <4>1. taken' = taken \cup {read[i] + 1} /\ configMap' = read[i] + 1
                BY <2>6, Zenon DEF PatchConfigMap, Take
            <4>2. read[i] + 1 \in Nat
                BY DEF TypeOK
            <4> QED BY <4>1, <4>2 DEF TypeOK
        <3>3. \A j \in Instances : step'[j] = "leading" <=> leader' = j
            BY <2>6 DEF PatchConfigMap, Take, TypeOK, Steps
        <3>4. \A j \in Instances : step'[j] \in {"standby", "leading"} => incarnation'[j] \in taken'
            BY <2>6 DEF PatchConfigMap, Take, TypeOK, Steps
        <3>5. step' \in [Instances -> Steps] /\ incarnation' \in [Instances -> Nat]
            BY <2>6 DEF PatchConfigMap, Take, TypeOK, Steps
        <3>6. UNCHANGED <<namespace, read, generation, leader, newest, outdated, starts>>
            BY <2>6 DEF PatchConfigMap, messages
        <3> QED BY <3>1, <3>2, <3>3, <3>4, <3>5, <3>6 DEF TypeOK
    <2>7. ASSUME NEW i \in Instances, Lead(i) PROVE TypeOK'
        BY <2>7 DEF Lead, TypeOK, Steps, store, messages, history
    <2>8. ASSUME NEW i \in Instances, Send(i) PROVE TypeOK'
        <3> DEFINE version == NewBundleVersion(incarnation[i], generation[i] + 1)
        <3>1. newest' \in Versions /\ outdated' \in BOOLEAN
            <4>1. version \in Versions
                BY <2>8 DEF TypeOK, NewBundleVersion, Versions
            <4>2. CASE NewerThan(version, newest)
                BY <2>8, <4>1, <4>2 DEF Send, TypeOK
            <4>3. CASE ~NewerThan(version, newest)
                <5>1. outdated' = TRUE /\ newest' = newest
                    BY <2>8, <4>3, Zenon DEF Send
                <5> QED BY <5>1 DEF TypeOK
            <4> QED BY <4>2, <4>3
        <3>2. generation' \in [Instances -> Nat]
            BY <2>8 DEF Send, TypeOK
        <3> QED BY <2>8, <3>1, <3>2 DEF Send, TypeOK, store, history
    <2>9. CASE UNCHANGED vars
        BY <2>9 DEF vars, TypeOK, store, instance, messages, history
    <2> QED BY <2>1, <2>2, <2>3, <2>4, <2>5, <2>6, <2>7, <2>8, <2>9 DEF Next
<1> QED BY <1>1, <1>2, PTL DEF Spec

---------------------------------------------------------------------------
(* What an instance knows of the config map while it starts.               *)

\* Whoever is about to create the config map has none before it, and whoever
\* is about to patch it has read what it still is.
StartInv ==
    /\ \A i \in Instances : step[i] = "create" => configMap = None
    /\ \A i \in Instances : step[i] = "patch" => configMap # None /\ read[i] = configMap

\* One start at a time.
OneStarts == \A i, j \in Instances : step[i] \in Starting /\ step[j] \in Starting => i = j

\* No incarnation was taken twice or is ahead of the config map.
TakenInv ==
    /\ ~repeated
    /\ configMap = None => taken = {}
    /\ configMap # None => \A n \in taken : n <= configMap

Serial == StartInv /\ OneStarts /\ TakenInv

SerialInv == overlap # "any" => Serial

\* An action leaves alone how instances may overlap.
LEMMA OverlapStays == [Next]_vars => overlap' = overlap
BY DEF Next, vars

LEMMA SerialStep ==
    ASSUME overlap # "any", TypeOK, Serial, [Next]_vars
    PROVE  Serial'
<1> USE InstancesAssumption DEF Serial, StartInv, OneStarts, TakenInv, Starting
<1>1. ASSUME NEW i \in Instances, Start(i) PROVE Serial'
    BY <1>1 DEF Start, MayStart, TypeOK, store, history
<1>2. ASSUME NEW i \in Instances, End(i) PROVE Serial'
    BY <1>2 DEF End, TypeOK, store, history
<1>3. ASSUME NEW i \in Instances, EnsureNamespace(i) PROVE Serial'
    BY <1>3 DEF EnsureNamespace, TypeOK, history
<1>4. ASSUME NEW i \in Instances, GetConfigMap(i) PROVE Serial'
    <2>1. CASE configMap = None
        BY <1>4, <2>1 DEF GetConfigMap, TypeOK, store, history
    <2>2. CASE configMap # None
        BY <1>4, <2>2 DEF GetConfigMap, TypeOK, store, history
    <2> QED BY <2>1, <2>2
<1>5. ASSUME NEW i \in Instances, CreateConfigMap(i) PROVE Serial'
    <2>1. configMap = None
        BY <1>5 DEF CreateConfigMap
    <2>2. taken = {} /\ ~repeated
        BY <2>1
    <2>3. ~repeated'
        BY <1>5, <2>1, <2>2, Zenon DEF CreateConfigMap, Take
    <2>4. configMap' = 0 /\ taken' = {0} /\ step' = [step EXCEPT ![i] = "standby"]
        BY <1>5, <2>1, <2>2 DEF CreateConfigMap, Take
    <2>5. \A j \in Instances : step'[j] \in Starting => step[j] \in Starting /\ j # i
        BY <2>4 DEF TypeOK
    <2>6. \A j \in Instances : step'[j] \notin {"create", "patch"}
        BY <1>5, <2>4, <2>5 DEF CreateConfigMap
    <2>7. configMap' # None
        BY <2>4
    <2> QED BY <2>3, <2>4, <2>5, <2>6, <2>7
<1>6. ASSUME NEW i \in Instances, PatchConfigMap(i) PROVE Serial'
    <2>1. configMap \in Nat /\ read[i] = configMap
        BY <1>6 DEF PatchConfigMap, TypeOK
    <2>2. configMap + 1 \notin taken
        BY <2>1 DEF TypeOK
    <2> QED BY <1>6, <2>1, <2>2 DEF PatchConfigMap, Take, TypeOK
<1>7. ASSUME NEW i \in Instances, Lead(i) PROVE Serial'
    BY <1>7 DEF Lead, TypeOK, store, history
<1>8. ASSUME NEW i \in Instances, Send(i) PROVE Serial'
    BY <1>8 DEF Send, TypeOK, store, history
<1>9. CASE UNCHANGED vars
    BY <1>9 DEF vars, store, instance, history
<1> QED BY <1>1, <1>2, <1>3, <1>4, <1>5, <1>6, <1>7, <1>8, <1>9 DEF Next

LEMMA SerialInit == Init => SerialInv
BY InstancesAssumption DEF Init, SerialInv, Serial, StartInv, OneStarts, TakenInv, Starting

LEMMA SerialNext == TypeOK /\ SerialInv /\ [Next]_vars => SerialInv'
BY SerialStep, OverlapStays DEF SerialInv

\* No two instances have the same incarnation, if one is through its start
\* before the next begins; how many wait to lead does not matter.
THEOREM DifferentIncarnations == Spec => []IncarnationsDiffer
<1>1. SerialInv => IncarnationsDiffer
    BY DEF SerialInv, Serial, TakenInv, IncarnationsDiffer
<1> QED BY SerialInit, SerialNext, TypeCorrect, <1>1, PTL DEF Spec

---------------------------------------------------------------------------
(* With one instance at a time the latest incarnation is the leader's.     *)

OneRuns == \A i, j \in Instances : step[i] # "down" /\ step[j] # "down" => i = j

\* What was sent is not ahead of the config map, nor of what the instance
\* that may send has come to.
SentInv ==
    /\ ~outdated
    /\ configMap = None => newest = NewBundleVersion(0, 0)
    /\ configMap # None => newest.incarnation <= configMap
    /\ \A i \in Instances : step[i] \in {"standby", "leading"} =>
         /\ configMap # None
         /\ incarnation[i] = configMap
         /\ newest.incarnation = configMap => newest.generation <= generation[i]

Replica == OneRuns /\ SentInv

ReplicaInv == overlap = "none" => Replica

LEMMA ReplicaStep ==
    ASSUME overlap = "none", TypeOK, Serial, Replica, [Next]_vars
    PROVE  Replica'
<1> USE InstancesAssumption DEF Replica, OneRuns, SentInv
<1>1. ASSUME NEW i \in Instances, Start(i) PROVE Replica'
    BY <1>1 DEF Start, MayStart, TypeOK, store, messages
<1>2. ASSUME NEW i \in Instances, End(i) PROVE Replica'
    BY <1>2 DEF End, TypeOK, store, messages
<1>3. ASSUME NEW i \in Instances, EnsureNamespace(i) PROVE Replica'
    BY <1>3 DEF EnsureNamespace, TypeOK, messages
<1>4. ASSUME NEW i \in Instances, GetConfigMap(i) PROVE Replica'
    BY <1>4 DEF GetConfigMap, TypeOK, store, messages
<1>5. ASSUME NEW i \in Instances, CreateConfigMap(i) PROVE Replica'
    <2>1. configMap = None
        BY <1>5 DEF CreateConfigMap, Serial, StartInv
    <2>2. newest.incarnation = 0 /\ newest.generation = 0
        BY <2>1, VersionType, 0 \in Nat
    <2>3. configMap' = 0 /\ step' = [step EXCEPT ![i] = "standby"]
                        /\ incarnation' = [incarnation EXCEPT ![i] = 0]
        BY <1>5, <2>1 DEF CreateConfigMap, Take
    <2>4. \A j \in Instances : step'[j] # "down" => j = i
        BY <1>5, <2>3 DEF CreateConfigMap, TypeOK
    <2> QED BY <1>5, <2>2, <2>3, <2>4 DEF CreateConfigMap, TypeOK, messages
<1>6. ASSUME NEW i \in Instances, PatchConfigMap(i) PROVE Replica'
    <2>1. configMap \in Nat /\ read[i] = configMap
        BY <1>6 DEF PatchConfigMap, TypeOK, Serial, StartInv
    <2> QED BY <1>6, <2>1 DEF PatchConfigMap, Take, TypeOK, messages, Versions
<1>7. ASSUME NEW i \in Instances, Lead(i) PROVE Replica'
    BY <1>7 DEF Lead, TypeOK, store, messages
<1>8. ASSUME NEW i \in Instances, Send(i) PROVE Replica'
    <2> DEFINE version == NewBundleVersion(incarnation[i], generation[i] + 1)
    <2>1. step[i] = "leading" /\ configMap \in Nat /\ incarnation[i] = configMap
        BY <1>8 DEF Send, TypeOK
    <2>2. /\ generation[i] \in Nat
          /\ version.incarnation = configMap /\ version.generation = generation[i] + 1
        BY <2>1, VersionType DEF TypeOK
    <2>3. NewerThan(version, newest)
        BY <2>1, <2>2 DEF NewerThan, TypeOK, Versions
    <2>4. newest' = version /\ ~outdated'
        BY <1>8, <2>3 DEF Send
    <2> HIDE DEF version
    <2>5. OneRuns'
        BY <1>8 DEF Send
    <2>6. ASSUME NEW j \in Instances, step'[j] \in {"standby", "leading"} PROVE j = i
        BY <1>8, <2>1, <2>6 DEF Send
    <2>7. generation'[i] = generation[i] + 1
        BY <1>8 DEF Send, TypeOK
    <2> QED BY <1>8, <2>1, <2>2, <2>4, <2>5, <2>6, <2>7 DEF Send, store
<1>9. CASE UNCHANGED vars
    BY <1>9 DEF vars, store, instance, messages
<1> QED BY <1>1, <1>2, <1>3, <1>4, <1>5, <1>6, <1>7, <1>8, <1>9 DEF Next

\* With one replica that is recreated, every message is more recent than all
\* that any earlier process sent, whatever the point at which that one ended.
THEOREM MoreRecent == Spec => []MessagesAreMoreRecent
<1>1. Init => ReplicaInv
    BY InstancesAssumption DEF Init, ReplicaInv, Replica, OneRuns, SentInv
<1>2. TypeOK /\ SerialInv /\ ReplicaInv /\ [Next]_vars => ReplicaInv'
    BY ReplicaStep, OverlapStays DEF SerialInv, ReplicaInv
<1>3. ReplicaInv => MessagesAreMoreRecent
    BY DEF ReplicaInv, Replica, SentInv, MessagesAreMoreRecent
<1> QED BY SerialInit, SerialNext, TypeCorrect, <1>1, <1>2, <1>3, PTL DEF Spec

=============================================================================
