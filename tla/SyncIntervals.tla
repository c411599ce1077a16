--------------------------- MODULE SyncIntervals ---------------------------
(***************************************************************************)
(* The sync intervals: other programs write the config map, a reconciler   *)
(* stores what it finds there, interval by interval, in variables that the *)
(* tickers' goroutines read without a lock.                                *)
(***************************************************************************)
EXTENDS Integers, Sequences

CONSTANTS
    NotFound,        \* there is no config map
    Undefined,       \* a key the config map lacks
    Invalid,         \* a value that is no duration
    ConfigMaps,      \* bound: contents of the config map that occur
    MaxConfigChanges \* bound: how often it changes

VARIABLES
    configMap,    \* the config map, as the informer's cache has it
    requested,    \* a request waits for the reconciler
    snapshot,     \* the object in the reconciler's hands
    remaining,    \* keys whose interval it has still to set, in order
    intervals,    \* SyncIntervals
    unfit,        \* history: an interval that is not positive was configured
    configChanges \* counts changes of the config map

Keys == {"managed_clusters", "policies", "control_info"}

\* In seconds.
Defaults == [managed_clusters |-> 5, policies |-> 5, control_info |-> 60]

Defined(cm, k) == cm # NotFound /\ cm[k] \notin {Undefined, Invalid}

Init ==
    /\ configMap = NotFound
    /\ requested = FALSE
    /\ snapshot = NotFound
    /\ remaining = <<>>
    /\ intervals = Defaults
    /\ unfit = FALSE
    /\ configChanges = 0

\* A write or a deletion, its event and a request.
ChangeConfigMap(cm) ==
    /\ cm # configMap
    /\ configChanges < MaxConfigChanges
    /\ configChanges' = configChanges + 1
    /\ configMap' = cm
    /\ requested' = TRUE
    /\ unfit' = (unfit \/ \E k \in Keys : Defined(cm, k) /\ cm[k] <= 0)
    /\ UNCHANGED <<snapshot, remaining, intervals>>

\* A deleted config map leaves the intervals as they are.
Reconcile ==
    /\ requested /\ remaining = <<>>
    /\ requested' = FALSE
    /\ snapshot' = configMap
    /\ remaining' = IF configMap = NotFound THEN <<>>
                    ELSE <<"managed_clusters", "policies", "control_info">>
    /\ UNCHANGED <<configMap, intervals, unfit, configChanges>>

\* Mutated forms: what is no duration is stored as ParseDuration returns it;
\* the interval of the policies goes to the managed clusters.
ParsedOrZero(k) ==
    IF Defined(snapshot, k) THEN [intervals EXCEPT ![k] = snapshot[k]]
    ELSE IF snapshot[k] = Invalid THEN [intervals EXCEPT ![k] = 0] ELSE intervals

Misplaced(k) ==
    IF Defined(snapshot, k)
    THEN [intervals EXCEPT ![IF k = "policies" THEN "managed_clusters" ELSE k] = snapshot[k]]
    ELSE intervals

\* setSyncInterval keeps the old value of a key that is missing or invalid.
WithInterval(k) ==
    IF Defined(snapshot, k) THEN [intervals EXCEPT ![k] = snapshot[k]] ELSE intervals

SetSyncInterval ==
    /\ remaining # <<>>
    /\ intervals' = WithInterval(Head(remaining))
    /\ remaining' = Tail(remaining)
    /\ UNCHANGED <<configMap, requested, snapshot, unfit, configChanges>>

Settled == ~requested /\ remaining = <<>>

=============================================================================
