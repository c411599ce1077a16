-------------------------------- MODULE Feed --------------------------------
(***************************************************************************)
(* What a leaf hub promises the hub of hubs about one kind of objects: a   *)
(* feed of versioned snapshots that only moves forward.  Every snapshot    *)
(* that arrives is newer than the known one, so that none is sent in vain, *)
(* and takes no object back to a state, or to an object of that name, from *)
(* before what was known of it.  A crash may lose the end of the feed.     *)
(***************************************************************************)
EXTENDS BundleVersion, Sequences, SequencesExt

CONSTANT Names

VARIABLES
    channel, \* snapshots under way, in order
    latest,  \* version of the last snapshot offered
    known,   \* the snapshot the hub of hubs goes by
    newest   \* the newest state of each object that was ever known

vars == <<channel, latest, known, newest>>

NoSnapshot == [version |-> NewBundleVersion(0, 0), objs |-> {}]

Init ==
    /\ channel = <<>>
    /\ latest = NoSnapshot.version
    /\ known = NoSnapshot
    /\ newest = [n \in Names |-> 0]

Offer ==
    /\ channel' # <<>>
    /\ Front(channel') = channel
    /\ NewerThan(Last(channel').version, latest)
    /\ latest' = Last(channel').version
    /\ UNCHANGED <<known, newest>>

\* The newest state of n in snapshot s, or what it was.
NewestIn(s, n) ==
    LET states == {o \in s.objs : o.name = n}
    IN  IF states = {} THEN newest[n] ELSE (CHOOSE o \in states : TRUE).rv

Accept ==
    /\ channel # <<>>
    /\ NewerThan(Head(channel).version, known.version)
    /\ \A o \in Head(channel).objs : o.rv >= newest[o.name]
    /\ known' = Head(channel)
    /\ newest' = [n \in Names |-> NewestIn(known', n)]
    /\ channel' = Tail(channel)
    /\ UNCHANGED latest

Cut ==
    /\ IsPrefix(channel', channel)
    /\ UNCHANGED <<latest, known, newest>>

Next == Offer \/ Accept \/ Cut

Spec == Init /\ [][Next]_vars

=============================================================================
