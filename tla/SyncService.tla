---------------------------- MODULE SyncService ----------------------------
(***************************************************************************)
(* The Edge Sync Service as transport: SendAsync hands a message over an   *)
(* unbuffered channel to the one goroutine that talks to the service, and  *)
(* so returns only when that goroutine has taken it.                       *)
(*                                                                         *)
(* A goroutine that is parked in a select is not told from one that is     *)
(* about to enter it: what the first can do the second can do as well.     *)
(***************************************************************************)
EXTENDS Naturals, Sequences

CONSTANT MaxErrors  \* bound: calls of the service that fail

VARIABLES
    handed, events, arrived, \* see Transport
    taken,    \* how many messages sendMessages received from msgChan
    worker,   \* how far the goroutine of sendMessages is
    stop,     \* how far Stop has come
    panicked, \* a goroutine panicked, which ends the process
    errors    \* counts the service's failures

WorkerSteps == {"off", "select", "object", "data", "success", "failure", "returned"}

StopSteps == {"no", "token", "signalled", "closed"}

\* Start: startOnce and the goroutine.
Start ==
    /\ worker = "off"
    /\ worker' = "select"
    /\ UNCHANGED <<handed, events, arrived, taken, stop, panicked, errors>>

---------------------------------------------------------------------------
(* SendAsync.  The caller waits until its message is received.             *)

SendAsync(m) ==
    /\ IF stop = "closed"
       THEN panicked' = TRUE /\ UNCHANGED <<handed, events>>
       ELSE /\ handed' = Append(handed, m)
            /\ events' = Append(events, <<>>)
            /\ UNCHANGED panicked
    /\ UNCHANGED <<arrived, taken, worker, stop, errors>>

Returned(i) == i <= taken

---------------------------------------------------------------------------
(* sendMessages: a select over stopChan and msgChan, and what follows.     *)

Occurs(i, e) == events' = [events EXCEPT ![i] = Append(@, e)]

Receive ==
    /\ worker = "select"
    /\ taken < Len(handed)
    /\ taken' = taken + 1
    /\ worker' = "object"
    /\ Occurs(taken + 1, "attempt")
    /\ UNCHANGED <<handed, arrived, stop, panicked, errors>>

ReceiveStop ==
    /\ worker = "select"
    /\ stop # "no"
    /\ worker' = "returned"
    /\ UNCHANGED <<handed, events, arrived, taken, stop, panicked, errors>>

\* A closed msgChan yields a nil message, whose fields are then read.
ReceiveNil ==
    /\ worker = "select"
    /\ stop = "closed"
    /\ panicked' = TRUE
    /\ UNCHANGED <<handed, events, arrived, taken, worker, stop, errors>>

Fail(next) ==
    /\ errors < MaxErrors
    /\ errors' = errors + 1
    /\ worker' = next

\* Mutated form: a failure is reported and the data are sent all the same.
UpdateObjectAndGoOn ==
    /\ worker = "object"
    /\ worker' = "data"
    /\ \/ UNCHANGED <<events, errors>>
       \/ errors < MaxErrors /\ errors' = errors + 1 /\ Occurs(taken, "failure")
    /\ UNCHANGED <<handed, arrived, taken, stop, panicked>>

UpdateObject ==
    /\ worker = "object"
    /\ \/ worker' = "data" /\ UNCHANGED errors
       \/ Fail("failure")
    /\ UNCHANGED <<handed, events, arrived, taken, stop, panicked>>

\* Compression and UpdateObjectData; a failed call may have taken effect.
UpdateObjectData ==
    /\ worker = "data"
    /\ \/ worker' = "success" /\ arrived' = Append(arrived, taken) /\ UNCHANGED errors
       \/ Fail("failure") /\ arrived' \in {arrived, Append(arrived, taken)}
    /\ UNCHANGED <<handed, events, taken, stop, panicked>>

\* Mutated form: sendMessages returns after an error.
ReportAndReturn ==
    /\ worker \in {"success", "failure"}
    /\ Occurs(taken, worker)
    /\ worker' = IF worker = "failure" THEN "returned" ELSE "select"
    /\ UNCHANGED <<handed, arrived, taken, stop, panicked, errors>>

\* The callback of the outcome, and the next round of the loop.
Report ==
    /\ worker \in {"success", "failure"}
    /\ Occurs(taken, worker)
    /\ worker' = "select"
    /\ UNCHANGED <<handed, arrived, taken, stop, panicked, errors>>

Work == Receive \/ ReceiveStop \/ ReceiveNil \/ UpdateObject \/ UpdateObjectData \/ Report

---------------------------------------------------------------------------
(* Stop: a token into the buffered stopChan, then both channels are        *)
(* closed.  Closing msgChan panics every goroutine that is sending on it.  *)

PutToken == stop = "no" /\ stop' = "token" /\ UNCHANGED panicked

CloseStopChan == stop = "token" /\ stop' = "signalled" /\ UNCHANGED panicked

CloseMsgChan ==
    /\ stop = "signalled"
    /\ stop' = "closed"
    /\ panicked' = (taken < Len(handed))

Stop ==
    /\ PutToken \/ CloseStopChan \/ CloseMsgChan
    /\ UNCHANGED <<handed, events, arrived, taken, worker, errors>>

=============================================================================
