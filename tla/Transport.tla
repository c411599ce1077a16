----------------------------- MODULE Transport -----------------------------
(***************************************************************************)
(* What the controllers may rely on of a transport.Transport, whichever it *)
(* is: messages arrive in the order in which they were handed over, each   *)
(* at most once and some not at all; every event occurs at most once for a *)
(* message; a message has one outcome, and nothing arrives after it; what  *)
(* is reported as delivered did arrive, and in that order.                 *)
(*                                                                         *)
(* A message is known by its place in the order of SendAsync's calls.      *)
(***************************************************************************)
EXTENDS Naturals, Sequences, SequencesExt

VARIABLES
    handed,  \* messages handed to SendAsync
    events,  \* the events that occurred for each of them, in order
    arrived  \* the messages at the hub of hubs, in order

vars == <<handed, events, arrived>>

Outcomes == {"success", "failure"}

HasEvent(i, e) == Contains(events[i], e)

HasOutcome(i) == \E e \in Outcomes : HasEvent(i, e)

Init ==
    /\ handed = <<>>
    /\ events = <<>>
    /\ arrived = <<>>

\* SendAsync takes one more message, or refuses it at once.
Hand ==
    /\ handed' # <<>> /\ Front(handed') = handed
    /\ events' \in {Append(events, <<>>), Append(events, <<"failure">>)}
    /\ UNCHANGED arrived

Arrive(i) ==
    /\ ~HasOutcome(i)
    /\ \A j \in DOMAIN arrived : arrived[j] < i
    /\ arrived' = Append(arrived, i)
    /\ UNCHANGED <<handed, events>>

Report(i, e) ==
    /\ ~HasEvent(i, e)
    /\ e \in Outcomes => ~HasOutcome(i)
    /\ e = "success" =>
         /\ Contains(arrived, i)
         /\ \A j \in DOMAIN handed : HasEvent(j, "success") => j < i
    /\ events' = [events EXCEPT ![i] = Append(@, e)]
    /\ UNCHANGED <<handed, arrived>>

Next ==
    \/ Hand
    \/ \E i \in DOMAIN handed : Arrive(i) \/ Report(i, "attempt") \/ \E e \in Outcomes : Report(i, e)

Spec == Init /\ [][Next]_vars

=============================================================================
