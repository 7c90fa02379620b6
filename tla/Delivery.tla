------------------------------- MODULE Delivery -------------------------------
(***************************************************************************)
(* What a channel promises those who send on it: an item is accepted or    *)
(* given back, an accepted item is received once at most or answered with  *)
(* an error, the items of one sender are received in the order in which    *)
(* it sent them, and once one of them has come back or has failed none of  *)
(* its items is accepted or received any more.                             *)
(***************************************************************************)
EXTENDS Integers, Sequences

CONSTANTS
    Senders,      \* who sends
    MaxSends      \* how many items each of them sends

VARIABLES
    sends,        \* sends[s]: the number of sends s has completed
    outcome,      \* outcome[i]: what has become of item i, as its users see it
    received      \* the items received, in order

vars == <<sends, outcome, received>>

Items == Senders \X (1..MaxSends)

Init ==
    /\ sends = [s \in Senders |-> 0]
    /\ outcome = [i \in Items |-> "Unsent"]
    /\ received = <<>>

\* The channel of s has been closed, and s has been told or is going to be.
Over(s) == \E i \in Items : i[1] = s /\ outcome[i] \in {"Returned", "Failed"}

\* A send that returns.  An item that nobody waits for is discarded.
Send(s, o) ==
    /\ sends[s] < MaxSends
    /\ Over(s) => o = "Returned"
    /\ sends' = [sends EXCEPT ![s] = @ + 1]
    /\ outcome' = [outcome EXCEPT ![<<s, sends[s] + 1>>] = o]
    /\ UNCHANGED received

\* An accepted item is received, and none that was sent after it has been.
Receive(i) ==
    /\ outcome[i] = "Accepted" /\ ~Over(i[1])
    /\ \A j \in Items : (j[1] = i[1] /\ outcome[j] = "Received") => j[2] < i[2]
    /\ outcome' = [outcome EXCEPT ![i] = "Received"]
    /\ received' = Append(received, i)
    /\ UNCHANGED sends

\* Accepted items are answered with the error of the channel.
Fail(failed) ==
    /\ \A i \in failed : outcome[i] = "Accepted"
    /\ outcome' = [i \in Items |-> IF i \in failed THEN "Failed" ELSE outcome[i]]
    /\ UNCHANGED <<sends, received>>

Next ==
    \/ \E s \in Senders, o \in {"Accepted", "Returned", "Discarded"} : Send(s, o)
    \/ \E i \in Items : Receive(i)
    \/ \E failed \in SUBSET Items : Fail(failed)

Spec == Init /\ [][Next]_vars
=============================================================================
