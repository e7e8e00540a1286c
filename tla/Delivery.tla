------------------------------ MODULE Delivery ------------------------------
(***************************************************************************)
(* What wami promises for one scheduled message, whatever the interleaving *)
(* of the scheduler with the web handlers, and whatever fails: it is not   *)
(* sent before its time, not sent again once it is marked as sent, and it  *)
(* is marked as sent only when at least one recipient got it.              *)
(* Scheduler implements this specification.                                *)
(***************************************************************************)
EXTENDS Naturals

CONSTANTS Msg, Recipient

VARIABLES
    status,     \* "none" before the message is issued; "gone" once withdrawn
    due,        \* the time an issued message is scheduled at
    reached,    \* the recipients that got the message
    clock

vars == <<status, due, reached, clock>>

Init ==
    /\ status = [m \in Msg |-> "none"]
    /\ due = [m \in Msg |-> 0]
    /\ reached = [m \in Msg |-> {}]
    /\ clock = 0

\* A message is scheduled for any time, which may already be past.
Issue(m) ==
    /\ status[m] = "none"
    /\ status' = [status EXCEPT ![m] = "pending"]
    /\ due'[m] \in Nat
    /\ due' = [due EXCEPT ![m] = due'[m]]
    /\ UNCHANGED <<reached, clock>>

\* A withdrawn message may still go out: the scheduler works on a snapshot.
Deliver(m, r) ==
    /\ status[m] \in {"pending", "gone"}
    /\ due[m] <= clock
    /\ reached' = [reached EXCEPT ![m] = @ \cup {r}]
    /\ UNCHANGED <<status, due, clock>>

Finish(m) ==
    /\ status[m] = "pending"
    /\ reached[m] # {}
    /\ status' = [status EXCEPT ![m] = "done"]
    /\ UNCHANGED <<due, reached, clock>>

\* One message is deleted, or a reset deletes all of them.
Withdraw(ms) ==
    /\ \A m \in ms : status[m] \in {"pending", "done"}
    /\ status' = [m \in Msg |-> IF m \in ms THEN "gone" ELSE status[m]]
    /\ UNCHANGED <<due, reached, clock>>

Pass ==
    /\ clock' = clock + 1
    /\ UNCHANGED <<status, due, reached>>

Next ==
    \/ \E m \in Msg : Issue(m)
    \/ \E m \in Msg, r \in Recipient : Deliver(m, r)
    \/ \E m \in Msg : Finish(m)
    \/ \E ms \in SUBSET Msg : Withdraw(ms)
    \/ Pass

Spec == Init /\ [][Next]_vars
=============================================================================
