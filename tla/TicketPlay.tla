----------------------------- MODULE TicketPlay -----------------------------
(***************************************************************************)
(* What one-ticket play promises a wallet, with the handlers, rows and     *)
(* timers left out: a ticket is charged to one run at a time, and a run    *)
(* that took one ends in an outcome or in a refund, never in both.         *)
(***************************************************************************)
CONSTANT Sessions

VARIABLES
    charged,   \* sessions a ticket was taken for
    refunded,  \* sessions whose ticket was given back
    outcome    \* what became of the session's run

vars == <<charged, refunded, outcome>>

Init ==
    /\ charged = {} /\ refunded = {}
    /\ outcome = [s \in Sessions |-> "open"]

\* A ticket is taken only while no other open run holds one.
Charge(s) ==
    /\ s \notin charged
    /\ \A r \in (charged \ refunded) \ {s} : outcome[r] # "open"
    /\ charged' = charged \cup {s}
    /\ UNCHANGED <<refunded, outcome>>

\* Only an open run that holds a ticket gets an outcome, and keeps it.
Score(s) ==
    /\ s \in charged \ refunded /\ outcome[s] = "open"
    /\ outcome' = [outcome EXCEPT ![s] = "scored"]
    /\ UNCHANGED <<charged, refunded>>

Void(s) ==
    /\ outcome[s] = "open"
    /\ outcome' = [outcome EXCEPT ![s] = "void"]
    /\ UNCHANGED <<charged, refunded>>

\* Only a voided run gives its ticket back, once.
Refund(s) ==
    /\ s \in charged \ refunded /\ outcome[s] = "void"
    /\ refunded' = refunded \cup {s}
    /\ UNCHANGED <<charged, outcome>>

\* A session that never held a ticket may be dropped and its id used again.
Forget(s) ==
    /\ s \notin charged /\ outcome[s] = "void"
    /\ outcome' = [outcome EXCEPT ![s] = "open"]
    /\ UNCHANGED <<charged, refunded>>

Next == \E s \in Sessions :
            Charge(s) \/ Score(s) \/ Void(s) \/ Refund(s) \/ Forget(s)

Spec == Init /\ [][Next]_vars
============================================================================
