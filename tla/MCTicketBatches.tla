-------------------------- MODULE MCTicketBatches --------------------------
EXTENDS TicketBatches, TLC

CONSTANTS w1, w2, s1, s2, r1, r2

TwoTickets == (w1 :> 1) @@ (w2 :> 1)
Owners == (s1 :> w1) @@ (s2 :> w1)
Winners == (r1 :> w1) @@ (r2 :> w2)
Prizes == (r1 :> 1) @@ (r2 :> 0)
============================================================================
