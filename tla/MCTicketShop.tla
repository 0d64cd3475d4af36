---------------------------- MODULE MCTicketShop ----------------------------
\* One wallet without tickets.
EXTENDS TicketShop

CONSTANTS p, t1, t2

OneWallet == {p}
NoTickets == [w \in {p} |-> 0]
=============================================================================
