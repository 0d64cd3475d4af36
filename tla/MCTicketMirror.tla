--------------------------- MODULE MCTicketMirror ---------------------------
EXTENDS TicketMirror, TLC

CONSTANTS d1, d2    \* two claims

\* Two days in a row.
TwoDays == d1 :> 6 @@ d2 :> 7
=============================================================================
