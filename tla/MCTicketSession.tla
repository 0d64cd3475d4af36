-------------------------- MODULE MCTicketSession --------------------------
EXTENDS TicketSession, TLC

\* Session ids, intents and handler slots are only compared with each other;
\* the sweeper has a slot of its own.
Symmetry == Permutations(Sessions) \cup Permutations(Intents) \cup Permutations(Tasks)
============================================================================
