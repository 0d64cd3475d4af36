-------------------------- MODULE MCGameSettlement --------------------------
EXTENDS GameSettlement, TLC

\* Players, session ids and keys are only compared with each other.
Symmetry == Permutations(Players) \cup Permutations(SessionIds) \cup Permutations(Signers)
============================================================================
