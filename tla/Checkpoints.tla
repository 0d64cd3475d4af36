---------------------------- MODULE Checkpoints ----------------------------
(***************************************************************************)
(* Every CP_INTERVAL-th row of the map is a checkpoint: a row without      *)
(* traffic, where a run may be ended.  The engine (script.js) and the      *)
(* gateway (gameValidator.ts) each test it for themselves, alike.          *)
(***************************************************************************)
EXTENDS Integers

CONSTANT Interval   \* CP_INTERVAL

ASSUME IntervalIsPositive == Interval \in Nat \ {0}

IsCheckpointRow(r) == r > 0 /\ r % Interval = 0
=============================================================================
