---------------------------- MODULE RowGenerator ----------------------------
(***************************************************************************)
(* The endless map of the engine (script.js): rows are generated in        *)
(* batches ahead of the player, from counters kept between rows, and the   *)
(* player's queued hops are checked against rows that must exist already.  *)
(*                                                                         *)
(* Random draws are choices.  What is on a row (vehicles, trees, floating  *)
(* platforms) is left out, and so is hopping sideways.                     *)
(***************************************************************************)
EXTENDS Checkpoints

CONSTANTS
    MaxRoads,   \* MAX_CONSECUTIVE_ROAD_ROWS
    MaxRivers,  \* MAX_CONSECUTIVE_RIVER_ROWS
    Cooldown,   \* RIVER_SEGMENT_COOLDOWN_ROWS
    SafeStart,  \* RIVER_SAFE_START_ROW
    Buffer,     \* RIVER_CHECKPOINT_BUFFER_ROWS
    TrainGap,   \* TRAIN_COOLDOWN_ROWS
    TrainBuffer,\* TRAIN_CHECKPOINT_BUFFER_ROWS
    Batch,      \* rows addRows makes at a time
    Margin,     \* rows left when it makes more
    MaxQueue,   \* MAX_MOVE_QUEUE
    MaxRows     \* a bound on the map

ASSUME LengthsAreNatural ==
    /\ MaxRoads \in Nat /\ MaxRivers \in Nat /\ Cooldown \in Nat /\ SafeStart \in Nat \ {0}
    /\ Buffer \in Nat /\ TrainGap \in Nat /\ TrainBuffer \in Nat /\ MaxRows \in Nat
    /\ Batch \in Nat /\ Margin \in Nat /\ MaxQueue \in Nat
\* The engine's numbers: four lanes at most, eight queued hops, twenty rows made when ten
\* are left.
ASSUME RoadsAreAllowed == MaxRoads > 0
ASSUME RiversAreSpaced == Cooldown > 0
ASSUME MarginCoversQueue == MaxQueue < Margin /\ Margin <= Batch

VARIABLES
    made,       \* metadata.length
    owed,       \* rows the running addRows still has to make
    roadsLeft,  \* pendingRoadRowsInSegment
    riversLeft, \* pendingRiverRowsInSegment
    roads,      \* consecutiveRoadRows
    rivers,     \* consecutiveRiverRows
    riverWait,  \* riverCooldownRows
    trainWait,  \* trainCooldownRows
    flow,       \* the next river line's direction, "any" when the layout memory is reset
    previous, current,  \* the last two rows
    roadRun,    \* history: road rows in a row up to the current one
    dry,        \* history: rows since the last river row, up to Cooldown
    row,        \* position.currentRow
    ahead, back \* hops queued forward and backward

counters == <<roadsLeft, riversLeft, roads, rivers, riverWait, trainWait, flow>>
history == <<previous, current, roadRun, dry>>
walker == <<row, ahead, back>>
mapVars == <<made, owed, counters, history, walker>>

----------------------------------------------------------------------------
Plain(kind) == [kind |-> kind, bankBack |-> FALSE, bankFront |-> FALSE, flow |-> "any"]
Forest == Plain("forest")
Train == Plain("train")
IsRiver(r) == r.kind = "river"
Other(d) == IF d = "left" THEN "right" ELSE "left"
Less(n) == IF n > 0 THEN n - 1 ELSE 0

RowsUntil(r) == Interval - (r % Interval)
IsNearCheckpointRow(r) == r % Interval <= Buffer \/ RowsUntil(r) <= Buffer
IsTrainBlocked(r) == r % Interval <= TrainBuffer \/ RowsUntil(r) <= Buffer

\* Mutant: the distance to the checkpoint is not looked at.
AnyRiver(r) == MaxRivers

\* getRiverSegmentLength draws from 1 to this.
LongestRiver(r) ==
    IF RowsUntil(r) - Buffer < MaxRivers THEN RowsUntil(r) - Buffer ELSE MaxRivers

\* initializeMap; what it does not reset are the train counter and the river lines.
StartMap ==
    /\ made' = 0 /\ owed' = Batch
    /\ roadsLeft' = 0 /\ riversLeft' = 0 /\ roads' = 0 /\ rivers' = 0 /\ riverWait' = 0
    /\ previous' = Plain("forest") /\ current' = Plain("forest")
    /\ roadRun' = 0 /\ dry' = Cooldown
    /\ row' = 0 /\ ahead' = 0 /\ back' = 0
    /\ UNCHANGED <<trainWait, flow>>

MapInit ==
    /\ made = 0 /\ owed = Batch
    /\ roadsLeft = 0 /\ riversLeft = 0 /\ roads = 0 /\ rivers = 0 /\ riverWait = 0
    /\ trainWait = 0 /\ flow = "any"
    /\ previous = Plain("forest") /\ current = Plain("forest")
    /\ roadRun = 0 /\ dry = Cooldown
    /\ row = 0 /\ ahead = 0 /\ back = 0

----------------------------------------------------------------------------
(* generateRow, one disjunct per kind of row                               *)

Row == made + 1

Lay(r) ==
    /\ made' = Row /\ owed' = owed - 1
    /\ previous' = current /\ current' = r
    /\ roadRun' = IF r.kind = "road" THEN roadRun + 1 ELSE 0
    /\ dry' = IF IsRiver(r) THEN 0 ELSE IF dry < Cooldown THEN dry + 1 ELSE dry
    /\ UNCHANGED walker

\* The counters in the order in which the branches assign them.
Reset == roadsLeft' = 0 /\ roads' = 0 /\ riversLeft' = 0 /\ rivers' = 0 /\ flow' = "any"
Waits == riverWait' = Less(riverWait) /\ trainWait' = Less(trainWait)

LayCheckpoint ==
    /\ IsCheckpointRow(Row)
    /\ Reset /\ Waits /\ Lay(Plain("checkpoint"))

River(isFirst, isLast) ==
    \E d \in {"left", "right"} :
        /\ flow # "any" => d = flow
        /\ flow' = Other(d)
        /\ roadsLeft' = 0 /\ roads' = 0
        /\ Lay([kind |-> "river", bankBack |-> isFirst, bankFront |-> isLast, flow |-> d])

RiverGoesOn == ~IsCheckpointRow(Row) /\ riversLeft > 0 /\ ~IsNearCheckpointRow(Row)

LayNextLine ==
    /\ RiverGoesOn
    /\ riversLeft' = riversLeft - 1 /\ rivers' = rivers + 1
    /\ Waits
    /\ River(FALSE, riversLeft = 1)

\* Near a checkpoint what is left of a segment is dropped.
Rivers == IF riversLeft > 0 THEN 0 ELSE rivers

RiverMayStart ==
    /\ ~IsCheckpointRow(Row) /\ ~RiverGoesOn
    /\ Row >= SafeStart /\ ~IsNearCheckpointRow(Row)
    /\ Less(riverWait) = 0 /\ Rivers < MaxRivers

LayFirstLine ==
    /\ RiverMayStart
    /\ \E n \in 1..LongestRiver(Row) :
           /\ riversLeft' = n - 1 /\ rivers' = 1
           /\ riverWait' = Cooldown + n /\ trainWait' = Less(trainWait)
           /\ River(TRUE, n = 1)

\* Every other row is past the two river branches.
Dry == ~IsCheckpointRow(Row) /\ ~RiverGoesOn

MustRest == (IsNearCheckpointRow(Row) /\ Rivers > 0) \/ roads >= MaxRoads

LayRest ==
    /\ Dry /\ MustRest
    /\ Reset /\ Waits /\ Lay(Forest)

Road(left) ==
    /\ roadsLeft' = left /\ roads' = roads + 1
    /\ riversLeft' = 0 /\ rivers' = 0 /\ flow' = "any"
    /\ Waits /\ Lay(Plain("road"))

LayNextLane == Dry /\ ~MustRest /\ roadsLeft > 0 /\ Road(roadsLeft - 1)

Free == Dry /\ ~MustRest /\ roadsLeft = 0

\* Date.now() >= nextTrainRowAtMs is a choice.
LayTrain ==
    /\ Free /\ Less(trainWait) = 0 /\ ~IsTrainBlocked(Row)
    /\ Reset /\ riverWait' = Less(riverWait) /\ trainWait' = TrainGap
    /\ Lay(Train)

LongestRoad == IF roads < MaxRoads THEN MaxRoads - roads ELSE 1

LayFirstLane == Free /\ \E n \in 1..LongestRoad : Road(n - 1)

LayForest ==
    /\ Free
    /\ Reset /\ Waits /\ Lay(Forest)

GenerateRow ==
    /\ owed > 0
    /\ \/ LayCheckpoint \/ LayNextLine \/ LayFirstLine \/ LayRest
       \/ LayNextLane \/ LayTrain \/ LayFirstLane \/ LayForest

----------------------------------------------------------------------------
(* The player; addRows is not interrupted                                  *)

\* queueMove
QueueForward ==
    /\ owed = 0 /\ ahead + back < MaxQueue /\ row + ahead - back < MaxRows
    /\ ahead' = ahead + 1
    /\ UNCHANGED <<made, owed, counters, history, row, back>>

QueueBackward ==
    /\ owed = 0 /\ ahead + back < MaxQueue /\ row + ahead - back > 0
    /\ back' = back + 1
    /\ UNCHANGED <<made, owed, counters, history, row, ahead>>

\* Mutant: more rows are made only when the last one is stood on.
AddLate(r) == owed' = IF r >= made THEN Batch ELSE 0

\* stepCompleted: position.currentRow > metadata.length - Margin
AddRows(r) == owed' = IF r > made - Margin THEN Batch ELSE 0

StepForward ==
    /\ owed = 0 /\ ahead > 0
    /\ row' = row + 1 /\ ahead' = ahead - 1
    /\ AddRows(row + 1)
    /\ UNCHANGED <<made, counters, history, back>>

StepBackward ==
    /\ owed = 0 /\ back > 0 /\ row > 0
    /\ row' = row - 1 /\ back' = back - 1
    /\ AddRows(row - 1)
    /\ UNCHANGED <<made, counters, history, ahead>>

\* initializeGame, between runs.
StartOver == owed = 0 /\ StartMap

MapNext ==
    \/ GenerateRow
    \/ QueueForward \/ QueueBackward \/ StepForward \/ StepBackward \/ StartOver

MapSpec == MapInit /\ [][MapNext]_mapVars

----------------------------------------------------------------------------
(* Properties                                                              *)

RowType == [kind: {"forest", "checkpoint", "road", "train", "river"},
            bankBack: BOOLEAN, bankFront: BOOLEAN, flow: {"any", "left", "right"}]

MapTypeOK ==
    /\ made \in Nat /\ owed \in 0..Batch
    /\ roadsLeft \in Nat /\ riversLeft \in Nat /\ roads \in Nat /\ rivers \in Nat
    /\ riverWait \in Nat /\ trainWait \in Nat /\ flow \in {"any", "left", "right"}
    /\ previous \in RowType /\ current \in RowType
    /\ roadRun \in Nat /\ dry \in 0..Cooldown
    /\ row \in Nat /\ ahead \in Nat /\ back \in Nat /\ ahead + back <= MaxQueue

\* There is a row to rest on at least every MAX_CONSECUTIVE_ROAD_ROWS lanes, also across
\* segments and checkpoints.
RoadsHaveRest == roadRun <= MaxRoads

\* A river, however long it was drawn and wherever the checkpoint lies, has a bank on both
\* sides and none inside, and its lines flow in turn.
RiversAreWhole ==
    /\ IsRiver(current) => (current.bankBack <=> ~IsRiver(previous))
    /\ IsRiver(previous) => (previous.bankFront <=> ~IsRiver(current))
    /\ IsRiver(previous) /\ IsRiver(current) => current.flow # previous.flow

\* Two rivers are RIVER_SEGMENT_COOLDOWN_ROWS dry rows apart.
RiversAreApart ==
    [][IsRiver(current') /\ made' = made + 1 /\ ~IsRiver(current) => dry = Cooldown]_mapVars

\* A queued hop is tested against the trees of a row that exists.
QueueIsOnTheMap == owed = 0 => row + ahead <= made
=============================================================================
