---------------------------- MODULE EngineProofs ----------------------------
(***************************************************************************)
(* The engine: first its map, then its run.                                *)
(*                                                                         *)
(* The map generator (RowGenerator), for every spacing of checkpoints,     *)
(* every length of a road or river segment, every size of a batch and      *)
(* every length of map.  The counters are tied to the rows they describe:  *)
(* a road segment counts its lanes, a river segment fits before the buffer *)
(* of the next checkpoint, and the wait between rivers covers the rows     *)
(* since the last.                                                         *)
(*                                                                         *)
(* The run at its two ends (RunEngine), for any spacing, stay, length of   *)
(* walk, number of starts and connections and room in the link.  The moves *)
(* in flight lead from where the gateway is to where the page is; nothing  *)
(* is hopped while a window is open, so the gateway's opens later and      *)
(* stays open longer.                                                      *)
(***************************************************************************)
EXTENDS RowGenerator, RunEngine, SequenceTheorems, TLAPS

----------------------------------------------------------------------------
(* Arithmetic: the remainder of the next number                            *)

LEMMA Euclid ==
    ASSUME NEW n \in Nat \ {0}, NEW a \in Nat
    PROVE  a % n \in 0..(n - 1) /\ a \div n \in Int /\ a = n * (a \div n) + (a % n)
OBVIOUS

LEMMA SmallMultiple ==
    ASSUME NEW n \in Nat \ {0}, NEW k \in Int, -n < n * k, n * k < n
    PROVE  k = 0
<1>1. CASE k >= 1
  <2>1. n * k = n + n * (k - 1)
    BY <1>1
  <2>2. n * (k - 1) >= 0
    BY <1>1
  <2> QED BY <2>1, <2>2
<1>2. CASE k <= -1
  <2>1. n * k = n * (k + 1) - n
    BY <1>2
  <2>2. n * (k + 1) <= 0
    BY <1>2
  <2> QED BY <2>1, <2>2
<1> QED BY <1>1, <1>2

LEMMA NextRemainder ==
    ASSUME NEW n \in Nat \ {0}, NEW a \in Nat, a % n < n - 1
    PROVE  (a + 1) % n = (a % n) + 1
<1> DEFINE q == a \div n
           p == (a + 1) \div n
           r == a % n
           s == (a + 1) % n
<1>1. /\ q \in Int /\ p \in Int /\ r \in 0..(n - 1) /\ s \in 0..(n - 1)
      /\ a = n * q + r /\ a + 1 = n * p + s
  BY Euclid, a + 1 \in Nat
<1>2. r < n - 1
  OBVIOUS
<1> HIDE DEF q, p, r, s
<1>3. n * (p - q) = n * p - n * q /\ n * p \in Int /\ n * q \in Int
  BY <1>1
<1>4. n * (p - q) = r + 1 - s
  BY <1>1, <1>3
<1>5. p - q = 0
  BY <1>1, <1>2, <1>4, SmallMultiple
<1>6. s = r + 1
  BY <1>1, <1>3, <1>4, <1>5
<1> QED BY <1>6 DEF r, s

----------------------------------------------------------------------------
(* Types                                                                   *)

LEMMA InitType == MapInit => MapTypeOK
BY LengthsAreNatural DEF MapInit, MapTypeOK, RowType, Plain

LEMMA RowTypes ==
    /\ \A kind \in {"forest", "checkpoint", "road", "train"} : Plain(kind) \in RowType
    /\ \A kind \in {"forest", "checkpoint", "road", "train"} : ~IsRiver(Plain(kind))
BY DEF Plain, RowType, IsRiver

\* What a laid row and the counters that count down keep.
LEMMA LayType ==
    ASSUME MapTypeOK, NEW r \in RowType, owed > 0, Lay(r)
    PROVE  /\ made' \in Nat /\ owed' \in 0..Batch
           /\ previous' \in RowType /\ current' \in RowType
           /\ roadRun' \in Nat /\ dry' \in 0..Cooldown
           /\ row' \in Nat /\ ahead' \in Nat /\ back' \in Nat /\ ahead' + back' <= MaxQueue
BY LengthsAreNatural DEF MapTypeOK, Lay, Row, walker, IsRiver

LEMMA RiverType ==
    ASSUME MapTypeOK, owed > 0, NEW first \in BOOLEAN, NEW final \in BOOLEAN, River(first, final),
           riversLeft' \in Nat, rivers' \in Nat, riverWait' \in Nat, trainWait' \in Nat
    PROVE  MapTypeOK'
<1>1. PICK d \in {"left", "right"} :
          /\ flow' = Other(d) /\ roadsLeft' = 0 /\ roads' = 0
          /\ Lay([kind |-> "river", bankBack |-> first, bankFront |-> final, flow |-> d])
  BY DEF River
<1>2. [kind |-> "river", bankBack |-> first, bankFront |-> final, flow |-> d] \in RowType
  BY DEF RowType
<1>3. flow' \in {"any", "left", "right"}
  BY <1>1 DEF Other
<1> QED BY <1>1, <1>2, <1>3, LayType DEF MapTypeOK

LEMMA LessType == \A n \in Nat : Less(n) \in Nat
BY DEF Less

LEMMA GenerateType ==
    ASSUME MapTypeOK, GenerateRow
    PROVE  MapTypeOK'
<1>a. owed > 0
  BY DEF GenerateRow
<1>b. made \in Nat /\ Interval \in Nat \ {0} /\ MaxRivers \in Nat /\ Buffer \in Nat
  BY LengthsAreNatural, IntervalIsPositive DEF MapTypeOK
<1>1. CASE LayNextLine
  <2>1. riversLeft' \in Nat /\ rivers' \in Nat /\ riverWait' \in Nat /\ trainWait' \in Nat
    BY <1>1, LessType DEF LayNextLine, RiverGoesOn, Waits, MapTypeOK
  <2>2. PICK final \in BOOLEAN : River(FALSE, final)
    BY <1>1 DEF LayNextLine
  <2> QED BY <2>1, <2>2, <1>a, RiverType
<1>2. CASE LayFirstLine
  <2>1. PICK n \in 1..LongestRiver(Row) :
            /\ riversLeft' = n - 1 /\ rivers' = 1
            /\ riverWait' = Cooldown + n /\ trainWait' = Less(trainWait)
            /\ River(TRUE, n = 1)
    BY <1>2 DEF LayFirstLine
  <2>2. LongestRiver(Row) \in Int
    BY <1>b, Euclid, made + 1 \in Nat DEF LongestRiver, RowsUntil, Row
  <2>3. n \in Nat \ {0}
    BY <2>2
  <2>4. riversLeft' \in Nat /\ rivers' \in Nat /\ riverWait' \in Nat /\ trainWait' \in Nat
    BY <2>1, <2>3, LessType, LengthsAreNatural DEF MapTypeOK
  <2>5. PICK final \in BOOLEAN : River(TRUE, final)
    BY <2>1
  <2> QED BY <2>4, <2>5, <1>a, RiverType
<1>3. CASE LayCheckpoint \/ LayRest \/ LayTrain \/ LayForest
  <2>1. PICK kind \in {"forest", "checkpoint", "road", "train"} : Lay(Plain(kind))
    BY <1>3 DEF LayCheckpoint, LayRest, LayTrain, LayForest, Forest, Train
  <2>2. Reset /\ riverWait' = Less(riverWait) /\ trainWait' \in Nat
    BY <1>3, LessType, LengthsAreNatural
       DEF LayCheckpoint, LayRest, LayTrain, LayForest, Forest, Train, Waits, MapTypeOK
  <2> QED BY <2>1, <2>2, <1>a, LayType, RowTypes, LessType DEF MapTypeOK, Reset
<1>4. CASE LayNextLane \/ LayFirstLane
  <2>1. PICK left \in Nat : Road(left)
    BY <1>4, LengthsAreNatural, RoadsAreAllowed
       DEF LayNextLane, LayFirstLane, LongestRoad, MapTypeOK
  <2> QED BY <2>1, <1>a, LayType, RowTypes, LessType DEF MapTypeOK, Road, Waits
<1> QED BY <1>1, <1>2, <1>3, <1>4 DEF GenerateRow

LEMMA PlayerType ==
    ASSUME MapTypeOK,
           QueueForward \/ QueueBackward \/ StepForward \/ StepBackward \/ StartOver
    PROVE  MapTypeOK'
<1> USE LengthsAreNatural
<1>1. CASE QueueForward \/ QueueBackward
  BY <1>1 DEF QueueForward, QueueBackward, MapTypeOK, counters, history
<1>2. CASE StepForward \/ StepBackward
  BY <1>2 DEF StepForward, StepBackward, AddRows, MapTypeOK, counters, history
<1>3. CASE StartOver
  BY <1>3 DEF StartOver, StartMap, MapTypeOK, RowType, Plain
<1> QED BY <1>1, <1>2, <1>3

LEMMA TypeStep == MapTypeOK /\ [MapNext]_mapVars => MapTypeOK'
<1>1. MapTypeOK /\ UNCHANGED mapVars => MapTypeOK'
  BY DEF MapTypeOK, mapVars, counters, history, walker
<1> QED BY <1>1, GenerateType, PlayerType DEF MapNext

\* No counter of the generator runs below zero, and the queue of hops stays within its limit.
THEOREM MapTypeCorrect == MapSpec => []MapTypeOK
BY InitType, TypeStep, PTL DEF MapSpec

----------------------------------------------------------------------------
(* Roads                                                                   *)

RoadInv == roadRun = roads /\ roads + roadsLeft <= MaxRoads

LEMMA RoadStep == MapTypeOK /\ RoadInv /\ [MapNext]_mapVars => RoadInv'
<1> SUFFICES ASSUME MapTypeOK, RoadInv, [MapNext]_mapVars PROVE RoadInv'
  OBVIOUS
<1> USE LengthsAreNatural, RoadsAreAllowed
<1>1. CASE LayNextLine \/ LayFirstLine
  <2>1. PICK first \in BOOLEAN, final \in BOOLEAN : River(first, final)
    BY <1>1, Zenon DEF LayNextLine, LayFirstLine
  <2> QED BY <2>1 DEF River, RoadInv, Lay, MapTypeOK
<1>2. CASE LayCheckpoint \/ LayRest \/ LayTrain \/ LayForest
  BY <1>2 DEF LayCheckpoint, LayRest, LayTrain, LayForest, Forest, Train, Reset, Lay, Plain, RoadInv, MapTypeOK
<1>3. CASE LayNextLane
  BY <1>3 DEF LayNextLane, Road, Lay, Plain, RoadInv, MapTypeOK
<1>4. CASE LayFirstLane
  BY <1>4 DEF LayFirstLane, LongestRoad, Free, MustRest, Road, Lay, Plain, RoadInv, MapTypeOK
<1>5. CASE QueueForward \/ QueueBackward \/ StepForward \/ StepBackward
  BY <1>5 DEF QueueForward, QueueBackward, StepForward, StepBackward, counters, history, RoadInv
<1>6. CASE StartOver
  BY <1>6 DEF StartOver, StartMap, RoadInv
<1>7. CASE UNCHANGED mapVars
  BY <1>7 DEF mapVars, counters, history, RoadInv
<1> QED BY <1>1, <1>2, <1>3, <1>4, <1>5, <1>6, <1>7 DEF MapNext, GenerateRow

\* However segments follow one another, no more lanes lie side by side than a player can be
\* asked to cross without a rest.
THEOREM RoadsAreShort == MapSpec => []RoadsHaveRest
<1>1. MapInit => RoadInv
  BY LengthsAreNatural DEF MapInit, RoadInv
<1>2. MapTypeOK /\ RoadInv => RoadsHaveRest
  BY LengthsAreNatural DEF MapTypeOK, RoadInv, RoadsHaveRest
<1> QED BY <1>1, <1>2, RoadStep, MapTypeCorrect, PTL DEF MapSpec

----------------------------------------------------------------------------
(* Hops                                                                    *)

MapInv == row + Margin <= made + owed

LEMMA MapStep == MapTypeOK /\ MapInv /\ [MapNext]_mapVars => MapInv'
<1> SUFFICES ASSUME MapTypeOK, MapInv, [MapNext]_mapVars PROVE MapInv'
  OBVIOUS
<1> USE LengthsAreNatural, MarginCoversQueue
<1>1. CASE GenerateRow
  <2>1. made' = made + 1 /\ owed' = owed - 1 /\ row' = row
    BY <1>1 DEF GenerateRow, LayCheckpoint, LayNextLine, LayFirstLine, LayRest, LayNextLane,
                LayTrain, LayFirstLane, LayForest, Forest, Train, River, Road, Lay, Row, walker
  <2> QED BY <2>1 DEF MapInv, MapTypeOK
<1>2. CASE QueueForward \/ QueueBackward
  BY <1>2 DEF QueueForward, QueueBackward, MapInv
<1>3. CASE StepForward \/ StepBackward
  BY <1>3 DEF StepForward, StepBackward, AddRows, MapInv, MapTypeOK
<1>4. CASE StartOver
  BY <1>4 DEF StartOver, StartMap, MapInv
<1>5. CASE UNCHANGED mapVars
  BY <1>5 DEF mapVars, walker, MapInv
<1> QED BY <1>1, <1>2, <1>3, <1>4, <1>5 DEF MapNext

\* The rows made ahead outrun the queue of hops, at every batch.
THEOREM HopsAreOnTheMap == MapSpec => []QueueIsOnTheMap
<1>1. MapInit => MapInv
  BY LengthsAreNatural, MarginCoversQueue DEF MapInit, MapInv
<1>2. MapTypeOK /\ MapInv => QueueIsOnTheMap
  BY LengthsAreNatural, MarginCoversQueue DEF MapTypeOK, MapInv, QueueIsOnTheMap
<1> QED BY <1>1, <1>2, MapStep, MapTypeCorrect, PTL DEF MapSpec

----------------------------------------------------------------------------
(* Rivers                                                                  *)

\* What is left of a segment ends before the buffer of the next checkpoint.
SegmentFits ==
    riversLeft > 0 =>
        /\ IsRiver(current)
        /\ Row % Interval > Buffer
        /\ riversLeft + Buffer <= RowsUntil(Row)

\* The wait covers the segment and the rows since.
WaitCovers ==
    /\ IsRiver(current) => riverWait > Cooldown + riversLeft
    /\ dry = Cooldown \/ dry + riverWait > Cooldown

LinesAlternate ==
    IsRiver(current) =>
        /\ current.bankFront <=> riversLeft = 0
        /\ current.flow \in {"left", "right"} /\ flow = Other(current.flow)

RiverInv == SegmentFits /\ WaitCovers /\ LinesAlternate /\ RiversAreWhole

LEMMA RowFacts ==
    ASSUME MapTypeOK
    PROVE  /\ Row \in Nat /\ Interval \in Nat \ {0} /\ Buffer \in Nat
           /\ Row % Interval \in 0..(Interval - 1)
           /\ RowsUntil(Row) \in 1..Interval
BY Euclid, IntervalIsPositive, LengthsAreNatural DEF MapTypeOK, Row, RowsUntil

\* While a segment goes on, the next row is no checkpoint and near none.
LEMMA SegmentGoesOn ==
    ASSUME MapTypeOK, SegmentFits, riversLeft > 0
    PROVE  RiverGoesOn
BY RowFacts DEF SegmentFits, RiverGoesOn, IsCheckpointRow, IsNearCheckpointRow, MapTypeOK

\* A segment that fits from one row on fits, one shorter, from the next.
LEMMA NextRowFits ==
    ASSUME MapTypeOK, NEW n \in Nat, Row % Interval > Buffer, n + 1 + Buffer <= RowsUntil(Row), n > 0
    PROVE  (Row + 1) % Interval > Buffer /\ n + Buffer <= RowsUntil(Row + 1)
<1>1. Row % Interval < Interval - 1
  BY RowFacts DEF RowsUntil
<1>2. (Row + 1) % Interval = (Row % Interval) + 1
  BY <1>1, RowFacts, NextRemainder
<1> QED BY <1>2, RowFacts DEF RowsUntil

LEMMA RiverCounters ==
    ASSUME MapTypeOK, made' = Row, dry' = 0, IsRiver(current'),
           riversLeft' \in Nat, riverWait' \in Nat, riverWait' > Cooldown + riversLeft',
           riversLeft' > 0 => /\ Row % Interval > Buffer
                              /\ riversLeft' + 1 + Buffer <= RowsUntil(Row)
    PROVE  SegmentFits' /\ WaitCovers'
<1>1. Row' = Row + 1
  BY DEF Row
<1>2. riversLeft' > 0 =>
          (Row + 1) % Interval > Buffer /\ riversLeft' + Buffer <= RowsUntil(Row + 1)
  BY NextRowFits
<1>3. SegmentFits'
  BY <1>1, <1>2 DEF SegmentFits, RowsUntil, IsRiver
<1>4. WaitCovers'
  <2>1. \A c, left, wait \in Nat : wait > c + left => 0 + wait > c
    OBVIOUS
  <2>2. dry' + riverWait' > Cooldown
    BY <2>1, LengthsAreNatural
  <2> QED BY <2>2 DEF WaitCovers
<1> QED BY <1>3, <1>4

LEMMA RiverLine ==
    ASSUME MapTypeOK, RiverInv, NEW first \in BOOLEAN, NEW final \in BOOLEAN, River(first, final),
           first <=> ~IsRiver(current),
           final <=> riversLeft' = 0,
           riversLeft' \in Nat, riverWait' \in Nat, riverWait' > Cooldown + riversLeft',
           IsRiver(current) => riversLeft > 0,
           riversLeft' > 0 => /\ Row % Interval > Buffer
                              /\ riversLeft' + 1 + Buffer <= RowsUntil(Row)
    PROVE  RiverInv'
<1>1. PICK d \in {"left", "right"} :
          /\ flow # "any" => d = flow
          /\ flow' = Other(d)
          /\ Lay([kind |-> "river", bankBack |-> first, bankFront |-> final, flow |-> d])
  BY DEF River
<1>2. /\ made' = Row /\ previous' = current /\ dry' = 0
      /\ IsRiver(current') /\ current'.flow = d
      /\ current'.bankBack = first /\ current'.bankFront = final
  BY <1>1 DEF Lay, IsRiver
<1>3. SegmentFits' /\ WaitCovers'
  BY <1>2, RiverCounters
<1>5. LinesAlternate'
  BY <1>1, <1>2 DEF LinesAlternate
<1>6. RiversAreWhole'
  <2>1. IsRiver(current) => ~current.bankFront /\ flow = Other(current.flow) /\ flow # "any"
    BY DEF RiverInv, LinesAlternate, MapTypeOK, Other
  <2>2. IsRiver(current) => current'.flow # current.flow
    BY <1>1, <1>2, <2>1 DEF RiverInv, LinesAlternate, Other
  <2>3. previous' = current /\ IsRiver(previous') = IsRiver(current)
    BY <1>2 DEF IsRiver
  <2> QED BY <1>2, <2>1, <2>2, <2>3 DEF RiversAreWhole
<1> QED BY <1>3, <1>5, <1>6 DEF RiverInv

LEMMA DryRow ==
    ASSUME MapTypeOK, RiverInv, NEW kind \in {"forest", "checkpoint", "road", "train"},
           Lay(Plain(kind)), riversLeft = 0, riversLeft' = 0, riverWait' = Less(riverWait)
    PROVE  RiverInv'
<1>1. /\ previous' = current /\ ~IsRiver(current')
      /\ dry' = IF dry < Cooldown THEN dry + 1 ELSE dry
  BY RowTypes DEF Lay
<1>2. SegmentFits' /\ LinesAlternate'
  BY <1>1 DEF SegmentFits, LinesAlternate
<1>3. WaitCovers'
  BY <1>1, LengthsAreNatural DEF WaitCovers, RiverInv, Less, MapTypeOK
<1>4. RiversAreWhole'
  <2>1. IsRiver(previous') => previous'.bankFront
    BY <1>1 DEF RiverInv, LinesAlternate, IsRiver
  <2> QED BY <1>1, <2>1 DEF RiversAreWhole
<1> QED BY <1>2, <1>3, <1>4 DEF RiverInv

LEMMA RiverStep == MapTypeOK /\ RiverInv /\ [MapNext]_mapVars => RiverInv'
<1> SUFFICES ASSUME MapTypeOK, RiverInv, [MapNext]_mapVars PROVE RiverInv'
  OBVIOUS
<1>1. CASE LayNextLine
  <2>1. PICK final \in BOOLEAN : River(FALSE, final) /\ (final <=> riversLeft = 1)
    BY <1>1 DEF LayNextLine
  <2>2. /\ riversLeft > 0 /\ riversLeft' = riversLeft - 1 /\ riverWait' = Less(riverWait)
        /\ IsRiver(current)
    BY <1>1 DEF LayNextLine, RiverGoesOn, Waits, RiverInv, SegmentFits
  <2>3. riverWait' \in Nat /\ riverWait' > Cooldown + riversLeft'
    BY <2>2, LengthsAreNatural DEF Less, RiverInv, WaitCovers, MapTypeOK
  <2>4. riversLeft' \in Nat /\ (final <=> riversLeft' = 0)
    BY <2>1, <2>2 DEF MapTypeOK
  <2>5. Row % Interval > Buffer /\ riversLeft' + 1 + Buffer <= RowsUntil(Row)
    BY <2>2, RowFacts DEF RiverInv, SegmentFits, MapTypeOK
  <2> QED BY <2>1, <2>2, <2>3, <2>4, <2>5, RiverLine
<1>2. CASE LayFirstLine
  <2>1. PICK n \in 1..LongestRiver(Row) :
            /\ riversLeft' = n - 1 /\ riverWait' = Cooldown + n /\ River(TRUE, n = 1)
    BY <1>2 DEF LayFirstLine
  <2>2. ~IsCheckpointRow(Row) /\ ~RiverGoesOn /\ ~IsNearCheckpointRow(Row) /\ Less(riverWait) = 0
    BY <1>2 DEF LayFirstLine, RiverMayStart
  <2>3. n \in Nat \ {0} /\ n + Buffer <= RowsUntil(Row)
    BY RowFacts, LengthsAreNatural DEF LongestRiver
  <2>4. ~IsRiver(current)
    BY <2>2, RiversAreSpaced, LengthsAreNatural DEF Less, RiverInv, WaitCovers, MapTypeOK
  <2>5. Row % Interval > Buffer
    BY <2>2, RowFacts DEF IsNearCheckpointRow
  <2>6. PICK final \in BOOLEAN : River(TRUE, final) /\ (final <=> n = 1)
    BY <2>1
  <2>7. /\ riversLeft' \in Nat /\ (final <=> riversLeft' = 0)
        /\ riversLeft' + 1 + Buffer <= RowsUntil(Row)
    BY <2>1, <2>3, <2>6, RowFacts
  <2>8. riverWait' \in Nat /\ riverWait' > Cooldown + riversLeft'
    BY <2>1, <2>3, LengthsAreNatural
  <2> QED BY <2>4, <2>5, <2>6, <2>7, <2>8, RiverLine
<1>3. CASE LayCheckpoint \/ LayRest \/ LayTrain \/ LayForest \/ LayNextLane \/ LayFirstLane
  <2>1. PICK kind \in {"forest", "checkpoint", "road", "train"} : Lay(Plain(kind))
    BY <1>3 DEF LayCheckpoint, LayRest, LayTrain, LayForest, Forest, Train, LayNextLane, LayFirstLane, Road
  <2>2. ~RiverGoesOn
    BY <1>3 DEF LayCheckpoint, LayRest, LayTrain, LayForest, Forest, Train, LayNextLane, LayFirstLane, Free, Dry,
                RiverGoesOn
  <2>3. riversLeft = 0
    BY <2>2, SegmentGoesOn DEF RiverInv, MapTypeOK
  <2>4. riversLeft' = 0 /\ riverWait' = Less(riverWait)
    BY <1>3 DEF LayCheckpoint, LayRest, LayTrain, LayForest, Forest, Train, LayNextLane, LayFirstLane, Road, Reset,
                Waits
  <2> QED BY <2>1, <2>3, <2>4, DryRow
<1>4. CASE QueueForward \/ QueueBackward \/ StepForward \/ StepBackward \/ UNCHANGED mapVars
  <2>1. UNCHANGED <<made, counters, history>>
    BY <1>4 DEF QueueForward, QueueBackward, StepForward, StepBackward, mapVars
  <2> QED BY <2>1 DEF counters, history, RiverInv, SegmentFits, WaitCovers, LinesAlternate,
                      RiversAreWhole, Row
<1>5. CASE StartOver
  BY <1>5 DEF StartOver, StartMap, RiverInv, SegmentFits, WaitCovers, LinesAlternate, RiversAreWhole,
              IsRiver, Plain
<1> QED BY <1>1, <1>2, <1>3, <1>4, <1>5 DEF MapNext, GenerateRow

LEMMA RiverInvariant == MapSpec => [](MapTypeOK /\ RiverInv)
<1>1. MapInit => RiverInv
  BY DEF MapInit, RiverInv, SegmentFits, WaitCovers, LinesAlternate, RiversAreWhole, IsRiver, Plain
<1> QED BY <1>1, RiverStep, MapTypeCorrect, PTL DEF MapSpec

\* No river is cut off by a checkpoint or joined to the next one.
THEOREM RiversHaveBanks == MapSpec => []RiversAreWhole
<1>1. RiverInv => RiversAreWhole
  BY DEF RiverInv
<1> QED BY <1>1, RiverInvariant, PTL

\* When a river starts, the cooldown has passed since the last row of the one before,
\* although it is counted from that one's first row.
THEOREM RiversKeepApart == MapSpec => RiversAreApart
<1>1. MapTypeOK /\ RiverInv /\ [MapNext]_mapVars
          => (IsRiver(current') /\ made' = made + 1 /\ ~IsRiver(current) => dry = Cooldown)
  <2> SUFFICES ASSUME MapTypeOK, RiverInv, [MapNext]_mapVars,
                      IsRiver(current'), made' = made + 1, ~IsRiver(current)
               PROVE  dry = Cooldown
    OBVIOUS
  <2>1. made' # made
    BY DEF MapTypeOK
  <2>2. ~(QueueForward \/ QueueBackward \/ StepForward \/ StepBackward \/ UNCHANGED mapVars)
    BY <2>1 DEF QueueForward, QueueBackward, StepForward, StepBackward, mapVars
  <2>3. ~StartOver
    BY DEF StartOver, StartMap, IsRiver, Plain
  <2>4. GenerateRow
    BY <2>2, <2>3 DEF MapNext
  <2>5. LayNextLine \/ LayFirstLine
    <3>1. \A kind \in {"forest", "checkpoint", "road", "train"} : ~Lay(Plain(kind))
      BY RowTypes DEF Lay
    <3> QED BY <2>4, <3>1 DEF GenerateRow, LayCheckpoint, LayRest, LayTrain, LayForest, Forest, Train, LayNextLane,
                              LayFirstLane, Road
  <2>6. ~LayNextLine
    BY DEF LayNextLine, RiverGoesOn, RiverInv, SegmentFits
  <2>7. Less(riverWait) = 0
    BY <2>5, <2>6 DEF LayFirstLine, RiverMayStart
  <2> QED BY <2>7, LengthsAreNatural DEF Less, RiverInv, WaitCovers, MapTypeOK
<1> QED BY <1>1, RiverInvariant, PTL DEF MapSpec, RiversAreApart

----------------------------------------------------------------------------
(* Places: what both ends count of a run.                                  *)

Places == [row: Nat, maxRow: Nat, cp: Nat, cpRow: Nat]
Place(t) == [row |-> t.row, maxRow |-> t.maxRow, cp |-> t.cp, cpRow |-> t.cpRow]

\* Where a hop leads.
Walk(p, d) ==
    LET r == IF d = "forward" THEN p.row + 1 ELSE IF p.row = 0 THEN 0 ELSE p.row - 1
        further == d = "forward" /\ r > p.maxRow
        reach == further /\ IsCheckpointRow(r)
    IN [row |-> r, maxRow |-> IF further THEN r ELSE p.maxRow,
        cp |-> IF reach THEN p.cp + 1 ELSE p.cp, cpRow |-> IF reach THEN r ELSE p.cpRow]

Fields == {"row", "maxRow", "cp", "window", "cpRow", "left"}
IsTrack(t) ==
    /\ Fields \subseteq DOMAIN t
    /\ t.row \in Nat /\ t.maxRow \in Nat /\ t.cp \in Nat /\ t.cpRow \in Nat
    /\ t.window \in BOOLEAN /\ t.left \in Int

LEMMA WalkLeads ==
    ASSUME NEW p \in Places, NEW d
    PROVE  Walk(p, d) \in Places /\ Walk(p, d).maxRow >= p.maxRow /\ Walk(p, d).cp >= p.cp
BY DEF Walk, Places

LEMMA ServerWalks ==
    ASSUME NEW t, IsTrack(t), NEW d \in Directions, Stay \in Nat
    PROVE  /\ DOMAIN ServerHop(t, d) = DOMAIN t
           /\ \A f \in DOMAIN t \ Fields : ServerHop(t, d)[f] = t[f]
           /\ IsTrack(ServerHop(t, d))
           /\ Place(ServerHop(t, d)) = Walk(Place(t), d)
           /\ ServerHop(t, d).cp # t.cp => ServerHop(t, d).window /\ ServerHop(t, d).left = Stay
<1>1. /\ DOMAIN ServerHop(t, d) = DOMAIN t
      /\ \A f \in DOMAIN t \ Fields : ServerHop(t, d)[f] = t[f]
  BY DEF ServerHop, Timed, Fields
<1>2. IsTrack(ServerHop(t, d))
  BY DEF ServerHop, Timed, Fields, IsTrack
<1>3. Place(ServerHop(t, d)) = Walk(Place(t), d)
  BY DEF ServerHop, Timed, Fields, IsTrack, Place, Walk, Directions
<1>4. ServerHop(t, d).cp # t.cp => ServerHop(t, d).window /\ ServerHop(t, d).left = Stay
  BY DEF ServerHop, Timed, Fields, IsTrack
<1> QED BY <1>1, <1>2, <1>3, <1>4

\* A hop of the engine leaves the checkpoint, or reaches the next one.
LEMMA ClientWalks ==
    ASSUME NEW b, IsTrack(b), "active" \in DOMAIN b, b.active, NEW d \in Directions, Stay \in Nat,
           d = "backward" => b.row > 0, b.window => b.row = b.cpRow, b.left <= Stay
    PROVE  LET c == ClientHop(b, d) IN
           /\ DOMAIN c = DOMAIN b
           /\ \A f \in DOMAIN b \ Fields : c[f] = b[f]
           /\ IsTrack(c) /\ c.left <= Stay
           /\ Place(c) = Walk(Place(b), d)
           /\ c.window => c.row = c.cpRow /\ c.cp > b.cp
<1> DEFINE c == ClientHop(b, d)
<1>1. /\ DOMAIN c = DOMAIN b
      /\ \A f \in DOMAIN b \ Fields : c[f] = b[f]
  BY DEF ClientHop, Timed, Fields
<1>2. IsTrack(c) /\ c.left <= Stay
  <2>1. CASE d = "backward" BY <2>1 DEF ClientHop, Timed, Fields, IsTrack
  <2>2. CASE d = "forward" /\ b.row + 1 <= b.maxRow BY <2>2 DEF ClientHop, Timed, Fields, IsTrack
  <2>3. CASE d = "forward" /\ ~(b.row + 1 <= b.maxRow) /\ IsCheckpointRow(b.row + 1)
    BY <2>3 DEF ClientHop, Fields, IsTrack
  <2>4. CASE d = "forward" /\ ~(b.row + 1 <= b.maxRow) /\ ~IsCheckpointRow(b.row + 1)
    BY <2>4 DEF ClientHop, Timed, Fields, IsTrack
  <2> QED BY <2>1, <2>2, <2>3, <2>4 DEF Directions
<1>3. Place(c) = Walk(Place(b), d)
  BY DEF ClientHop, Timed, Fields, IsTrack, Place, Walk, Directions
<1>4. c.window => c.row = c.cpRow /\ c.cp > b.cp
  <2>1. CASE d = "backward"
    <3>1. c.window => b.window /\ b.row - 1 = b.cpRow BY <2>1 DEF ClientHop, Timed, Fields, IsTrack
    <3> QED BY <3>1 DEF IsTrack
  <2>2. CASE d = "forward" /\ b.row + 1 <= b.maxRow
    <3>1. c.window => b.window /\ b.row + 1 <= b.cpRow BY <2>2 DEF ClientHop, Timed, Fields, IsTrack
    <3> QED BY <3>1 DEF IsTrack
  <2>3. CASE d = "forward" /\ ~(b.row + 1 <= b.maxRow) /\ IsCheckpointRow(b.row + 1)
    BY <2>3 DEF ClientHop, Fields, IsTrack
  <2>4. CASE d = "forward" /\ ~(b.row + 1 <= b.maxRow) /\ ~IsCheckpointRow(b.row + 1)
    <3>1. c.window => b.window /\ b.row + 1 <= b.cpRow BY <2>4 DEF ClientHop, Timed, Fields, IsTrack
    <3> QED BY <3>1 DEF IsTrack
  <2> QED BY <2>1, <2>2, <2>3, <2>4 DEF Directions
<1> QED BY <1>1, <1>2, <1>3, <1>4

----------------------------------------------------------------------------
(* The moves in flight lead from the gateway's place to the page's.        *)

IsMove(m) == m.type = "move"

\* T holds the places that the gateway will pass through.
Follows(T, g, b, w, u) ==
    /\ T \in [0..Len(u) -> Places] /\ T[0] = g /\ T[Len(u)] = b
    /\ \A n \in 1..Len(u) : T[n] = IF IsMove(u[n]) THEN Walk(T[n-1], u[n].dir) ELSE T[n-1]
    /\ \A n \in 0..Len(u) : T[n].maxRow <= b.maxRow /\ T[n].cp <= b.cp
    /\ \A n \in 0..Len(u) : (\A j \in (n+1)..Len(u) : ~IsMove(u[j])) => T[n] = b
    \* Nothing is hopped while the window is open.
    /\ w => \A n \in 0..Len(u) : T[n].cp = b.cp => \A j \in (n+1)..Len(u) : ~IsMove(u[j])

Leads(g, b, w, u) == \E T : Follows(T, g, b, w, u)

LEMMA LeadsHere == \A p \in Places : \A w : Leads(p, p, w, <<>>)
<1>1. ASSUME NEW p \in Places, NEW w PROVE Leads(p, p, w, <<>>)
  <2> DEFINE T == [n \in 0..0 |-> p]
  <2>1. Len(<<>>) = 0 OBVIOUS
  <2>2. Follows(T, p, p, w, <<>>) BY <2>1 DEF Follows, Places
  <2> QED BY <2>2 DEF Leads
<1> QED BY <1>1

\* Without moves in flight both are at the same place.
LEMMA LeadsNowhere ==
    ASSUME NEW S, NEW u \in Seq(S), NEW p \in Places, NEW w, \A n \in 1..Len(u) : ~IsMove(u[n])
    PROVE  Leads(p, p, w, u)
<1> DEFINE T == [n \in 0..Len(u) |-> p]
<1>1. Len(u) \in Nat BY LenProperties
<1>2. Follows(T, p, p, w, u) BY <1>1 DEF Follows, Places
<1> QED BY <1>2 DEF Leads

LEMMA LeadsArrived ==
    ASSUME NEW S, NEW u \in Seq(S), NEW g, NEW b, NEW w, Leads(g, b, w, u)
    PROVE  /\ g.maxRow <= b.maxRow /\ g.cp <= b.cp
           /\ (\A n \in 1..Len(u) : ~IsMove(u[n])) => g = b
           /\ w /\ g.cp = b.cp => \A n \in 1..Len(u) : ~IsMove(u[n])
<1>1. PICK T : Follows(T, g, b, w, u) BY DEF Leads
<1>2. Len(u) \in Nat /\ 0 \in 0..Len(u) /\ 0 + 1 = 1 BY LenProperties
<1> QED BY <1>1, <1>2 DEF Follows

LEMMA LeadsWithout ==
    ASSUME NEW g, NEW b, NEW w, NEW v, NEW u, Leads(g, b, w, u), v => w
    PROVE  Leads(g, b, v, u)
<1>1. PICK T : Follows(T, g, b, w, u) BY DEF Leads
<1>2. Follows(T, g, b, v, u) BY <1>1 DEF Follows
<1> QED BY <1>2 DEF Leads

\* The gateway takes the first message.
LEMMA LeadsOn ==
    ASSUME NEW S, NEW u \in Seq(S), u # <<>>, NEW g, NEW b, NEW w, Leads(g, b, w, u)
    PROVE  Leads(IF IsMove(Head(u)) THEN Walk(g, Head(u).dir) ELSE g, b, w, Tail(u))
<1>1. PICK T : Follows(T, g, b, w, u) BY DEF Leads
<1> DEFINE v == Tail(u)
           U == [n \in 0..Len(v) |-> T[n+1]]
           h == IF IsMove(Head(u)) THEN Walk(g, Head(u).dir) ELSE g
<1>2. /\ v \in Seq(S) /\ Len(u) \in Nat /\ Len(v) \in Nat /\ Len(v) = Len(u) - 1
      /\ \A i \in 1..Len(v) : v[i] = u[i+1]
      /\ Head(u) = u[1]
  BY HeadTailProperties, LenProperties, EmptySeq
<1>3. h = T[1] BY <1>1, <1>2 DEF Follows
<1> HIDE DEF v, h
<1>4. U \in [0..Len(v) -> Places] /\ U[0] = h /\ U[Len(v)] = b
  BY <1>1, <1>2, <1>3 DEF Follows
<1>5. \A n \in 1..Len(v) : U[n] = IF IsMove(v[n]) THEN Walk(U[n-1], v[n].dir) ELSE U[n-1]
  BY <1>1, <1>2 DEF Follows
<1>6. \A n \in 0..Len(v) : U[n].maxRow <= b.maxRow /\ U[n].cp <= b.cp
  BY <1>1, <1>2 DEF Follows
<1>7. \A n \in 0..Len(v) : (\A j \in (n+1)..Len(v) : ~IsMove(v[j]))
                                => (\A j \in (n+2)..Len(u) : ~IsMove(u[j]))
  <2>1. TAKE n \in 0..Len(v)
  <2>2. HAVE \A j \in (n+1)..Len(v) : ~IsMove(v[j])
  <2>3. TAKE j \in (n+2)..Len(u)
  <2>4. j - 1 \in (n+1)..Len(v) /\ v[j-1] = u[j] BY <1>2
  <2> QED BY <2>2, <2>4
<1>8. \A n \in 0..Len(v) : (\A j \in (n+1)..Len(v) : ~IsMove(v[j])) => U[n] = b
  <2>1. TAKE n \in 0..Len(v)
  <2>2. n + 1 \in 0..Len(u) /\ (n + 1) + 1 = n + 2 BY <1>2
  <2> QED BY <1>1, <1>7, <2>2 DEF Follows
<1>9. w => \A n \in 0..Len(v) : U[n].cp = b.cp => \A j \in (n+1)..Len(v) : ~IsMove(v[j])
  <2>1. HAVE w
  <2>2. TAKE n \in 0..Len(v)
  <2>3. HAVE U[n].cp = b.cp
  <2>4. TAKE j \in (n+1)..Len(v)
  <2>5. n + 1 \in 0..Len(u) /\ j + 1 \in ((n+1)+1)..Len(u) /\ v[j] = u[j+1] BY <1>2
  <2> QED BY <1>1, <2>1, <2>3, <2>5 DEF Follows
<1> HIDE DEF U
<1>10. Follows(U, h, b, w, v) BY <1>4, <1>5, <1>6, <1>8, <1>9 DEF Follows
<1> QED BY <1>10 DEF Leads, h, v

\* The page sends a message that moves nothing.
LEMMA LeadsWithCall ==
    ASSUME NEW S, NEW u \in Seq(S), NEW m \in S, ~IsMove(m), NEW g, NEW b, NEW w, Leads(g, b, w, u)
    PROVE  Leads(g, b, w, Append(u, m))
<1>1. PICK T : Follows(T, g, b, w, u) BY DEF Leads
<1> DEFINE v == Append(u, m)
           U == [n \in 0..Len(v) |-> IF n <= Len(u) THEN T[n] ELSE b]
<1>2. /\ v \in Seq(S) /\ Len(u) \in Nat /\ Len(v) = Len(u) + 1 /\ v[Len(v)] = m
      /\ \A i \in 1..Len(u) : v[i] = u[i]
  BY AppendProperties, LenProperties
<1> HIDE DEF v
<1>3. U \in [0..Len(v) -> Places] /\ U[0] = g /\ U[Len(v)] = b
  BY <1>1, <1>2 DEF Follows
<1>4. \A n \in 1..Len(v) : U[n] = IF IsMove(v[n]) THEN Walk(U[n-1], v[n].dir) ELSE U[n-1]
  BY <1>1, <1>2 DEF Follows
<1>5. \A n \in 0..Len(v) : U[n].maxRow <= b.maxRow /\ U[n].cp <= b.cp
  BY <1>1, <1>2 DEF Follows, Places
<1>6. \A n \in 0..Len(v) : (\A j \in (n+1)..Len(v) : ~IsMove(v[j])) => U[n] = b
  <2>1. ASSUME NEW n \in 0..Len(u), \A j \in (n+1)..Len(v) : ~IsMove(v[j]) PROVE U[n] = b
    <3>1. \A j \in (n+1)..Len(u) : ~IsMove(u[j]) BY <1>2, <2>1
    <3> QED BY <1>1, <1>2, <3>1 DEF Follows
  <2>2. U[Len(v)] = b BY <1>3
  <2>3. \A n \in 0..Len(v) : n \in 0..Len(u) \/ n = Len(v) BY <1>2
  <2> QED BY <2>1, <2>2, <2>3
<1>7. w => \A n \in 0..Len(v) : U[n].cp = b.cp => \A j \in (n+1)..Len(v) : ~IsMove(v[j])
  <2>1. ASSUME w, NEW n \in 0..Len(v), U[n].cp = b.cp, NEW j \in (n+1)..Len(v) PROVE ~IsMove(v[j])
    <3>1. CASE j = Len(v) BY <1>2, <3>1
    <3>2. CASE j \in (n+1)..Len(u)
      <4>1. n \in 0..Len(u) /\ U[n] = T[n] /\ v[j] = u[j] BY <1>2, <3>2
      <4> QED BY <1>1, <2>1, <3>2, <4>1 DEF Follows
    <3> QED BY <1>2, <3>1, <3>2
  <2> QED BY <2>1
<1> HIDE DEF U
<1>8. Follows(U, g, b, w, v) BY <1>3, <1>4, <1>5, <1>6, <1>7 DEF Follows
<1> QED BY <1>8 DEF Leads, v

\* The page hops, off its checkpoint or to a new one.
LEMMA LeadsFurther ==
    ASSUME NEW S, NEW u \in Seq(S), NEW m \in S, IsMove(m), NEW g, NEW b \in Places, NEW w, NEW x,
           Leads(g, b, w, u), x => Walk(b, m.dir).cp > b.cp
    PROVE  Leads(g, Walk(b, m.dir), x, Append(u, m))
<1>1. PICK T : Follows(T, g, b, w, u) BY DEF Leads
<1> DEFINE v == Append(u, m)
           c == Walk(b, m.dir)
           U == [n \in 0..Len(v) |-> IF n <= Len(u) THEN T[n] ELSE c]
<1>2. /\ v \in Seq(S) /\ Len(u) \in Nat /\ Len(v) = Len(u) + 1 /\ v[Len(v)] = m
      /\ \A i \in 1..Len(u) : v[i] = u[i]
  BY AppendProperties, LenProperties
<1>3. c \in Places /\ c.maxRow >= b.maxRow /\ c.cp >= b.cp /\ (x => c.cp > b.cp) BY WalkLeads
<1>0. c = Walk(b, m.dir) OBVIOUS
<1> HIDE DEF v, c
<1>4. U \in [0..Len(v) -> Places] /\ U[0] = g /\ U[Len(v)] = c
  BY <1>1, <1>2, <1>3 DEF Follows
<1>5. \A n \in 1..Len(v) : U[n] = IF IsMove(v[n]) THEN Walk(U[n-1], v[n].dir) ELSE U[n-1]
  <2>1. TAKE n \in 1..Len(v)
  <2>2. CASE n \in 1..Len(u) BY <1>1, <1>2, <2>2 DEF Follows
  <2>3. CASE n = Len(v)
    <3>1. U[n] = c /\ U[n-1] = b /\ v[n] = m BY <1>1, <1>2, <2>3 DEF Follows
    <3> QED BY <1>0, <3>1
  <2> QED BY <1>2, <2>2, <2>3
<1>6. \A n \in 0..Len(v) : U[n].maxRow <= c.maxRow /\ U[n].cp <= c.cp
  <2>1. ASSUME NEW n \in 0..Len(u) PROVE U[n].maxRow <= c.maxRow /\ U[n].cp <= c.cp
    <3>1. T[n] \in Places /\ T[n].maxRow <= b.maxRow /\ T[n].cp <= b.cp /\ U[n] = T[n]
      BY <1>1, <1>2 DEF Follows
    <3> QED BY <1>3, <3>1 DEF Places
  <2>2. U[Len(v)] = c BY <1>4
  <2>3. \A n \in 0..Len(v) : n \in 0..Len(u) \/ n = Len(v) BY <1>2
  <2>4. c.maxRow <= c.maxRow /\ c.cp <= c.cp BY <1>3 DEF Places
  <2> QED BY <2>1, <2>2, <2>3, <2>4
<1>7. \A n \in 0..Len(v) : (\A j \in (n+1)..Len(v) : ~IsMove(v[j])) => U[n] = c
  <2>1. ASSUME NEW n \in 0..Len(v), \A j \in (n+1)..Len(v) : ~IsMove(v[j]) PROVE U[n] = c
    <3>1. n = Len(v) BY <1>2, <2>1
    <3> QED BY <1>2, <3>1
  <2> QED BY <2>1
<1>8. x => \A n \in 0..Len(v) : U[n].cp = c.cp => \A j \in (n+1)..Len(v) : ~IsMove(v[j])
  <2>1. ASSUME x, NEW n \in 0..Len(u) PROVE U[n].cp # c.cp
    <3>1. T[n] \in Places /\ T[n].cp <= b.cp /\ U[n] = T[n] BY <1>1, <1>2 DEF Follows
    <3> QED BY <1>3, <2>1, <3>1 DEF Places
  <2>2. \A n \in 0..Len(v) : n \in 0..Len(u) \/ n = Len(v) BY <1>2
  <2>3. \A j \in (Len(v)+1)..Len(v) : ~IsMove(v[j]) BY <1>2
  <2> QED BY <2>1, <2>2, <2>3
<1> HIDE DEF U
<1>9. Follows(U, g, c, x, v) BY <1>4, <1>5, <1>6, <1>7, <1>8 DEF Follows
<1> QED BY <1>9 DEF Leads, v, c

\* The link breaks and loses no move.
LEMMA LeadsLess ==
    ASSUME NEW S, NEW u \in Seq(S), NEW k \in 0..Len(u), NEW g, NEW b, NEW w, Leads(g, b, w, u),
           \A j \in (k+1)..Len(u) : ~IsMove(u[j])
    PROVE  Leads(g, b, w, SubSeq(u, 1, k))
<1>1. PICK T : Follows(T, g, b, w, u) BY DEF Leads
<1> DEFINE v == SubSeq(u, 1, k)
           U == [n \in 0..Len(v) |-> T[n]]
<1>2. Len(u) \in Nat /\ \A i \in 1..k : u[i] \in S BY LenProperties, ElementOfSeq
<1>3. Len(v) = k /\ \A i \in 1..k : v[i] = u[i] BY <1>2, SubSeqProperties
<1> HIDE DEF v
<1>4. U \in [0..Len(v) -> Places] /\ U[0] = g /\ U[Len(v)] = b
  BY <1>1, <1>2, <1>3 DEF Follows
<1>5. \A n \in 1..Len(v) : U[n] = IF IsMove(v[n]) THEN Walk(U[n-1], v[n].dir) ELSE U[n-1]
  BY <1>1, <1>2, <1>3 DEF Follows
<1>6. \A n \in 0..Len(v) : U[n].maxRow <= b.maxRow /\ U[n].cp <= b.cp
  BY <1>1, <1>2, <1>3 DEF Follows
<1>7. \A n \in 0..Len(v) : (\A j \in (n+1)..Len(v) : ~IsMove(v[j])) => U[n] = b
  <2>1. ASSUME NEW n \in 0..Len(v), \A j \in (n+1)..Len(v) : ~IsMove(v[j]) PROVE U[n] = b
    <3>1. \A j \in (n+1)..Len(u) : ~IsMove(u[j]) BY <1>2, <1>3, <2>1
    <3> QED BY <1>1, <1>2, <1>3, <3>1 DEF Follows
  <2> QED BY <2>1
<1>8. w => \A n \in 0..Len(v) : U[n].cp = b.cp => \A j \in (n+1)..Len(v) : ~IsMove(v[j])
  <2>1. ASSUME w, NEW n \in 0..Len(v), U[n].cp = b.cp, NEW j \in (n+1)..Len(v) PROVE ~IsMove(v[j])
    <3>1. n \in 0..Len(u) /\ U[n] = T[n] /\ j \in (n+1)..Len(u) /\ v[j] = u[j]
      BY <1>2, <1>3, <2>1
    <3> QED BY <1>1, <2>1, <3>1 DEF Follows
  <2> QED BY <2>1
<1> HIDE DEF U
<1>9. Follows(U, g, b, w, v) BY <1>4, <1>5, <1>6, <1>7, <1>8 DEF Follows
<1> QED BY <1>9 DEF Leads, v

----------------------------------------------------------------------------
(* What the proofs need to know of the page, the link and the gateway      *)

Replies == {"started", "ended", "error", "consumed", "cp_expired"}
UpMessages == [type: {"move", "start", "end_run", "crash"}, id: 0..MaxIntents,
               dir: Directions \cup {"none"}, sock: Nat]
DownMessages == [type: Replies, id: 0..MaxIntents]

\* A run is on for an id that the gateway has a row for, and its window is open only on
\* the checkpoint's row.
BetInv ==
    /\ IsTrack(bet) /\ {"active", "faithful"} \subseteq DOMAIN bet
    /\ bet.active \in BOOLEAN /\ bet.faithful \in BOOLEAN
    /\ bet.left <= Stay /\ (bet.window => bet.row = bet.cpRow)
    /\ bet.active => ~panel /\ intent \in Intents /\ session[intent] # "none"

CallInv ==
    /\ panel \in BOOLEAN /\ intent \in 0..MaxIntents /\ used \in 0..MaxIntents
    /\ call # NoCall => /\ {"kind", "sent"} \subseteq DOMAIN call
                        /\ call.kind \in {"start", "end_run", "crash"}
    /\ call.kind = "start" => intent \in Intents

GameFields == {"id", "sock", "paused", "moved"}
IsGame(g) ==
    /\ IsTrack(g) /\ GameFields \subseteq DOMAIN g /\ g.id \in Intents
    /\ g.moved \in BOOLEAN
    /\ ~g.moved => Place(g) = Place(StartOfTrack) /\ ~g.window

GameInv ==
    /\ session \in [Intents -> {"none", "ACTIVE", "VOIDED"} \cup Ended]
    /\ last \in 0..MaxIntents
    /\ game # NoGame => IsGame(game) /\ session[game.id] # "none"

UpInv ==
    /\ conn \in Nat /\ up \in Seq(UpMessages)
    /\ \A n \in 1..Len(up) : /\ IsMove(up[n]) => up[n].dir \in Directions
                             /\ up[n].type = "start" => up[n].id \in Intents

DownInv ==
    /\ down \in Seq(DownMessages)
    /\ \A n \in 1..Len(down) :
          down[n].type = "started" => down[n].id \in Intents /\ session[down[n].id] # "none"

\* The gateway's window is open, and for longer, wherever the page shows END RUN and the
\* gateway has come as far.
GrantInv ==
    SameRun /\ CanCashOut /\ game.cp = bet.cp => game.window /\ game.left >= bet.left

FollowInv == SameRun => Leads(Place(game), Place(bet), bet.window, up)

EngineInv == BetInv /\ CallInv /\ GameInv /\ UpInv /\ DownInv /\ GrantInv /\ FollowInv

----------------------------------------------------------------------------
(* Small facts                                                             *)

LEMMA Bounds == Interval \in Nat \ {0} /\ Stay \in Nat /\ MaxIntents \in Nat /\ MaxSockets \in Nat
BY IntervalIsPositive, BoundsAreNatural

LEMMA UnpaidFacts ==
    /\ IsTrack(Unpaid) /\ {"active", "faithful"} \subseteq DOMAIN Unpaid
    /\ Unpaid.active \in BOOLEAN /\ Unpaid.faithful \in BOOLEAN
    /\ ~Unpaid.active /\ ~Unpaid.faithful
    /\ Place(Unpaid) = Place(StartOfTrack)
    /\ ~Unpaid.window /\ Unpaid.left = 0
BY DEF Unpaid, StartOfTrack, IsTrack, Fields, Place

LEMMA PlaceFacts ==
    /\ \A t : IsTrack(t) => Place(t) \in Places
    /\ \A t : /\ Place(t).row = t.row /\ Place(t).maxRow = t.maxRow
             /\ Place(t).cp = t.cp /\ Place(t).cpRow = t.cpRow
    /\ Place(StartOfTrack) \in Places
BY DEF Place, Places, IsTrack, StartOfTrack

\* A closed window.
LEMMA ShutFacts ==
    ASSUME NEW t, IsTrack(t)
    PROVE  LET s == Timed([t EXCEPT !.window = FALSE]) IN
           /\ IsTrack(s) /\ DOMAIN s = DOMAIN t /\ \A f \in DOMAIN t \ Fields : s[f] = t[f]
           /\ Place(s) = Place(t) /\ ~s.window /\ s.left = 0
           /\ s.row = t.row /\ s.cpRow = t.cpRow /\ s.cp = t.cp
<1> DEFINE s == Timed([t EXCEPT !.window = FALSE])
<1>1. s = [[t EXCEPT !.window = FALSE] EXCEPT !.left = 0] BY DEF Timed, IsTrack, Fields
<1>2. /\ DOMAIN s = DOMAIN t /\ \A f \in DOMAIN t \ {"window", "left"} : s[f] = t[f]
      /\ s.window \in BOOLEAN /\ ~s.window /\ s.left = 0
  BY <1>1 DEF IsTrack, Fields
<1>3. s.row = t.row /\ s.maxRow = t.maxRow /\ s.cpRow = t.cpRow /\ s.cp = t.cp
  BY <1>1 DEF IsTrack, Fields
<1> HIDE DEF s
<1>4. Place(s) = Place(t) BY <1>3 DEF Place
<1>5. IsTrack(s) BY <1>2, <1>3 DEF IsTrack, Fields
<1> QED BY <1>2, <1>3, <1>4, <1>5 DEF s, Fields

LEMMA NoGameFacts == \A g : IsGame(g) => g # NoGame
BY DEF IsGame, NoGame, Intents

SessionsStay == \A i \in Intents : session[i] # "none" => session'[i] # "none"

LEMMA BetStays == BetInv /\ SessionsStay /\ UNCHANGED <<bet, panel, intent>> => BetInv'
BY DEF BetInv, SessionsStay

LEMMA NoBet ==
    ASSUME bet' = Unpaid, Stay \in Nat
    PROVE  BetInv' /\ ~SameRun' /\ GrantInv' /\ FollowInv'
<1>1. ~bet'.active BY UnpaidFacts
<1>2. BetInv' BY UnpaidFacts, <1>1 DEF BetInv
<1>3. ~SameRun' BY <1>1 DEF SameRun
<1> QED BY <1>2, <1>3 DEF GrantInv, FollowInv

LEMMA NoRun == ~SameRun' => GrantInv' /\ FollowInv'
BY DEF GrantInv, FollowInv

\* The same run, where it was.
LEMMA RunStays ==
    ASSUME FollowInv,
           SameRun' => /\ SameRun /\ Place(game') = Place(game) /\ Place(bet') = Place(bet)
                       /\ (bet'.window => bet.window) /\ up' = up
    PROVE  FollowInv'
BY LeadsWithout DEF FollowInv

LEMMA DownStays == DownInv /\ SessionsStay /\ down' = down => DownInv'
BY DEF DownInv, SessionsStay

LEMMA Delivered ==
    ASSUME DownInv, SessionsStay, down # <<>>, down' = Tail(down)
    PROVE  DownInv'
<1>1. /\ down' \in Seq(DownMessages) /\ Len(down) \in Nat /\ Len(down') = Len(down) - 1
      /\ \A i \in 1..Len(down') : down'[i] = down[i+1]
  BY HeadTailProperties, LenProperties DEF DownInv
<1> QED BY <1>1 DEF DownInv, SessionsStay

LEMMA Answered ==
    ASSUME DownInv, SessionsStay, NEW m, NEW types \in Seq(Replies), NEW id \in 0..MaxIntents,
           Answer(m, types, id),
           \A n \in 1..Len(types) : types[n] = "started" => id \in Intents /\ session'[id] # "none"
    PROVE  DownInv'
<1> DEFINE more == [n \in DOMAIN types |-> [type |-> types[n], id |-> id]]
<1>1. CASE down' = down BY <1>1, DownStays
<1>2. CASE down' = down \o more
  <2>1. Len(types) \in Nat /\ DOMAIN types = 1..Len(types) /\ \A n \in 1..Len(types) : types[n] \in Replies
    BY LenProperties, ElementOfSeq
  <2>2. \A n \in 1..Len(types) : more[n] \in DownMessages BY <2>1 DEF DownMessages
  <2>3. more \in Seq(DownMessages) /\ Len(more) = Len(types)
    BY <2>1, <2>2, SeqDef
  <2>4. /\ down' \in Seq(DownMessages) /\ Len(down') = Len(down) + Len(more)
        /\ Len(down) \in Nat
        /\ \A i \in 1..Len(down) + Len(more) :
              down'[i] = IF i <= Len(down) THEN down[i] ELSE more[i - Len(down)]
    BY <1>2, <2>3, ConcatProperties, LenProperties DEF DownInv
  <2>5. ASSUME NEW n \in 1..Len(down'), down'[n].type = "started"
        PROVE  down'[n].id \in Intents /\ session'[down'[n].id] # "none"
    <3>1. CASE n <= Len(down)
      <4>1. n \in 1..Len(down) /\ down'[n] = down[n] BY <2>3, <2>4, <3>1
      <4> QED BY <2>5, <4>1 DEF DownInv, SessionsStay
    <3>2. CASE ~(n <= Len(down))
      <4>1. n - Len(down) \in 1..Len(types) /\ down'[n] = more[n - Len(down)] BY <2>3, <2>4, <3>2
      <4>2. down'[n].id = id /\ down'[n].type = types[n - Len(down)] BY <2>1, <4>1
      <4> QED BY <2>5, <4>1, <4>2
    <3> QED BY <3>1, <3>2
  <2> QED BY <2>4, <2>5 DEF DownInv
<1> QED BY <1>1, <1>2 DEF Answer

LEMMA Sent ==
    ASSUME UpInv, NEW t \in {"move", "start", "end_run", "crash"}, NEW i \in 0..MaxIntents,
           NEW d \in Directions \cup {"none"}, t = "move" => d \in Directions,
           t = "start" => i \in Intents, conn' = conn,
           Send(t, i, d)
    PROVE  /\ UpInv'
           /\ \E m \in UpMessages : m.type = t /\ m.dir = d /\ up' = Append(up, m)
<1> DEFINE m == [type |-> t, id |-> i, dir |-> d, sock |-> conn]
<1>2. m \in UpMessages BY DEF UpMessages, UpInv
<1>3. m.type = t /\ m.id = i /\ m.dir = d OBVIOUS
<1>4. up' = Append(up, m) BY DEF Send
<1> HIDE DEF m
<1>5. /\ up' \in Seq(UpMessages) /\ Len(up) \in Nat /\ Len(up') = Len(up) + 1
      /\ up'[Len(up')] = m /\ \A n \in 1..Len(up) : up'[n] = up[n]
  BY <1>2, <1>4, AppendProperties, LenProperties DEF UpInv
<1>6. UpInv' BY <1>3, <1>5 DEF UpInv, IsMove
<1> QED BY <1>2, <1>3, <1>4, <1>6

----------------------------------------------------------------------------
(* The page                                                                *)

\* Neither end of the run moves.
LEMMA EndsStay ==
    ASSUME GrantInv, FollowInv, UNCHANGED <<bet, up>>, bet.active => intent' = intent,
           game' # NoGame => /\ game # NoGame /\ game'.id = game.id /\ Place(game') = Place(game)
                             /\ game'.window = game.window /\ game'.left = game.left
    PROVE  GrantInv' /\ FollowInv'
<1>1. SameRun' => SameRun BY DEF SameRun
<1>2. FollowInv' BY <1>1, RunStays DEF SameRun
<1>3. SameRun' => game'.cp = game.cp BY PlaceFacts DEF SameRun
<1>4. GrantInv' BY <1>1, <1>3 DEF GrantInv, SameRun, CanCashOut
<1> QED BY <1>2, <1>4

LEMMA PageActs ==
    ASSUME EngineInv, PressStart \/ PressEndRun \/ TogglePanel
    PROVE  EngineInv'
<1>1. /\ UNCHANGED <<bet, conn, up, down, game, session, last>>
      /\ bet.active => intent' = intent
      /\ bet.active => panel' = panel
  BY DEF PressStart, PressEndRun, TogglePanel, EngineInv, BetInv, link, server
<1>2. SessionsStay BY <1>1 DEF SessionsStay
<1>3. BetInv' BY <1>1 DEF EngineInv, BetInv
<1>4. CallInv'
  <2>1. CASE PressStart
    BY <2>1, Bounds DEF PressStart, EngineInv, CallInv, Intents, NoCall
  <2>2. CASE PressEndRun BY <2>2 DEF PressEndRun, EngineInv, CallInv, NoCall
  <2>3. CASE TogglePanel BY <2>3 DEF TogglePanel, EngineInv, CallInv
  <2> QED BY <2>1, <2>2, <2>3
<1>5. GameInv' BY <1>1 DEF EngineInv, GameInv
<1>6. UpInv' BY <1>1 DEF EngineInv, UpInv
<1>7. DownInv' BY <1>1, <1>2, DownStays DEF EngineInv
<1>8. GrantInv' /\ FollowInv' BY <1>1, EndsStay DEF EngineInv
<1> QED BY <1>3, <1>4, <1>5, <1>6, <1>7, <1>8 DEF EngineInv

\* The run is over for the page, or its window closes.
LEMMA PageLetsGo ==
    ASSUME EngineInv, NEW p \in BOOLEAN, Crash \/ Restart(p) \/ StayEnds
    PROVE  EngineInv'
<1>1. /\ UNCHANGED <<conn, up, down, game, session, last, intent, used>>
      /\ panel' \in BOOLEAN
  BY DEF Crash, Restart, StayEnds, EngineInv, CallInv, link, server, page
<1>2. SessionsStay BY <1>1 DEF SessionsStay
<1>3. BetInv' /\ GrantInv' /\ FollowInv'
  <2>1. CASE Crash \/ Restart(p) BY <2>1, NoBet, NoRun, Bounds DEF Crash, Restart
  <2>2. CASE StayEnds
    <3>1. bet' = Timed([bet EXCEPT !.window = FALSE]) /\ panel' = panel BY <2>2 DEF StayEnds, page
    <3>2. /\ IsTrack(bet') /\ DOMAIN bet' = DOMAIN bet /\ Place(bet') = Place(bet)
          /\ ~bet'.window /\ bet'.left = 0
          /\ bet'.active = bet.active /\ bet'.faithful = bet.faithful
      BY <3>1, ShutFacts DEF EngineInv, BetInv, Fields
    <3>3. BetInv' BY <1>1, <3>1, <3>2, Bounds DEF EngineInv, BetInv
    <3>4. FollowInv' BY <1>1, <3>2, RunStays DEF EngineInv, SameRun
    <3> QED BY <3>2, <3>3, <3>4 DEF GrantInv, CanCashOut
  <2> QED BY <2>1, <2>2
<1>4. CallInv'
  BY <1>1 DEF Crash, Restart, StayEnds, EngineInv, CallInv, NoCall, page
<1>5. GameInv' BY <1>1 DEF EngineInv, GameInv
<1>6. UpInv' BY <1>1 DEF EngineInv, UpInv
<1>7. DownInv' BY <1>1, <1>2, DownStays DEF EngineInv
<1> QED BY <1>3, <1>4, <1>5, <1>6, <1>7 DEF EngineInv

LEMMA PageHops ==
    ASSUME EngineInv, NEW d \in Directions, Hop(d)
    PROVE  EngineInv'
<1> DEFINE c == ClientHop(bet, d)
<1>1. /\ UNCHANGED <<conn, down, game, session, last, intent, used, panel, call>>
      /\ bet' = [c EXCEPT !.faithful = @ /\ conn # 0]
      /\ d = "backward" => bet.row > 0 \/ ~bet.active
  BY DEF Hop, page, server
<1>2. SessionsStay BY <1>1 DEF SessionsStay
<1>3. IsTrack(bet) /\ {"active", "faithful"} \subseteq DOMAIN bet /\ Stay \in Nat
  BY Bounds DEF EngineInv, BetInv
<1>4. /\ IsTrack(c) /\ {"active", "faithful"} \subseteq DOMAIN c
      /\ c.active = bet.active /\ c.faithful = bet.faithful
      /\ c.left <= Stay /\ (c.window => c.row = c.cpRow)
      /\ bet.active => Place(c) = Walk(Place(bet), d) /\ (c.window => c.cp > bet.cp)
  <2>1. CASE bet.active
    BY <1>1, <1>3, <2>1, ClientWalks DEF EngineInv, BetInv, Fields
  <2>2. CASE ~bet.active
    BY <1>3, <2>2 DEF ClientHop, EngineInv, BetInv
  <2> QED BY <2>1, <2>2
<1> HIDE DEF c
<1>5. /\ IsTrack(bet') /\ {"active", "faithful"} \subseteq DOMAIN bet'
      /\ bet'.active = bet.active /\ bet'.faithful = (bet.faithful /\ conn # 0)
      /\ bet'.faithful \in BOOLEAN
      /\ bet'.left = c.left /\ bet'.window = c.window /\ Place(bet') = Place(c)
      /\ bet'.row = c.row /\ bet'.cpRow = c.cpRow /\ bet'.cp = c.cp
  BY <1>1, <1>4 DEF IsTrack, Fields, Place
<1>6. BetInv' BY <1>1, <1>4, <1>5 DEF EngineInv, BetInv
<1>7. \/ conn = 0 /\ up' = up
      \/ conn # 0 /\ UpInv' /\ \E m \in UpMessages : m.type = "move" /\ m.dir = d /\ up' = Append(up, m)
  <2>1. CASE conn = 0 BY <2>1 DEF Hop
  <2>2. CASE conn # 0
    <3>1. Send("move", 0, d) BY <2>2 DEF Hop
    <3>2. 0 \in 0..MaxIntents /\ UpInv BY Bounds DEF EngineInv
    <3> QED BY <1>1, <2>2, <3>1, <3>2, Sent
  <2> QED BY <2>1, <2>2
<1>8. UpInv' BY <1>1, <1>7 DEF EngineInv, UpInv
<1>9. ASSUME SameRun' PROVE SameRun /\ conn # 0 /\ Leads(Place(game), Place(bet), bet.window, up)
  BY <1>1, <1>5, <1>9 DEF SameRun, EngineInv, FollowInv
<1>10. FollowInv'
  <2>1. SUFFICES ASSUME SameRun' PROVE Leads(Place(game'), Place(bet'), bet'.window, up')
    BY DEF FollowInv
  <2>2. PICK m \in UpMessages : m.type = "move" /\ m.dir = d /\ up' = Append(up, m)
    BY <1>7, <1>9, <2>1
  <2>3. Place(bet) \in Places /\ up \in Seq(UpMessages) BY <1>3, PlaceFacts DEF EngineInv, UpInv
  <2>4. /\ bet.active /\ Place(bet') = Walk(Place(bet), m.dir)
        /\ bet'.window => Walk(Place(bet), m.dir).cp > Place(bet).cp
    BY <1>4, <1>5, <1>9, <2>1, <2>2, PlaceFacts DEF SameRun
  <2>5. Leads(Place(game), Walk(Place(bet), m.dir), bet'.window, Append(up, m))
    BY <1>9, <2>1, <2>2, <2>3, <2>4, LeadsFurther DEF IsMove
  <2> QED BY <1>1, <2>2, <2>4, <2>5
<1>11. GrantInv'
  <2>1. SUFFICES ASSUME SameRun', CanCashOut', game'.cp = bet'.cp PROVE FALSE BY DEF GrantInv
  <2>2. bet'.cp > bet.cp /\ game.cp = bet'.cp BY <1>1, <1>4, <1>5, <1>9, <2>1 DEF CanCashOut, SameRun
  <2>3. Place(game).cp <= Place(bet).cp BY <1>9, <2>1, LeadsArrived DEF EngineInv, UpInv
  <2>4. game.cp <= bet.cp /\ game.cp \in Nat /\ bet.cp \in Nat
    BY <1>3, <1>9, <2>1, <2>3, PlaceFacts DEF EngineInv, GameInv, SameRun, IsGame, IsTrack
  <2> QED BY <2>2, <2>4
<1>12. CallInv' BY <1>1 DEF EngineInv, CallInv
<1>13. GameInv' BY <1>1 DEF EngineInv, GameInv
<1>14. DownInv' BY <1>1, <1>2, DownStays DEF EngineInv
<1> QED BY <1>6, <1>8, <1>10, <1>11, <1>12, <1>13, <1>14 DEF EngineInv

----------------------------------------------------------------------------
(* The bridge and the link                                                 *)

LEMMA BridgeEmits ==
    ASSUME EngineInv, Emit
    PROVE  EngineInv'
<1>1. /\ UNCHANGED <<bet, panel, intent, used, conn, down, game, session, last>>
      /\ call # NoCall /\ call' = [call EXCEPT !.sent = TRUE]
      /\ Send(call.kind, intent, "none")
  BY DEF Emit, server
<1>2. SessionsStay BY <1>1 DEF SessionsStay
<1>3. /\ call.kind \in {"start", "end_run", "crash"} /\ {"kind", "sent"} \subseteq DOMAIN call
      /\ intent \in 0..MaxIntents /\ (call.kind = "start" => intent \in Intents)
      /\ UpInv /\ up \in Seq(UpMessages)
  BY <1>1 DEF EngineInv, CallInv, UpInv
<1>4. PICK k \in {"start", "end_run", "crash"} : k = call.kind BY <1>3
<1>5. /\ UpInv'
      /\ \E m \in UpMessages : m.type = k /\ m.dir = "none" /\ up' = Append(up, m)
  BY <1>1, <1>3, <1>4, Sent
<1>6. PICK m \in UpMessages : m.type = k /\ m.dir = "none" /\ up' = Append(up, m) BY <1>5
<1>7. ~IsMove(m) BY <1>4, <1>6 DEF IsMove
<1>8. SameRun' = SameRun BY <1>1 DEF SameRun
<1>9. FollowInv'
  <2>1. SUFFICES ASSUME SameRun PROVE Leads(Place(game), Place(bet), bet.window, Append(up, m))
    BY <1>1, <1>6, <1>8 DEF FollowInv
  <2>2. Leads(Place(game), Place(bet), bet.window, up) BY <2>1 DEF EngineInv, FollowInv
  <2> QED BY <1>3, <1>7, <2>2, LeadsWithCall
<1>10. GrantInv' BY <1>1, <1>8 DEF EngineInv, GrantInv, CanCashOut
<1>11. CallInv' BY <1>1, <1>3 DEF EngineInv, CallInv
<1>12. BetInv' BY <1>1, <1>2, BetStays DEF EngineInv
<1>13. GameInv' BY <1>1 DEF EngineInv, GameInv
<1>14. DownInv' BY <1>1, <1>2, DownStays DEF EngineInv
<1> QED BY <1>5, <1>9, <1>10, <1>11, <1>12, <1>13, <1>14 DEF EngineInv

\* The page gives up, is refused, shows a result or starts a run.
LEMMA PageEnds ==
    ASSUME EngineInv, Reject \/ RunEnded, UNCHANGED <<conn, up, server>>, DownInv'
    PROVE  EngineInv'
<1>1. UNCHANGED <<game, session, last>> BY DEF server
<1>2. SessionsStay BY <1>1 DEF SessionsStay
<1>3. CallInv'
  <2>1. panel' \in BOOLEAN
    BY Zenon DEF Reject, StartRejected, EndRunRejected, CrashRejected, RunEnded, ShowResult,
                 EngineInv, CallInv
  <2>2. call' = NoCall /\ used' = used /\ intent' \in {intent, 0} BY DEF Reject, RunEnded
  <2> QED BY <2>1, <2>2, Bounds DEF EngineInv, CallInv, NoCall
<1>4. CASE bet' = Unpaid
  BY <1>1, <1>3, <1>4, NoBet, Bounds DEF EngineInv, GameInv, UpInv
<1>5. CASE bet' # Unpaid
  <2>1. UNCHANGED <<bet, panel, intent>>
    BY <1>5 DEF Reject, StartRejected, EndRunRejected, CrashRejected, RunEnded
  <2>2. BetInv' BY <1>2, <2>1, BetStays DEF EngineInv
  <2>3. GrantInv' /\ FollowInv' BY <1>1, <2>1, EndsStay DEF EngineInv
  <2> QED BY <1>1, <1>3, <2>2, <2>3 DEF EngineInv, GameInv, UpInv
<1> QED BY <1>4, <1>5

LEMMA PageStarts ==
    ASSUME EngineInv, Activate, intent \in Intents, session[intent] # "none",
           UNCHANGED <<conn, up, server>>, DownInv'
    PROVE  EngineInv'
<1>1. UNCHANGED <<game, session, last, intent, used>> BY DEF server, Activate
<1>2. CallInv' BY <1>1 DEF Activate, EngineInv, CallInv, NoCall
<1>3. /\ IsTrack(bet') /\ {"active", "faithful"} \subseteq DOMAIN bet'
      /\ bet'.active \in BOOLEAN /\ bet'.active
      /\ bet'.faithful \in BOOLEAN
      /\ bet'.faithful => game # NoGame /\ ~game.moved /\ ~MovesInFlight
      /\ Place(bet') = Place(StartOfTrack) /\ ~bet'.window /\ bet'.left = 0
  BY UnpaidFacts DEF Activate, IsTrack, Fields, Place
<1>4. BetInv' BY <1>1, <1>3, Bounds DEF BetInv, Activate
<1>5. GrantInv' BY <1>3 DEF GrantInv, CanCashOut
<1>6. FollowInv'
  <2>1. SUFFICES ASSUME SameRun' PROVE Leads(Place(game), Place(bet'), bet'.window, up)
    BY <1>1 DEF FollowInv
  <2>2. game # NoGame /\ ~game.moved /\ ~MovesInFlight BY <1>3, <2>1 DEF SameRun
  <2>3. Place(game) = Place(bet') BY <1>3, <2>2 DEF EngineInv, GameInv, IsGame
  <2>4. Place(bet') \in Places BY <1>3, PlaceFacts
  <2>5. up \in Seq(UpMessages) /\ DOMAIN up = 1..Len(up) BY LenProperties DEF EngineInv, UpInv
  <2>6. \A n \in 1..Len(up) : ~IsMove(up[n]) BY <2>2, <2>5 DEF MovesInFlight, IsMove
  <2> QED BY <2>3, <2>4, <2>5, <2>6, LeadsNowhere
<1> QED BY <1>1, <1>2, <1>4, <1>5, <1>6 DEF EngineInv, GameInv, UpInv

\* The window closes or not.
LEMMA PageTold ==
    ASSUME EngineInv, bet' \in {bet, Timed([bet EXCEPT !.window = FALSE])},
           UNCHANGED <<page, conn, up, server>>, DownInv'
    PROVE  EngineInv'
<1>1. UNCHANGED <<game, session, last, panel, call, intent, used>> BY DEF server, page
<1>2. SessionsStay BY <1>1 DEF SessionsStay
<1>3. BetInv' /\ GrantInv' /\ FollowInv'
  <2>1. CASE bet' = bet BY <1>1, <1>2, <2>1, BetStays, EndsStay DEF EngineInv
  <2>2. CASE bet' = Timed([bet EXCEPT !.window = FALSE])
    <3>2. /\ IsTrack(bet') /\ DOMAIN bet' = DOMAIN bet /\ Place(bet') = Place(bet)
          /\ ~bet'.window /\ bet'.left = 0
          /\ bet'.active = bet.active /\ bet'.faithful = bet.faithful
      BY <2>2, ShutFacts DEF EngineInv, BetInv, Fields
    <3>3. BetInv' BY <1>1, <3>2, Bounds DEF EngineInv, BetInv
    <3>4. FollowInv' BY <1>1, <3>2, RunStays DEF EngineInv, SameRun
    <3> QED BY <3>2, <3>3, <3>4 DEF GrantInv, CanCashOut
  <2> QED BY <2>1, <2>2
<1> QED BY <1>1, <1>3 DEF EngineInv, CallInv, GameInv, UpInv

LEMMA PageReceives ==
    ASSUME EngineInv, Receive
    PROVE  EngineInv'
<1> DEFINE m == Head(down)
<1>1. /\ down # <<>> /\ down' = Tail(down) /\ UNCHANGED <<conn, up, server>>
      /\ \/ m.type = "started" /\ call.kind = "start" /\ m.id = intent /\ Activate
         \/ RunEnded \/ Reject
         \/ bet' \in {bet, Timed([bet EXCEPT !.window = FALSE])} /\ UNCHANGED page
  BY DEF Receive, Listens, CpExpired
<1>2. UNCHANGED session BY <1>1 DEF server
<1>3. DownInv' BY <1>1, <1>2, Delivered DEF EngineInv, SessionsStay
<1>4. m = down[1] /\ 1 \in 1..Len(down)
  BY <1>1, HeadTailProperties, LenProperties, EmptySeq DEF EngineInv, DownInv
<1>5. ASSUME m.type = "started", m.id = intent, Activate PROVE EngineInv'
  <2>1. intent \in Intents /\ session[intent] # "none" BY <1>4, <1>5 DEF EngineInv, DownInv
  <2> QED BY <1>1, <1>3, <1>5, <2>1, PageStarts
<1> QED BY <1>1, <1>3, <1>5, PageEnds, PageTold

LEMMA BridgeGivesUp ==
    ASSUME EngineInv, BridgeFails
    PROVE  EngineInv'
<1>1. Reject /\ UNCHANGED <<conn, up, down, server>> BY DEF BridgeFails, link
<1>2. DownInv' BY <1>1, DownStays DEF EngineInv, SessionsStay, server
<1> QED BY <1>1, <1>2, PageEnds

LEMMA LinkDrops ==
    ASSUME EngineInv, Drop
    PROVE  EngineInv'
<1>1. /\ conn' = 0 /\ down' = <<>>
      /\ UNCHANGED <<game, session, last, panel, call, intent, used>>
  BY DEF Drop, server, page
<1>2. PICK n \in 0..Len(up) :
         /\ up' = SubSeq(up, 1, n)
         /\ bet' = [bet EXCEPT !.faithful = @ /\ \A j \in n + 1 .. Len(up) : up[j].type # "move"]
  BY DEF Drop
<1>3. up \in Seq(UpMessages) /\ Len(up) \in Nat BY LenProperties DEF EngineInv, UpInv
<1>4. /\ up' \in Seq(UpMessages) /\ Len(up') = n /\ \A i \in 1..n : up'[i] = up[i]
  <2>1. \A i \in 1..n : up[i] \in UpMessages BY <1>3, ElementOfSeq
  <2> QED BY <1>2, <1>3, <2>1, SubSeqProperties
<1>5. UpInv' BY <1>1, <1>3, <1>4 DEF EngineInv, UpInv
<1>6. DownInv' BY <1>1, EmptySeq DEF DownInv
<1>7. PICK f \in BOOLEAN :
        /\ f = (bet.faithful /\ \A j \in n + 1 .. Len(up) : up[j].type # "move")
        /\ bet' = [bet EXCEPT !.faithful = f]
  BY <1>2
<1>8. /\ IsTrack(bet') /\ {"active", "faithful"} \subseteq DOMAIN bet' /\ bet'.faithful = f
      /\ bet'.active = bet.active /\ bet'.left = bet.left /\ bet'.window = bet.window
      /\ bet'.row = bet.row /\ bet'.cpRow = bet.cpRow /\ bet'.cp = bet.cp
      /\ Place(bet') = Place(bet)
  BY <1>7 DEF EngineInv, BetInv, IsTrack, Fields, Place
<1>9. BetInv' BY <1>1, <1>7, <1>8 DEF EngineInv, BetInv
<1>10. SameRun' => SameRun /\ \A j \in n + 1 .. Len(up) : ~IsMove(up[j])
  BY <1>1, <1>7, <1>8 DEF SameRun, IsMove
<1>11. GrantInv' BY <1>1, <1>8, <1>10 DEF EngineInv, GrantInv, CanCashOut
<1>12. FollowInv'
  <2>1. SUFFICES ASSUME SameRun' PROVE Leads(Place(game), Place(bet), bet.window, SubSeq(up, 1, n))
    BY <1>1, <1>2, <1>8 DEF FollowInv
  <2>2. Leads(Place(game), Place(bet), bet.window, up) BY <1>10, <2>1 DEF EngineInv, FollowInv
  <2> QED BY <1>3, <1>10, <2>1, <2>2, LeadsLess
<1>13. CallInv' BY <1>1 DEF EngineInv, CallInv
<1>14. GameInv' BY <1>1 DEF EngineInv, GameInv
<1> QED BY <1>5, <1>6, <1>9, <1>11, <1>12, <1>13, <1>14 DEF EngineInv

LEMMA LinkConnects ==
    ASSUME EngineInv, Connect
    PROVE  EngineInv'
<1>1. UNCHANGED <<bet, panel, call, intent, used, up, down, session, last>>
  BY DEF Connect, page
<1>2. SessionsStay BY <1>1 DEF SessionsStay
<1>3. PICK k \in Sockets :
        /\ conn' = k
        /\ game' = game \/ (game # NoGame /\ game' = [game EXCEPT !.paused = FALSE, !.sock = k])
  BY DEF Connect
<1>4. game # NoGame => /\ IsGame(game') /\ game'.id = game.id /\ Place(game') = Place(game)
                       /\ game'.window = game.window /\ game'.left = game.left
  BY <1>3 DEF EngineInv, GameInv, IsGame, IsTrack, Fields, GameFields, Place
<1>5. GrantInv' /\ FollowInv' BY <1>1, <1>3, <1>4, EndsStay DEF EngineInv
<1>6. GameInv' BY <1>1, <1>3, <1>4 DEF EngineInv, GameInv
<1>7. UpInv' BY <1>1, <1>3 DEF EngineInv, UpInv, Sockets
<1>8. BetInv' /\ DownInv' BY <1>1, <1>2, BetStays, DownStays DEF EngineInv
<1>9. CallInv' BY <1>1 DEF EngineInv, CallInv
<1> QED BY <1>5, <1>6, <1>7, <1>8, <1>9 DEF EngineInv

----------------------------------------------------------------------------
(* The gateway                                                             *)

LEMMA RunCloses ==
    ASSUME GameInv, game # NoGame, NEW status \in Ended, NEW p, Close(status, p)
    PROVE  GameInv' /\ SessionsStay /\ game' = NoGame
<1>1. game.id \in Intents /\ session \in [Intents -> {"none", "ACTIVE", "VOIDED"} \cup Ended]
  BY DEF GameInv, IsGame
<1>2. PICK s \in {"VOIDED", status} : session' = [session EXCEPT ![game.id] = s] BY DEF Close
<1>3. s \in {"none", "ACTIVE", "VOIDED"} \cup Ended /\ s # "none" BY <1>2 DEF Ended
<1>4. SessionsStay BY <1>1, <1>2, <1>3 DEF SessionsStay
<1>5. session' \in [Intents -> {"none", "ACTIVE", "VOIDED"} \cup Ended] BY <1>1, <1>2, <1>3
<1>6. last' \in 0..MaxIntents /\ game' = NoGame
  BY <1>1, Bounds DEF Close, GameInv, Intents
<1> QED BY <1>4, <1>5, <1>6 DEF GameInv

\* What the page holds survives when the gateway changes only its game.
LEMMA GatewayAlone ==
    ASSUME EngineInv, UNCHANGED <<bet, page, conn, up>>, GameInv', SessionsStay, DownInv'
    PROVE  BetInv' /\ CallInv' /\ UpInv' /\ (game' = NoGame => GrantInv' /\ FollowInv')
<1>1. UNCHANGED <<bet, panel, call, intent, used>> BY DEF page
<1>2. BetInv' BY <1>1, BetStays DEF EngineInv
<1>3. CallInv' BY <1>1 DEF EngineInv, CallInv
<1>4. UpInv' BY DEF EngineInv, UpInv
<1>5. game' = NoGame => GrantInv' /\ FollowInv' BY NoRun DEF SameRun
<1> QED BY <1>2, <1>3, <1>4, <1>5

LEMMA GatewayLoses ==
    ASSUME EngineInv, NEW k, LossNoticed(k) \/ GraceExpires
    PROVE  EngineInv'
<1>1. UNCHANGED <<bet, page, conn, up, down>> BY DEF LossNoticed, GraceExpires, link
<1>2. CASE game # NoGame /\ Close("CRASHED", FALSE)
  <2>1. "CRASHED" \in Ended BY DEF Ended
  <2>2. GameInv' /\ SessionsStay /\ game' = NoGame BY <1>2, <2>1, RunCloses DEF EngineInv
  <2>3. DownInv' BY <1>1, <2>2, DownStays DEF EngineInv
  <2> QED BY <1>1, <2>2, <2>3, GatewayAlone DEF EngineInv
<1>3. CASE /\ UNCHANGED <<session, last>>
           /\ game' = game \/ (game # NoGame /\ game' = [game EXCEPT !.paused = TRUE])
  <2>1. game # NoGame => /\ IsGame(game') /\ game'.id = game.id /\ Place(game') = Place(game)
                         /\ game'.window = game.window /\ game'.left = game.left
    BY <1>3 DEF EngineInv, GameInv, IsGame, IsTrack, Fields, GameFields, Place
  <2>2. GameInv' /\ SessionsStay BY <1>3, <2>1 DEF EngineInv, GameInv, SessionsStay
  <2>3. GrantInv' /\ FollowInv' BY <1>1, <1>3, <2>1, EndsStay DEF EngineInv, page
  <2>4. DownInv' BY <1>1, <2>2, DownStays DEF EngineInv
  <2> QED BY <1>1, <2>2, <2>3, <2>4, GatewayAlone DEF EngineInv
<1> QED BY <1>2, <1>3 DEF LossNoticed, GraceExpires, HandleDisconnect, server

\* A window closes whose time is over.
LEMMA WindowShuts ==
    ASSUME EngineInv, game # NoGame, game.left < 0, game' = Timed([game EXCEPT !.window = FALSE]),
           UNCHANGED <<session, last>>
    PROVE  /\ GameInv' /\ SessionsStay /\ Place(game') = Place(game) /\ game'.id = game.id
           /\ IsGame(game')
           /\ ~(SameRun /\ CanCashOut /\ game.cp = bet.cp)
<1>1. IsGame(game) /\ session[game.id] # "none" BY DEF EngineInv, GameInv
<1>2. /\ IsTrack(game') /\ DOMAIN game' = DOMAIN game
      /\ \A f \in DOMAIN game \ Fields : game'[f] = game[f]
      /\ Place(game') = Place(game) /\ ~game'.window
  BY <1>1, ShutFacts DEF IsGame
<1>3. game'.id = game.id /\ game'.moved = game.moved
  BY <1>1, <1>2 DEF IsGame, GameFields, Fields
<1>4. IsGame(game') BY <1>1, <1>2, <1>3 DEF IsGame
<1>5. GameInv' /\ SessionsStay BY <1>1, <1>3, <1>4 DEF EngineInv, GameInv, SessionsStay
<1>6. ~(SameRun /\ CanCashOut /\ game.cp = bet.cp)
  <2>1. ASSUME SameRun, CanCashOut, game.cp = bet.cp PROVE FALSE
    <3>1. game.left >= bet.left /\ bet.left > 0 BY <2>1 DEF EngineInv, GrantInv, CanCashOut
    <3>2. game.left \in Int /\ bet.left \in Int
      BY <1>1 DEF EngineInv, BetInv, IsGame, IsTrack
    <3> QED BY <3>1, <3>2
  <2> QED BY <2>1
<1> QED BY <1>2, <1>3, <1>4, <1>5, <1>6

LEMMA StayExpires ==
    ASSUME EngineInv, CpStayExpires
    PROVE  EngineInv'
<1>1. /\ game # NoGame /\ game.left < 0 /\ game' = Timed([game EXCEPT !.window = FALSE])
      /\ UNCHANGED <<bet, page, conn, up, session, last>>
      /\ down' \in {Append(down, [type |-> "cp_expired", id |-> 0]), down}
  BY DEF CpStayExpires
<1>2. /\ GameInv' /\ SessionsStay /\ Place(game') = Place(game) /\ game'.id = game.id
      /\ IsGame(game')
      /\ ~(SameRun /\ CanCashOut /\ game.cp = bet.cp)
  BY <1>1, WindowShuts
<1>3. DownInv'
  <2>1. CASE down' = down BY <1>2, <2>1, DownStays DEF EngineInv
  <2>2. CASE down' = Append(down, [type |-> "cp_expired", id |-> 0])
    <3>1. [type |-> "cp_expired", id |-> 0] \in DownMessages BY Bounds DEF DownMessages, Replies
    <3>2. /\ down' \in Seq(DownMessages) /\ Len(down') = Len(down) + 1 /\ Len(down) \in Nat
          /\ down'[Len(down')].type = "cp_expired"
          /\ \A i \in 1..Len(down) : down'[i] = down[i]
      BY <2>2, <3>1, AppendProperties, LenProperties DEF EngineInv, DownInv
    <3> QED BY <1>2, <3>2 DEF EngineInv, DownInv, SessionsStay
  <2> QED BY <1>1, <2>1, <2>2
<1>4. SameRun' = SameRun /\ CanCashOut' = CanCashOut /\ game'.cp = game.cp
  BY <1>1, <1>2, PlaceFacts, NoGameFacts DEF SameRun, CanCashOut, page, EngineInv, GameInv
<1>5. GrantInv' BY <1>1, <1>2, <1>4 DEF GrantInv
<1>6. FollowInv' BY <1>1, <1>2, <1>4, RunStays DEF EngineInv
<1> QED BY <1>1, <1>2, <1>3, <1>5, <1>6, GatewayAlone DEF EngineInv

\* The first message is taken.
LEMMA Taken ==
    ASSUME EngineInv, up # <<>>, UNCHANGED <<bet, page, conn>>, up' = Tail(up),
           GameInv', SessionsStay, DownInv', GrantInv',
           SameRun' => /\ SameRun
                       /\ Place(game') = IF IsMove(Head(up)) THEN Walk(Place(game), Head(up).dir)
                                                             ELSE Place(game)
    PROVE  EngineInv'
<1>1. up \in Seq(UpMessages) BY DEF EngineInv, UpInv
<1>2. /\ up' \in Seq(UpMessages) /\ Len(up) \in Nat /\ Len(up') = Len(up) - 1
      /\ \A i \in 1..Len(up') : up'[i] = up[i+1]
  BY <1>1, HeadTailProperties, LenProperties
<1>3. UpInv'
  <2>1. ASSUME NEW n \in 1..Len(up')
        PROVE  /\ IsMove(up'[n]) => up'[n].dir \in Directions
               /\ up'[n].type = "start" => up'[n].id \in Intents
    <3>1. n + 1 \in 1..Len(up) /\ up'[n] = up[n+1] BY <1>2
    <3> QED BY <3>1 DEF EngineInv, UpInv
  <2> QED BY <1>2, <2>1 DEF EngineInv, UpInv
<1>4. FollowInv'
  <2>1. SUFFICES ASSUME SameRun' PROVE Leads(Place(game'), Place(bet), bet.window, Tail(up))
    BY DEF FollowInv
  <2>2. Leads(Place(game), Place(bet), bet.window, up) BY <2>1 DEF EngineInv, FollowInv
  <2> QED BY <1>1, <2>1, <2>2, LeadsOn
<1>5. UNCHANGED <<panel, call, intent, used>> BY DEF page
<1>6. BetInv' BY <1>5, BetStays DEF EngineInv
<1>7. CallInv' BY <1>5 DEF EngineInv, CallInv
<1> QED BY <1>3, <1>4, <1>6, <1>7 DEF EngineInv

LEMMA GatewayMoves ==
    ASSUME EngineInv, up # <<>>, UNCHANGED <<bet, page, conn, session, last, down>>, up' = Tail(up),
           game # NoGame, IsMove(Head(up)),
           game' = [ServerHop(game, Head(up).dir) EXCEPT !.moved = TRUE]
    PROVE  EngineInv'
<1> DEFINE d == Head(up).dir
           s == ServerHop(game, d)
<1>1. /\ up \in Seq(UpMessages) /\ 1 \in 1..Len(up) /\ up[1] = Head(up)
  BY HeadTailProperties, LenProperties, EmptySeq DEF EngineInv, UpInv
<1>2. d \in Directions BY <1>1 DEF EngineInv, UpInv
<1>3. IsGame(game) /\ session[game.id] # "none" BY DEF EngineInv, GameInv
<1>4. /\ DOMAIN s = DOMAIN game /\ \A f \in DOMAIN game \ Fields : s[f] = game[f]
      /\ IsTrack(s) /\ Place(s) = Walk(Place(game), d)
      /\ s.cp # game.cp => s.window /\ s.left = Stay
  BY <1>2, <1>3, Bounds, ServerWalks DEF IsGame
<1>5. s.id = game.id /\ GameFields \subseteq DOMAIN s
  BY <1>3, <1>4 DEF IsGame, GameFields, Fields
<1>6. game' = [s EXCEPT !.moved = TRUE] OBVIOUS
<1> HIDE DEF s, d
<1>7. /\ IsTrack(game') /\ GameFields \subseteq DOMAIN game' /\ game'.id = game.id
      /\ game'.moved \in BOOLEAN /\ game'.moved
      /\ Place(game') = Place(s) /\ game'.cp = s.cp /\ game'.left = s.left
      /\ game'.window = s.window
  BY <1>4, <1>5, <1>6 DEF IsTrack, Fields, GameFields, Place
<1>8. IsGame(game') BY <1>3, <1>7 DEF IsGame
<1>9. GameInv' /\ SessionsStay BY <1>3, <1>7, <1>8 DEF EngineInv, GameInv, SessionsStay
<1>10. SameRun' = SameRun /\ CanCashOut' = CanCashOut
  BY <1>7, <1>8, NoGameFacts DEF SameRun, CanCashOut, page
<1>11. GrantInv'
  <2>1. SUFFICES ASSUME SameRun, CanCashOut, game'.cp = bet.cp PROVE game'.window /\ game'.left >= bet.left
    BY <1>10 DEF GrantInv
  <2>2. Leads(Place(game), Place(bet), bet.window, up) BY <2>1 DEF EngineInv, FollowInv
  <2>3. Place(game).cp # Place(bet).cp
    <3>1. bet.window /\ IsMove(up[1]) BY <1>1, <2>1 DEF CanCashOut
    <3> HIDE DEF CanCashOut
    <3>2. bet.window /\ Place(game).cp = Place(bet).cp => \A n \in 1..Len(up) : ~IsMove(up[n])
      BY <1>1, <2>2, LeadsArrived
    <3> QED BY <1>1, <3>1, <3>2
  <2>4. s.cp # game.cp BY <1>7, <2>1, <2>3, PlaceFacts
  <2>5. bet.left <= Stay BY DEF EngineInv, BetInv
  <2> QED BY <1>4, <1>7, <2>4, <2>5
<1>12. DownInv' BY <1>9, DownStays DEF EngineInv
<1>13. Place(game') = Walk(Place(game), Head(up).dir) BY <1>4, <1>7 DEF d
<1> QED BY <1>9, <1>10, <1>11, <1>12, <1>13, Taken

\* Nothing that a run depends on changes.
LEMMA GatewayAnswers ==
    ASSUME EngineInv, up # <<>>, UNCHANGED <<bet, page, conn, session, last>>, up' = Tail(up),
           game # NoGame => ~IsMove(Head(up)),
           \/ game' = game
           \/ game # NoGame /\ \E k : game' = [game EXCEPT !.sock = k],
           DownInv'
    PROVE  EngineInv'
<1>1. game # NoGame => /\ IsGame(game') /\ game'.id = game.id /\ Place(game') = Place(game)
                       /\ game'.window = game.window /\ game'.left = game.left /\ game'.cp = game.cp
  BY DEF EngineInv, GameInv, IsGame, IsTrack, Fields, GameFields, Place
<1>2. GameInv' /\ SessionsStay BY <1>1 DEF EngineInv, GameInv, SessionsStay
<1>3. SameRun' => SameRun BY <1>1 DEF SameRun, page
<1>4. GrantInv' BY <1>1, <1>3 DEF EngineInv, GrantInv, SameRun, CanCashOut
<1>5. SameRun' => Place(game') = Place(game) /\ game # NoGame BY <1>1, <1>3 DEF SameRun
<1> QED BY <1>2, <1>3, <1>4, <1>5, Taken

LEMMA TupleFacts ==
    /\ \A r \in Replies : <<r>> \in Seq(Replies) /\ Len(<<r>>) = 1 /\ <<r>>[1] = r
    /\ <<>> \in Seq(Replies) /\ Len(<<>>) = 0
    /\ <<"cp_expired", "error">> \in Seq(Replies)
    /\ \A n \in 1..Len(<<"cp_expired", "error">>) : <<"cp_expired", "error">>[n] # "started"
BY DEF Replies

LEMMA Refused ==
    ASSUME EngineInv, SessionsStay, NEW m, NEW id \in 0..MaxIntents,
           \/ Answer(m, <<"error">>, id) \/ Answer(m, <<"consumed">>, id) \/ Answer(m, <<"ended">>, id)
           \/ Answer(m, <<>>, id) \/ Answer(m, <<"cp_expired", "error">>, id)
    PROVE  DownInv'
<1>1. {"error", "consumed", "ended"} \subseteq Replies BY DEF Replies
<1>2. ASSUME NEW r \in {"error", "consumed", "ended"}, Answer(m, <<r>>, id) PROVE DownInv'
  <2>1. <<r>> \in Seq(Replies) /\ \A n \in 1..Len(<<r>>) : <<r>>[n] # "started"
    BY <1>1, TupleFacts
  <2> QED BY <1>2, <2>1, Answered DEF EngineInv
<1>3. CASE Answer(m, <<>>, id)
  <2> DEFINE none == <<>>
  <2>1. none \in Seq(Replies) /\ Len(none) = 0 BY TupleFacts
  <2>2. Answer(m, none, id) BY <1>3
  <2> HIDE DEF none
  <2>3. \A n \in 1..Len(none) : none[n] = "started" => id \in Intents /\ session'[id] # "none"
    BY <2>1
  <2> QED BY <2>1, <2>2, <2>3, Answered DEF EngineInv
<1>4. CASE Answer(m, <<"cp_expired", "error">>, id) BY <1>4, TupleFacts, Answered DEF EngineInv
<1> QED BY <1>2, <1>3, <1>4

LEMMA GatewayCloses ==
    ASSUME EngineInv, up # <<>>, UNCHANGED <<bet, page, conn>>, up' = Tail(up), game # NoGame,
           NEW status \in Ended, Close(status, TRUE), Answer(Head(up), <<"ended">>, game.id)
    PROVE  EngineInv'
<1>1. GameInv' /\ SessionsStay /\ game' = NoGame BY RunCloses DEF EngineInv
<1>2. game.id \in 0..MaxIntents BY Bounds DEF EngineInv, GameInv, IsGame, Intents
<1>3. PICK id \in 0..MaxIntents : id = game.id BY <1>2
<1>4. DownInv'
  <2>1. Answer(Head(up), <<"ended">>, id) BY <1>3
  <2> QED BY <1>1, <2>1, Refused
<1> QED BY <1>1, <1>4, NoRun, Taken DEF SameRun

LEMMA GatewayStarts ==
    ASSUME EngineInv, up # <<>>, UNCHANGED <<bet, page, conn>>, up' = Tail(up),
           Head(up).type = "start", StartRun(Head(up))
    PROVE  EngineInv'
<1> DEFINE m == Head(up)
<1>1. /\ up \in Seq(UpMessages) /\ 1 \in 1..Len(up) /\ up[1] = m
  BY HeadTailProperties, LenProperties, EmptySeq DEF EngineInv, UpInv
<1>2. m.id \in Intents /\ m.id \in 0..MaxIntents BY <1>1, Bounds DEF EngineInv, UpInv, Intents
<1>3. ~IsMove(m) BY DEF IsMove
<1>4. session \in [Intents -> {"none", "ACTIVE", "VOIDED"} \cup Ended] BY DEF EngineInv, GameInv
<1>5. "started" \in Replies /\ <<"started">> \in Seq(Replies) BY TupleFacts DEF Replies
<1>6. CASE session[m.id] = "none" /\ game = NoGame
  <2>1. /\ game' = [id |-> m.id, sock |-> m.sock, paused |-> FALSE, moved |-> FALSE,
                     row |-> 0, maxRow |-> 0, cp |-> 0, window |-> FALSE, cpRow |-> 0, left |-> 0]
        /\ session' = [session EXCEPT ![m.id] = "ACTIVE"] /\ last' = last
        /\ Answer(m, <<"started">>, m.id)
    BY <1>6 DEF StartRun
  <2>2. IsGame(game') /\ game'.id = m.id
    BY <1>2, <2>1 DEF IsGame, IsTrack, Fields, GameFields, Place, StartOfTrack
  <2>3. SessionsStay /\ session'[m.id] # "none" BY <1>2, <1>4, <2>1 DEF SessionsStay
  <2>4. GameInv' BY <1>2, <1>4, <2>1, <2>2, <2>3 DEF EngineInv, GameInv
  <2>5. DownInv' BY <1>2, <1>5, <2>1, <2>3, Answered DEF EngineInv
  <2>6. ~SameRun'
    <3>1. bet.active => session[intent] # "none" BY DEF EngineInv, BetInv
    <3> QED BY <1>6, <2>2, <3>1 DEF SameRun, page
  <2> QED BY <2>3, <2>4, <2>5, <2>6, NoRun, Taken
<1>7. CASE session[m.id] = "none" /\ game # NoGame
  <2>1. Answer(m, <<"error">>, m.id) /\ UNCHANGED server BY <1>7 DEF StartRun
  <2>2. DownInv' BY <1>2, <2>1, Refused DEF SessionsStay, server
  <2> QED BY <1>3, <2>1, <2>2, GatewayAnswers DEF server
<1>8. CASE session[m.id] = "ACTIVE"
  <2>1. /\ game' = [game EXCEPT !.sock = m.sock] /\ UNCHANGED <<session, last>>
        /\ Answer(m, <<"started">>, m.id)
    BY <1>8 DEF StartRun
  <2>2. DownInv' BY <1>2, <1>5, <1>8, <2>1, Answered DEF EngineInv, SessionsStay
  <2>3. game = NoGame => game' = game BY <2>1 DEF NoGame
  <2> QED BY <1>3, <2>1, <2>2, <2>3, GatewayAnswers
<1>9. CASE session[m.id] \notin {"none", "ACTIVE"}
  <2>1. Answer(m, <<"consumed">>, m.id) /\ UNCHANGED server BY <1>9 DEF StartRun
  <2>2. DownInv' BY <1>2, <2>1, Refused DEF SessionsStay, server
  <2> QED BY <1>3, <2>1, <2>2, GatewayAnswers DEF server
<1> QED BY <1>6, <1>7, <1>8, <1>9

LEMMA GatewayReplays ==
    ASSUME EngineInv, up # <<>>, UNCHANGED <<bet, page, conn>>, up' = Tail(up), game = NoGame,
           ReplayEnd(Head(up), <<"error">>) \/ ReplayEnd(Head(up), <<>>)
    PROVE  EngineInv'
<1>1. UNCHANGED <<game, session, last>> BY DEF ReplayEnd, server
<1>2. last \in 0..MaxIntents /\ 0 \in 0..MaxIntents BY Bounds DEF EngineInv, GameInv
<1>3. DownInv' BY <1>1, <1>2, Refused DEF ReplayEnd, LastEnded, SessionsStay
<1> QED BY <1>1, <1>3, GatewayAnswers

LEMMA GatewayEnds ==
    ASSUME EngineInv, up # <<>>, UNCHANGED <<bet, page, conn>>, up' = Tail(up),
           Head(up).type = "end_run", EndRun(Head(up))
    PROVE  EngineInv'
<1>1. ~IsMove(Head(up)) /\ 0 \in 0..MaxIntents BY Bounds DEF IsMove
<1>2. CASE game = NoGame BY <1>2, GatewayReplays DEF EndRun
<1>3. CASE game # NoGame /\ ~game.window
  <2>1. Answer(Head(up), <<"error">>, 0) /\ UNCHANGED <<game, session, last>>
    BY <1>3 DEF EndRun, server
  <2>2. DownInv' BY <1>1, <2>1, Refused DEF SessionsStay
  <2> QED BY <1>1, <2>1, <2>2, GatewayAnswers
<1>4. CASE game # NoGame /\ game.window /\ game.left < 0
  <2>1. /\ game' = Timed([game EXCEPT !.window = FALSE]) /\ UNCHANGED <<session, last>>
        /\ Answer(Head(up), <<"cp_expired", "error">>, 0)
    BY <1>4 DEF EndRun
  <2>2. /\ GameInv' /\ SessionsStay /\ Place(game') = Place(game) /\ game'.id = game.id
        /\ IsGame(game') /\ ~(SameRun /\ CanCashOut /\ game.cp = bet.cp)
    BY <1>4, <2>1, WindowShuts
  <2>3. DownInv' BY <1>1, <2>1, <2>2, Refused
  <2>4. SameRun' = SameRun /\ CanCashOut' = CanCashOut /\ game'.cp = game.cp
    BY <1>4, <2>2, PlaceFacts, NoGameFacts DEF SameRun, CanCashOut, page
  <2>5. GrantInv' BY <2>2, <2>4 DEF GrantInv
  <2> QED BY <1>1, <2>2, <2>3, <2>4, <2>5, Taken
<1>5. CASE game # NoGame /\ game.window /\ ~(game.left < 0)
  <2>1. Close("COMPLETED", TRUE) /\ Answer(Head(up), <<"ended">>, game.id) BY <1>5 DEF EndRun
  <2>2. "COMPLETED" \in Ended BY DEF Ended
  <2> QED BY <1>5, <2>1, <2>2, GatewayCloses
<1> QED BY <1>2, <1>3, <1>4, <1>5

LEMMA GatewayCrashes ==
    ASSUME EngineInv, up # <<>>, UNCHANGED <<bet, page, conn>>, up' = Tail(up), CrashRun(Head(up))
    PROVE  EngineInv'
<1>1. "CRASHED" \in Ended BY DEF Ended
<1> QED BY <1>1, GatewayCloses, GatewayReplays DEF CrashRun

LEMMA GatewayHandles ==
    ASSUME EngineInv, Handle
    PROVE  EngineInv'
<1> DEFINE m == Head(up)
<1>1. /\ up # <<>> /\ UNCHANGED <<bet, page, conn>> /\ up' = Tail(up)
      /\ \/ m.type = "move" /\ MoveRun(m)
         \/ CrashRun(m)
         \/ m.type = "start" /\ StartRun(m)
         \/ m.type = "end_run" /\ EndRun(m)
         \/ m.type # "move" /\ UNCHANGED <<down, server>>
  BY DEF Handle
<1> HIDE DEF m
<1>2. ASSUME m.type = "move", MoveRun(m) PROVE EngineInv'
  <2>1. CASE game # NoGame
    BY <1>1, <1>2, <2>1, GatewayMoves DEF MoveRun, IsMove, m
  <2>2. CASE game = NoGame
    <3>1. Answer(m, <<"error">>, 0) /\ UNCHANGED <<game, session, last>>
      BY <1>2, <2>2 DEF MoveRun, server
    <3>2. DownInv' BY <3>1, Bounds, Refused DEF SessionsStay
    <3> QED BY <1>1, <2>2, <3>1, <3>2, GatewayAnswers
  <2> QED BY <2>1, <2>2
<1>3. ASSUME m.type # "move", UNCHANGED <<down, server>> PROVE EngineInv'
  <2>1. DownInv' BY <1>3, DownStays DEF EngineInv, SessionsStay, server
  <2> QED BY <1>1, <1>3, <2>1, GatewayAnswers DEF IsMove, server, m
<1> QED BY <1>1, <1>2, <1>3, GatewayCrashes, GatewayStarts, GatewayEnds DEF m

LEMMA TimePasses ==
    ASSUME EngineInv, Tick
    PROVE  EngineInv'
<1>1. /\ UNCHANGED <<page, conn, up, down, session, last>>
      /\ bet' = [bet EXCEPT !.left = IF CanCashOut THEN bet.left - 1 ELSE bet.left]
      /\ game' = IF game # NoGame /\ game.window /\ game.left >= 0
                 THEN [game EXCEPT !.left = game.left - 1] ELSE game
  BY DEF Tick, link
<1>2. IsTrack(bet) /\ {"active", "faithful"} \subseteq DOMAIN bet /\ bet.left <= Stay
  BY DEF EngineInv, BetInv
<1>3. /\ IsTrack(bet') /\ DOMAIN bet' = DOMAIN bet /\ Place(bet') = Place(bet)
      /\ bet'.left = IF CanCashOut THEN bet.left - 1 ELSE bet.left
      /\ bet'.active = bet.active /\ bet'.faithful = bet.faithful /\ bet'.window = bet.window
      /\ bet'.row = bet.row /\ bet'.cpRow = bet.cpRow /\ bet'.cp = bet.cp
  BY <1>1, <1>2 DEF IsTrack, Fields, Place
<1>4. BetInv' BY <1>1, <1>2, <1>3, Bounds DEF EngineInv, BetInv, IsTrack, page
<1>5. game # NoGame =>
        /\ IsGame(game) /\ IsGame(game') /\ game'.id = game.id /\ Place(game') = Place(game)
        /\ game'.window = game.window /\ game'.cp = game.cp
        /\ game'.left = IF game.window /\ game.left >= 0 THEN game.left - 1 ELSE game.left
  BY <1>1 DEF EngineInv, GameInv, IsGame, IsTrack, Fields, GameFields, Place
<1>6. GameInv' /\ SessionsStay BY <1>1, <1>5 DEF EngineInv, GameInv, SessionsStay
<1>7. SameRun' => SameRun BY <1>1, <1>3, <1>5 DEF SameRun, page
<1>8. FollowInv' BY <1>1, <1>3, <1>5, <1>7, RunStays DEF EngineInv, SameRun
<1>9. GrantInv'
  <2>1. SUFFICES ASSUME SameRun', CanCashOut', game'.cp = bet'.cp PROVE game'.window /\ game'.left >= bet'.left
    BY DEF GrantInv
  <2>2. CanCashOut
    <3>1. bet.active /\ bet.window /\ bet'.left > 0 BY <1>3, <2>1 DEF CanCashOut
    <3>2. bet'.left > 0 => bet.left > 0 BY <1>2, <1>3 DEF CanCashOut, IsTrack
    <3> QED BY <3>1, <3>2 DEF CanCashOut
  <2>3. game.window /\ game.left >= bet.left /\ bet.left > 0
    <3>1. SameRun /\ game.cp = bet.cp BY <1>3, <1>5, <1>7, <2>1 DEF SameRun
    <3> QED BY <2>2, <3>1 DEF EngineInv, GrantInv, CanCashOut
  <2>4. game.left \in Int /\ bet.left \in Int /\ game # NoGame
    BY <1>2, <1>5, <1>7, <2>1 DEF IsGame, IsTrack, SameRun
  <2>5. game'.left = game.left - 1 /\ bet'.left = bet.left - 1 BY <1>3, <1>5, <2>2, <2>3, <2>4
  <2>6. game'.left >= bet'.left BY <2>3, <2>4, <2>5
  <2>7. game'.window = game.window BY <1>5, <2>4
  <2> QED BY <2>3, <2>6, <2>7
<1>10. CallInv' BY <1>1 DEF EngineInv, CallInv, page
<1>11. UpInv' BY <1>1 DEF EngineInv, UpInv
<1>12. DownInv' BY <1>1, <1>6, DownStays DEF EngineInv
<1> QED BY <1>4, <1>6, <1>8, <1>9, <1>10, <1>11, <1>12 DEF EngineInv

----------------------------------------------------------------------------
(* Theorems                                                                *)

LEMMA EngineInit == Init => EngineInv
<1> SUFFICES ASSUME Init PROVE EngineInv OBVIOUS
<1>1. BetInv BY UnpaidFacts, Bounds DEF Init, BetInv
<1>2. CallInv BY Bounds DEF Init, CallInv, NoCall
<1>3. GameInv BY Bounds DEF Init, GameInv
<1>4. UpInv /\ DownInv BY EmptySeq DEF Init, UpInv, DownInv
<1>5. ~SameRun BY DEF Init, SameRun
<1> QED BY <1>1, <1>2, <1>3, <1>4, <1>5 DEF EngineInv, GrantInv, FollowInv

LEMMA EngineStep == EngineInv /\ [Next]_vars => EngineInv'
<1> SUFFICES ASSUME EngineInv, [Next]_vars PROVE EngineInv' OBVIOUS
<1>1. CASE PressStart \/ PressEndRun \/ TogglePanel BY <1>1, PageActs
<1>2. CASE Crash \/ StayEnds \/ Retry \/ FreePractice
  BY <1>2, PageLetsGo DEF Retry, FreePractice
<1>3. CASE \E d \in Directions : Hop(d) BY <1>3, PageHops
<1>4. CASE Emit \/ Receive \/ BridgeFails BY <1>4, BridgeEmits, PageReceives, BridgeGivesUp
<1>5. CASE Drop \/ Connect BY <1>5, LinkDrops, LinkConnects
<1>6. CASE \E k \in Sockets : LossNoticed(k) BY <1>6, GatewayLoses
<1>7. CASE GraceExpires BY <1>7, GatewayLoses
<1>8. CASE CpStayExpires \/ Handle \/ Tick BY <1>8, StayExpires, GatewayHandles, TimePasses
<1>9. CASE UNCHANGED vars
  BY <1>9 DEF vars, page, link, server, EngineInv, BetInv, CallInv, GameInv, UpInv, DownInv,
              GrantInv, FollowInv, SameRun, CanCashOut
<1> QED BY <1>1, <1>2, <1>3, <1>4, <1>5, <1>6, <1>7, <1>8, <1>9 DEF Next

\* Both ends of a run count alike: the gateway is behind by the moves in flight, in rows
\* and checkpoints, through lost, late and repeated messages, resumed connections and
\* restarted starts, for any length of run, link and stay.
THEOREM BothEndsCountAlike == Spec => []TracksAgree
<1>1. EngineInv => TracksAgree
  <2>1. SUFFICES ASSUME EngineInv, SameRun
                 PROVE  /\ game.maxRow <= bet.maxRow /\ game.cp <= bet.cp
                        /\ ~MovesInFlight => Place(game) = Place(bet)
    BY PlaceFacts DEF TracksAgree
  <2>2. up \in Seq(UpMessages) /\ DOMAIN up = 1..Len(up)
    BY <2>1, LenProperties DEF EngineInv, UpInv
  <2>3. Leads(Place(game), Place(bet), bet.window, up) BY <2>1 DEF EngineInv, FollowInv
  <2>4. ~MovesInFlight => \A n \in 1..Len(up) : ~IsMove(up[n]) BY <2>2 DEF MovesInFlight, IsMove
  <2>5. /\ Place(game).maxRow <= Place(bet).maxRow /\ Place(game).cp <= Place(bet).cp
        /\ (\A n \in 1..Len(up) : ~IsMove(up[n])) => Place(game) = Place(bet)
    BY <2>2, <2>3, LeadsArrived
  <2> QED BY <2>4, <2>5, PlaceFacts
<1> QED BY <1>1, EngineInit, EngineStep, PTL DEF Spec

\* Whenever the page offers END RUN and its moves have arrived, the gateway's own window
\* is open and its own timer has not run out.
THEOREM EndRunIsGranted == Spec => []OfferedEndIsGranted
<1>1. EngineInv => OfferedEndIsGranted
  <2>1. SUFFICES ASSUME EngineInv, SameRun, CanCashOut, ~MovesInFlight
                 PROVE  game.window /\ game.left >= 0
    BY DEF OfferedEndIsGranted, EndRunOffered
  <2>2. up \in Seq(UpMessages) /\ DOMAIN up = 1..Len(up)
    BY <2>1, LenProperties DEF EngineInv, UpInv
  <2>3. Leads(Place(game), Place(bet), bet.window, up) BY <2>1 DEF EngineInv, FollowInv
  <2>4. \A n \in 1..Len(up) : ~IsMove(up[n]) BY <2>1, <2>2 DEF MovesInFlight, IsMove
  <2>5. Place(game) = Place(bet) BY <2>2, <2>3, <2>4, LeadsArrived
  <2>6. game.cp = bet.cp BY <2>5, PlaceFacts
  <2>7. game.window /\ game.left >= bet.left /\ bet.left > 0
    BY <2>1, <2>6 DEF EngineInv, GrantInv, CanCashOut
  <2>8. game.left \in Int /\ bet.left \in Int
    BY <2>1 DEF EngineInv, GameInv, BetInv, SameRun, IsGame, IsTrack
  <2> QED BY <2>7, <2>8
<1> QED BY <1>1, EngineInit, EngineStep, PTL DEF Spec
=============================================================================
