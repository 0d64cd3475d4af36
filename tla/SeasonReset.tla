---------------------------- MODULE SeasonReset ----------------------------
(***************************************************************************)
(* The season reset (seasonScheduler.ts, seasonService.ts): freeze, rank,  *)
(* move the divisions, queue the rewards, open the next season; and the    *)
(* closes of runs that credit season points meanwhile (ticketPlay.ts).     *)
(*                                                                         *)
(* An action is one database call with the code up to the next one.  A     *)
(* call that fails ends the tick, and so does a restart, so that one       *)
(* action, TickFails, stands for both.                                     *)
(***************************************************************************)
EXTENDS Integers, FiniteSets, FiniteSetsExt

CONSTANTS
    Wallets,        \* addresses, as numbers in localeCompare's order
    Top,            \* the highest division; ROOKIE is 0 and ORACLE, in the code, 4
    FirstDivisions, \* what divisions holds before the first season
    PromotionPct, RelegationPct, TicketReward,    \* per division
    SmallDivision,  \* fewer active players than this: the best few go up (20)
    TopCount,       \* how many of them (3)
    MaxSeason, MaxPoints, MaxCloses, MaxFaults    \* bounds

Divisions == 0..Top

\* The code updates divisions and never inserts: a wallet may have no row there.
NoRow == -1

ASSUME WalletsAreNumbers == Wallets \subseteq Int /\ IsFiniteSet(Wallets)
ASSUME TablesPerDivision ==
    /\ {PromotionPct, RelegationPct, TicketReward} \subseteq [Divisions -> Nat]
    /\ FirstDivisions \subseteq [Wallets -> Divisions \cup {NoRow}]
ASSUME BoundsAreNatural ==
    {Top, SmallDivision, TopCount, MaxSeason, MaxPoints, MaxCloses, MaxFaults} \subseteq Nat
ASSUME SomebodyGoesUp == TopCount > 0

VARIABLES
    season,     \* seasons, by season_number
    ended,      \* seasons whose ends_at has passed
    sp,         \* season_points, by season and wallet
    division,   \* divisions.division, NoRow for no row
    updatedBy,  \* divisions.updated_season_id, 0 for null
    worker,     \* the scheduler's tick
    close,      \* the run of a wallet that is being closed
    credits,    \* last_point_at is the number of credits before
    closes, faults,
    late, cut   \* history: seasons credited after the freeze; seasons with a failed tick

seasonVars == <<season, ended>>
closeVars == <<close, credits, closes>>
history == <<late, cut>>
resetVars == <<seasonVars, sp, division, updatedBy, worker, closeVars, faults, history>>

Seasons == 1..MaxSeason
Stage == {"NONE", "ACTIVE", "FREEZING", "SETTLING", "SETTLED"}
\* frozen_at, movements_at and settled_at are written with the status.
Season == [status: Stage, rewards: BOOLEAN, passport: BOOLEAN]
NoSeason == [status |-> "NONE", rewards |-> FALSE, passport |-> FALSE]

Movement == {"NULL", "PROMOTED", "RELEGATED", "STAYED"}
Points == [row: BOOLEAN, division: Divisions, points: Nat, at: Nat, rank: Nat,
           movement: Movement, reward: Nat, pending: BOOLEAN]
NoPoints == [row |-> FALSE, division |-> 0, points |-> 0, at |-> 0, rank |-> 0,
             movement |-> "NULL", reward |-> 0, pending |-> FALSE]

Pcs == {"idle", "look", "bootstrap", "freeze", "readRanks", "rank", "readMoves", "move",
        "divide", "transition", "readRewards", "reward", "rewardsAt", "passport", "open", "settle"}
Plan == [Wallets -> [rank: Nat, movement: Movement]]
NoPlan == [w \in Wallets |-> [rank |-> 0, movement |-> "NULL"]]
\* todo: the rows left to write; current: the division whose rows are being written.
Worker == [pc: Pcs, n: Seasons \cup {0}, todo: SUBSET Wallets, plan: Plan,
           current: Divisions \cup {-1}, who: Wallets \cup {0}]
WorkerIdle == [pc |-> "idle", n |-> 0, todo |-> {}, plan |-> NoPlan, current |-> -1, who |-> 0]

Close == [pc: {"idle", "season", "read", "write"}, division: Divisions, n: Seasons \cup {0},
          delta: Nat, prev: Points]
NoClose == [pc |-> "idle", division |-> 0, n |-> 0, delta |-> 0, prev |-> NoPoints]

SeasonInit ==
    /\ season = [n \in Seasons |-> NoSeason] /\ ended = {}
    /\ sp = [n \in Seasons |-> [w \in Wallets |-> NoPoints]]
    /\ division \in FirstDivisions /\ updatedBy = [w \in Wallets |-> 0]
    /\ worker = WorkerIdle /\ close = [w \in Wallets |-> NoClose]
    /\ credits = 0 /\ closes = 0 /\ faults = 0 /\ late = {} /\ cut = {}

----------------------------------------------------------------------------
(* Ranking and movements, as functions of the rows read.                   *)

\* rankStandings: points, then who reached them first, then the address; a row
\* without last_point_at comes last.
Outranks(rows, v, w) ==
    \/ rows[v].points > rows[w].points
    \/ /\ rows[v].points = rows[w].points
       /\ \/ rows[v].at # 0 /\ (rows[w].at = 0 \/ rows[v].at < rows[w].at)
          \/ rows[v].at = rows[w].at /\ v < w

RankAmong(rows, set, w) == Cardinality({v \in set : Outranks(rows, v, w)}) + 1

\* Mutant: large divisions always promote by percentage, which may be nobody.
PercentOnly(d, active) == (active * PromotionPct[d]) \div 100
PromoteCount(d, active) ==
    IF active < SmallDivision THEN Min({TopCount, active})
    ELSE Max({1, (active * PromotionPct[d]) \div 100})

RelegateCount(d, active) ==
    IF active < SmallDivision THEN 0 ELSE (active * RelegationPct[d]) \div 100

\* computeDivisionMovements, for wallet w of the rows of its division.
MovementOf(rows, w, peers) ==
    LET d == rows[w].division
        active == {v \in peers : rows[v].points > 0}
        size == Cardinality(active)
        place == RankAmong(rows, active, w)
    IN  IF w \in active /\ d # Top /\ place <= PromoteCount(d, size) THEN "PROMOTED"
        ELSE IF d # 0 /\ (w \notin active \/ place > size - RelegateCount(d, size))
             THEN "RELEGATED" ELSE "STAYED"

PlanFor(rows, set) ==
    [w \in Wallets |-> IF w \notin set THEN NoPlan[w] ELSE
        LET peers == {v \in set : rows[v].division = rows[w].division}
        IN  [rank |-> RankAmong(rows, peers, w), movement |-> MovementOf(rows, w, peers)]]

NewDivision(d, movement) ==
    CASE movement = "PROMOTED" -> Min({d + 1, Top})
      [] movement = "RELEGATED" -> Max({d - 1, 0})
      [] OTHER -> d

\* getCurrentSeason: the latest one that is not settled.
CurrentSeason == Max({0} \cup {n \in Seasons : season[n].status \notin {"NONE", "SETTLED"}})

----------------------------------------------------------------------------
(* A run that ends: closeV2Session, cut at its database calls.             *)

SeasonEnds(n) ==
    /\ season[n].status = "ACTIVE" /\ n \notin ended /\ n < MaxSeason
    /\ ended' = ended \cup {n}
    /\ UNCHANGED <<season, sp, division, updatedBy, worker, closeVars, faults, history>>

\* Without a row a wallet is a ROOKIE, here and on the leaderboard.
DivisionNow(w) == IF division[w] = NoRow THEN 0 ELSE division[w]

PlacedIn(w, d) == close' = [close EXCEPT ![w] = [NoClose EXCEPT !.pc = "season", !.division = d]]

\* A query that fails reads as no row.
GetPlayerDivision(w) ==
    /\ close[w].pc = "idle" /\ closes < MaxCloses /\ closes' = closes + 1
    /\ \/ PlacedIn(w, DivisionNow(w)) /\ faults' = faults
       \/ PlacedIn(w, 0) /\ DivisionNow(w) # 0 /\ faults < MaxFaults /\ faults' = faults + 1
    /\ UNCHANGED <<seasonVars, sp, division, updatedBy, worker, credits, history>>

\* Only a close that reads an ACTIVE season credits points to it.
GetSeason(w) ==
    /\ close[w].pc = "season"
    /\ \E delta \in 0..MaxPoints :
          close' = [close EXCEPT ![w] =
              IF CurrentSeason # 0 /\ season[CurrentSeason].status = "ACTIVE"
              THEN [@ EXCEPT !.pc = "read", !.n = CurrentSeason, !.delta = delta]
              ELSE NoClose]
    /\ UNCHANGED <<seasonVars, sp, division, updatedBy, worker, credits, closes, faults, history>>

ReadPoints(w) ==
    /\ close[w].pc = "read"
    /\ close' = [close EXCEPT ![w].pc = "write", ![w].prev = sp[close[w].n][w]]
    /\ UNCHANGED <<seasonVars, sp, division, updatedBy, worker, credits, closes, faults, history>>

\* creditSeasonPoints: insert the row, or add to what was read.
CreditSeasonPoints(w) ==
    LET c == close[w]
        stamp == IF c.delta > 0 THEN credits + 1 ELSE 0
    IN  /\ c.pc = "write"
        /\ close' = [close EXCEPT ![w] = NoClose]
        /\ credits' = IF c.delta > 0 THEN credits + 1 ELSE credits
        /\ sp' = IF ~c.prev.row
                 THEN [sp EXCEPT ![c.n][w] = [NoPoints EXCEPT !.row = TRUE, !.division = c.division,
                                                !.points = c.delta, !.at = stamp]]
                 ELSE IF c.delta > 0
                 THEN [sp EXCEPT ![c.n][w].points = c.prev.points + c.delta, ![c.n][w].at = stamp]
                 ELSE sp
        /\ late' = IF season[c.n].status = "ACTIVE" THEN late ELSE late \cup {c.n}
        /\ UNCHANGED <<seasonVars, division, updatedBy, worker, closes, faults, cut>>

----------------------------------------------------------------------------
(* The scheduler's tick.                                                   *)

Goto(pc) == worker' = [worker EXCEPT !.pc = pc]
Rest == UNCHANGED <<ended, closeVars, faults, history>>

StartTick ==
    /\ worker.pc = "idle" /\ Goto("look")
    /\ UNCHANGED <<season, sp, division, updatedBy>> /\ Rest

\* The tick reads the season anew after every stage.
\* Mutant: only the tick that froze the season moves it on.
FreezeNotResumed(n) ==
    LET s == season[n] IN
    CASE s.status = "ACTIVE" -> IF n \in ended THEN "freeze" ELSE "idle"
      [] s.status = "FREEZING" -> IF n \in cut THEN "idle" ELSE "readMoves"
      [] s.status = "SETTLING" -> IF ~s.rewards THEN "readRewards"
                                  ELSE IF ~s.passport THEN "passport" ELSE "open"
\* Mutant: the rewards marker is not looked at.
RewardsSkipped(n) ==
    LET s == season[n] IN
    CASE s.status = "ACTIVE" -> IF n \in ended THEN "freeze" ELSE "idle"
      [] s.status = "FREEZING" -> "readMoves"
      [] s.status = "SETTLING" -> IF ~s.passport THEN "passport" ELSE "open"
NextStage(n) ==
    LET s == season[n] IN
    CASE s.status = "ACTIVE" -> IF n \in ended THEN "freeze" ELSE "idle"
      [] s.status = "FREEZING" -> "readMoves"
      [] s.status = "SETTLING" -> IF ~s.rewards THEN "readRewards"
                                  ELSE IF ~s.passport THEN "passport" ELSE "open"

Look ==
    /\ worker.pc = "look"
    /\ LET n == CurrentSeason
       IN  worker' = IF n = 0 THEN [WorkerIdle EXCEPT !.pc = "bootstrap"]
                     ELSE IF NextStage(n) = "idle" THEN WorkerIdle
                     ELSE [WorkerIdle EXCEPT !.pc = NextStage(n), !.n = n]
    /\ UNCHANGED <<season, sp, division, updatedBy>> /\ Rest

\* A second insert of the season meets the unique number.
Opened(n) == [NoSeason EXCEPT !.status = "ACTIVE"]
BootstrapFirstSeason ==
    /\ worker.pc = "bootstrap" /\ worker' = WorkerIdle
    /\ season' = IF season[1] = NoSeason THEN [season EXCEPT ![1] = Opened(1)] ELSE season
    /\ UNCHANGED <<sp, division, updatedBy>> /\ Rest

\* A season that is frozen already is left alone.
FreezeSeason ==
    /\ worker.pc = "freeze"
    /\ IF season[worker.n].status = "ACTIVE"
       THEN season' = [season EXCEPT ![worker.n].status = "FREEZING"] /\ Goto("readRanks")
       ELSE UNCHANGED season /\ Goto("look")
    /\ UNCHANGED <<sp, division, updatedBy>> /\ Rest

RowsOf(n) == {w \in Wallets : sp[n][w].row}
\* Mutant: rows that were moved already are planned again.
EveryRow(n) == RowsOf(n)
Unmoved(n) == {w \in RowsOf(n) : sp[n][w].movement = "NULL"}

BeginWrites(pc, set) ==
    worker' = [worker EXCEPT !.pc = pc, !.todo = set, !.plan = PlanFor(sp[worker.n], set), !.current = -1]

ReadRanks ==
    /\ worker.pc = "readRanks" /\ BeginWrites("rank", RowsOf(worker.n))
    /\ UNCHANGED <<season, sp, division, updatedBy>> /\ Rest

\* The loops go division by division and, in one, from the best rank down.
DivisionOf(w) == sp[worker.n][w].division
InTurn(w) ==
    /\ w \in worker.todo
    /\ \A v \in worker.todo : DivisionOf(v) = DivisionOf(w) => worker.plan[w].rank <= worker.plan[v].rank
    /\ (\E v \in worker.todo : DivisionOf(v) = worker.current) => DivisionOf(w) = worker.current

Written(w, pc) == worker' = [worker EXCEPT !.pc = pc, !.todo = @ \ {w}, !.current = DivisionOf(w), !.who = w]

WriteRank(w) ==
    /\ worker.pc = "rank" /\ InTurn(w) /\ Written(w, "rank")
    /\ sp' = [sp EXCEPT ![worker.n][w].rank = worker.plan[w].rank]
    /\ UNCHANGED <<season, division, updatedBy>> /\ Rest

RanksWritten ==
    /\ worker.pc = "rank" /\ worker.todo = {} /\ Goto("look")
    /\ UNCHANGED <<season, sp, division, updatedBy>> /\ Rest

ReadMoves ==
    /\ worker.pc = "readMoves" /\ BeginWrites("move", Unmoved(worker.n))
    /\ UNCHANGED <<season, sp, division, updatedBy>> /\ Rest

WriteMovement(w) ==
    /\ worker.pc = "move" /\ InTurn(w)
    /\ Written(w, IF worker.plan[w].movement = "STAYED" THEN "move" ELSE "divide")
    /\ sp' = IF sp[worker.n][w].movement = "NULL"
             THEN [sp EXCEPT ![worker.n][w].movement = worker.plan[w].movement] ELSE sp
    /\ UNCHANGED <<season, division, updatedBy>> /\ Rest

\* An update: a wallet without a row stays without.
WriteDivision ==
    LET w == worker.who
        d == NewDivision(DivisionOf(w), worker.plan[w].movement)
    IN  /\ worker.pc = "divide" /\ Goto("move")
        /\ \/ division[w] = NoRow /\ UNCHANGED <<division, updatedBy>>
           \/ /\ division[w] # NoRow
              /\ division' = [division EXCEPT ![w] = d] /\ updatedBy' = [updatedBy EXCEPT ![w] = worker.n]
        /\ UNCHANGED <<season, sp>> /\ Rest

StartSettling ==
    /\ worker.pc = "move" /\ worker.todo = {} /\ Goto("look")
    /\ season' = IF season[worker.n].status = "FREEZING"
                 THEN [season EXCEPT ![worker.n].status = "SETTLING"] ELSE season
    /\ UNCHANGED <<sp, division, updatedBy>> /\ Rest

Rewarded(n) == {w \in RowsOf(n) : sp[n][w].movement = "PROMOTED" /\ ~sp[n][w].pending}

ReadRewards ==
    /\ worker.pc = "readRewards" /\ BeginWrites("reward", Rewarded(worker.n))
    /\ UNCHANGED <<season, sp, division, updatedBy>> /\ Rest

QueueReward(w) ==
    /\ worker.pc = "reward" /\ w \in worker.todo /\ Written(w, "reward")
    /\ sp' = IF sp[worker.n][w].pending THEN sp
             ELSE [sp EXCEPT ![worker.n][w].reward = TicketReward[DivisionOf(w)], ![worker.n][w].pending = TRUE]
    /\ UNCHANGED <<season, division, updatedBy>> /\ Rest

RewardsQueued ==
    /\ worker.pc = "reward" /\ worker.todo = {} /\ Goto("look")
    /\ season' = [season EXCEPT ![worker.n].rewards = TRUE]
    /\ UNCHANGED <<sp, division, updatedBy>> /\ Rest

UpdatePassportBadges ==
    /\ worker.pc = "passport" /\ Goto("look")
    /\ season' = [season EXCEPT ![worker.n].passport = TRUE]
    /\ UNCHANGED <<sp, division, updatedBy>> /\ Rest

\* The insert of a season that exists is refused, and that is accepted.
OpenNextSeason ==
    /\ worker.pc = "open" /\ Goto("settle")
    /\ season' = IF season[worker.n + 1] = NoSeason
                 THEN [season EXCEPT ![worker.n + 1] = Opened(worker.n + 1)] ELSE season
    /\ UNCHANGED <<sp, division, updatedBy>> /\ Rest

SettleSeason ==
    /\ worker.pc = "settle" /\ worker' = WorkerIdle
    /\ season' = IF season[worker.n].status = "SETTLING"
                 THEN [season EXCEPT ![worker.n].status = "SETTLED"] ELSE season
    /\ UNCHANGED <<sp, division, updatedBy>> /\ Rest

----------------------------------------------------------------------------
(* GET /api/leaderboard/season.                                            *)

Peers(n, w) == {v \in RowsOf(n) : sp[n][v].division = sp[n][w].division}

\* loadDivisionStandings ranks the rows anew, moved or not.
Standing(n, w) ==
    LET plan == PlanFor(sp[n], Peers(n, w))[w]
    IN  [rank |-> plan.rank,
         zone |-> IF sp[n][w].points = 0 THEN "PASSIVE"
                  ELSE CASE plan.movement = "PROMOTED" -> "PROMOTION"
                         [] plan.movement = "RELEGATED" -> "RELEGATION"
                         [] OTHER -> "SAFE"]

\* The viewer is looked for in the division the wallet has now.
NoViewer == [rank |-> 0, zone |-> "NONE"]
Viewer(w) ==
    LET n == CurrentSeason
    IN  IF n # 0 /\ w \in RowsOf(n) /\ sp[n][w].division = DivisionNow(w)
        THEN Standing(n, w) ELSE NoViewer

----------------------------------------------------------------------------
TickFails ==
    /\ worker.pc # "idle" /\ faults < MaxFaults
    /\ worker' = WorkerIdle /\ faults' = faults + 1
    /\ cut' = (cut \cup {worker.n}) \ {0}
    /\ UNCHANGED <<seasonVars, sp, division, updatedBy, closeVars, late>>

CloseStep(w) == GetPlayerDivision(w) \/ GetSeason(w) \/ ReadPoints(w) \/ CreditSeasonPoints(w)

Scheduler ==
    \/ StartTick \/ Look \/ BootstrapFirstSeason \/ FreezeSeason \/ ReadRanks \/ RanksWritten \/ ReadMoves
    \/ WriteDivision \/ StartSettling \/ ReadRewards \/ RewardsQueued \/ UpdatePassportBadges
    \/ OpenNextSeason \/ SettleSeason
    \/ \E w \in Wallets : WriteRank(w) \/ WriteMovement(w) \/ QueueReward(w)

SeasonNext == Scheduler \/ TickFails \/ (\E n \in Seasons : SeasonEnds(n)) \/ \E w \in Wallets : CloseStep(w)

SeasonSpec == SeasonInit /\ [][SeasonNext]_resetVars

\* setInterval runs the tick for ever.
FairSeasonSpec == SeasonSpec /\ WF_resetVars(Scheduler)

----------------------------------------------------------------------------
\* Every variable has its type.
SeasonTypeOK ==
    /\ season \in [Seasons -> Season] /\ ended \subseteq Seasons
    /\ sp \in [Seasons -> [Wallets -> Points]]
    /\ division \in [Wallets -> Divisions \cup {NoRow}] /\ updatedBy \in [Wallets -> Seasons \cup {0}]
    /\ worker \in Worker /\ close \in [Wallets -> Close]
    /\ credits \in Nat /\ closes \in 0..MaxCloses /\ faults \in 0..MaxFaults
    /\ late \subseteq Seasons /\ cut \subseteq Seasons

\* The next season opens only when every promoted wallet of the last one has its
\* reward queued, wherever the ticks before were cut off
\* (seasonScheduler.ts:15-17: "a crashed tick simply resumes").
PromotedIsQueued ==
    \A n \in Seasons \ {MaxSeason} : season[n + 1] # NoSeason =>
        \A w \in RowsOf(n) : sp[n][w].movement = "PROMOTED" =>
            sp[n][w].pending /\ sp[n][w].reward = TicketReward[sp[n][w].division]

Movers(n) == {w \in RowsOf(n) : sp[n][w].movement \in {"PROMOTED", "RELEGATED"}}
Moved(n, w) == NewDivision(sp[n][w].division, sp[n][w].movement)

\* A movement is written by one call and the division by the next.  Wherever ticks
\* break off and whoever is credited meanwhile, a row of divisions stands where the
\* movement of the season that wrote it last says; only in a season that was credited
\* after its freeze is anybody left without a movement; and only a broken tick leaves a
\* movement whose division, if the wallet has a row, was not written
\* (seasonService.ts:279-283).
MovesAreCarriedOut ==
    \A n \in Seasons, w \in Wallets :
        /\ updatedBy[w] = n => w \in Movers(n) /\ division[w] = Moved(n, w)
        /\ season[n].status \in {"SETTLING", "SETTLED"} =>
              /\ w \in RowsOf(n) /\ sp[n][w].movement = "NULL" => n \in late
              /\ w \in Movers(n) /\ division[w] # NoRow => updatedBy[w] >= n \/ n \in cut

\* "Apply promotion/relegation per division, update the `divisions` table" (278-282),
\* as the player sees it: who was promoted plays on in a higher division.  Nothing
\* inserts the row that the update looks for.
PromotedPlayHigher ==
    \A n \in Seasons \ {MaxSeason} : season[n + 1].status = "ACTIVE" =>
        \A w \in Wallets : sp[n][w].movement = "PROMOTED" => DivisionNow(w) = Moved(n, w)

Active(n, w) == {v \in Peers(n, w) : sp[n][v].points > 0}
Promoted(n, w) == {v \in Peers(n, w) : sp[n][v].movement = "PROMOTED"}
\* The best TopCount of a small division, the share of a large one, but one at least.
Quota(n, w) ==
    LET players == Cardinality(Active(n, w))
    IN  IF players < SmallDivision THEN TopCount
        ELSE Max({1, (players * PromotionPct[sp[n][w].division]) \div 100})

\* A movement, as the leaderboard's zones name it.
ShownAs(r) ==
    IF r.points = 0 THEN "PASSIVE"
    ELSE CASE r.movement = "PROMOTED" -> "PROMOTION"
           [] r.movement = "RELEGATED" -> "RELEGATION"
           [] OTHER -> "SAFE"

\* Without a failed tick and without a credit after the freeze, the final standings
\* decide: ranks follow the points, the best of a division are promoted, one at
\* least and no more than the rules say, a passive wallet of a higher division goes
\* down, and the leaderboard of the season shows what was done.
StandingsDecide ==
    \A n \in Seasons \ (late \cup cut) : season[n].status \in {"SETTLING", "SETTLED"} =>
        \A w \in RowsOf(n) :
            LET mine == sp[n][w] IN
            /\ mine.movement # "NULL"
            /\ \A v \in Peers(n, w) \ {w} :
                  LET other == sp[n][v] IN
                  /\ mine.rank # other.rank
                  /\ mine.rank < other.rank => mine.points >= other.points
                  /\ mine.points = other.points /\ 0 < mine.at /\ mine.at < other.at => mine.rank < other.rank
                  /\ mine.movement # "PROMOTED" /\ other.movement = "PROMOTED" => other.rank < mine.rank
            /\ (mine.points = 0 /\ mine.division > 0) => mine.movement = "RELEGATED"
            /\ mine.division < Top /\ Active(n, w) # {} => Promoted(n, w) # {}
            /\ Promoted(n, w) \subseteq Active(n, w) /\ Cardinality(Promoted(n, w)) <= Quota(n, w)
            /\ Standing(n, w) = [rank |-> mine.rank, zone |-> ShownAs(mine)]

\* A division never sends up more than its share of active players. The code
\* claims that the movements are safe to run again after a crash
\* (seasonService.ts:279-283); a second run ranks the rows that are left as if
\* they were the whole division.
PromotionQuota ==
    \A n \in Seasons \ late : \A w \in RowsOf(n) : Cardinality(Promoted(n, w)) <= Quota(n, w)

\* A player with points in the current season is found on its leaderboard: viewer is null
\* only without a row (docs/be08-season-leaderboard-api.md:75-77).  Once the movements
\* are written it is null for whoever moved.
ViewerIsListed ==
    \A w \in Wallets :
        CurrentSeason # 0 /\ w \in RowsOf(CurrentSeason) => Viewer(w) # NoViewer

\* Every season that ends is followed by the next one.
NextSeasonOpens ==
    \A n \in Seasons \ {MaxSeason} : (n \in ended) ~> (season[n + 1] # NoSeason)
============================================================================
