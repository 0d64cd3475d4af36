---------------------------- MODULE TicketMirror ----------------------------
(***************************************************************************)
(* One wallet's row of ticket_balances (and of daily_streaks), kept in step *)
(* with the TicketVault contract by the backend's event listener.           *)
(*                                                                         *)
(* Logs reach the listener from two sides that run at the same time: a live *)
(* watcher that sees what is mined while the process is up, and a backfill  *)
(* that replays the blocks from a stored cursor, at boot and then on a      *)
(* timer.  Both go through the same handlers, and a handler is a chain of   *)
(* separate database calls: insert the dedupe row, read the balance row,    *)
(* write it back, read the streak row, write it back.  Debits and refunds   *)
(* of played games reach the balance row between any two of them.           *)
(*                                                                         *)
(* Every log is worth one ticket.  TicketPurchased and TicketCredited logs  *)
(* take the same steps, those in Claims the streak steps as well.           *)
(***************************************************************************)
EXTENDS Integers, FiniteSets

CONSTANTS
    Logs,               \* TicketVault logs of this wallet, by (tx_hash, log_index)
    Claims,             \* the TicketClaimed logs among them
    Spent,              \* the TicketSpent logs among them
    DayOf,              \* dayIndex of a TicketClaimed log
    Backfills,          \* runs of backfillTicketEvents that may overlap
    Chunk,              \* BACKFILL_CHUNK
    ColdStart,          \* BACKFILL_COLD_START_BLOCKS
    Faults,             \* the calls that may fail
    NoLog,
    MaxBlock, MaxRestarts, MaxFaults, MaxDebits     \* bounds of the model

ASSUME LogsAreKinds ==
    /\ IsFiniteSet(Logs) /\ Claims \subseteq Logs /\ Spent \subseteq Logs
    /\ Claims \cap Spent = {} /\ NoLog \notin Logs

ASSUME ClaimDays == DayOf \in [Claims -> Nat \ {0}]

ASSUME BackfillParameters ==
    /\ Backfills \cap Logs = {}
    /\ Chunk \in Nat \ {0} /\ ColdStart \in Nat

ASSUME Bounds ==
    /\ MaxBlock \in Nat /\ MaxRestarts \in Nat /\ MaxFaults \in Nat /\ MaxDebits \in Nat
    /\ Faults \subseteq {"insert", "readRow", "writeRow", "readStreak",
                         "writeStreak", "readCursor", "getLogs", "writeCursor"}

VARIABLES
    head,        \* number of the last block
    minedIn,     \* the block of each log, 0 while it is not mined
    seen,        \* ticket_event_log
    row,         \* ticket_balances: onchain_credited, offchain_debited, balance
    streak,      \* daily_streaks: streak_day, last_claim_day, total_claims
    ledger,      \* ticket_ledger: how many SPEND and REFUND rows
    cursor,      \* chain_sync_state.last_processed_block
    job,         \* the handler each source has running
    backfill,    \* the local variables of each backfill run
    since,       \* head when the watchers were installed
    forgone,     \* history: the logs a backfill went past without claiming them
    restarts, faults

tables == <<seen, row, streak, cursor>>
bounds == <<restarts, faults>>
vars == <<head, minedIn, seen, row, streak, ledger, cursor, job, backfill,
          since, forgone, bounds>>

----------------------------------------------------------------------------
\* The watcher has a handler of its own for each log, a backfill one at a time.
Sources == Logs \cup Backfills

NoBlock == -1    \* no cursor row yet

NoDay == 0       \* last_claim_day is null

Row == [credited: Nat, debited: Int, balance: Int]

Streak == [day: 0..7, last: Nat, total: Nat]

Job == [pc: {"idle", "claim", "record", "readRow", "writeRow", "readStreak", "writeStreak"},
        log: Logs \cup {NoLog}, row: Row, streak: Streak]

Backfill == [pc: {"idle", "cursor", "fetch", "apply"}, target: Nat,
             next: Nat, to: Nat, todo: SUBSET Logs]

NewRow == [credited |-> 0, debited |-> 0, balance |-> 0]

NewStreak == [day |-> 0, last |-> NoDay, total |-> 0]

Idle == [pc |-> "idle", log |-> NoLog, row |-> NewRow, streak |-> NewStreak]

Asleep == [pc |-> "idle", target |-> 0, next |-> 0, to |-> 0, todo |-> {}]

Init ==
    /\ head = 0
    /\ minedIn = [e \in Logs |-> 0]
    /\ seen = {}
    /\ row = NewRow
    /\ streak = NewStreak
    /\ ledger = [spent |-> 0, refunded |-> 0]
    /\ cursor = NoBlock
    /\ job = [w \in Sources |-> Idle]
    /\ backfill = [b \in Backfills |-> Asleep]
    /\ since = 0
    /\ forgone = {}
    /\ restarts = 0
    /\ faults = 0

Mined == {e \in Logs : minedIn[e] > 0}

----------------------------------------------------------------------------
(* The chain *)

\* The contract takes a claim only for a later day than the user's last one,
\* and a block is shorter than a day.
NewBlock ==
    /\ head < MaxBlock
    /\ \E new \in SUBSET (Logs \ Mined) :
          /\ \A c \in new \cap Claims : \A d \in (Mined \cup new) \cap Claims :
                c = d \/ DayOf[d] < DayOf[c]
          /\ minedIn' = [e \in Logs |-> IF e \in new THEN head + 1 ELSE minedIn[e]]
    /\ head' = head + 1
    /\ UNCHANGED <<tables, ledger, job, backfill, since, forgone, bounds>>

----------------------------------------------------------------------------
(* The database functions games call *)

DebitTicketForSession ==
    /\ ledger.spent < MaxDebits
    /\ row.balance >= 1
    /\ row' = [row EXCEPT !.balance = @ - 1, !.debited = @ + 1]
    /\ ledger' = [ledger EXCEPT !.spent = @ + 1]
    /\ UNCHANGED <<head, minedIn, seen, streak, cursor, job, backfill, since, forgone, bounds>>

RefundTicketForSession ==
    /\ ledger.refunded < ledger.spent
    /\ row' = [row EXCEPT !.balance = @ + 1, !.debited = @ - 1]
    /\ ledger' = [ledger EXCEPT !.refunded = @ + 1]
    /\ UNCHANGED <<head, minedIn, seen, streak, cursor, job, backfill, since, forgone, bounds>>

----------------------------------------------------------------------------
(* The handlers *)

outsideHandlers == <<head, minedIn, ledger, cursor, backfill, since, restarts>>

Fails(call) == call \in Faults /\ faults < MaxFaults /\ faults' = faults + 1

Works == UNCHANGED faults

At(w, pc) == job[w].pc = pc

Goto(w, pc) == job' = [job EXCEPT ![w].pc = pc]

Finish(w) == job' = [job EXCEPT ![w] = Idle]

\* viem's poller, which may deliver a log again and may also lose its filter.
Deliver(e) ==
    /\ minedIn[e] > since
    /\ At(e, "idle")
    /\ job' = [job EXCEPT ![e] = [Idle EXCEPT !.pc = "claim", !.log = e]]
    /\ UNCHANGED <<outsideHandlers, seen, forgone, row, streak, faults>>

\* Mutant: the dedupe table is missing.
NeverRecorded(e) == FALSE

Recorded(e) == e \in seen

\* claimTicketEvent: false both for a log already recorded and for an insert that
\* failed, or whose answer was lost.
ClaimTicketEvent(w) ==
    /\ At(w, "claim")
    /\ \/ /\ Works /\ ~Recorded(job[w].log)
          /\ seen' = seen \cup {job[w].log} /\ Goto(w, "record")
       \/ Works /\ Recorded(job[w].log) /\ Finish(w) /\ UNCHANGED seen
       \/ /\ Fails("insert") /\ Finish(w)
          /\ seen' \in {seen, seen \cup {job[w].log}}
    /\ forgone' = IF w \in Backfills THEN forgone \cup ({job[w].log} \ seen') ELSE forgone
    /\ UNCHANGED <<outsideHandlers, row, streak>>

\* ensurePlayer and logTransaction, whose errors are only logged.
Record(w) ==
    /\ At(w, "record")
    /\ IF job[w].log \in Spent THEN Finish(w) ELSE Goto(w, "readRow")
    /\ UNCHANGED <<outsideHandlers, seen, forgone, row, streak, faults>>

\* What follows applyTicketMirrorDelta, whether it wrote the row or gave up.
AfterDelta(w) ==
    IF job[w].log \in Claims
    THEN job' = [job EXCEPT ![w] = [Idle EXCEPT !.pc = "readStreak", !.log = job[w].log]]
    ELSE Finish(w)

ReadRow(w) ==
    /\ At(w, "readRow")
    /\ \/ Works /\ job' = [job EXCEPT ![w].pc = "writeRow", ![w].row = row]
       \/ Fails("readRow") /\ AfterDelta(w)
    /\ UNCHANGED <<outsideHandlers, seen, forgone, row, streak>>

AddTicket(copy) == [credited |-> copy.credited + 1, debited |-> copy.debited,
                    balance |-> (copy.credited + 1) - copy.debited]

WriteRow(w) ==
    /\ At(w, "writeRow")
    /\ \/ Works /\ row' = AddTicket(job[w].row)
       \/ Fails("writeRow") /\ UNCHANGED row
    /\ AfterDelta(w)
    /\ UNCHANGED <<outsideHandlers, seen, forgone, streak>>

\* Mutant: any earlier claim continues the streak.
AnyClaimContinues(prevStreakDay, prevClaimDayIndex, todayIndex) ==
    IF prevClaimDayIndex # NoDay THEN (prevStreakDay % 7) + 1 ELSE 1

ComputeStreakDay(prevStreakDay, prevClaimDayIndex, todayIndex) ==
    IF prevClaimDayIndex # NoDay /\ todayIndex = prevClaimDayIndex + 1
    THEN (prevStreakDay % 7) + 1
    ELSE 1

ReadStreak(w) ==
    /\ At(w, "readStreak")
    /\ \/ Works /\ job' = [job EXCEPT ![w].pc = "writeStreak", ![w].streak = streak]
       \/ Fails("readStreak") /\ Finish(w)
    /\ UNCHANGED <<outsideHandlers, seen, forgone, row, streak>>

WriteStreak(w) ==
    /\ At(w, "writeStreak")
    /\ LET old == job[w].streak
           today == DayOf[job[w].log]
       IN  \/ Works /\ streak' = [day |-> ComputeStreakDay(old.day, old.last, today),
                                  last |-> today, total |-> old.total + 1]
           \/ Fails("writeStreak") /\ UNCHANGED streak
    /\ Finish(w)
    /\ UNCHANGED <<outsideHandlers, seen, forgone, row>>

Handle(w) ==
    \/ ClaimTicketEvent(w) \/ Record(w)
    \/ ReadRow(w) \/ WriteRow(w)
    \/ ReadStreak(w) \/ WriteStreak(w)

----------------------------------------------------------------------------
(* backfillTicketEvents *)

outsideBackfill == <<head, minedIn, seen, row, streak, ledger, since, restarts>>

\* Mutant: toBlock is taken for exclusive.
BeforeLast(from, to) == {e \in Mined : minedIn[e] \in from..(to - 1)}

Between(from, to) == {e \in Mined : minedIn[e] \in from..to}

GetBlockNumber(b) ==
    /\ backfill[b].pc = "idle"
    /\ backfill' = [backfill EXCEPT ![b] = [Asleep EXCEPT !.pc = "cursor", !.target = head]]
    /\ UNCHANGED <<outsideBackfill, cursor, job, forgone, faults>>

\* Reads up to target, or ends here when there is nothing to read.
StartFrom(b, from) ==
    backfill' = [backfill EXCEPT ![b] =
        IF from > @.target THEN Asleep
        ELSE [Asleep EXCEPT !.pc = "fetch", !.target = backfill[b].target, !.next = from]]

ColdStartFrom(b) ==
    IF backfill[b].target < ColdStart THEN 0 ELSE backfill[b].target - ColdStart

\* The logs behind a cold start that no cursor has covered yet.
PassedOver(b) == {e \in Mined \ seen : minedIn[e] > cursor /\ minedIn[e] < ColdStartFrom(b)}

\* readSyncCursor answers null for a failed query as for a missing row.
ReadSyncCursor(b) ==
    /\ backfill[b].pc = "cursor"
    /\ \/ /\ cursor # NoBlock /\ Works
          /\ StartFrom(b, cursor + 1)
          /\ UNCHANGED forgone
       \/ /\ (cursor = NoBlock /\ Works) \/ Fails("readCursor")
          /\ StartFrom(b, ColdStartFrom(b))
          /\ forgone' = forgone \cup PassedOver(b)
    /\ UNCHANGED <<outsideBackfill, cursor, job>>

GetContractEvents(b) ==
    /\ backfill[b].pc = "fetch"
    /\ LET last == backfill[b].next + Chunk - 1
           to == IF last > backfill[b].target THEN backfill[b].target ELSE last
       IN  \/ /\ Works
              /\ backfill' = [backfill EXCEPT ![b].pc = "apply", ![b].to = to,
                                              ![b].todo = Between(backfill[b].next, to)]
           \/ /\ Fails("getLogs")
              /\ backfill' = [backfill EXCEPT ![b] = Asleep]
    /\ UNCHANGED <<outsideBackfill, cursor, job, forgone>>

DispatchTicketLog(b) ==
    /\ backfill[b].pc = "apply" /\ At(b, "idle")
    /\ \E e \in backfill[b].todo :
          /\ \A f \in backfill[b].todo : minedIn[e] <= minedIn[f]
          /\ job' = [job EXCEPT ![b] = [Idle EXCEPT !.pc = "claim", !.log = e]]
          /\ backfill' = [backfill EXCEPT ![b].todo = @ \ {e}]
    /\ UNCHANGED <<outsideBackfill, cursor, forgone, faults>>

\* Mutant: the head is stored after every chunk.
ProcessedHead(b) == backfill[b].target

Processed(b) == backfill[b].to

WriteSyncCursor(b) ==
    /\ backfill[b].pc = "apply" /\ At(b, "idle") /\ backfill[b].todo = {}
    /\ \/ Works /\ cursor' = Processed(b)
       \/ Fails("writeCursor") /\ UNCHANGED cursor
    /\ StartFrom(b, backfill[b].to + 1)
    /\ UNCHANGED <<outsideBackfill, job, forgone>>

BackfillStep(b) ==
    \/ GetBlockNumber(b) \/ ReadSyncCursor(b) \/ GetContractEvents(b)
    \/ DispatchTicketLog(b) \/ WriteSyncCursor(b)

----------------------------------------------------------------------------
\* A deploy or a crash: every handler stops where it is, and the watchers of
\* the new process see only what is mined after they are installed.
Restart ==
    /\ restarts < MaxRestarts
    /\ restarts' = restarts + 1
    /\ job' = [w \in Sources |-> Idle]
    /\ backfill' = [b \in Backfills |-> Asleep]
    /\ since' = head
    /\ UNCHANGED <<head, minedIn, tables, ledger, forgone, faults>>

Next ==
    \/ NewBlock
    \/ DebitTicketForSession \/ RefundTicketForSession
    \/ \E e \in Logs : Deliver(e)
    \/ \E w \in Sources : Handle(w)
    \/ \E b \in Backfills : BackfillStep(b)
    \/ Restart

Spec == Init /\ [][Next]_vars

\* The timer starts a backfill again and again and the event loop runs what is
\* pending; nothing makes a block appear, a watcher fire or a game start.
FairSpec ==
    /\ Spec
    /\ \A b \in Backfills : WF_vars(BackfillStep(b)) /\ WF_vars(Handle(b))

----------------------------------------------------------------------------
(* Properties *)

TypeOK ==
    /\ head \in Nat
    /\ minedIn \in [Logs -> 0..head]
    /\ seen \in SUBSET Logs
    /\ row \in Row
    /\ streak \in Streak
    /\ ledger \in [spent: Nat, refunded: Nat]
    /\ cursor \in Nat \cup {NoBlock}
    /\ job \in [Sources -> Job]
    /\ backfill \in [Backfills -> Backfill]
    /\ since \in 0..head
    /\ forgone \in SUBSET Logs
    /\ restarts \in 0..MaxRestarts
    /\ faults \in 0..MaxFaults

\* However a row is read by one handler and overwritten by another, and whatever
\* is delivered twice, the mirror never credits more tickets than the credit logs
\* the listener has claimed: ticket_event_log is what keeps the backfill and the
\* live watcher from crediting one log twice (claimTicketEvent).
NeverCreditedTwice ==
    row.credited <= Cardinality(seen \ Spent)

\* schema_v2.sql: balance = onchain_credited - offchain_debited, in every row
\* that a handler, a debit or a refund leaves behind.
BalanceIsDifference == row.balance = row.credited - row.debited

\* Whatever fails, and however many backfills and watchers run at once, the cursor
\* passes a log without its dedupe row in two ways only: the backfill's own claim of
\* that log failed, or a cold start, real or taken for one, began behind it.
CursorCoversLogs ==
    cursor # NoBlock =>
        \A e \in Mined : minedIn[e] <= cursor => e \in seen \cup forgone

\* A log the watchers missed (a restart, a lost filter) is claimed in the end, unless
\* a backfill gave it up: by the backfill alone, which no fairness of the watchers
\* helps here.
MissedLogsAreFound ==
    \A e \in Logs : e \in Mined ~> e \in seen \cup forgone

\* The comment in backfillTicketEvents: "the cursor must never skip past a range we
\* failed to read, or those events are lost for good".
NothingIsSkipped == [][cursor # NoBlock => forgone' = forgone]_vars

\* As many days as the streak counts, up to its last day, have one of the claims.
Earned(s, claims) ==
    \A i \in 0..(s.day - 1) : \E c \in claims : DayOf[c] = s.last - i

\* A streak is never longer than the player earned, although handlers of several
\* claims may run at once and in any order.  It decides the next day's reward.
StreakIsEarned == Earned(streak, Claims \cap Mined)

Quiet == \A w \in Sources : At(w, "idle")

\* The listener's comment on the mirror: offchain_debited "accumulates in-match
\* ticket debits (debit RPC) and is relieved only by refunds".
DebitedIsLedger == row.debited = ledger.spent - ledger.refunded

\* claimTicketEvent "claims a single on-chain log for processing, exactly once,
\* forever": at rest, the tickets credited are those of the logs claimed.
AppliedExactlyOnce == Quiet => row.credited = Cardinality(seen \ Spent)

=============================================================================
