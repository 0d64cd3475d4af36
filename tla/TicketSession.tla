--------------------------- MODULE TicketSession ---------------------------
(***************************************************************************)
(* One-ticket play (V2) of a single wallet: the gateway's handlers, the    *)
(* Postgres rows and functions they call, the disconnect grace timer and   *)
(* the orphan sweeper.                                                     *)
(*                                                                         *)
(* Node runs one callback at a time, so a handler is cut at its awaits: an *)
(* action is one database call together with the JavaScript that runs      *)
(* before the next call, except where that JavaScript reads or writes the  *)
(* in-memory game, which is an action of its own.  Everything the gateway  *)
(* keeps is keyed by wallet and so are the rows it touches, hence one      *)
(* wallet is the whole system.                                             *)
(***************************************************************************)
EXTENDS Integers, FiniteSets, FiniteSetsExt

CONSTANTS
    Sessions,    \* session uuids; one is used again once nothing refers to it
    Intents,     \* clientSessionId values the wallet's clients send
    Tasks,       \* handlers that may be between two awaits at one time
    Sweeper,     \* the recovery worker's loop
    NoSession, NoIntent,
    Tickets,     \* the wallet's tickets at the start
    Threshold,   \* first scoring checkpoint of the wallet's division
    MaxCp,       \* bound on the checkpoints of a run
    MaxLeaked,   \* bound on armed grace timers no game refers to
    MaxFaults,   \* bound on failed database calls and process restarts
    Resend       \* may a client repeat game:start before it is answered?

ASSUME NamesAreDistinct ==
    NoSession \notin Sessions /\ NoIntent \notin Intents /\ Sweeper \notin Tasks

ASSUME NumbersAreNatural ==
    {Tickets, Threshold, MaxCp, MaxLeaked, MaxFaults} \subseteq Nat

ASSUME ResendIsBoolean == Resend \in BOOLEAN

\* There are finitely many uuids.
ASSUME SessionsAreFinite == IsFiniteSet(Sessions)

VARIABLES
    \* Postgres
    status,      \* game_sessions.status, "FREE" when there is no row
    intent,      \* game_sessions.client_session_id
    awarded,     \* game_sessions.points_awarded
    spent,       \* sessions with a SPEND row in ticket_ledger
    refunded,    \* sessions with a REFUND row in ticket_ledger
    balance,     \* ticket_balances.balance
    points,      \* season_points.points, NoPoints when there is no row
    season,      \* seasons.status of the current season
    \* the gateway process
    mem,         \* activeGames.get(wallet)
    moved,       \* sessions whose moveTimestamps was ever non-empty
    leaked,      \* armed grace timers that no game refers to any more
    task,        \* the handlers in flight
    \* bound
    faults       \* failed calls and restarts so far

vars == <<status, intent, awarded, spent, refunded, balance, points, season,
          mem, moved, leaked, task, faults>>

dbVars == <<status, intent, awarded, spent, refunded, balance, points>>
rowVars == <<status, intent, awarded>>
ledgerVars == <<spent, refunded, balance>>
procVars == <<mem, moved, leaked>>
envVars == <<season, faults>>

----------------------------------------------------------------------------
Slots == Tasks \cup {Sweeper}

NoPoints == -1
Ended == {"CRASHED", "COMPLETED"}
RowStatus == {"FREE", "ACTIVE", "VOIDED"} \cup Ended

StartPcs == {"lookup", "resolve", "stale", "season", "insert", "debit",
             "delete", "create"}
ClosePcs == {"closeSeason", "closeUpdate", "readPoints", "creditPoints"}
Pcs == {"idle", "void", "refund", "remove", "abortDelete", "sweepCheck"}
           \cup StartPcs \cup ClosePcs

Task == [pc: Pcs, intent: Intents \cup {NoIntent}, sid: Sessions \cup {NoSession},
         seen: {"NONE", "ACTIVE", "ENDED"}, again: BOOLEAN,
         outcome: Ended, cp: 0..MaxCp, open: BOOLEAN, prev: Int, rm: BOOLEAN]

Idle == [pc |-> "idle", intent |-> NoIntent, sid |-> NoSession, seen |-> "NONE",
         again |-> FALSE, outcome |-> "CRASHED", cp |-> 0, open |-> FALSE,
         prev |-> NoPoints, rm |-> FALSE]

Game == [sid: Sessions \cup {NoSession}, cp: 0..MaxCp, window: BOOLEAN,
         paused: BOOLEAN, timer: BOOLEAN]

NoGame == [sid |-> NoSession, cp |-> 0, window |-> FALSE, paused |-> FALSE,
           timer |-> FALSE]

HasActiveGame == mem.sid # NoSession
RowExists(s) == s \in Sessions /\ status[s] # "FREE"
RowOf(i) == {s \in Sessions : RowExists(s) /\ intent[s] = i}

\* matchPoints.ts: one point for the threshold checkpoint, one per further one.
ComputeMatchPoints(cp) == IF cp >= Threshold THEN cp - Threshold + 1 ELSE 0

\* Rows whose ticket is taken, not given back, and whose run is still open.
Charged == {s \in Sessions : status[s] = "ACTIVE"} \cap (spent \ refunded)

Finish(t) == task' = [task EXCEPT ![t] = Idle]
Goto(t, pc) == task' = [task EXCEPT ![t].pc = pc]
Become(t, pc, s) == task' = [task EXCEPT ![t] = [Idle EXCEPT !.pc = pc, !.sid = s]]

\* A database call that fails, within the bound.
CallFails == faults < MaxFaults /\ faults' = faults + 1 /\ UNCHANGED season

Init ==
    /\ status = [s \in Sessions |-> "FREE"]
    /\ intent = [s \in Sessions |-> NoIntent]
    /\ awarded = [s \in Sessions |-> 0]
    /\ spent = {} /\ refunded = {} /\ balance = Tickets
    /\ points = NoPoints
    /\ season = "ACTIVE"
    /\ mem = NoGame /\ moved = {} /\ leaked = 0
    /\ task = [t \in Slots |-> Idle]
    /\ faults = 0

----------------------------------------------------------------------------
(* game:start                                                              *)

\* The event arrives; with Resend a second copy may overtake the first.
HandleGameStartV2(t, i) ==
    /\ task[t].pc = "idle"
    /\ Resend \/ \A u \in Slots : task[u].intent # i
    /\ task' = [task EXCEPT ![t] = [Idle EXCEPT !.pc = "lookup", !.intent = i]]
    /\ UNCHANGED <<dbVars, procVars, envVars>>

\* The row of (wallet, clientSessionId), if there is one.
LookupIntent(t) ==
    /\ task[t].pc = "lookup"
    /\ \/ /\ IF RowOf(task[t].intent) = {}
             THEN task' = [task EXCEPT ![t].pc = "resolve", ![t].seen = "NONE",
                                       ![t].sid = NoSession]
             ELSE \E s \in RowOf(task[t].intent) :
                    task' = [task EXCEPT
                        ![t].pc = "resolve", ![t].sid = s,
                        ![t].seen = IF status[s] = "ACTIVE" THEN "ACTIVE" ELSE "ENDED"]
          /\ UNCHANGED envVars
       \/ CallFails /\ Finish(t)
    /\ UNCHANGED <<dbVars, procVars>>

\* What the answer of the lookup means, judged by the game now in memory.
ResolveExisting(t) ==
    /\ task[t].pc = "resolve"
    /\ \/ /\ task[t].seen = "ACTIVE" /\ mem.sid = task[t].sid
          /\ Finish(t)                          \* replay on the new socket
       \/ /\ task[t].seen = "ACTIVE" /\ mem.sid # task[t].sid
          /\ Become(t, "void", task[t].sid)     \* taken for an orphan
       \/ /\ task[t].seen = "ENDED"
          /\ Finish(t)                          \* SESSION_CONSUMED
       \/ /\ task[t].seen = "NONE" /\ HasActiveGame
          /\ Finish(t)                          \* SESSION_ALREADY_ACTIVE
       \/ /\ task[t].seen = "NONE" /\ ~HasActiveGame
          /\ Goto(t, "stale")
    /\ UNCHANGED <<dbVars, procVars, envVars>>

\* An ACTIVE row of this wallet refuses the start; a failed query does not.
CheckStaleActive(t) ==
    /\ task[t].pc = "stale"
    /\ \/ /\ IF \E s \in Sessions : status[s] = "ACTIVE"
             THEN Finish(t) ELSE Goto(t, "season")
          /\ UNCHANGED envVars
       \/ CallFails /\ Goto(t, "season")
    /\ UNCHANGED <<dbVars, procVars>>

\* SEASON_FROZEN unless the season is ACTIVE; a failed read counts as no season.
CheckSeason(t) ==
    /\ task[t].pc = "season"
    /\ \/ /\ IF season = "ACTIVE" THEN Goto(t, "insert") ELSE Finish(t)
          /\ UNCHANGED envVars
       \/ CallFails /\ Goto(t, "insert")
    /\ UNCHANGED <<dbVars, procVars>>

\* A uuid no row, ledger entry or handler refers to.
FreshSession(s) ==
    status[s] = "FREE" /\ s \notin spent /\ \A u \in Slots : task[u].sid # s

NewRow(t, s) ==
    /\ status' = [status EXCEPT ![s] = "ACTIVE"]
    /\ intent' = [intent EXCEPT ![s] = task[t].intent]
    /\ UNCHANGED awarded

\* uq_sessions_client_intent lets one of two equal intents in; the other looks
\* up again, once.
InsertSession(t) ==
    /\ task[t].pc = "insert"
    /\ \/ /\ RowOf(task[t].intent) = {}
          /\ \E s \in Sessions :
                /\ FreshSession(s)
                /\ NewRow(t, s)
                /\ \/ /\ task' = [task EXCEPT ![t].pc = "debit", ![t].sid = s]
                      /\ UNCHANGED envVars
                   \/ CallFails /\ Finish(t)    \* committed, answer lost
       \/ /\ RowOf(task[t].intent) # {}
          /\ IF task[t].again
             THEN Finish(t)
             ELSE task' = [task EXCEPT ![t].pc = "lookup", ![t].again = TRUE]
          /\ UNCHANGED <<rowVars, envVars>>
       \/ CallFails /\ Finish(t) /\ UNCHANGED rowVars
    /\ UNCHANGED <<ledgerVars, points, procVars>>

\* debit_ticket_for_session, one transaction.  REPLAY is not an outcome here:
\* the gateway calls it once for every session id.
TakeTicket(s) ==
    /\ spent' = spent \cup {s}
    /\ balance' = balance - 1
    /\ UNCHANGED refunded

\* Mutant: no look at the wallet's other ACTIVE sessions.
DebitIgnoresOthers(s) == s \notin spent /\ balance >= 1 /\ RowExists(s)

DebitAllowed(s) ==
    /\ s \notin spent
    /\ balance >= 1
    /\ Charged \ {s} = {}
    /\ RowExists(s)          \* ticket_ledger.session_id references game_sessions

\* Mutant: the run starts although the debit was refused or failed.
PlayAnyway(t) == Goto(t, "create")

GiveUpStart(t) == Goto(t, "delete")

DebitTicket(t) ==
    LET s == task[t].sid IN
    /\ task[t].pc = "debit"
    /\ \/ /\ DebitAllowed(s)
          /\ TakeTicket(s)
          /\ \/ Goto(t, "create") /\ UNCHANGED envVars
             \/ CallFails /\ GiveUpStart(t)  \* committed, answer lost
       \/ /\ ~DebitAllowed(s)
          /\ GiveUpStart(t) /\ UNCHANGED <<ledgerVars, envVars>>
       \/ CallFails /\ GiveUpStart(t) /\ UNCHANGED ledgerVars
    /\ UNCHANGED <<rowVars, points, procVars>>

\* Mutant: the delete takes the ledger rows with it (ON DELETE CASCADE).
DropCascades(s) ==
    /\ status' = [status EXCEPT ![s] = "FREE"]
    /\ intent' = [intent EXCEPT ![s] = NoIntent]
    /\ UNCHANGED awarded

\* Deleting a row fails while ticket_ledger refers to it; nobody looks.
DropRow(s) ==
    IF s \in Sessions \ spent
    THEN /\ status' = [status EXCEPT ![s] = "FREE"]
         /\ intent' = [intent EXCEPT ![s] = NoIntent]
         /\ UNCHANGED awarded
    ELSE UNCHANGED rowVars

DeleteSession(t) ==
    /\ task[t].pc \in {"delete", "abortDelete"}
    /\ \/ DropRow(task[t].sid) /\ UNCHANGED envVars
       \/ CallFails /\ UNCHANGED rowVars
    /\ Finish(t)
    /\ UNCHANGED <<ledgerVars, points, procVars>>

\* activeGames.set: a game already there is replaced, its grace timer is not
\* cleared.
CreateGameState(t) ==
    /\ task[t].pc = "create"
    /\ mem.timer => leaked < MaxLeaked
    /\ leaked' = IF mem.timer THEN leaked + 1 ELSE leaked
    /\ mem' = [NoGame EXCEPT !.sid = task[t].sid]
    /\ Finish(t)
    /\ UNCHANGED <<dbVars, envVars, moved>>

----------------------------------------------------------------------------
(* The run: moves, checkpoints, disconnects                                *)

\* Handlers that end a run capture the game when they start.  A server-side
\* crash of a run without moves voids it instead.
BeginClose(t, outcome, fromClient) ==
    task' = [task EXCEPT ![t] =
        IF ~fromClient /\ mem.sid \notin moved
        THEN [Idle EXCEPT !.pc = "void", !.sid = mem.sid, !.rm = TRUE]
        ELSE [Idle EXCEPT !.pc = "closeSeason", !.sid = mem.sid,
                          !.outcome = outcome, !.cp = mem.cp]]

\* A move inside a segment, onto a new checkpoint, or off the checkpoint.
HandleGameMove ==
    /\ HasActiveGame
    /\ moved' = moved \cup {mem.sid}
    /\ \/ UNCHANGED mem
       \/ mem.cp < MaxCp /\ mem' = [mem EXCEPT !.cp = @ + 1, !.window = TRUE]
       \/ mem.window /\ mem' = [mem EXCEPT !.window = FALSE]
    /\ UNCHANGED <<dbVars, envVars, leaked, task>>

\* Too many moves in five seconds: the move counts and ends the run.
SpeedHack(t) ==
    /\ HasActiveGame /\ task[t].pc = "idle"
    /\ moved' = moved \cup {mem.sid}
    /\ BeginClose(t, "CRASHED", TRUE)
    /\ UNCHANGED <<dbVars, envVars, mem, leaked>>

CheckCpStayTimeouts ==
    /\ HasActiveGame /\ mem.window /\ ~mem.paused
    /\ mem' = [mem EXCEPT !.window = FALSE]
    /\ UNCHANGED <<dbVars, envVars, moved, leaked, task>>

HandleGameCrash(t) ==
    /\ HasActiveGame /\ task[t].pc = "idle"
    /\ BeginClose(t, "CRASHED", TRUE)
    /\ UNCHANGED <<dbVars, procVars, envVars>>

\* Cash-out or end_run on a checkpoint, or too late on it.
HandleGameCashout(t) ==
    /\ HasActiveGame /\ mem.window /\ task[t].pc = "idle"
    /\ \/ BeginClose(t, "COMPLETED", TRUE) /\ UNCHANGED mem
       \/ mem' = [mem EXCEPT !.window = FALSE] /\ UNCHANGED task
    /\ UNCHANGED <<dbVars, envVars, moved, leaked>>

\* On a checkpoint the auto cash-out cannot sign a V2 session (it has no
\* on-chain id) and falls back to a crash; elsewhere the game is paused and a
\* grace timer armed over any timer already there.
HandleDisconnect(t) ==
    /\ HasActiveGame
    /\ \/ /\ mem.window /\ task[t].pc = "idle"
          /\ BeginClose(t, "CRASHED", FALSE)
          /\ UNCHANGED <<mem, leaked>>
       \/ /\ ~mem.window
          /\ mem.timer => leaked < MaxLeaked
          /\ leaked' = IF mem.timer THEN leaked + 1 ELSE leaked
          /\ mem' = [mem EXCEPT !.paused = TRUE, !.timer = TRUE]
          /\ UNCHANGED task
    /\ UNCHANGED <<dbVars, envVars, moved>>

HandleReconnect ==
    /\ HasActiveGame /\ mem.paused
    /\ mem' = [mem EXCEPT !.paused = FALSE, !.timer = FALSE]
    /\ UNCHANGED <<dbVars, envVars, moved, leaked, task>>

\* A grace timer fires and crashes whatever game the wallet has by then.
GraceExpired(t) ==
    /\ task[t].pc = "idle"
    /\ \/ mem.timer /\ mem' = [mem EXCEPT !.timer = FALSE] /\ UNCHANGED leaked
       \/ leaked > 0 /\ leaked' = leaked - 1 /\ UNCHANGED mem
    /\ IF HasActiveGame THEN BeginClose(t, "CRASHED", FALSE) ELSE UNCHANGED task
    /\ UNCHANGED <<dbVars, envVars, moved>>

\* game:abort_start drops the game, then tries to delete its row.
HandleAbortStart(t) ==
    /\ HasActiveGame /\ task[t].pc = "idle"
    /\ Become(t, "abortDelete", mem.sid)
    /\ mem' = NoGame
    /\ UNCHANGED <<dbVars, envVars, moved, leaked>>

----------------------------------------------------------------------------
(* closeV2Session, voidAndRefundSession, removeGameState                   *)

CloseReadSeason(t) ==
    /\ task[t].pc = "closeSeason"
    /\ \/ /\ task' = [task EXCEPT ![t].pc = "closeUpdate",
                                  ![t].open = (season = "ACTIVE")]
          /\ UNCHANGED envVars
       \/ /\ CallFails
          /\ task' = [task EXCEPT ![t].pc = "closeUpdate", ![t].open = FALSE]
    /\ UNCHANGED <<dbVars, procVars>>

\* Mutant: the close does not ask for the row to be ACTIVE.
CloseAnyRow(s) == RowExists(s)

CloseGate(s) == status[s] = "ACTIVE"

\* Only the transition away from ACTIVE writes a result and goes on to credit.
CloseUpdate(t) ==
    LET s == task[t].sid
        pts == IF task[t].open THEN ComputeMatchPoints(task[t].cp) ELSE 0 IN
    /\ task[t].pc = "closeUpdate"
    /\ \/ /\ CloseGate(s)
          /\ status' = [status EXCEPT ![s] = task[t].outcome]
          /\ awarded' = [awarded EXCEPT ![s] = pts]
          /\ \/ /\ IF task[t].open THEN Goto(t, "readPoints") ELSE Become(t, "remove", s)
                /\ UNCHANGED envVars
             \/ CallFails /\ Become(t, "remove", s)   \* committed, answer lost
       \/ /\ ~CloseGate(s)
          /\ Become(t, "remove", s)
          /\ UNCHANGED <<status, awarded, envVars>>
       \/ CallFails /\ Become(t, "remove", s) /\ UNCHANGED <<status, awarded>>
    /\ UNCHANGED <<intent, ledgerVars, points, procVars>>

ReadPoints(t) ==
    /\ task[t].pc = "readPoints"
    /\ \/ /\ task' = [task EXCEPT ![t].pc = "creditPoints", ![t].prev = points]
          /\ UNCHANGED envVars
       \/ CallFails /\ Goto(t, "creditPoints")
    /\ UNCHANGED <<dbVars, procVars>>

\* Written back from the value read; an insert loses to a row that has
\* appeared meanwhile.
CreditPoints(t) ==
    LET delta == ComputeMatchPoints(task[t].cp) IN
    /\ task[t].pc = "creditPoints"
    /\ \/ /\ points' = CASE task[t].prev = NoPoints /\ points = NoPoints -> delta
                         [] task[t].prev # NoPoints /\ delta > 0 -> task[t].prev + delta
                         [] OTHER -> points
          /\ UNCHANGED envVars
       \/ CallFails /\ UNCHANGED points
    /\ Become(t, "remove", task[t].sid)
    /\ UNCHANGED <<rowVars, ledgerVars, procVars>>

\* removeGameState(walletAddress): by wallet, whichever session it holds.
RemoveGameState(t) ==
    /\ task[t].pc = "remove"
    /\ mem' = NoGame
    /\ Finish(t)
    /\ UNCHANGED <<dbVars, envVars, moved, leaked>>

AfterVoid(t) == IF task[t].rm THEN Become(t, "remove", task[t].sid) ELSE Finish(t)

VoidGate(s) == status[s] = "ACTIVE"

VoidSession(t) ==
    LET s == task[t].sid IN
    /\ task[t].pc = "void"
    /\ \/ /\ VoidGate(s)
          /\ status' = [status EXCEPT ![s] = "VOIDED"]
          /\ \/ Goto(t, "refund") /\ UNCHANGED envVars
             \/ CallFails /\ AfterVoid(t)             \* committed, answer lost
       \/ /\ ~VoidGate(s)
          /\ AfterVoid(t)
          /\ UNCHANGED <<status, envVars>>
       \/ CallFails /\ AfterVoid(t) /\ UNCHANGED status
    /\ UNCHANGED <<intent, awarded, ledgerVars, points, procVars>>

\* refund_ticket_for_session: NO_SPEND and REPLAY change nothing; an error is
\* logged and not retried.
GiveBack(s) ==
    IF s \in spent \ refunded
    THEN refunded' = refunded \cup {s} /\ balance' = balance + 1 /\ UNCHANGED spent
    ELSE UNCHANGED ledgerVars

RefundTicket(t) ==
    /\ task[t].pc = "refund"
    /\ \/ GiveBack(task[t].sid) /\ UNCHANGED envVars
       \/ CallFails /\ UNCHANGED ledgerVars
    /\ AfterVoid(t)
    /\ UNCHANGED <<rowVars, points, procVars>>

----------------------------------------------------------------------------
(* Recovery worker, season scheduler, restarts                             *)

\* Mutant: the sweep lists only rows no ticket was taken for.
SweepListsUncharged(s) == status[s] = "ACTIVE" /\ s \notin spent

SweepLists(s) == status[s] = "ACTIVE"

\* The sweep lists ACTIVE rows older than ten minutes.  A start handler's calls
\* are taken to end within that time, so its row is not yet listed.
SweepFind(s) ==
    /\ task[Sweeper].pc = "idle"
    /\ SweepLists(s)
    /\ \A t \in Slots : ~(task[t].sid = s /\ task[t].pc \in StartPcs)
    /\ Become(Sweeper, "sweepCheck", s)
    /\ UNCHANGED <<dbVars, procVars, envVars>>

SweepCheck ==
    /\ task[Sweeper].pc = "sweepCheck"
    /\ IF HasActiveGame THEN Finish(Sweeper)
       ELSE Become(Sweeper, "void", task[Sweeper].sid)
    /\ UNCHANGED <<dbVars, procVars, envVars>>

\* The scheduler freezes the season at its end, at any point of a run.
FreezeSeason ==
    /\ season = "ACTIVE"
    /\ season' = "FREEZING"
    /\ UNCHANGED <<dbVars, procVars, task, faults>>

\* The process dies: memory, timers and handlers are gone, the rows stay.
Restart ==
    /\ faults < MaxFaults
    /\ faults' = faults + 1
    /\ mem' = NoGame /\ leaked' = 0
    /\ task' = [t \in Slots |-> Idle]
    /\ UNCHANGED <<dbVars, moved, season>>

----------------------------------------------------------------------------
StartStep(t) ==
    \/ LookupIntent(t) \/ ResolveExisting(t) \/ CheckStaleActive(t)
    \/ CheckSeason(t) \/ InsertSession(t) \/ DebitTicket(t)
    \/ DeleteSession(t) \/ CreateGameState(t)

EndStep(t) ==
    \/ CloseReadSeason(t) \/ CloseUpdate(t) \/ ReadPoints(t) \/ CreditPoints(t)
    \/ RemoveGameState(t) \/ VoidSession(t) \/ RefundTicket(t)

Client(t) ==
    \/ \E i \in Intents : HandleGameStartV2(t, i)
    \/ SpeedHack(t) \/ HandleGameCrash(t) \/ HandleGameCashout(t)
    \/ HandleDisconnect(t) \/ HandleAbortStart(t)

Next ==
    \/ \E t \in Tasks : Client(t) \/ GraceExpired(t) \/ StartStep(t)
    \/ \E t \in Slots : EndStep(t)
    \/ \E s \in Sessions : SweepFind(s)
    \/ SweepCheck
    \/ HandleGameMove \/ CheckCpStayTimeouts \/ HandleReconnect
    \/ FreezeSeason \/ Restart

Spec == Init /\ [][Next]_vars

\* A call that was sent is answered or fails, and its handler goes on; the
\* sweeper's interval keeps firing and each tick lists every old ACTIVE row.
Fairness ==
    /\ \A t \in Tasks : WF_vars(StartStep(t))
    /\ \A t \in Slots : WF_vars(EndStep(t))
    /\ WF_vars(SweepCheck)
    /\ \A s \in Sessions : SF_vars(SweepFind(s))

FairSpec == Spec /\ Fairness
----------------------------------------------------------------------------
(* Properties                                                              *)

TypeOK ==
    /\ status \in [Sessions -> RowStatus]
    /\ intent \in [Sessions -> Intents \cup {NoIntent}]
    /\ awarded \in [Sessions -> Nat]
    /\ spent \subseteq Sessions /\ refunded \subseteq Sessions
    /\ balance \in Int /\ points \in Int
    /\ season \in {"ACTIVE", "FREEZING"}
    /\ mem \in Game /\ moved \subseteq Sessions /\ leaked \in 0..MaxLeaked
    /\ task \in [Slots -> Task]
    /\ faults \in 0..MaxFaults

\* A wallet never has two open runs that both hold a ticket, whatever the order
\* in which concurrent starts insert, debit, get voided and answered (BE-07 rule
\* 3; debit_ticket_for_session's guard, with only ACTIVE rows counted by it).
OneChargedRun == \A s, r \in Charged : s = r

\* A ticket given back never also earned an outcome: of the sweeper, a repeated
\* start, a crash and a cash-out that race for one session, one wins the row.
RefundExcludesOutcome == \A s \in refunded : s \in spent /\ status[s] = "VOIDED"

\* A run that reached an outcome was paid for with exactly its own ticket, even
\* when the debit's answer was lost or the start was overtaken.
OutcomeWasPaid == \A s \in Sessions : status[s] \in Ended => s \in spent \ refunded

\* The balance never goes below zero, and a charged session always keeps the row
\* from which the sweeper can find it: a start that gives up after its debit was
\* committed cannot delete it.
LedgerMatchesBalance ==
    /\ balance >= 0
    /\ balance = Tickets - Cardinality(spent) + Cardinality(refunded)
    /\ \A s \in spent : RowExists(s)

\* However often crash, end_run and timeouts close a run, the season total never
\* exceeds what the runs were awarded (BE-07 section 4: no double points).
NoDoublePoints == points <= MapThenSumSet(LAMBDA s : awarded[s], Sessions)

\* An outcome, once written, is never rewritten: no later crash, sweep, abort or
\* repeated start changes the status or the points of an ended session.
OutcomeIsFinal ==
    [][\A s \in Sessions : status[s] \in Ended =>
          status'[s] = status[s] /\ awarded'[s] = awarded[s]]_vars

\* A charged run is not left open for ever once the wallet has no game in the
\* gateway: restarts, lost answers and aborted starts end at the sweeper.
ChargedRunIsSwept ==
    \A s \in Sessions : []<>(s \notin Charged \/ HasActiveGame)

Settled(s) == s \in refunded \/ status[s] \in Ended

\* Every ticket taken is either given back or played to an outcome, unless its
\* run is the one in the gateway's memory.
NoTicketStranded ==
    \A s \in Sessions : []<>(s \in spent => Settled(s) \/ mem.sid = s)

Closing(s) == \E t \in Slots : task[t].sid = s /\ task[t].pc \in ClosePcs \cup {"void", "refund", "remove"}

\* The comment in handleGameStartV2: a concurrent start with the same intent
\* resolves through the replay path, so the run the player gets is an open one.
GameInMemoryIsOpen ==
    HasActiveGame => status[mem.sid] = "ACTIVE" \/ Closing(mem.sid)

\* BE-07 section 4: ending a run is idempotent per session id, so finishing the
\* close of one session does not take another session's game away.
CloseRemovesOwnGame ==
    [][\A t \in Slots :
          task[t].pc = "remove" /\ task'[t].pc = "idle" /\ HasActiveGame /\ faults' = faults
             => mem.sid = task[t].sid]_vars

\* BE-07 section 5: an orphan with progress is closed as CRASHED, only one
\* without a recorded move is voided by the recovery worker.
SweepVoidsOnlyUnplayed ==
    [][task[Sweeper].pc = "sweepCheck" /\ task'[Sweeper].pc = "void"
          => task[Sweeper].sid \notin moved]_vars

\* What makes the invariants above inductive: only a paid session is played or
\* closed, and a refund is under way only for a row already voided.
Unplayed == {"VOIDED", "FREE"}

PaidTask(t) ==
    /\ task[t].pc \in ClosePcs \cup {"create"} => task[t].sid \in spent
    /\ task[t].pc = "refund" /\ task[t].sid \in Sessions => status[task[t].sid] \in Unplayed

PaidInFlight ==
    /\ HasActiveGame => mem.sid \in spent
    /\ \A t \in Slots : PaidTask(t)

SpentRowExists == \A s \in spent : status[s] # "FREE"

SessionInv ==
    /\ TypeOK /\ SpentRowExists /\ PaidInFlight
    /\ OneChargedRun /\ RefundExcludesOutcome /\ OutcomeWasPaid

\* What makes NoDoublePoints inductive: a run whose credit is under way is ended,
\* no other handler credits it, and neither the total nor a value read of it is
\* above what the runs without a credit under way were awarded.
Crediting == {t \in Slots : task[t].pc \in {"readPoints", "creditPoints"}}
UnderCredit == {task[t].sid : t \in Crediting}
Credited == MapThenSumSet(LAMBDA s : awarded[s], Sessions \ UnderCredit)

CreditInv ==
    /\ \A s \in Sessions : status[s] \notin Ended => awarded[s] = 0
    /\ \A t \in Crediting :
          /\ task[t].sid \in Sessions /\ status[task[t].sid] \in Ended
          /\ awarded[task[t].sid] = ComputeMatchPoints(task[t].cp)
          /\ \A u \in Crediting : task[u].sid = task[t].sid => u = t
    /\ points <= Credited
    /\ \A t \in Slots : task[t].prev <= Credited

\* The promise of TicketPlay, with a row's status read as what became of the run.
OutcomeOf(s) ==
    CASE status[s] \in Ended -> "scored"
      [] status[s] = "VOIDED" -> "void"
      [] OTHER -> "open"

Promise == INSTANCE TicketPlay WITH
    charged <- spent, refunded <- refunded, outcome <- [s \in Sessions |-> OutcomeOf(s)]

\* Every step of the handlers is a step of TicketPlay or none: no interleaving of
\* starts, closes, voids, failures and restarts charges two open runs, or scores
\* an unpaid one, or refunds a scored one.
KeepsPromise == Promise!Spec
============================================================================
