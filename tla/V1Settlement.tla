---------------------------- MODULE V1Settlement ----------------------------
(***************************************************************************)
(* The staked game of one wallet: the gateway's V1 handlers, the HTTP      *)
(* routes that end, resubmit and list settlements (routes/game.ts), the    *)
(* relayer (settlementExecutor.ts), the listener's SessionSettled handler  *)
(* and the recovery worker's receipts sweep, around the rows of            *)
(* game_sessions and the sessions of GameSettlement.sol.                   *)
(*                                                                         *)
(* A handler is cut at its awaits.  A transaction is broadcast, then mined *)
(* or given up by the one who waits for it; one given up may still be      *)
(* mined.  Faults: a refused call of the database, the relayer or the      *)
(* signer, a settlement mined as reverted, a receipt that times out, a     *)
(* restart.                                                                *)
(***************************************************************************)
EXTENDS Integers, Sequences, FiniteSets

CONSTANTS
    Ids,       \* on-chain session ids
    Sids,      \* session_id values
    Requests,  \* handlers and routes that may run at once
    Sweeper,   \* the recovery worker's interval
    MaxFaults

ASSUME SweeperIsNoRequest == Sweeper \notin Requests
ASSUME MaxFaultsIsNatural == MaxFaults \in Nat

VARIABLES
    onchain,  \* the sessions of GameSettlement.sol, by id
    pool,     \* settlements broadcast that nobody waits for any more
    row,      \* game_sessions, by session_id
    order,    \* session ids by ended_at, the latest last
    game,     \* activeGames.get(wallet)
    task,     \* what each handler, route and the sweep keeps over its awaits
    faults,
    reached,  \* history: sessions that had their cash-out window open when asked to pay
    crowded   \* other wallets' later rows keep a false hash out of the sweep's query

flowVars == <<onchain, pool, row, order, game, task, faults, reached>>
vars == <<flowVars, crowded>>

----------------------------------------------------------------------------
Outcomes == {"CASHED_OUT", "CRASHED"}
NONE == "NONE"

ASSUME NoneIsNobody == NONE \notin Ids \cup Sids

NoRow == [id |-> NONE, status |-> NONE, sig |-> NONE, tx |-> NONE]
\* sig: the outcome the stored signature is for.  tx: null, a hash, or one of the
\* marks "already-settled-onchain" (SETTLED) and "not-pending-onchain" (CLEARED).
Row == [id: Ids, status: Outcomes \cup {"ACTIVE"}, sig: Outcomes \cup {NONE},
        tx: {NONE, "HASH", "SETTLED", "CLEARED"}]

NoGame == [sid |-> NONE, id |-> NONE, window |-> FALSE]

Ops == {"start", "crash", "cashout", "memory", "list", "recover", "submit", "pending",
        "clear", "sweep", "abort"}
Pcs == {"chain", "insert", "create", "send", "receipt", "sent", "remove", "next", "write"}
\* memory, list, recover: the three parts of force-end-active, with resolved telling
\* whether an earlier part ended something.
Task == [op: Ops, pc: Pcs, sid: Sids \cup {NONE}, id: Ids \cup {NONE},
         outcome: Outcomes \cup {NONE}, sig: Outcomes \cup {NONE},
         result: {NONE, "HASH", "ALREADY", "ERROR"}, todo: SUBSET Sids, resolved: BOOLEAN,
         again: BOOLEAN]
Idle == [op |-> NONE, pc |-> NONE, sid |-> NONE, id |-> NONE, outcome |-> NONE,
         sig |-> NONE, result |-> NONE, todo |-> {}, resolved |-> FALSE, again |-> FALSE]

Tasks == Requests \cup {Sweeper}

Init ==
    /\ onchain = [i \in Ids |-> NONE] /\ pool = {}
    /\ row = [s \in Sids |-> NoRow] /\ order = <<>>
    /\ game = NoGame
    /\ task = [t \in Tasks |-> Idle]
    /\ faults = 0 /\ reached = {} /\ crowded = FALSE

----------------------------------------------------------------------------
Goto(t, op, pc, sid, id) ==
    task' = [task EXCEPT ![t] = [Idle EXCEPT !.op = op, !.pc = pc, !.sid = sid, !.id = id]]
Done(t) == task' = [task EXCEPT ![t] = Idle]
At(t, op, pc) == task[t].op = op /\ task[t].pc = pc
Fault == faults < MaxFaults /\ faults' = faults + 1

ActiveIds == {i \in Ids : onchain[i] = "ACTIVE"}
ActiveRows == {s \in Sids : row[s].status = "ACTIVE"}
Ended(s) == row[s].status \in Outcomes
HasRow(id) == \E s \in Sids : row[s] # NoRow /\ row[s].id = id

\* What a transaction that settles id as outcome leaves on chain.
Settled(id, outcome) ==
    IF onchain[id] = "ACTIVE" THEN [onchain EXCEPT ![id] = outcome] ELSE onchain

\* An update by session_id: no row, no change.  ended_at is set with the status.
UpdateRow(sid, status, sig, tx) ==
    IF row[sid] = NoRow THEN UNCHANGED <<row, order>> ELSE
    /\ row' = [row EXCEPT ![sid] = [@ EXCEPT !.status = status, !.sig = sig, !.tx = tx]]
    /\ order' = Append(SelectSeq(order, LAMBDA s : s # sid), sid)

----------------------------------------------------------------------------
(* The chain and the player's own transactions.                            *)

\* start-session hands out a new id only when the wallet has no session on chain.
StartOnchain(id) ==
    /\ ActiveIds = {} /\ onchain[id] = NONE
    /\ onchain' = [onchain EXCEPT ![id] = "ACTIVE"]
    /\ UNCHANGED <<pool, row, order, game, task, faults, reached>>

ExpireOnchain(id) ==
    /\ onchain[id] = "ACTIVE"
    /\ onchain' = [onchain EXCEPT ![id] = "EXPIRED"]
    /\ UNCHANGED <<pool, row, order, game, task, faults, reached>>

\* A settlement nobody waits for is mined late, or never.
MineLate(x) ==
    /\ x \in pool /\ pool' = pool \ {x}
    /\ onchain' \in {onchain, Settled(x.id, x.outcome)}
    /\ UNCHANGED <<row, order, game, task, faults, reached>>

\* The listener's SessionSettled handler, which sees the event late, again or never.  An
\* expiry is told as a crash.  ended_at is not set, so the order stays.
ObserveSettled(s) ==
    /\ row[s] # NoRow /\ onchain[row[s].id] \in Outcomes \cup {"EXPIRED"}
    /\ row' = [row EXCEPT ![s].tx = "HASH",
           ![s].status = IF onchain[row[s].id] = "CASHED_OUT" THEN "CASHED_OUT" ELSE "CRASHED"]
    /\ UNCHANGED <<onchain, pool, order, game, task, faults, reached>>

----------------------------------------------------------------------------
(* submitSettlementOnchain, inside whoever asked for it: send, receipt,    *)
(* sent.                                                                   *)

Answer(t, result) ==
    task' = [task EXCEPT ![t].pc = "sent", ![t].result = result]

\* The gas estimate fails for a session that is not active, and for a signature that
\* is not for this outcome; the relayer or the node may fail for other reasons.
Refused(t) ==
    /\ task[t].pc = "send"
    /\ \/ onchain[task[t].id] # "ACTIVE" /\ Answer(t, "ALREADY") /\ UNCHANGED faults
       \/ task[t].sig # task[t].outcome /\ Answer(t, "ERROR") /\ UNCHANGED faults
       \/ Fault /\ Answer(t, "ERROR")
    /\ UNCHANGED <<onchain, pool, row, order, game, reached>>

Broadcast(t) ==
    /\ task[t].pc = "send"
    /\ task[t].sig = task[t].outcome /\ onchain[task[t].id] = "ACTIVE"
    /\ task' = [task EXCEPT ![t].pc = "receipt"]
    /\ UNCHANGED <<onchain, pool, row, order, game, faults, reached>>

\* The receipt's status is not looked at: a reverted settlement has a hash, too.
Mined(t) ==
    /\ task[t].pc = "receipt"
    /\ Answer(t, "HASH")
    /\ \/ onchain' = Settled(task[t].id, task[t].outcome) /\ UNCHANGED faults
       \/ Fault /\ UNCHANGED onchain
    /\ UNCHANGED <<pool, row, order, game, reached>>

ReceiptTimesOut(t) ==
    /\ task[t].pc = "receipt" /\ Fault
    /\ pool' = pool \cup {[id |-> task[t].id, outcome |-> task[t].outcome]}
    /\ Answer(t, "ERROR")
    /\ UNCHANGED <<onchain, row, order, game, reached>>

Submission(t) == Refused(t) \/ Broadcast(t) \/ Mined(t) \/ ReceiptTimesOut(t)

\* sign, then submit.
SendOutcome(t, op, sid, id, outcome) ==
    task' = [task EXCEPT ![t] = [@ EXCEPT !.op = op, !.pc = "send", !.sid = sid, !.id = id,
        !.outcome = outcome, !.sig = outcome, !.result = NONE]]

----------------------------------------------------------------------------
(* handleGameStart                                                         *)

HandleGameStart(t) ==
    /\ task[t] = Idle
    /\ game = NoGame /\ ActiveRows = {}
    /\ Goto(t, "start", "chain", NONE, NONE)
    /\ UNCHANGED <<onchain, pool, row, order, game, faults, reached>>

ReadActiveSession(t) ==
    /\ At(t, "start", "chain")
    /\ \/ \E id \in ActiveIds : ~HasRow(id) /\ Goto(t, "start", "insert", NONE, id)
       \/ Done(t)   \* none, another one than expected, or one that has a row
    /\ UNCHANGED <<onchain, pool, row, order, game, faults, reached>>

Unused(sid) ==
    /\ row[sid] = NoRow /\ game.sid # sid
    /\ \A t \in Tasks : task[t].sid # sid /\ sid \notin task[t].todo

\* A new UUID: always the same one of those in nobody's hands.
Fresh == LET free == {s \in Sids : Unused(s)}
         IN  IF free = {} THEN {} ELSE {CHOOSE s \in free : TRUE}

\* onchain_session_id is UNIQUE.
InsertRow(t) ==
    /\ At(t, "start", "insert")
    /\ \/ /\ ~HasRow(task[t].id)
          /\ \E s \in Fresh :
                 /\ row' = [row EXCEPT ![s] = [NoRow EXCEPT !.id = task[t].id, !.status = "ACTIVE"]]
                 /\ Goto(t, "start", "create", s, task[t].id)
                 /\ order' = SelectSeq(order, LAMBDA r : r # s)
          /\ UNCHANGED faults
       \/ HasRow(task[t].id) /\ Done(t) /\ UNCHANGED <<row, order, faults>>
       \/ Fault /\ Done(t) /\ UNCHANGED <<row, order>>
    /\ UNCHANGED <<onchain, pool, game, reached>>

CreateGameState(t) ==
    /\ At(t, "start", "create")
    /\ game' = [sid |-> task[t].sid, id |-> task[t].id, window |-> FALSE]
    /\ Done(t)
    /\ UNCHANGED <<onchain, pool, row, order, faults, reached>>

Start(t) == HandleGameStart(t) \/ ReadActiveSession(t) \/ InsertRow(t) \/ CreateGameState(t)

----------------------------------------------------------------------------
(* The run and its ends: handleGameCrash, handleGameCashout and            *)
(* handleAutoCashout, handleAbortStart.                                    *)

\* A move onto or off a checkpoint, or the checkpoint's time is over.
Window(open) ==
    /\ game # NoGame /\ game.window # open
    /\ game' = [game EXCEPT !.window = open]
    /\ UNCHANGED <<onchain, pool, row, order, task, faults, reached>>

\* Without a signature nothing is submitted.
HandleGameCrash(t) ==
    /\ task[t] = Idle /\ game # NoGame
    /\ \/ SendOutcome(t, "crash", game.sid, game.id, "CRASHED") /\ UNCHANGED faults
       \/ /\ Fault
          /\ task' = [task EXCEPT ![t] = [Idle EXCEPT !.op = "crash", !.pc = "sent",
                 !.sid = game.sid, !.id = game.id, !.outcome = "CRASHED", !.result = "ERROR"]]
    /\ UNCHANGED <<onchain, pool, row, order, game, reached>>

\* Mutant: the window is not looked at.
AnyTime == TRUE
CashoutWindow == game.window

HandleGameCashout(t) ==
    /\ task[t] = Idle /\ game # NoGame
    /\ CashoutWindow
    /\ SendOutcome(t, "cashout", game.sid, game.id, "CASHED_OUT")
    /\ reached' = IF game.window THEN reached \cup {game.id} ELSE reached
    /\ UNCHANGED <<onchain, pool, row, order, game, faults>>

HashOf(t) == IF task[t].result = "HASH" THEN "HASH" ELSE NONE

\* The result is written whatever the row's status, and the update's error ignored.
PersistEnd(t) ==
    /\ task[t].op \in {"crash", "cashout"} /\ task[t].pc = "sent"
    /\ \/ UpdateRow(task[t].sid, task[t].outcome, task[t].sig, HashOf(t)) /\ UNCHANGED faults
       \/ Fault /\ UNCHANGED <<row, order>>
    /\ Goto(t, task[t].op, "remove", NONE, NONE)
    /\ UNCHANGED <<onchain, pool, game, reached>>

\* removeGameState(wallet), whatever game that is by now.
RemoveGameState(t) ==
    /\ task[t].op \in {"crash", "cashout"} /\ task[t].pc = "remove"
    /\ game' = NoGame
    /\ Done(t)
    /\ UNCHANGED <<onchain, pool, row, order, faults, reached>>

\* Without a transaction hash an abort is not refused.
HandleAbortStart(t) ==
    /\ task[t] = Idle /\ game # NoGame
    /\ game' = NoGame
    /\ Goto(t, "abort", "write", game.sid, game.id)
    /\ UNCHANGED <<onchain, pool, row, order, faults, reached>>

DeleteRow(t) ==
    /\ At(t, "abort", "write")
    /\ row' = [row EXCEPT ![task[t].sid] = NoRow]
    /\ order' = SelectSeq(order, LAMBDA r : r # task[t].sid)
    /\ Done(t)
    /\ UNCHANGED <<onchain, pool, game, faults, reached>>

End(t) ==
    \/ HandleGameCrash(t) \/ HandleGameCashout(t) \/ PersistEnd(t) \/ RemoveGameState(t)
    \/ HandleAbortStart(t) \/ DeleteRow(t)

----------------------------------------------------------------------------
(* POST /force-end-active.  The client calls it while it finds something   *)
(* that keeps the player from a new run (getPlayBlocker).                  *)

\* What the query of /pending-settlement selects, as far as its filter reads it.
SelectedColumns == {"session_id", "onchain_session_id", "status", "settlement_signature"}

\* isCurrentOnchainPendingSettlement asks the chain about the row's wallet_address.
IsCurrentOnchainPending(s) ==
    "wallet_address" \in SelectedColumns /\ onchain[row[s].id] = "ACTIVE"

\* The settlements /pending-settlement lists: those its filter leaves.
PendingListed == {s \in Sids : Ended(s) /\ row[s].tx = NONE /\ IsCurrentOnchainPending(s)}

\* GET /active.
HasActiveGame == game # NoGame \/ ActiveRows # {}

PlayBlocker == PendingListed # {} \/ HasActiveGame

ForceEnd(t) ==
    /\ task[t] = Idle /\ PlayBlocker
    /\ IF game # NoGame
       THEN SendOutcome(t, "memory", game.sid, game.id, "CRASHED")
       ELSE Goto(t, "list", "chain", NONE, NONE)
    /\ UNCHANGED <<onchain, pool, row, order, game, faults, reached>>

\* Mutant: whatever refused the submission, the session counts as settled.
AnyErrorIsSettled(result) == CASE result = "HASH" -> "HASH" [] OTHER -> "SETTLED"
Marked(result) ==
    CASE result = "HASH" -> "HASH" [] result = "ALREADY" -> "SETTLED" [] OTHER -> NONE

\* crashAndPersistSession; if its update fails the request ends, or the list goes on.
PersistCrash(t) ==
    /\ task[t].op \in {"memory", "list"} /\ task[t].pc = "sent"
    /\ \/ /\ UpdateRow(task[t].sid, "CRASHED", "CRASHED", Marked(task[t].result))
          /\ task' = [task EXCEPT ![t] = [Idle EXCEPT !.op = "list", !.resolved = TRUE,
                 !.pc = IF task[t].op = "memory" THEN "remove" ELSE "next", !.todo = task[t].todo]]
          /\ UNCHANGED faults
       \/ /\ Fault /\ UNCHANGED <<row, order>>
          /\ IF task[t].op = "memory" THEN Done(t)
             ELSE task' = [task EXCEPT ![t] = [Idle EXCEPT !.op = "list", !.pc = "next",
                      !.todo = task[t].todo, !.resolved = task[t].resolved]]
    /\ UNCHANGED <<onchain, pool, game, reached>>

RemoveForced(t) ==
    /\ At(t, "list", "remove")
    /\ game' = NoGame
    /\ task' = [task EXCEPT ![t].pc = "chain"]
    /\ UNCHANGED <<onchain, pool, row, order, faults, reached>>

ListActive(t) ==
    /\ At(t, "list", "chain")
    /\ task' = [task EXCEPT ![t].pc = "next", ![t].todo = ActiveRows]
    /\ UNCHANGED <<onchain, pool, row, order, game, faults, reached>>

\* Mutant: rows without a game are left to the recovery worker.
SkipRow(t, s) == task' = [task EXCEPT ![t].todo = @ \ {s}]
CrashRow(t, s) ==
    task' = [task EXCEPT ![t] = [task[t] EXCEPT !.pc = "send", !.todo = @ \ {s}, !.sid = s,
        !.id = row[s].id, !.outcome = "CRASHED", !.sig = "CRASHED", !.result = NONE]]

CrashNext(t) ==
    /\ At(t, "list", "next")
    /\ \E s \in task[t].todo :
           IF row[s] = NoRow THEN task' = [task EXCEPT ![t].todo = @ \ {s}] ELSE CrashRow(t, s)
    /\ UNCHANGED <<onchain, pool, row, order, game, faults, reached>>

\* Nothing was ended: recoverOnchainActiveSession.
RecoverOnchain(t) ==
    /\ At(t, "list", "next") /\ task[t].todo = {} /\ ~task[t].resolved
    /\ \E id \in ActiveIds : SendOutcome(t, "recover", NONE, id, "CRASHED")
    /\ UNCHANGED <<onchain, pool, row, order, game, faults, reached>>

\* Something was ended, or the chain has nothing open either.
AnswerForced(t) ==
    /\ At(t, "list", "next") /\ task[t].todo = {}
    /\ task[t].resolved \/ ActiveIds = {}
    /\ Done(t)
    /\ UNCHANGED <<onchain, pool, row, order, game, faults, reached>>

\* persistRecoveredOnchainCrash: by on-chain id, inserted when there is no row.
PersistRecovered(t) ==
    /\ At(t, "recover", "sent")
    /\ IF task[t].result = "HASH"
       THEN \E s \in Sids :
                /\ IF HasRow(task[t].id) THEN row[s].id = task[t].id ELSE s \in Fresh
                /\ row' = [row EXCEPT ![s] = [id |-> task[t].id, status |-> "CRASHED",
                                              sig |-> "CRASHED", tx |-> "HASH"]]
                /\ order' = Append(SelectSeq(order, LAMBDA r : r # s), s)
       ELSE UNCHANGED <<row, order>>
    /\ Done(t)
    /\ UNCHANGED <<onchain, pool, game, faults, reached>>

ForceRequest(t) ==
    \/ ForceEnd(t) \/ PersistCrash(t) \/ RemoveForced(t) \/ ListActive(t) \/ CrashNext(t)
    \/ RecoverOnchain(t) \/ AnswerForced(t) \/ PersistRecovered(t)

----------------------------------------------------------------------------
(* POST /submit-settlement                                                 *)

\* ensureSettlementSignature keeps a stored signature that is still valid, or signs the
\* status that was read and stores the signature.
SubmitSettlement(t) ==
    /\ task[t] = Idle
    /\ \E s \in Sids :
           /\ Ended(s) /\ row[s].tx = NONE
           /\ LET status == row[s].status
                  Send(sig) == task' = [task EXCEPT ![t] = [Idle EXCEPT !.op = "submit",
                      !.pc = "send", !.sid = s, !.id = row[s].id, !.outcome = status, !.sig = sig]]
              IN  \/ row[s].sig # NONE /\ Send(row[s].sig) /\ UNCHANGED row
                  \/ Send(status) /\ row' = [row EXCEPT ![s].sig = status]
    /\ UNCHANGED <<onchain, pool, order, game, faults, reached>>

\* The first error refreshes the signature, from the row as it was read, and resubmits.
PersistSubmitted(t) ==
    /\ At(t, "submit", "sent")
    /\ LET s == task[t].sid
           Set(field, value) ==
               row' = IF row[s] = NoRow THEN row ELSE [row EXCEPT ![s][field] = value]
       IN  IF task[t].result # "HASH" /\ ~task[t].again
           THEN /\ Set("sig", task[t].outcome)
                /\ task' = [task EXCEPT ![t] = [@ EXCEPT !.pc = "send", !.again = TRUE,
                       !.sig = task[t].outcome, !.result = NONE]]
           ELSE Done(t) /\ IF task[t].result = "ERROR" THEN UNCHANGED row
                           ELSE Set("tx", Marked(task[t].result))
    /\ UNCHANGED <<onchain, pool, order, game, faults, reached>>

----------------------------------------------------------------------------
(* GET /pending-settlement                                                 *)

ReadPending(t) ==
    /\ task[t] = Idle
    /\ \E s \in Sids : Ended(s) /\ row[s].tx = NONE
    /\ task' = [task EXCEPT ![t] = [Idle EXCEPT !.op = "pending", !.pc = "next",
           !.todo = {s \in Sids : Ended(s) /\ row[s].tx = NONE}]]
    /\ UNCHANGED <<onchain, pool, row, order, game, faults, reached>>

\* clearUnsettlablePendingSession, by session_id.
ClearPending(t) ==
    /\ At(t, "pending", "next")
    /\ \E s \in task[t].todo :
           /\ row' = IF row[s] = NoRow \/ IsCurrentOnchainPending(s) THEN row
                     ELSE [row EXCEPT ![s].sig = NONE, ![s].tx = "CLEARED"]
           /\ IF task[t].todo = {s} THEN Done(t)
              ELSE task' = [task EXCEPT ![t].todo = @ \ {s}]
    /\ UNCHANGED <<onchain, pool, order, game, faults, reached>>

----------------------------------------------------------------------------
(* POST /clear-settlement: the client names the transaction.               *)

ReadToClear(t) ==
    /\ task[t] = Idle
    /\ \E s \in Sids :
           /\ Ended(s) /\ row[s].sig # NONE /\ row[s].tx = NONE
           /\ Goto(t, "clear", "write", s, NONE)
    /\ UNCHANGED <<onchain, pool, row, order, game, faults, reached>>

ClearSettlement(t) ==
    /\ At(t, "clear", "write")
    /\ row' = IF row[task[t].sid] = NoRow THEN row ELSE [row EXCEPT ![task[t].sid].tx = "HASH"]
    /\ Done(t)
    /\ UNCHANGED <<onchain, pool, order, game, faults, reached>>

Route(t) ==
    \/ SubmitSettlement(t) \/ PersistSubmitted(t) \/ ReadPending(t) \/ ClearPending(t)
    \/ ReadToClear(t) \/ ClearSettlement(t)

----------------------------------------------------------------------------
(* The recovery worker: of the 30 rows that ended last, over all wallets,  *)
(* and longer than two minutes ago, the latest of each wallet with a hash. *)

HasHash(s) == row[s].tx = "HASH" /\ \E n \in DOMAIN order : order[n] = s

LatestWithHash(s) ==
    \E n \in DOMAIN order :
        /\ order[n] = s /\ row[s].tx = "HASH"
        /\ \A m \in n + 1 .. Len(order) : row[order[m]].tx # "HASH"

FalseHashes == {s \in Sids : HasHash(s) /\ onchain[row[s].id] = "ACTIVE"}

\* Runs of others end, or their hashes are dropped.
OthersEnd ==
    /\ FalseHashes # {}
    /\ crowded' = ~crowded
    /\ UNCHANGED flowVars

\* Mutant: a hash is taken for a settlement.
HashIsProof(id) == FALSE
NotSettled(id) == onchain[id] = "ACTIVE"

\* While the rows after it are younger than two minutes, any row is the latest read.
SweepRead(s) ==
    /\ task[Sweeper] = Idle /\ ~crowded
    /\ HasHash(s) /\ NotSettled(row[s].id)
    /\ Goto(Sweeper, "sweep", "write", s, NONE)
    /\ UNCHANGED <<onchain, pool, row, order, game, faults, reached>>

SweepClear ==
    /\ At(Sweeper, "sweep", "write")
    /\ row' = IF row[task[Sweeper].sid] = NoRow THEN row
              ELSE [row EXCEPT ![task[Sweeper].sid].tx = NONE]
    /\ Done(Sweeper)
    /\ UNCHANGED <<onchain, pool, order, game, faults, reached>>

\* The process dies; what it broadcast stays broadcast.
Restart ==
    /\ Fault
    /\ game' = NoGame /\ task' = [t \in Tasks |-> Idle]
    /\ pool' = pool \cup {[id |-> task[t].id, outcome |-> task[t].outcome] :
                          t \in {u \in Tasks : task[u].pc = "receipt"}}
    /\ UNCHANGED <<onchain, row, order, reached>>

----------------------------------------------------------------------------
Flow ==
    \/ \E id \in Ids : StartOnchain(id) \/ ExpireOnchain(id)
    \/ \E x \in pool : MineLate(x)
    \/ \E s \in Sids : ObserveSettled(s) \/ SweepRead(s)
    \/ \E open \in BOOLEAN : Window(open)
    \/ \E t \in Requests : Start(t) \/ End(t) \/ Submission(t) \/ ForceRequest(t) \/ Route(t)
    \/ SweepClear \/ Restart

Next ==
    \/ Flow /\ crowded' = (crowded /\ FalseHashes' # {})
    \/ OthersEnd

Spec == Init /\ [][Next]_vars

Continue(t) ==
    \/ ReadActiveSession(t) \/ InsertRow(t) \/ CreateGameState(t) \/ Submission(t)
    \/ PersistEnd(t) \/ RemoveGameState(t) \/ DeleteRow(t)
    \/ PersistCrash(t) \/ RemoveForced(t) \/ ListActive(t) \/ CrashNext(t)
    \/ RecoverOnchain(t) \/ AnswerForced(t) \/ PersistRecovered(t)
    \/ PersistSubmitted(t) \/ ClearPending(t) \/ ClearSettlement(t)

SweepLatest == \E s \in Sids : LatestWithHash(s) /\ SweepRead(s)

\* A handler's calls are answered or fail; the interval fires for ever and reads the
\* wallet's latest row while it is one of the 30; a player who is shown a blocker
\* keeps pressing END NOW.
FairSpec ==
    /\ Spec
    /\ \A t \in Requests : WF_flowVars(Continue(t))
    /\ WF_flowVars(SweepLatest) /\ WF_flowVars(SweepClear)
    /\ SF_flowVars(\E t \in Requests : ForceEnd(t))

----------------------------------------------------------------------------
(* Properties                                                              *)

TypeOK ==
    /\ onchain \in [Ids -> {NONE, "ACTIVE", "EXPIRED"} \cup Outcomes]
    /\ pool \subseteq [id: Ids, outcome: Outcomes]
    /\ row \in [Sids -> Row \cup {NoRow}]
    /\ Len(order) <= Cardinality(Sids)
    /\ game \in [sid: Sids, id: Ids, window: BOOLEAN] \cup {NoGame}
    /\ task \in [Tasks -> Task \cup {Idle}]
    /\ faults \in 0..MaxFaults /\ reached \subseteq Ids /\ crowded \in BOOLEAN
    \* The chain keeps one session per wallet open, and a session one row.
    /\ Cardinality(ActiveIds) <= 1
    /\ \A r, s \in Sids : row[r] # NoRow /\ row[r].id = row[s].id => r = s

\* A stake is paid out only for a run that stood on a checkpoint when its player asked
\* or left: no crash, retry, re-signing of a stored row or recovery makes it a win.
PayoutWasEarned ==
    \A id \in Ids : onchain[id] = "CASHED_OUT" => id \in reached

\* A row marked as settled by somebody else is not still open on the chain, where
\* nothing would look for it again.
SettledMarkIsTrue ==
    \A s \in Sids : row[s].tx = "SETTLED" => onchain[row[s].id] # "ACTIVE"

\* A settlement that was recorded by its hash but did not happen is found out: while
\* it is the wallet's latest, the hash is dropped or the session closed after all,
\* unless the runs of others crowd it out of the sweep's 30 rows again and again.
FalseHash == \E s \in Sids : LatestWithHash(s) /\ onchain[row[s].id] = "ACTIVE"
FalseHashIsCleared == <>[]~crowded => (FalseHash ~> ~FalseHash)

\* Whatever others do: a false hash that stays behind 30 later rows is never looked at.
EveryFalseHashIsCleared == FalseHash ~> ~FalseHash

\* A run without a game (a restart, a lost update, a start that went no further) does
\* not stay ACTIVE and keep its player from playing.
Barred == game = NoGame /\ ActiveRows # {}
BarredPlayerIsFreed == Barred ~> ~Barred

\* "Cashout settlement submit failed (will remain pending)": a cash-out that is not on
\* the chain yet stays pending until a settlement of it is recorded.
FailedCashoutStaysPending ==
    [][\A s \in Sids :
           (row[s].status = "CASHED_OUT" /\ row[s].tx = NONE /\ onchain[row[s].id] = "ACTIVE")
               => row'[s].tx # "CLEARED"]_vars
=============================================================================
