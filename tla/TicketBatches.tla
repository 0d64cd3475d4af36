--------------------------- MODULE TicketBatches ---------------------------
(***************************************************************************)
(* The two workers that settle tickets on the chain: spendBatchExecutor    *)
(* pushes the ledger's SPEND rows, rewardBatchExecutor the season rewards. *)
(* Both sign with the operator's key, write the transaction's hash on the  *)
(* rows and only then broadcast.  Around them: the ticket ledger as the    *)
(* games move it (TicketPlay), the mirror balance that pays for a game,    *)
(* the operator's account and mempool, and TicketVault.                    *)
(*                                                                         *)
(* An action is one database or RPC call with the code up to the next one. *)
(***************************************************************************)
EXTENDS TicketVault

CONSTANTS
    Sessions, OwnerOf,            \* runs, and the wallet of each
    Rewards, WinnerOf, RewardOf,  \* season_points rows: wallet and ticket_reward
    Limit,                        \* MAX_PENDING_PER_TICK
    MaxTx,                        \* bound on signed transactions
    MaxFaults                     \* bound on failed calls and restarts

ASSUME OwnersAreWallets == OwnerOf \in [Sessions -> Wallets]
ASSUME RewardsAreTickets == WinnerOf \in [Rewards -> Wallets] /\ RewardOf \in [Rewards -> Nat]
ASSUME TablesAreFinite == IsFiniteSet(Sessions) /\ IsFiniteSet(Rewards)
ASSUME BoundsArePositive == Limit \in Nat \ {0} /\ {MaxTx, MaxFaults} \subseteq Nat

VARIABLES
    status,        \* game_sessions.status; ENDED is CRASHED or COMPLETED
    tag,           \* ticket_ledger.reconciled_tx_hash of a row, Absent without row
    mirror,        \* ticket_balances.balance
    rewardStatus,  \* season_points.reward_status
    rewardTag,     \* season_points.reward_tx_hash
    unseen,        \* TicketCredited logs the listener has yet to apply
    tx,            \* the operator's transactions
    chainNonce,    \* the operator's nonce on the chain
    exec,          \* the two workers
    faults

gameVars == <<status, mirror>>
rewardVars == <<rewardStatus, rewardTag>>
chainVars == <<tx, chainNonce, unseen>>
vars == <<gameVars, tag, rewardVars, chainVars, exec, faults, vaultVars>>

Workers == {"spend", "reward"}
Txs == 1..MaxTx
LedgerRows == {"SPEND", "REFUND"} \X Sessions
Spend(s) == <<"SPEND", s>>
Refunded(s) == <<"REFUND", s>>

Absent == -1      \* no such row
Null == 0
NetZero == -2     \* the sentinel "net-zero-refund"
NoTx == 0

TxRecord == [kind: Workers, rows: SUBSET (LedgerRows \cup Rewards), nonce: Nat,
             state: {"unused", "signed", "pool", "success", "reverted", "gone"}]
Unused == [kind |-> "spend", rows |-> {}, nonce |-> 0, state |-> "unused"]

SpendPcs == {"stamp", "read", "statuses", "refunds"}
RewardPcs == {"recover", "credit"}
Pcs == {"idle", "sign", "tag", "broadcast", "wait"} \cup SpendPcs \cup RewardPcs
\* rows: what the tick has read; hashes: transactions it still has to look up.
Idle == [pc |-> "idle", rows |-> {}, hashes |-> {}, tx |-> NoTx]
Exec == [pc: Pcs, rows: SUBSET (LedgerRows \cup Rewards), hashes: SUBSET Txs, tx: Txs \cup {NoTx}]

Init ==
    /\ VaultInit
    /\ status = [s \in Sessions |-> "FREE"]
    /\ tag = [r \in LedgerRows |-> Absent]
    /\ mirror = Tickets
    /\ rewardStatus = [r \in Rewards |-> "NONE"] /\ rewardTag = [r \in Rewards |-> Null]
    /\ unseen = {} /\ tx = [t \in Txs |-> Unused] /\ chainNonce = 0
    /\ exec = [k \in Workers |-> Idle]
    /\ faults = 0

HasRow(r) == tag[r] # Absent
Step(k, pc) == exec' = [exec EXCEPT ![k].pc = pc]
EndTick(k) == exec' = [exec EXCEPT ![k] = Idle]
Fault == faults < MaxFaults /\ faults' = faults + 1

----------------------------------------------------------------------------
(* The games, as TicketPlay allows them, and the season's reward queue.    *)

InsertSession(s) ==
    /\ status[s] = "FREE"
    /\ status' = [status EXCEPT ![s] = "ACTIVE"]
    /\ UNCHANGED <<mirror, tag, rewardVars, chainVars, exec, faults, vaultVars>>

HasTicket(s) == mirror[OwnerOf[s]] >= 1

\* debit_ticket_for_session; a session voided since its insert is charged too.
Debit(s) ==
    /\ status[s] \in {"ACTIVE", "VOIDED"} /\ ~HasRow(Spend(s)) /\ HasTicket(s)
    /\ \A o \in Sessions \ {s} :
          OwnerOf[o] = OwnerOf[s] /\ status[o] = "ACTIVE" => ~HasRow(Spend(o))
    /\ tag' = [tag EXCEPT ![Spend(s)] = Null]
    /\ mirror' = [mirror EXCEPT ![OwnerOf[s]] = @ - 1]
    /\ UNCHANGED <<status, rewardVars, chainVars, exec, faults, vaultVars>>

CloseSession(s, outcome) ==
    /\ status[s] = "ACTIVE" /\ (outcome = "ENDED" => HasRow(Spend(s)))
    /\ status' = [status EXCEPT ![s] = outcome]
    /\ UNCHANGED <<mirror, tag, rewardVars, chainVars, exec, faults, vaultVars>>

\* Mutant: an earlier refund is not looked for.
RefundAnyTime(s) == status[s] = "VOIDED" /\ HasRow(Spend(s))
RefundAllowed(s) == status[s] = "VOIDED" /\ HasRow(Spend(s)) /\ ~HasRow(Refunded(s))

RefundTicket(s) ==
    /\ RefundAllowed(s)
    /\ tag' = [tag EXCEPT ![Refunded(s)] = Null]
    /\ mirror' = [mirror EXCEPT ![OwnerOf[s]] = @ + 1]
    /\ UNCHANGED <<status, rewardVars, chainVars, exec, faults, vaultVars>>

QueueReward(r) ==
    /\ rewardStatus[r] = "NONE"
    /\ rewardStatus' = [rewardStatus EXCEPT ![r] = "PENDING"]
    /\ UNCHANGED <<gameVars, tag, rewardTag, chainVars, exec, faults, vaultVars>>

----------------------------------------------------------------------------
(* The spend worker's reads.                                               *)

\* Any part of the rows: the queries have a limit and no order.
AtMost(n, rows) == kSubset(IF Cardinality(rows) < n THEN Cardinality(rows) ELSE n, rows)
Pending == {r \in LedgerRows : tag[r] = Null}

NetZeroRows(rows) == {r \in rows : Refunded(r[2]) \in rows}
Spendable(rows) == {r \in rows : r[1] = "SPEND" /\ Refunded(r[2]) \notin rows}

\* recoverInFlightBatches of this worker only logs; the tick goes on to net, and
\* past the netting when its query fails.
SpendTick ==
    /\ exec["spend"].pc = "idle"
    /\ \/ UNCHANGED faults
       \/ Fault
    /\ \E rows \in IF faults' = faults THEN AtMost(2 * Limit, Pending) ELSE {{}} :
          exec' = [exec EXCEPT !["spend"] = [Idle EXCEPT !.rows = NetZeroRows(rows),
                     !.pc = IF NetZeroRows(rows) = {} THEN "read" ELSE "stamp"]]
    /\ UNCHANGED <<gameVars, tag, rewardVars, chainVars, vaultVars>>

Stamped(r) == r \in exec["spend"].rows /\ tag[r] = Null

SettleNetZero ==
    /\ exec["spend"].pc = "stamp" /\ Step("spend", "read")
    /\ \/ tag' = [r \in LedgerRows |-> IF Stamped(r) THEN NetZero ELSE tag[r]] /\ UNCHANGED faults
       \/ Fault /\ UNCHANGED tag
    /\ UNCHANGED <<gameVars, rewardVars, chainVars, vaultVars>>

\* Mutant: rows that carry a hash are picked up again.
EveryRow(r) == tag[r] # Absent
Untagged(r) == tag[r] = Null

Continue(rows, pc) ==
    IF rows = {} THEN EndTick("spend")
    ELSE exec' = [exec EXCEPT !["spend"] = [@ EXCEPT !.rows = rows, !.pc = pc]]

ReadPendingSpends ==
    /\ exec["spend"].pc = "read"
    /\ \E rows \in AtMost(Limit, {r \in LedgerRows : r[1] = "SPEND" /\ Untagged(r)}) :
          Continue(rows, "statuses")
    /\ UNCHANGED <<gameVars, tag, rewardVars, chainVars, faults, vaultVars>>

\* Mutant: every session counts as over.
AnyStatus(s) == TRUE
Terminal(s) == status[s] = "ENDED"

FilterTerminalSpends ==
    /\ exec["spend"].pc = "statuses"
    /\ Continue({r \in exec["spend"].rows : Terminal(r[2])}, "refunds")
    /\ UNCHANGED <<gameVars, tag, rewardVars, chainVars, faults, vaultVars>>

\* The refunds are looked up once more, whatever their tag.
DropRefunded ==
    /\ exec["spend"].pc = "refunds"
    /\ LET spends == exec["spend"].rows
           refunds == {Refunded(r[2]) : r \in spends} \cap {r \in LedgerRows : HasRow(r)}
       IN  Continue(Spendable(spends \cup refunds), "sign")
    /\ UNCHANGED <<gameVars, tag, rewardVars, chainVars, faults, vaultVars>>

----------------------------------------------------------------------------
(* The reward worker's recovery and reads.                                 *)

\* Mutant: the batches that are credited already are looked up instead.
AlreadyCredited(r) == rewardStatus[r] = "CREDITED" /\ rewardTag[r] # Null
InFlight(r) == rewardStatus[r] = "PENDING" /\ rewardTag[r] # Null

RewardTick ==
    /\ exec["reward"].pc = "idle"
    /\ \/ UNCHANGED faults
       \/ Fault
    /\ exec' = [exec EXCEPT !["reward"] = [Idle EXCEPT !.pc = "recover",
          !.hashes = IF faults' = faults THEN {rewardTag[r] : r \in {q \in Rewards : InFlight(q)}} ELSE {}]]
    /\ UNCHANGED <<gameVars, tag, rewardVars, chainVars, vaultVars>>

MarkCredited(t) ==
    rewardStatus' = [r \in Rewards |->
        IF rewardStatus[r] = "PENDING" /\ rewardTag[r] = t THEN "CREDITED" ELSE rewardStatus[r]]

Confirmed(t) == tx[t].state = "success"

\* A reverted, pending or dropped batch keeps its tag and stays PENDING.
RecoverBatch(t) ==
    /\ exec["reward"].pc = "recover" /\ t \in exec["reward"].hashes
    /\ exec' = [exec EXCEPT !["reward"].hashes = @ \ {t}]
    /\ \/ Confirmed(t) /\ MarkCredited(t) /\ UNCHANGED faults
       \/ ~Confirmed(t) /\ UNCHANGED <<rewardStatus, faults>>
       \/ Confirmed(t) /\ Fault /\ UNCHANGED rewardStatus
    /\ UNCHANGED <<gameVars, tag, rewardTag, chainVars, vaultVars>>

ReadPendingRewards ==
    /\ exec["reward"].pc = "recover" /\ exec["reward"].hashes = {}
    /\ \E rows \in AtMost(Limit, {r \in Rewards : rewardStatus[r] = "PENDING" /\ rewardTag[r] = Null}) :
          LET paid == {r \in rows : RewardOf[r] > 0}
          IN  IF paid = {} THEN EndTick("reward")
              ELSE exec' = [exec EXCEPT !["reward"] = [Idle EXCEPT !.rows = paid, !.pc = "sign"]]
    /\ UNCHANGED <<gameVars, tag, rewardVars, chainVars, faults, vaultVars>>

----------------------------------------------------------------------------
(* Sign, tag, broadcast, wait: the same in both workers.                   *)

AmountOf(k) == IF k = "spend" THEN [r \in LedgerRows |-> 1] ELSE RewardOf
WalletOf(k, r) == IF k = "spend" THEN OwnerOf[r[2]] ELSE WinnerOf[r]

\* aggregateSpendByWallet and chunkRewards.
BatchOf(k, rows) == [w \in Wallets |->
    MapThenSumSet(LAMBDA r : AmountOf(k)[r], {r \in rows : WalletOf(k, r) = w})]

CallSucceeds(k, batch) == IF k = "spend" THEN SpendAllowed(batch) ELSE CreditAllowed(batch)

PoolNonces == {tx[t].nonce : t \in {u \in Txs : tx[u].state = "pool"}}
PendingNonce == Min({n \in chainNonce..(chainNonce + MaxTx) : n \notin PoolNonces})

\* The registration is read, then the client asks for the nonce and estimates
\* the gas, which throws when the call would revert now.
SignBatch(k) ==
    /\ exec[k].pc = "sign"
    /\ IF CallSucceeds(k, BatchOf(k, exec[k].rows)) /\ \E t \in Txs : tx[t].state = "unused"
       THEN \E t \in Txs :
              /\ tx[t].state = "unused" /\ \A u \in 1..(t - 1) : tx[u].state # "unused"
              /\ tx' = [tx EXCEPT ![t] = [kind |-> k, rows |-> exec[k].rows,
                                          nonce |-> PendingNonce, state |-> "signed"]]
              /\ exec' = [exec EXCEPT ![k].tx = t, ![k].pc = "tag"]
       ELSE EndTick(k) /\ UNCHANGED tx
    /\ UNCHANGED <<gameVars, tag, rewardVars, chainNonce, unseen, faults, vaultVars>>

WriteTag(k) ==
    LET rows == exec[k].rows t == exec[k].tx IN
    IF k = "spend"
    THEN /\ tag' = [r \in LedgerRows |-> IF r \in rows /\ tag[r] = Null THEN t ELSE tag[r]]
         /\ UNCHANGED rewardTag
    ELSE /\ rewardTag' = [r \in Rewards |-> IF r \in rows /\ rewardStatus[r] = "PENDING"
                             /\ rewardTag[r] = Null THEN t ELSE rewardTag[r]]
         /\ UNCHANGED tag

\* A refused or unanswered update aborts the broadcast; unanswered, it has tagged.
TagBatch(k) ==
    /\ exec[k].pc = "tag"
    /\ \/ WriteTag(k) /\ Step(k, "broadcast") /\ UNCHANGED faults
       \/ WriteTag(k) /\ EndTick(k) /\ Fault
       \/ UNCHANGED <<tag, rewardTag>> /\ EndTick(k) /\ Fault
    /\ UNCHANGED <<gameVars, rewardStatus, chainVars, vaultVars>>

\* A node refuses a nonce that is used up, and one that is in the pool unless
\* the new transaction pays enough more to take the old one's place.
Broadcast(k) ==
    /\ exec[k].pc = "broadcast"
    /\ LET t == exec[k].tx
           rivals == {u \in Txs : tx[u].state = "pool" /\ tx[u].nonce = tx[t].nonce}
           accept == tx' = [u \in Txs |-> IF u = t THEN [tx[u] EXCEPT !.state = "pool"]
                                ELSE IF u \in rivals THEN [tx[u] EXCEPT !.state = "gone"] ELSE tx[u]]
       IN  \/ tx[t].nonce >= chainNonce /\ accept /\ Step(k, "wait") /\ UNCHANGED faults
           \/ tx[t].nonce >= chainNonce /\ accept /\ EndTick(k) /\ Fault
           \/ (tx[t].nonce < chainNonce \/ rivals # {}) /\ EndTick(k) /\ UNCHANGED <<tx, faults>>
           \/ EndTick(k) /\ Fault /\ UNCHANGED tx
    /\ UNCHANGED <<gameVars, tag, rewardVars, chainNonce, unseen, vaultVars>>

\* The wait ends with the receipt or with a timeout.
WaitForReceipt(k) ==
    /\ exec[k].pc = "wait"
    /\ IF k = "reward" /\ Confirmed(exec[k].tx) THEN Step(k, "credit") ELSE EndTick(k)
    /\ UNCHANGED <<gameVars, tag, rewardVars, chainVars, faults, vaultVars>>

CreditBatchRows ==
    /\ exec["reward"].pc = "credit" /\ EndTick("reward")
    /\ \/ MarkCredited(exec["reward"].tx) /\ UNCHANGED faults
       \/ Fault /\ UNCHANGED rewardStatus
    /\ UNCHANGED <<gameVars, tag, rewardTag, chainVars, vaultVars>>

\* Any read of a tick may fail, which ends it, and the process may restart.
ReadFails(k) ==
    /\ exec[k].pc \in {"read", "statuses", "refunds", "recover", "sign"} /\ Fault /\ EndTick(k)
    /\ UNCHANGED <<gameVars, tag, rewardVars, chainVars, vaultVars>>

Restart ==
    /\ Fault /\ exec' = [k \in Workers |-> Idle]
    /\ UNCHANGED <<gameVars, tag, rewardVars, chainVars, vaultVars>>

----------------------------------------------------------------------------
(* The chain, the contract's owner and the listener.                       *)

Mine(t) ==
    /\ tx[t].state = "pool" /\ tx[t].nonce = chainNonce
    /\ chainNonce' = chainNonce + 1
    /\ LET k == tx[t].kind
           batch == BatchOf(k, tx[t].rows)
           ok == CallSucceeds(k, batch)
       IN  /\ tx' = [tx EXCEPT ![t].state = IF ok THEN "success" ELSE "reverted"]
           /\ unseen' = unseen \cup (IF k = "reward" /\ ok
                                     THEN {t} \X {w \in Wallets : batch[w] > 0} ELSE {})
           /\ \/ ok /\ k = "spend" /\ SpendBatch(batch)
              \/ ok /\ k = "reward" /\ CreditBatch(batch)
              \/ ~ok /\ UNCHANGED vaultVars
    /\ UNCHANGED <<gameVars, tag, rewardVars, exec, faults>>

\* A mempool may forget a transaction.
Drop(t) ==
    /\ tx[t].state = "pool"
    /\ tx' = [tx EXCEPT ![t].state = "gone"]
    /\ UNCHANGED <<gameVars, tag, rewardVars, chainNonce, unseen, exec, faults, vaultVars>>

\* The amount of a TicketCredited log.
CreditOf == [log \in Txs \X Wallets |-> BatchOf("reward", tx[log[1]].rows)[log[2]]]

\* The listener's credit of one TicketCredited log (TicketMirror).
MirrorCredit(log) ==
    /\ log \in unseen /\ unseen' = unseen \ {log}
    /\ mirror' = [mirror EXCEPT ![log[2]] = @ + CreditOf[log]]
    /\ UNCHANGED <<status, tag, rewardVars, tx, chainNonce, exec, faults, vaultVars>>

OwnerSetsOperator ==
    /\ SetOperator(~operator)
    /\ UNCHANGED <<gameVars, tag, rewardVars, chainVars, exec, faults>>

WorkerStep(k) == SignBatch(k) \/ TagBatch(k) \/ Broadcast(k) \/ WaitForReceipt(k)
SpendStep ==
    \/ SpendTick \/ SettleNetZero \/ ReadPendingSpends \/ FilterTerminalSpends
    \/ DropRefunded \/ WorkerStep("spend")
RewardStep ==
    \/ RewardTick \/ (\E t \in Txs : RecoverBatch(t)) \/ ReadPendingRewards
    \/ WorkerStep("reward") \/ CreditBatchRows
GameStep == \E s \in Sessions :
    InsertSession(s) \/ Debit(s) \/ RefundTicket(s) \/ \E o \in {"ENDED", "VOIDED"} : CloseSession(s, o)

----------------------------------------------------------------------------
Next ==
    \/ GameStep
    \/ \E r \in Rewards : QueueReward(r)
    \/ SpendStep
    \/ RewardStep
    \/ \E k \in Workers : ReadFails(k)
    \/ Restart
    \/ \E t \in Txs : Mine(t) \/ Drop(t)
    \/ \E log \in unseen : MirrorCredit(log)
    \/ OwnerSetsOperator

Spec == Init /\ [][Next]_vars

\* The interval restarts a worker's tick as soon as the last one has ended.
FairSpec == Spec /\ WF_vars(SpendStep) /\ WF_vars(RewardStep)

----------------------------------------------------------------------------
Mined == {t \in Txs : tx[t].state = "success"}
RunsOf(w) == {s \in Sessions : OwnerOf[s] = w /\ HasRow(Spend(s))}
WonBy(w) == {r \in Rewards : WinnerOf[r] = w /\ rewardTag[r] \in Mined}

\* Every variable has its type; no balance is ever negative.
TypeOK ==
    /\ ticketBalance \in Batch /\ mirror \in Batch
    /\ totalTicketsIssued \in Nat /\ totalTicketsSpent \in Nat /\ operator \in BOOLEAN
    /\ status \in [Sessions -> {"FREE", "ACTIVE", "VOIDED", "ENDED"}]
    /\ tag \in [LedgerRows -> {Absent, Null, NetZero} \cup Txs]
    /\ rewardStatus \in [Rewards -> {"NONE", "PENDING", "CREDITED"}]
    /\ rewardTag \in [Rewards -> {Null} \cup Txs]
    /\ unseen \subseteq Txs \X Wallets
    /\ tx \in [Txs -> TxRecord] /\ chainNonce \in Nat
    /\ exec \in [Workers -> Exec]
    /\ faults \in 0..MaxFaults

\* "A spend batch can never be debited twice" (spendBatchExecutor.ts:244-246)
\* and a reward batch never credited twice: what the chain took from and gave
\* to a wallet is exactly the rows tagged with a mined transaction, through
\* crashes, lost answers and rejected broadcasts.
ChainAgreesWithTags ==
    \A w \in Wallets :
        ticketBalance[w] = Tickets[w] + MapThenSumSet(LAMBDA r : RewardOf[r], WonBy(w))
                             - Cardinality({s \in RunsOf(w) : tag[Spend(s)] \in Mined})

\* A run whose ticket is on its way to the chain never gets it back as well: the
\* sign-off condition of spendBatchExecutor.ts:72-76.
SettledIsNeverRefunded ==
    \A s \in Sessions : tag[Spend(s)] \in Txs => ~HasRow(Refunded(s))

\* The chain holds, wallet by wallet, the mirror balance, the spent tickets that
\* have not reached it and the credits the mirror has not seen; so a batch
\* always finds its tickets and never reverts for want of one.
SpendIsCovered ==
    \A w \in Wallets :
        ticketBalance[w] = mirror[w]
            + Cardinality({s \in RunsOf(w) : tag[Spend(s)] \notin Mined /\ ~HasRow(Refunded(s))})
            + MapThenSumSet(LAMBDA log : CreditOf[log], {log \in unseen : log[2] = w})

\* A reward is called CREDITED only when its transaction was mined and succeeded.
CreditedIsMined ==
    \A r \in Rewards : rewardStatus[r] = "CREDITED" => rewardTag[r] \in Mined

\* Recovery: the rows of a mined reward batch are marked in the end, also when the
\* worker crashed, timed out or failed to write it.
MinedRewardIsCredited ==
    \A r \in Rewards : (rewardTag[r] \in Mined) ~> (rewardStatus[r] = "CREDITED")
============================================================================
