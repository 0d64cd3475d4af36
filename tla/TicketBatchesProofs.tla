------------------------ MODULE TicketBatchesProofs ------------------------
(***************************************************************************)
(* The two batch workers, for any wallets, runs, rewards, limits, number   *)
(* of transactions and of faults.                                          *)
(*                                                                         *)
(* A run's spend is tagged only when the run had ended, and a refund needs *)
(* a voided one; neither state is ever left.  A transaction that succeeded *)
(* stays so, and the one a worker is about to broadcast is its own: signed *)
(* by it and never sent.                                                   *)
(***************************************************************************)
EXTENDS TicketBatches, SumTheorems, TLAPS

SessionStates == {"FREE", "ACTIVE", "VOIDED", "ENDED"}
Tags == {Absent, Null, NetZero} \cup Txs

\* A transaction has its four fields, and a known state.
TxStates == {"unused", "signed", "pool", "success", "reverted", "gone"}
IsTx(x) ==
    /\ x = [kind |-> x.kind, rows |-> x.rows, nonce |-> x.nonce, state |-> x.state]
    /\ x.state \in TxStates

Shape ==
    /\ status \in [Sessions -> SessionStates]
    /\ tag \in [LedgerRows -> Tags]
    /\ rewardStatus \in [Rewards -> {"NONE", "PENDING", "CREDITED"}]
    /\ rewardTag \in [Rewards -> {Null} \cup Txs]
    /\ DOMAIN tx = Txs /\ tx = [t \in Txs |-> tx[t]] /\ \A t \in Txs : IsTx(tx[t])
    /\ exec \in [Workers -> Exec]

\* What worker k may rely on after its reads: x is its memory.
Sending == {"tag", "broadcast"}
Chosen == {"refunds", "sign", "tag", "broadcast", "wait"}
WorkerOK(k, x, st, txs) ==
    /\ x.pc \in Sending \cup {"wait", "credit"} => x.tx \in Txs
    /\ x.pc \in Sending => txs[x.tx].state = "signed"
    /\ x.pc = "credit" => txs[x.tx].state = "success"
    /\ k = "spend" /\ x.pc = "statuses" => \A r \in x.rows : r \in LedgerRows /\ r[1] = "SPEND"
    /\ k = "spend" /\ x.pc \in Chosen =>
          \A r \in x.rows : r \in LedgerRows /\ r[1] = "SPEND" /\ st[r[2]] = "ENDED"

WorkersInv ==
    /\ \A k \in Workers : WorkerOK(k, exec[k], status, tx)
    /\ exec["spend"].pc \in Sending /\ exec["reward"].pc \in Sending =>
          exec["spend"].tx # exec["reward"].tx

LedgerInv ==
    /\ \A s \in Sessions : HasRow(Refunded(s)) => status[s] = "VOIDED"
    /\ \A s \in Sessions : tag[Spend(s)] \in Txs => status[s] = "ENDED"

RewardsInv ==
    \A r \in Rewards : rewardStatus[r] = "CREDITED" =>
        rewardTag[r] \in Txs /\ tx[rewardTag[r]].state = "success"

BatchInv == Shape /\ WorkersInv /\ LedgerInv /\ RewardsInv

----------------------------------------------------------------------------
(* Small facts                                                             *)

LEMMA TagFacts ==
    /\ Txs \subseteq Nat /\ Absent \notin Txs /\ Null \notin Txs /\ NetZero \notin Txs /\ NoTx \notin Txs
    /\ Absent # Null /\ Absent # NetZero
BY BoundsArePositive DEF BoundsArePositive, Txs, Absent, Null, NetZero, NoTx

LEMMA RowFacts ==
    /\ \A s \in Sessions : Spend(s) \in LedgerRows /\ Refunded(s) \in LedgerRows
    /\ \A s \in Sessions : Spend(s)[1] = "SPEND" /\ Spend(s)[2] = s /\ Refunded(s)[2] = s
    /\ \A s, u \in Sessions : /\ Spend(s) # Refunded(u)
                              /\ Spend(s) = Spend(u) => s = u
                              /\ Refunded(s) = Refunded(u) => s = u
    /\ \A r \in LedgerRows : r[2] \in Sessions /\ (r[1] = "SPEND" => r = Spend(r[2]))
BY DEF LedgerRows, Spend, Refunded

LEMMA IdleFacts ==
    /\ Idle \in Exec /\ Idle.pc = "idle" /\ Idle.rows = {} /\ Idle.hashes = {} /\ Idle.tx = NoTx
    /\ \A k, st, txs : WorkerOK(k, Idle, st, txs)
BY DEF Idle, Exec, Pcs, WorkerOK, Sending, Chosen

LEMMA WorkerNames == "spend" \in Workers /\ "reward" \in Workers /\ \A k \in Workers : k \in {"spend", "reward"}
BY DEF Workers

\* A worker's memory stays good when ended runs stay ended and no transaction it
\* means to send, or has seen succeed, changes.
LEMMA WorkerStays ==
    ASSUME NEW k \in Workers, NEW x \in Exec, NEW st, NEW st2, NEW txs, NEW txs2,
           WorkerOK(k, x, st, txs),
           \A s \in Sessions : st[s] = "ENDED" => st2[s] = "ENDED",
           x.pc \in Sending => txs2[x.tx].state = "signed",
           \A t \in Txs : txs[t].state = "success" => txs2[t].state = "success"
    PROVE  WorkerOK(k, x, st2, txs2)
<1>1. \A r \in LedgerRows : r[2] \in Sessions
  BY RowFacts
<1>2. x.pc = "credit" => txs2[x.tx].state = "success"
  BY DEF WorkerOK
<1> QED BY <1>1, <1>2 DEF WorkerOK

\* One worker moves on, the rest of the world as it was.
LEMMA WorkerMoves ==
    ASSUME Shape, WorkersInv, NEW k \in Workers, NEW x \in Exec, WorkerOK(k, x, status, tx),
           x.pc \in Sending => exec[k].pc \in Sending /\ x.tx = exec[k].tx,
           exec' = [exec EXCEPT ![k] = x], UNCHANGED <<status, tx>>
    PROVE  exec' \in [Workers -> Exec] /\ WorkersInv'
<1>1. exec \in [Workers -> Exec] /\ exec' \in [Workers -> Exec]
      /\ exec'[k] = x /\ \A j \in Workers \ {k} : exec'[j] = exec[j]
  BY DEF Shape
<1>2. \A j \in Workers : WorkerOK(j, exec'[j], status', tx')
  BY <1>1 DEF WorkersInv
<1>3. exec'["spend"].pc \in Sending /\ exec'["reward"].pc \in Sending =>
          exec'["spend"].tx # exec'["reward"].tx
  BY <1>1, WorkerNames DEF WorkersInv
<1> QED BY <1>1, <1>2, <1>3 DEF WorkersInv

LEMMA TickEnds ==
    ASSUME Shape, WorkersInv, NEW k \in Workers, EndTick(k), UNCHANGED <<status, tx>>
    PROVE  exec' \in [Workers -> Exec] /\ WorkersInv'
<1>1. exec' = [exec EXCEPT ![k] = Idle]
  BY DEF EndTick
<1>2. Idle \in Exec /\ WorkerOK(k, Idle, status, tx) /\ Idle.pc \notin Sending
  BY IdleFacts DEF Sending
<1> QED BY <1>1, <1>2, WorkerMoves

\* A tick that only goes on to its next call.
LEMMA TickGoesOn ==
    ASSUME Shape, WorkersInv, NEW k \in Workers, NEW pc, Step(k, pc), pc \in Pcs,
           UNCHANGED <<status, tx>>, WorkerOK(k, [exec[k] EXCEPT !.pc = pc], status, tx),
           pc \in Sending => exec[k].pc \in Sending
    PROVE  exec' \in [Workers -> Exec] /\ WorkersInv'
<1> DEFINE x == [exec[k] EXCEPT !.pc = pc]
<1>1. exec[k] \in Exec
  BY DEF Shape
<1>2. x \in Exec /\ x.pc = pc /\ x.tx = exec[k].tx
  BY <1>1 DEF Exec
<1>3. exec' = [exec EXCEPT ![k] = x]
  BY DEF Step, Shape
<1> HIDE DEF x
<1> QED BY <1>2, <1>3, WorkerMoves DEF x

\* The transactions move: none that succeeded, and none that is still to be sent.
LEMMA TransactionsMove ==
    ASSUME Shape, WorkersInv, RewardsInv, UNCHANGED <<status, exec, rewardStatus, rewardTag>>,
           DOMAIN tx' = Txs /\ tx' = [t \in Txs |-> tx'[t]] /\ \A t \in Txs : IsTx(tx'[t]),
           \A t \in Txs : tx[t].state \in {"signed", "success"} => tx'[t].state = tx[t].state
    PROVE  WorkersInv' /\ RewardsInv'
<1>1. ASSUME NEW k \in Workers PROVE WorkerOK(k, exec[k], status, tx')
  <2>1. exec[k] \in Exec /\ WorkerOK(k, exec[k], status, tx)
    BY DEF Shape, WorkersInv
  <2>2. exec[k].pc \in Sending => tx'[exec[k].tx].state = "signed"
    BY <2>1 DEF WorkerOK
  <2> QED BY <2>1, <2>2, WorkerStays
<1>2. WorkersInv'
  BY <1>1 DEF WorkersInv
<1>3. RewardsInv'
  BY DEF RewardsInv
<1> QED BY <1>2, <1>3

LEMMA BatchInit == Init => BatchInv
<1> SUFFICES ASSUME Init PROVE BatchInv
  OBVIOUS
<1>1. Shape
  <2>1. status \in [Sessions -> SessionStates] /\ tag \in [LedgerRows -> Tags]
        /\ rewardStatus \in [Rewards -> {"NONE", "PENDING", "CREDITED"}]
        /\ rewardTag \in [Rewards -> {Null} \cup Txs]
    BY DEF Init, SessionStates, Tags
  <2>2. IsTx(Unused)
    BY DEF IsTx, Unused, TxStates
  <2>3. DOMAIN tx = Txs /\ tx = [t \in Txs |-> tx[t]] /\ \A t \in Txs : IsTx(tx[t])
    BY <2>2 DEF Init
  <2>4. exec \in [Workers -> Exec]
    BY IdleFacts DEF Init
  <2> QED BY <2>1, <2>3, <2>4 DEF Shape
<1>2. WorkersInv
  BY IdleFacts, WorkerNames DEF Init, WorkersInv, Sending
<1>3. LedgerInv /\ RewardsInv
  BY RowFacts, TagFacts DEF Init, LedgerInv, RewardsInv, HasRow
<1> QED BY <1>1, <1>2, <1>3 DEF BatchInv

----------------------------------------------------------------------------
(* The games                                                               *)

\* Runs change state, but none that has ended or was voided.
LEMMA RunsMove ==
    ASSUME Shape, WorkersInv, UNCHANGED <<exec, tx>>,
           \A s \in Sessions : status[s] = "ENDED" => status'[s] = "ENDED"
    PROVE  WorkersInv'
<1>1. ASSUME NEW k \in Workers PROVE WorkerOK(k, exec[k], status', tx)
  <2>1. exec[k] \in Exec /\ WorkerOK(k, exec[k], status, tx)
    BY DEF Shape, WorkersInv
  <2>2. exec[k].pc \in Sending => tx[exec[k].tx].state = "signed"
    BY <2>1 DEF WorkerOK
  <2> QED BY <2>1, <2>2, WorkerStays
<1> QED BY <1>1 DEF WorkersInv

LEMMA GameKeeps == BatchInv /\ GameStep => BatchInv'
<1> SUFFICES ASSUME BatchInv, NEW s \in Sessions,
                    \/ InsertSession(s) \/ Debit(s) \/ RefundTicket(s)
                    \/ \E o \in {"ENDED", "VOIDED"} : CloseSession(s, o)
             PROVE  BatchInv'
  BY DEF GameStep
<1>0. Shape /\ WorkersInv /\ LedgerInv /\ RewardsInv
  BY DEF BatchInv
<1>1. CASE InsertSession(s)
  <2>1. /\ status' = [status EXCEPT ![s] = "ACTIVE"] /\ status[s] = "FREE"
        /\ UNCHANGED <<tag, rewardStatus, rewardTag, tx, exec>>
    BY <1>1 DEF InsertSession, rewardVars, chainVars
  <2>2. Shape'
    BY <1>0, <2>1 DEF Shape, SessionStates
  <2>3. WorkersInv'
    BY <1>0, <2>1, RunsMove DEF Shape
  <2> QED BY <1>0, <2>1, <2>2, <2>3 DEF BatchInv, LedgerInv, RewardsInv, HasRow, Shape
<1>2. CASE Debit(s)
  <2>1. /\ tag' = [tag EXCEPT ![Spend(s)] = Null]
        /\ UNCHANGED <<status, rewardStatus, rewardTag, tx, exec>>
    BY <1>2 DEF Debit, rewardVars, chainVars
  <2>2. Shape'
    BY <1>0, <2>1 DEF Shape, Tags
  <2>3. \A u \in Sessions : tag'[Refunded(u)] = tag[Refunded(u)]
                            /\ (tag'[Spend(u)] = tag[Spend(u)] \/ tag'[Spend(u)] = Null)
    BY <1>0, <2>1, RowFacts DEF Shape
  <2>4. LedgerInv'
    BY <1>0, <2>1, <2>3, TagFacts DEF LedgerInv, HasRow
  <2> QED BY <1>0, <2>1, <2>2, <2>4 DEF BatchInv, RewardsInv, WorkersInv
<1>3. CASE RefundTicket(s)
  <2>1. /\ tag' = [tag EXCEPT ![Refunded(s)] = Null] /\ status[s] = "VOIDED"
        /\ UNCHANGED <<status, rewardStatus, rewardTag, tx, exec>>
    BY <1>3 DEF RefundTicket, RefundAllowed, rewardVars, chainVars
  <2>2. Shape'
    BY <1>0, <2>1 DEF Shape, Tags
  <2>3. \A u \in Sessions : /\ tag'[Spend(u)] = tag[Spend(u)]
                            /\ u # s => tag'[Refunded(u)] = tag[Refunded(u)]
    BY <1>0, <2>1, RowFacts DEF Shape
  <2>4. LedgerInv'
    BY <1>0, <2>1, <2>3 DEF LedgerInv, HasRow
  <2> QED BY <1>0, <2>1, <2>2, <2>4 DEF BatchInv, RewardsInv, WorkersInv
<1>4. ASSUME NEW o \in {"ENDED", "VOIDED"}, CloseSession(s, o) PROVE BatchInv'
  <2>1. /\ status' = [status EXCEPT ![s] = o] /\ status[s] = "ACTIVE"
        /\ UNCHANGED <<tag, rewardStatus, rewardTag, tx, exec>>
    BY <1>4 DEF CloseSession, rewardVars, chainVars
  <2>2. Shape'
    BY <1>0, <2>1 DEF Shape, SessionStates
  <2>3. WorkersInv'
    BY <1>0, <2>1, RunsMove DEF Shape
  <2> QED BY <1>0, <2>1, <2>2, <2>3 DEF BatchInv, LedgerInv, RewardsInv, HasRow, Shape
<1> QED BY <1>1, <1>2, <1>3, <1>4

----------------------------------------------------------------------------
(* The spend worker's reads                                                *)

\* A tick's rows are rows of the table it read.
LEMMA ReadRows ==
    ASSUME NEW n, NEW S, NEW rows \in AtMost(n, S)
    PROVE  rows \subseteq S
BY DEF AtMost, kSubset

\* What is enough when only the workers' memory changed.
LEMMA MemoryMoves ==
    ASSUME BatchInv, exec' \in [Workers -> Exec], WorkersInv',
           UNCHANGED <<status, tag, rewardStatus, rewardTag, tx>>
    PROVE  BatchInv'
BY DEF BatchInv, Shape, LedgerInv, RewardsInv, HasRow

LEMMA SpendReads ==
    ASSUME BatchInv, SpendTick \/ ReadPendingSpends \/ FilterTerminalSpends \/ DropRefunded
    PROVE  BatchInv'
<1>0. Shape /\ WorkersInv /\ exec \in [Workers -> Exec]
  BY DEF BatchInv, Shape
<1>1. exec["spend"] \in Exec /\ "spend" \in Workers /\ WorkerOK("spend", exec["spend"], status, tx)
  BY <1>0, WorkerNames DEF WorkersInv
<1>2. ASSUME NEW x \in Exec, exec' = [exec EXCEPT !["spend"] = x], WorkerOK("spend", x, status, tx),
             x.pc \notin Sending, UNCHANGED <<status, tag, rewardStatus, rewardTag, tx>>
      PROVE  BatchInv'
  BY <1>0, <1>1, <1>2, WorkerMoves, MemoryMoves
<1>3. ASSUME NEW rows, NEW pc \in {"statuses", "refunds", "sign"}, Continue(rows, pc),
             rows \subseteq LedgerRows, \A r \in rows : r[1] = "SPEND",
             pc # "statuses" => \A r \in rows : status[r[2]] = "ENDED",
             UNCHANGED <<status, tag, rewardStatus, rewardTag, tx>>
      PROVE  BatchInv'
  <2>1. CASE rows = {}
    <3>1. EndTick("spend")
      BY <1>3, <2>1 DEF Continue
    <3> QED BY <1>0, <1>1, <1>3, <3>1, TickEnds, MemoryMoves
  <2>2. CASE rows # {}
    <3> DEFINE x == [exec["spend"] EXCEPT !.rows = rows, !.pc = pc]
    <3>1. x \in Exec /\ x.pc = pc /\ x.rows = rows
      BY <1>1, <1>3 DEF Exec, Pcs, SpendPcs
    <3>2. exec' = [exec EXCEPT !["spend"] = x]
      BY <1>3, <2>2 DEF Continue
    <3> HIDE DEF x
    <3>3. WorkerOK("spend", x, status, tx) /\ x.pc \notin Sending
      BY <1>3, <3>1 DEF WorkerOK, Sending, Chosen
    <3> QED BY <1>2, <1>3, <3>1, <3>2, <3>3
  <2> QED BY <2>1, <2>2
<1>4. CASE SpendTick
  <2>1. PICK rows \in IF faults' = faults THEN AtMost(2 * Limit, Pending) ELSE {{}} :
          exec' = [exec EXCEPT !["spend"] = [Idle EXCEPT !.rows = NetZeroRows(rows),
                     !.pc = IF NetZeroRows(rows) = {} THEN "read" ELSE "stamp"]]
    BY <1>4 DEF SpendTick
  <2> DEFINE x == [Idle EXCEPT !.rows = NetZeroRows(rows),
                     !.pc = IF NetZeroRows(rows) = {} THEN "read" ELSE "stamp"]
  <2>2. rows \subseteq LedgerRows
    BY ReadRows DEF Pending
  <2>3. NetZeroRows(rows) \subseteq LedgerRows
    BY <2>2 DEF NetZeroRows
  <2>4. x \in Exec /\ x.pc \in {"read", "stamp"}
    BY <2>3 DEF Idle, Exec, Pcs, SpendPcs
  <2>5. exec' = [exec EXCEPT !["spend"] = x]
    BY <2>1
  <2> HIDE DEF x
  <2>6. WorkerOK("spend", x, status, tx) /\ x.pc \notin Sending
    BY <2>4 DEF WorkerOK, Sending, Chosen
  <2> QED BY <1>2, <1>4, <2>4, <2>5, <2>6 DEF SpendTick, gameVars, rewardVars, chainVars
<1>5. CASE ReadPendingSpends
  <2>1. PICK rows \in AtMost(Limit, {r \in LedgerRows : r[1] = "SPEND" /\ Untagged(r)}) :
          Continue(rows, "statuses")
    BY <1>5 DEF ReadPendingSpends
  <2>2. rows \subseteq LedgerRows /\ \A r \in rows : r[1] = "SPEND"
    BY ReadRows
  <2> QED BY <1>3, <1>5, <2>1, <2>2 DEF ReadPendingSpends, gameVars, rewardVars, chainVars
<1>6. CASE FilterTerminalSpends
  <2> DEFINE rows == {r \in exec["spend"].rows : Terminal(r[2])}
  <2>1. /\ Continue(rows, "refunds") /\ exec["spend"].pc = "statuses"
        /\ UNCHANGED <<status, tag, rewardStatus, rewardTag, tx>>
    BY <1>6 DEF FilterTerminalSpends, gameVars, rewardVars, chainVars
  <2>2. \A r \in rows : r \in LedgerRows /\ r[1] = "SPEND" /\ status[r[2]] = "ENDED"
    BY <1>1, <2>1 DEF WorkerOK, Terminal
  <2> HIDE DEF rows
  <2> QED BY <1>3, <2>1, <2>2
<1>7. CASE DropRefunded
  <2> DEFINE refunds == {Refunded(r[2]) : r \in exec["spend"].rows} \cap {r \in LedgerRows : HasRow(r)}
             rows == Spendable(exec["spend"].rows \cup refunds)
  <2>1. /\ Continue(rows, "sign") /\ exec["spend"].pc = "refunds"
        /\ UNCHANGED <<status, tag, rewardStatus, rewardTag, tx>>
    BY <1>7 DEF DropRefunded, gameVars, rewardVars, chainVars
  <2>2. \A r \in exec["spend"].rows : r \in LedgerRows /\ r[1] = "SPEND" /\ status[r[2]] = "ENDED"
    BY <1>1, <2>1 DEF WorkerOK, Chosen
  <2>3. rows \subseteq exec["spend"].rows
    <3>1. \A r \in refunds : r[1] # "SPEND"
      BY DEF Refunded
    <3> HIDE DEF refunds
    <3> QED BY <3>1 DEF Spendable
  <2> HIDE DEF rows
  <2> QED BY <1>3, <2>1, <2>2, <2>3
<1> QED BY <1>4, <1>5, <1>6, <1>7

LEMMA StampKeeps ==
    ASSUME BatchInv, SettleNetZero
    PROVE  BatchInv'
<1>0. Shape /\ WorkersInv /\ LedgerInv /\ RewardsInv /\ "spend" \in Workers
  BY WorkerNames DEF BatchInv
<1>1. /\ Step("spend", "read") /\ UNCHANGED <<status, rewardStatus, rewardTag, tx>>
      /\ \/ tag' = [r \in LedgerRows |-> IF Stamped(r) THEN NetZero ELSE tag[r]]
         \/ tag' = tag
  BY DEF SettleNetZero, gameVars, rewardVars, chainVars
<1>2. exec' \in [Workers -> Exec] /\ WorkersInv'
  <2>1. exec["spend"] \in Exec /\ WorkerOK("spend", exec["spend"], status, tx) /\ "read" \in Pcs
    BY <1>0 DEF Shape, WorkersInv, Pcs, SpendPcs
  <2>2. WorkerOK("spend", [exec["spend"] EXCEPT !.pc = "read"], status, tx) /\ "read" \notin Sending
    BY <2>1 DEF WorkerOK, Sending, Chosen, Exec
  <2> QED BY <1>0, <1>1, <2>1, <2>2, TickGoesOn
<1>3. \A r \in LedgerRows : tag'[r] \in Tags /\ (tag'[r] \in Txs => tag'[r] = tag[r])
                            /\ (tag'[r] = Absent <=> tag[r] = Absent)
  BY <1>0, <1>1, TagFacts DEF Shape, Tags, Stamped
<1>4. tag' \in [LedgerRows -> Tags]
  BY <1>0, <1>1, <1>3 DEF Shape
<1>5. Shape'
  BY <1>0, <1>1, <1>2, <1>4 DEF Shape
<1>6. LedgerInv'
  BY <1>0, <1>1, <1>3, RowFacts DEF LedgerInv, HasRow
<1>7. RewardsInv'
  BY <1>0, <1>1 DEF RewardsInv
<1> QED BY <1>2, <1>5, <1>6, <1>7 DEF BatchInv

----------------------------------------------------------------------------
(* The reward worker's recovery                                            *)

LEMMA RewardReads ==
    ASSUME BatchInv, RewardTick \/ ReadPendingRewards
    PROVE  BatchInv'
<1>0. Shape /\ WorkersInv /\ "reward" \in Workers /\ exec["reward"] \in Exec
  BY WorkerNames DEF BatchInv, Shape
<1>1. ASSUME NEW x \in Exec, exec' = [exec EXCEPT !["reward"] = x], x.pc \in {"recover", "sign"},
             UNCHANGED <<status, tag, rewardStatus, rewardTag, tx>>
      PROVE  BatchInv'
  <2>1. WorkerOK("reward", x, status, tx) /\ x.pc \notin Sending
    BY <1>1 DEF WorkerOK, Sending
  <2> QED BY <1>0, <1>1, <2>1, WorkerMoves, MemoryMoves
<1>2. CASE RewardTick
  <2> DEFINE hashes == IF faults' = faults THEN {rewardTag[r] : r \in {q \in Rewards : InFlight(q)}} ELSE {}
             x == [Idle EXCEPT !.pc = "recover", !.hashes = hashes]
  <2>1. hashes \subseteq Txs
    BY <1>0 DEF InFlight, Shape
  <2>2. exec' = [exec EXCEPT !["reward"] = x]
    BY <1>2 DEF RewardTick
  <2> HIDE DEF hashes
  <2>3. x \in Exec /\ x.pc = "recover"
    BY <2>1 DEF Idle, Exec, Pcs, RewardPcs
  <2> HIDE DEF x
  <2> QED BY <1>1, <1>2, <2>2, <2>3 DEF RewardTick, gameVars, rewardVars, chainVars
<1>3. CASE ReadPendingRewards
  <2>1. PICK rows \in AtMost(Limit, {r \in Rewards : rewardStatus[r] = "PENDING" /\ rewardTag[r] = Null}) :
          LET paid == {r \in rows : RewardOf[r] > 0}
          IN  IF paid = {} THEN EndTick("reward")
              ELSE exec' = [exec EXCEPT !["reward"] = [Idle EXCEPT !.rows = paid, !.pc = "sign"]]
    BY <1>3 DEF ReadPendingRewards
  <2> DEFINE paid == {r \in rows : RewardOf[r] > 0}
             x == [Idle EXCEPT !.rows = paid, !.pc = "sign"]
  <2>2. paid \subseteq Rewards
    BY ReadRows
  <2>3. UNCHANGED <<status, tag, rewardStatus, rewardTag, tx>>
    BY <1>3 DEF ReadPendingRewards, gameVars, rewardVars, chainVars
  <2>4. EndTick("reward") \/ exec' = [exec EXCEPT !["reward"] = x]
    BY <2>1
  <2> HIDE DEF paid
  <2>5. x \in Exec /\ x.pc = "sign"
    BY <2>2 DEF Idle, Exec, Pcs
  <2> HIDE DEF x
  <2> QED BY <1>0, <1>1, <2>3, <2>4, <2>5, TickEnds, MemoryMoves
<1> QED BY <1>2, <1>3

\* Rows are marked as credited for a transaction that succeeded.
LEMMA MarkKeeps ==
    ASSUME BatchInv, NEW t \in Txs, Confirmed(t), MarkCredited(t),
           UNCHANGED <<status, tag, rewardTag, tx>>, exec' \in [Workers -> Exec], WorkersInv'
    PROVE  BatchInv'
<1>0. Shape /\ LedgerInv /\ RewardsInv
  BY DEF BatchInv
<1>1. /\ rewardStatus' \in [Rewards -> {"NONE", "PENDING", "CREDITED"}]
      /\ \A r \in Rewards : rewardStatus'[r] = "CREDITED" =>
            rewardStatus[r] = "CREDITED" \/ rewardTag[r] = t
  BY <1>0 DEF MarkCredited, Shape
<1>2. RewardsInv'
  BY <1>0, <1>1 DEF RewardsInv, Confirmed
<1>3. Shape' /\ LedgerInv'
  BY <1>0, <1>1 DEF Shape, LedgerInv, HasRow
<1> QED BY <1>2, <1>3 DEF BatchInv

LEMMA RecoverKeeps ==
    ASSUME BatchInv, NEW t \in Txs, RecoverBatch(t)
    PROVE  BatchInv'
<1>0. Shape /\ WorkersInv /\ "reward" \in Workers /\ exec["reward"] \in Exec
  BY WorkerNames DEF BatchInv, Shape
<1> DEFINE x == [exec["reward"] EXCEPT !.hashes = @ \ {t}]
<1>1. /\ exec["reward"].pc = "recover" /\ exec' = [exec EXCEPT !["reward"] = x]
      /\ UNCHANGED <<status, tag, rewardTag, tx>>
      /\ \/ Confirmed(t) /\ MarkCredited(t)
         \/ UNCHANGED rewardStatus
  BY <1>0 DEF RecoverBatch, gameVars, chainVars, Shape
<1>2. x \in Exec /\ x.pc = "recover"
  BY <1>0, <1>1 DEF Exec
<1> HIDE DEF x
<1>3. WorkerOK("reward", x, status, tx) /\ x.pc \notin Sending
  BY <1>2 DEF WorkerOK, Sending
<1>4. exec' \in [Workers -> Exec] /\ WorkersInv'
  BY <1>0, <1>1, <1>2, <1>3, WorkerMoves
<1> QED BY <1>1, <1>4, MarkKeeps, MemoryMoves

LEMMA CreditKeeps ==
    ASSUME BatchInv, CreditBatchRows
    PROVE  BatchInv'
<1>0. Shape /\ WorkersInv /\ "reward" \in Workers /\ WorkerOK("reward", exec["reward"], status, tx)
  BY WorkerNames DEF BatchInv, WorkersInv
<1>1. /\ exec["reward"].pc = "credit" /\ EndTick("reward")
      /\ UNCHANGED <<status, tag, rewardTag, tx>>
      /\ MarkCredited(exec["reward"].tx) \/ UNCHANGED rewardStatus
  BY DEF CreditBatchRows, gameVars, chainVars
<1>2. exec["reward"].tx \in Txs /\ Confirmed(exec["reward"].tx)
  BY <1>0, <1>1 DEF WorkerOK, Confirmed
<1>3. exec' \in [Workers -> Exec] /\ WorkersInv'
  BY <1>0, <1>1, TickEnds
<1> QED BY <1>1, <1>2, <1>3, MarkKeeps, MemoryMoves

----------------------------------------------------------------------------
(* Sign, tag, broadcast, wait                                              *)

LEMMA SignKeeps ==
    ASSUME BatchInv, NEW k \in Workers, SignBatch(k)
    PROVE  BatchInv'
<1>0. Shape /\ WorkersInv /\ LedgerInv /\ RewardsInv /\ exec[k] \in Exec
  BY DEF BatchInv, Shape
<1>1. exec[k].pc = "sign" /\ UNCHANGED <<status, tag, rewardStatus, rewardTag>>
  BY DEF SignBatch, gameVars, rewardVars
<1>2. CASE EndTick(k) /\ UNCHANGED tx
  BY <1>0, <1>1, <1>2, TickEnds, MemoryMoves
<1>3. CASE \E t \in Txs :
              /\ tx[t].state = "unused" /\ \A u \in 1..(t - 1) : tx[u].state # "unused"
              /\ tx' = [tx EXCEPT ![t] = [kind |-> k, rows |-> exec[k].rows,
                                          nonce |-> PendingNonce, state |-> "signed"]]
              /\ exec' = [exec EXCEPT ![k].tx = t, ![k].pc = "tag"]
  <2> DEFINE new == [kind |-> k, rows |-> exec[k].rows, nonce |-> PendingNonce, state |-> "signed"]
  <2>1. PICK t \in Txs : /\ tx[t].state = "unused" /\ tx' = [tx EXCEPT ![t] = new]
                         /\ exec' = [exec EXCEPT ![k].tx = t, ![k].pc = "tag"]
    BY <1>3
  <2>2. IsTx(new) /\ new.state = "signed"
    BY DEF IsTx, TxStates
  <2> HIDE DEF new
  <2>3. /\ DOMAIN tx' = Txs /\ tx' = [u \in Txs |-> tx'[u]]
        /\ tx'[t] = new /\ \A u \in Txs \ {t} : tx'[u] = tx[u]
    BY <1>0, <2>1 DEF Shape
  <2>4. \A u \in Txs : IsTx(tx'[u])
    BY <1>0, <2>2, <2>3 DEF Shape
  <2> DEFINE x == [exec[k] EXCEPT !.tx = t, !.pc = "tag"]
  <2>5. x \in Exec /\ x.pc = "tag" /\ x.tx = t /\ x.rows = exec[k].rows
    BY <1>0 DEF Exec, Pcs
  <2>6. exec' = [exec EXCEPT ![k] = x]
    BY <2>1 DEF Shape
  <2> HIDE DEF x
  <2>7. exec' \in [Workers -> Exec] /\ exec'[k] = x /\ \A j \in Workers \ {k} : exec'[j] = exec[j]
    BY <1>0, <2>5, <2>6 DEF Shape
  <2>8. ASSUME NEW j \in Workers \ {k}
        PROVE  WorkerOK(j, exec[j], status, tx') /\ (exec[j].pc \in Sending => exec[j].tx # t)
    <3>1. exec[j] \in Exec /\ WorkerOK(j, exec[j], status, tx)
      BY <1>0 DEF WorkersInv, Shape
    <3>2. exec[j].pc \in Sending => exec[j].tx \in Txs \ {t}
      BY <2>1, <3>1 DEF WorkerOK
    <3>3. exec[j].pc \in Sending => tx'[exec[j].tx].state = "signed"
      BY <2>3, <3>1, <3>2 DEF WorkerOK
    <3>4. \A u \in Txs : tx[u].state = "success" => tx'[u].state = "success"
      BY <2>1, <2>3
    <3> QED BY <3>1, <3>2, <3>3, <3>4, WorkerStays
  <2>9. WorkerOK(k, x, status, tx')
    <3>1. WorkerOK(k, exec[k], status, tx)
      BY <1>0 DEF WorkersInv
    <3> QED BY <1>1, <2>2, <2>3, <2>5, <3>1 DEF WorkerOK, Sending, Chosen
  <2>10. WorkersInv'
    <3>1. \A j \in Workers : WorkerOK(j, exec'[j], status', tx')
      BY <1>1, <2>7, <2>8, <2>9
    <3>2. exec'["spend"].pc \in Sending /\ exec'["reward"].pc \in Sending =>
              exec'["spend"].tx # exec'["reward"].tx
      BY <2>5, <2>7, <2>8, WorkerNames
    <3> QED BY <3>1, <3>2 DEF WorkersInv
  <2>11. RewardsInv'
    BY <1>0, <1>1, <2>1, <2>3 DEF RewardsInv
  <2>12. LedgerInv' /\ Shape'
    BY <1>0, <1>1, <2>3, <2>4, <2>7 DEF LedgerInv, HasRow, Shape
  <2> QED BY <2>10, <2>11, <2>12 DEF BatchInv
<1> QED BY <1>2, <1>3 DEF SignBatch

LEMMA TagKeeps ==
    ASSUME BatchInv, NEW k \in Workers, TagBatch(k)
    PROVE  BatchInv'
<1>0. Shape /\ WorkersInv /\ LedgerInv /\ RewardsInv /\ exec[k] \in Exec
      /\ WorkerOK(k, exec[k], status, tx)
  BY DEF BatchInv, Shape, WorkersInv
<1>1. /\ exec[k].pc = "tag" /\ UNCHANGED <<status, rewardStatus, tx>>
      /\ Step(k, "broadcast") \/ EndTick(k)
      /\ WriteTag(k) \/ UNCHANGED <<tag, rewardTag>>
  BY DEF TagBatch, gameVars, chainVars
<1>2. exec[k].tx \in Txs
  BY <1>0, <1>1 DEF WorkerOK, Sending
<1>3. exec' \in [Workers -> Exec] /\ WorkersInv'
  <2>1. WorkerOK(k, [exec[k] EXCEPT !.pc = "broadcast"], status, tx)
    BY <1>0, <1>1 DEF WorkerOK, Sending, Chosen, Exec
  <2>2. "broadcast" \in Pcs /\ exec[k].pc \in Sending
    BY <1>1 DEF Pcs, Sending
  <2> QED BY <1>0, <1>1, <2>1, <2>2, TickEnds, TickGoesOn
<1>4. CASE UNCHANGED <<tag, rewardTag>>
  BY <1>1, <1>3, <1>4, MemoryMoves
<1>5. CASE WriteTag(k) /\ k = "spend"
  <2>1. /\ tag' = [r \in LedgerRows |-> IF r \in exec[k].rows /\ tag[r] = Null THEN exec[k].tx ELSE tag[r]]
        /\ rewardTag' = rewardTag
    BY <1>5 DEF WriteTag
  <2>2. \A r \in exec[k].rows : r \in LedgerRows /\ r[1] = "SPEND" /\ status[r[2]] = "ENDED"
    BY <1>0, <1>1, <1>5 DEF WorkerOK, Chosen
  <2>3. tag' \in [LedgerRows -> Tags]
    BY <1>0, <1>2, <2>1 DEF Shape, Tags
  <2>4. \A s \in Sessions : /\ Refunded(s) \notin exec[k].rows
                            /\ Spend(s) \in exec[k].rows => status[s] = "ENDED"
    <3>1. \A s \in Sessions : Refunded(s)[1] = "REFUND" /\ Spend(s)[2] = s
      BY DEF Refunded, Spend
    <3> QED BY <2>2, <3>1
  <2>5. LedgerInv'
    BY <1>0, <1>1, <2>1, <2>4, RowFacts DEF LedgerInv, HasRow
  <2>6. Shape' /\ RewardsInv'
    BY <1>0, <1>1, <1>3, <2>1, <2>3 DEF Shape, RewardsInv
  <2> QED BY <1>3, <2>5, <2>6 DEF BatchInv
<1>6. CASE WriteTag(k) /\ k # "spend"
  <2>1. /\ rewardTag' = [r \in Rewards |-> IF r \in exec[k].rows /\ rewardStatus[r] = "PENDING"
                             /\ rewardTag[r] = Null THEN exec[k].tx ELSE rewardTag[r]]
        /\ tag' = tag
    BY <1>6 DEF WriteTag
  <2>2. rewardTag' \in [Rewards -> {Null} \cup Txs]
    BY <1>0, <1>2, <2>1 DEF Shape
  <2>3. \A r \in Rewards : rewardStatus[r] = "CREDITED" => rewardTag'[r] = rewardTag[r]
    BY <2>1
  <2>4. Shape' /\ RewardsInv' /\ LedgerInv'
    BY <1>0, <1>1, <1>3, <2>1, <2>2, <2>3 DEF Shape, RewardsInv, LedgerInv, HasRow
  <2> QED BY <1>3, <2>4 DEF BatchInv
<1> QED BY <1>1, <1>4, <1>5, <1>6

LEMMA StateFacts ==
    ASSUME NEW x, IsTx(x), NEW v \in TxStates
    PROVE  IsTx([x EXCEPT !.state = v]) /\ [x EXCEPT !.state = v].state = v
BY DEF IsTx

LEMMA BroadcastKeeps ==
    ASSUME BatchInv, NEW k \in Workers, Broadcast(k)
    PROVE  BatchInv'
<1>0. Shape /\ WorkersInv /\ LedgerInv /\ RewardsInv /\ exec[k] \in Exec
      /\ WorkerOK(k, exec[k], status, tx)
  BY DEF BatchInv, Shape, WorkersInv
<1> DEFINE t == exec[k].tx
           rivals == {u \in Txs : tx[u].state = "pool" /\ tx[u].nonce = tx[t].nonce}
           sent == [u \in Txs |-> IF u = t THEN [tx[u] EXCEPT !.state = "pool"]
                       ELSE IF u \in rivals THEN [tx[u] EXCEPT !.state = "gone"] ELSE tx[u]]
<1>1. /\ exec[k].pc = "broadcast" /\ UNCHANGED <<status, tag, rewardStatus, rewardTag>>
      /\ \/ tx' = sent /\ (Step(k, "wait") \/ EndTick(k))
         \/ tx' = tx /\ EndTick(k)
  BY DEF Broadcast, gameVars, rewardVars
<1>2. t \in Txs /\ tx[t].state = "signed"
  BY <1>0, <1>1 DEF WorkerOK, Sending
<1>3. CASE tx' = tx /\ EndTick(k)
  BY <1>0, <1>1, <1>3, TickEnds, MemoryMoves
<1>4. CASE tx' = sent /\ (Step(k, "wait") \/ EndTick(k))
  <2>1. \A u \in Txs : IsTx(tx'[u]) /\ (tx[u].state \in {"signed", "success"} /\ u # t => tx'[u] = tx[u])
    <3>1. ASSUME NEW u \in Txs PROVE IsTx(tx'[u])
      <4>1. IsTx(tx[u]) /\ "pool" \in TxStates /\ "gone" \in TxStates
        BY <1>0 DEF Shape, TxStates
      <4> HIDE DEF t, rivals
      <4> QED BY <1>4, <4>1, StateFacts
    <3>2. ASSUME NEW u \in Txs, tx[u].state \in {"signed", "success"}, u # t PROVE tx'[u] = tx[u]
      BY <1>4, <3>2
    <3> QED BY <3>1, <3>2
  <2>2. DOMAIN tx' = Txs /\ tx' = [u \in Txs |-> tx'[u]]
    BY <1>4
  <2>3. \E x \in Exec : /\ exec' = [exec EXCEPT ![k] = x] /\ x.pc \notin Sending
                        /\ WorkerOK(k, x, status, tx')
    <3>1. CASE EndTick(k)
      BY <3>1, IdleFacts DEF EndTick, Sending
    <3>2. CASE Step(k, "wait")
      <4> DEFINE x == [exec[k] EXCEPT !.pc = "wait"]
      <4>1. x \in Exec /\ x.pc = "wait" /\ x.tx = t /\ x.rows = exec[k].rows
        BY <1>0 DEF Exec, Pcs
      <4>2. exec' = [exec EXCEPT ![k] = x]
        BY <3>2 DEF Step
      <4> HIDE DEF x
      <4>3. WorkerOK(k, x, status, tx') /\ x.pc \notin Sending
        BY <1>0, <1>1, <1>2, <4>1 DEF WorkerOK, Sending, Chosen
      <4> QED BY <4>1, <4>2, <4>3
    <3> QED BY <1>4, <3>1, <3>2
  <2>4. PICK x \in Exec : /\ exec' = [exec EXCEPT ![k] = x] /\ x.pc \notin Sending
                          /\ WorkerOK(k, x, status, tx')
    BY <2>3
  <2>5. exec' \in [Workers -> Exec] /\ exec'[k] = x /\ \A j \in Workers \ {k} : exec'[j] = exec[j]
    BY <1>0, <2>4 DEF Shape
  <2> HIDE DEF t, sent
  <2>6. ASSUME NEW j \in Workers \ {k} PROVE WorkerOK(j, exec[j], status, tx')
    <3>1. exec[j] \in Exec /\ WorkerOK(j, exec[j], status, tx)
      BY <1>0 DEF WorkersInv, Shape
    <3>2. exec[j].pc \in Sending => exec[j].tx \in Txs /\ exec[j].tx # t
      BY <1>0, <1>1, <3>1, WorkerNames DEF WorkersInv, WorkerOK, Sending, t
    <3>3. exec[j].pc \in Sending => tx'[exec[j].tx].state = "signed"
      BY <2>1, <3>1, <3>2 DEF WorkerOK
    <3>4. \A u \in Txs : tx[u].state = "success" => tx'[u].state = "success"
      BY <1>2, <2>1
    <3> QED BY <3>1, <3>3, <3>4, WorkerStays
  <2>7. WorkersInv'
    <3>1. \A j \in Workers : WorkerOK(j, exec'[j], status', tx')
      BY <1>1, <2>4, <2>5, <2>6
    <3>2. ~(exec'["spend"].pc \in Sending /\ exec'["reward"].pc \in Sending)
      BY <2>4, <2>5, WorkerNames
    <3> QED BY <3>1, <3>2 DEF WorkersInv
  <2>8. RewardsInv'
    BY <1>0, <1>1, <1>2, <2>1 DEF RewardsInv
  <2>9. LedgerInv' /\ Shape'
    BY <1>0, <1>1, <2>1, <2>2, <2>5 DEF LedgerInv, HasRow, Shape
  <2> QED BY <2>7, <2>8, <2>9 DEF BatchInv
<1> QED BY <1>1, <1>3, <1>4

LEMMA WaitKeeps ==
    ASSUME BatchInv, NEW k \in Workers, WaitForReceipt(k)
    PROVE  BatchInv'
<1>0. Shape /\ WorkersInv /\ exec[k] \in Exec /\ WorkerOK(k, exec[k], status, tx)
  BY DEF BatchInv, Shape, WorkersInv
<1>1. /\ exec[k].pc = "wait" /\ UNCHANGED <<status, tag, rewardStatus, rewardTag, tx>>
      /\ \/ EndTick(k)
         \/ k = "reward" /\ Confirmed(exec[k].tx) /\ Step(k, "credit")
  BY DEF WaitForReceipt, gameVars, rewardVars, chainVars
<1>2. ASSUME k = "reward", Confirmed(exec[k].tx), Step(k, "credit") PROVE BatchInv'
  <2>1. WorkerOK(k, [exec[k] EXCEPT !.pc = "credit"], status, tx) /\ "credit" \in Pcs /\ "credit" \notin Sending
    BY <1>0, <1>1, <1>2 DEF WorkerOK, Confirmed, Sending, Chosen, Exec, Pcs, RewardPcs
  <2> QED BY <1>0, <1>1, <1>2, <2>1, TickGoesOn, MemoryMoves
<1> QED BY <1>0, <1>1, <1>2, TickEnds, MemoryMoves

LEMMA RestartKeeps ==
    ASSUME BatchInv, Restart
    PROVE  BatchInv'
<1>1. exec' = [k \in Workers |-> Idle] /\ UNCHANGED <<status, tag, rewardStatus, rewardTag, tx>>
  BY DEF Restart, gameVars, rewardVars, chainVars
<1>2. exec' \in [Workers -> Exec] /\ WorkersInv'
  BY <1>1, IdleFacts, WorkerNames DEF WorkersInv, Sending
<1> QED BY <1>1, <1>2, MemoryMoves

----------------------------------------------------------------------------
(* The chain                                                               *)

LEMMA ChainKeeps ==
    ASSUME BatchInv, NEW t \in Txs, Mine(t) \/ Drop(t)
    PROVE  BatchInv'
<1>0. Shape /\ WorkersInv /\ LedgerInv /\ RewardsInv
  BY DEF BatchInv
<1>1. /\ tx[t].state = "pool"
      /\ \E v \in {"success", "reverted", "gone"} : tx' = [tx EXCEPT ![t].state = v]
      /\ UNCHANGED <<status, tag, rewardStatus, rewardTag, exec>>
  BY DEF Mine, Drop, gameVars, rewardVars
<1>2. PICK v \in {"success", "reverted", "gone"} : tx' = [tx EXCEPT ![t].state = v]
  BY <1>1
<1>3. /\ DOMAIN tx' = Txs /\ tx' = [u \in Txs |-> tx'[u]]
      /\ tx'[t] = [tx[t] EXCEPT !.state = v] /\ \A u \in Txs \ {t} : tx'[u] = tx[u]
  BY <1>0, <1>2 DEF Shape
<1>4. \A u \in Txs : IsTx(tx'[u])
  <2>1. IsTx(tx[t]) /\ v \in TxStates /\ \A u \in Txs : IsTx(tx[u])
    BY <1>0 DEF Shape, TxStates
  <2> QED BY <1>3, <2>1, StateFacts
<1>5. \A u \in Txs : tx[u].state \in {"signed", "success"} => tx'[u].state = tx[u].state
  BY <1>1, <1>3
<1>6. WorkersInv' /\ RewardsInv'
  BY <1>0, <1>1, <1>3, <1>4, <1>5, TransactionsMove
<1>7. LedgerInv' /\ Shape'
  BY <1>0, <1>1, <1>3, <1>4 DEF LedgerInv, HasRow, Shape
<1> QED BY <1>6, <1>7 DEF BatchInv

LEMMA BatchStep == BatchInv /\ [Next]_vars => BatchInv'
<1> SUFFICES ASSUME BatchInv, [Next]_vars PROVE BatchInv'
  OBVIOUS
<1>0. Shape /\ WorkersInv /\ LedgerInv /\ RewardsInv
  BY DEF BatchInv
<1>1. ASSUME UNCHANGED <<status, tag, rewardStatus, rewardTag, tx, exec>> PROVE BatchInv'
  BY <1>0, <1>1 DEF BatchInv, Shape, WorkersInv, LedgerInv, RewardsInv, HasRow
<1>2. CASE GameStep
  BY <1>2, GameKeeps
<1>3. ASSUME NEW r \in Rewards, QueueReward(r) PROVE BatchInv'
  <2>1. /\ rewardStatus' = [rewardStatus EXCEPT ![r] = "PENDING"]
        /\ UNCHANGED <<status, tag, rewardTag, tx, exec>>
    BY <1>3 DEF QueueReward, gameVars, chainVars
  <2> QED BY <1>0, <2>1 DEF BatchInv, Shape, WorkersInv, LedgerInv, RewardsInv, HasRow
<1>4. ASSUME NEW k \in Workers, WorkerStep(k) PROVE BatchInv'
  BY <1>4, SignKeeps, TagKeeps, BroadcastKeeps, WaitKeeps DEF WorkerStep
<1>5. CASE SpendStep
  BY <1>4, <1>5, SpendReads, StampKeeps, WorkerNames DEF SpendStep
<1>6. CASE RewardStep
  BY <1>4, <1>6, RewardReads, RecoverKeeps, CreditKeeps, WorkerNames DEF RewardStep
<1>7. ASSUME NEW k \in Workers, ReadFails(k) PROVE BatchInv'
  BY <1>0, <1>7, TickEnds, MemoryMoves DEF ReadFails, gameVars, rewardVars, chainVars
<1>8. CASE Restart
  BY <1>8, RestartKeeps
<1>9. ASSUME NEW t \in Txs, Mine(t) \/ Drop(t) PROVE BatchInv'
  BY <1>9, ChainKeeps
<1>10. ASSUME NEW log \in unseen, MirrorCredit(log) PROVE BatchInv'
  BY <1>1, <1>10 DEF MirrorCredit, rewardVars
<1>11. CASE OwnerSetsOperator
  BY <1>1, <1>11 DEF OwnerSetsOperator, gameVars, rewardVars, chainVars
<1>12. CASE UNCHANGED vars
  BY <1>1, <1>12 DEF vars, gameVars, rewardVars, chainVars
<1> QED BY <1>2, <1>3, <1>5, <1>6, <1>7, <1>8, <1>9, <1>10, <1>11, <1>12 DEF Next

----------------------------------------------------------------------------
(* Rows and transactions: what a batch carries and what its rows say.      *)

SpendRows == {r \in LedgerRows : r[1] = "SPEND"}
Broadcasted == {"pool", "success", "reverted", "gone"}

\* Until it has tagged them, a worker's rows are free; from then on they name its
\* transaction, which carries them.
RowsOK(k, x, tg, rs, rt, txs) ==
    /\ x.pc \in Sending => txs[x.tx].kind = k /\ txs[x.tx].rows = x.rows
    /\ k = "spend" /\ x.pc \in {"statuses", "refunds", "sign", "tag"} =>
          \A r \in x.rows : r \in SpendRows /\ tg[r] = Null
    /\ k = "spend" /\ x.pc = "broadcast" => \A r \in x.rows : r \in SpendRows /\ tg[r] = x.tx
    /\ k = "reward" /\ x.pc \in {"sign", "tag"} =>
          \A r \in x.rows : r \in Rewards /\ rt[r] = Null /\ rs[r] = "PENDING"
    /\ k = "reward" /\ x.pc = "broadcast" => \A r \in x.rows : r \in Rewards /\ rt[r] = x.tx

Carries(x, k, r) == x.state # "unused" /\ x.kind = k /\ r \in x.rows

\* Every row that a broadcast transaction carries names it.
IsTagged(t, x, tg, rt) ==
    \/ x.kind = "spend" /\ \A r \in x.rows : r \in SpendRows /\ tg[r] = t
    \/ x.kind = "reward" /\ \A r \in x.rows : r \in Rewards /\ rt[r] = t

\* A log was emitted by a reward batch that succeeded.
IsCredit(x) == x.state = "success" /\ x.kind = "reward"

LinkInv ==
    /\ \A k \in Workers : RowsOK(k, exec[k], tag, rewardStatus, rewardTag, tx)
    /\ \A r \in LedgerRows : tag[r] \in Txs => Carries(tx[tag[r]], "spend", r)
    /\ \A r \in Rewards : rewardTag[r] \in Txs => Carries(tx[rewardTag[r]], "reward", r)
    /\ \A t \in Txs : tx[t].state \in Broadcasted => IsTagged(t, tx[t], tag, rewardTag)
    /\ \A s \in Sessions : HasRow(Refunded(s)) => HasRow(Spend(s))
    /\ \A log \in unseen : log \in Txs \X Wallets /\ IsCredit(tx[log[1]])

\* What a worker remembers of its rows stays true when they and its transaction do.
LEMMA RowsStay ==
    ASSUME NEW k, NEW x, NEW tg, NEW rs, NEW rt, NEW txs, NEW tg2, NEW rs2, NEW rt2, NEW txs2,
           RowsOK(k, x, tg, rs, rt, txs),
           x.pc \in Sending => txs2[x.tx].kind = txs[x.tx].kind /\ txs2[x.tx].rows = txs[x.tx].rows,
           k = "spend" /\ x.pc \in {"statuses", "refunds", "sign", "tag", "broadcast"} =>
              \A r \in x.rows : tg2[r] = tg[r],
           k = "reward" /\ x.pc \in {"sign", "tag", "broadcast"} =>
              \A r \in x.rows : rt2[r] = rt[r] /\ rs2[r] = rs[r]
    PROVE  RowsOK(k, x, tg2, rs2, rt2, txs2)
BY DEF RowsOK, Sending

LEMMA IdleRows == \A k, tg, rs, rt, txs : RowsOK(k, Idle, tg, rs, rt, txs)
BY IdleFacts DEF RowsOK, Sending

\* One worker moves on, the rest of the world as it was.
LEMMA LinksOfMove ==
    ASSUME Shape, LinkInv, NEW k \in Workers, NEW x, exec' = [exec EXCEPT ![k] = x],
           RowsOK(k, x, tag, rewardStatus, rewardTag, tx),
           UNCHANGED <<tag, rewardStatus, rewardTag, tx, unseen>>
    PROVE  LinkInv'
<1>1. \A j \in Workers : exec'[j] = IF j = k THEN x ELSE exec[j]
  BY DEF Shape
<1>2. \A j \in Workers : RowsOK(j, exec'[j], tag', rewardStatus', rewardTag', tx')
  BY <1>1 DEF LinkInv
<1> QED BY <1>2 DEF LinkInv, HasRow

LEMMA LinksOfEnd ==
    ASSUME Shape, LinkInv, NEW k \in Workers, EndTick(k),
           UNCHANGED <<tag, rewardStatus, rewardTag, tx, unseen>>
    PROVE  LinkInv'
BY IdleRows, LinksOfMove DEF EndTick

\* A row is written to the ledger.
LEMMA LinksOfRow ==
    ASSUME Shape, LinkInv, NEW row \in LedgerRows, ~HasRow(row), tag' = [tag EXCEPT ![row] = Null],
           \A s \in Sessions : row = Refunded(s) => HasRow(Spend(s)),
           UNCHANGED <<rewardStatus, rewardTag, tx, exec, unseen>>
    PROVE  LinkInv'
<1>0. tag[row] = Absent /\ Absent # Null /\ Absent \notin Txs /\ Null \notin Txs
  BY TagFacts DEF HasRow
<1>1. tag'[row] = Null /\ \A r \in LedgerRows \ {row} : tag'[r] = tag[r]
  BY DEF Shape
<1>2. ASSUME NEW k \in Workers PROVE RowsOK(k, exec[k], tag', rewardStatus, rewardTag, tx)
  <2>1. RowsOK(k, exec[k], tag, rewardStatus, rewardTag, tx)
    BY DEF LinkInv
  <2>2. exec[k].pc = "broadcast" => exec[k].tx \in Txs \/ exec[k].rows = {} \/ exec[k].tx = NoTx
    BY WorkerNames DEF Shape, Exec
  <2>3. k = "spend" /\ exec[k].pc \in {"statuses", "refunds", "sign", "tag", "broadcast"} =>
            \A r \in exec[k].rows : r \in LedgerRows \ {row}
    BY <1>0, <2>1, <2>2, TagFacts DEF RowsOK, SpendRows, NoTx, Absent
  <2> QED BY <1>1, <2>1, <2>3, RowsStay
<1>3. \A r \in LedgerRows : tag'[r] \in Txs => r # row /\ tag[r] \in Txs
  BY <1>0, <1>1
<1>4. ASSUME NEW t \in Txs, IsTagged(t, tx[t], tag, rewardTag) PROVE IsTagged(t, tx[t], tag', rewardTag)
  <2>1. \A r \in SpendRows : tag[r] = t => r # row
    BY <1>0 DEF SpendRows
  <2> QED BY <1>1, <1>4, <2>1 DEF IsTagged, SpendRows
<1>5. \A s \in Sessions : tag'[Refunded(s)] # Absent => tag'[Spend(s)] # Absent
  <2>1. \A s \in Sessions : Spend(s) \in LedgerRows /\ Refunded(s) \in LedgerRows
    BY RowFacts
  <2>2. \A r \in LedgerRows : tag[r] # Absent => tag'[r] # Absent
    BY <1>0, <1>1
  <2> QED BY <1>1, <2>1, <2>2 DEF LinkInv, HasRow
<1> QED BY <1>1, <1>2, <1>3, <1>4, <1>5 DEF LinkInv, HasRow

LEMMA GameLinks ==
    ASSUME Shape, LinkInv, GameStep
    PROVE  LinkInv'
<1> SUFFICES ASSUME NEW s \in Sessions,
                    \/ InsertSession(s) \/ Debit(s) \/ RefundTicket(s)
                    \/ \E o \in {"ENDED", "VOIDED"} : CloseSession(s, o)
             PROVE  LinkInv'
  BY DEF GameStep
<1>1. CASE InsertSession(s) \/ \E o \in {"ENDED", "VOIDED"} : CloseSession(s, o)
  <2>1. UNCHANGED <<tag, rewardStatus, rewardTag, tx, exec, unseen>>
    BY <1>1 DEF InsertSession, CloseSession, rewardVars, chainVars
  <2> QED BY <2>1 DEF LinkInv, HasRow
<1>2. CASE Debit(s)
  <2>1. /\ tag' = [tag EXCEPT ![Spend(s)] = Null] /\ ~HasRow(Spend(s))
        /\ UNCHANGED <<rewardStatus, rewardTag, tx, exec, unseen>>
    BY <1>2 DEF Debit, rewardVars, chainVars
  <2>2. \A u \in Sessions : Spend(s) # Refunded(u)
    BY RowFacts
  <2>3. Spend(s) \in LedgerRows
    BY RowFacts
  <2> QED BY <2>1, <2>2, <2>3, LinksOfRow
<1>3. CASE RefundTicket(s)
  <2>1. /\ tag' = [tag EXCEPT ![Refunded(s)] = Null] /\ ~HasRow(Refunded(s)) /\ HasRow(Spend(s))
        /\ UNCHANGED <<rewardStatus, rewardTag, tx, exec, unseen>>
    BY <1>3 DEF RefundTicket, RefundAllowed, rewardVars, chainVars
  <2>2. Refunded(s) \in LedgerRows /\ \A u \in Sessions : Refunded(s) = Refunded(u) => HasRow(Spend(u))
    BY <2>1, RowFacts
  <2> QED BY <2>1, <2>2, LinksOfRow
<1> QED BY <1>1, <1>2, <1>3

LEMMA SpendReadLinks ==
    ASSUME Shape, LinkInv, SpendTick \/ ReadPendingSpends \/ FilterTerminalSpends \/ DropRefunded
    PROVE  LinkInv'
<1>0. "spend" \in Workers /\ exec["spend"] \in Exec
      /\ RowsOK("spend", exec["spend"], tag, rewardStatus, rewardTag, tx)
  BY WorkerNames DEF LinkInv, Shape
<1>1. UNCHANGED <<tag, rewardStatus, rewardTag, tx, unseen>>
  BY DEF SpendTick, ReadPendingSpends, FilterTerminalSpends, DropRefunded, gameVars, rewardVars, chainVars
<1>2. ASSUME NEW rows, NEW pc \in {"statuses", "refunds", "sign"}, Continue(rows, pc),
             \A r \in rows : r \in SpendRows /\ tag[r] = Null
      PROVE  LinkInv'
  <2>1. CASE EndTick("spend")
    BY <1>0, <1>1, <2>1, LinksOfEnd
  <2>2. CASE ~EndTick("spend")
    <3> DEFINE x == [exec["spend"] EXCEPT !.rows = rows, !.pc = pc]
    <3>1. exec' = [exec EXCEPT !["spend"] = x]
      BY <1>2, <2>2 DEF Continue
    <3>2. x.pc = pc /\ x.rows = rows
      BY <1>0 DEF Exec
    <3> HIDE DEF x
    <3>3. RowsOK("spend", x, tag, rewardStatus, rewardTag, tx)
      BY <1>2, <3>2 DEF RowsOK, Sending
    <3> QED BY <1>0, <1>1, <3>1, <3>3, LinksOfMove
  <2> QED BY <2>1, <2>2
<1>3. CASE SpendTick
  <2>1. PICK rows : exec' = [exec EXCEPT !["spend"] = [Idle EXCEPT !.rows = NetZeroRows(rows),
                     !.pc = IF NetZeroRows(rows) = {} THEN "read" ELSE "stamp"]]
    BY <1>3 DEF SpendTick
  <2> DEFINE x == [Idle EXCEPT !.rows = NetZeroRows(rows),
                     !.pc = IF NetZeroRows(rows) = {} THEN "read" ELSE "stamp"]
  <2>2. x.pc \in {"read", "stamp"}
    BY DEF Idle
  <2>3. exec' = [exec EXCEPT !["spend"] = x]
    BY <2>1
  <2> HIDE DEF x
  <2>4. RowsOK("spend", x, tag, rewardStatus, rewardTag, tx)
    BY <2>2 DEF RowsOK, Sending
  <2> QED BY <1>0, <1>1, <2>3, <2>4, LinksOfMove
<1>4. CASE ReadPendingSpends
  <2>1. PICK rows \in AtMost(Limit, {r \in LedgerRows : r[1] = "SPEND" /\ Untagged(r)}) :
          Continue(rows, "statuses")
    BY <1>4 DEF ReadPendingSpends
  <2>2. \A r \in rows : r \in SpendRows /\ tag[r] = Null
    BY ReadRows DEF SpendRows, Untagged
  <2> QED BY <1>2, <2>1, <2>2
<1>5. CASE FilterTerminalSpends
  <2> DEFINE rows == {r \in exec["spend"].rows : Terminal(r[2])}
  <2>1. Continue(rows, "refunds") /\ exec["spend"].pc = "statuses"
    BY <1>5 DEF FilterTerminalSpends
  <2>2. \A r \in rows : r \in SpendRows /\ tag[r] = Null
    BY <1>0, <2>1 DEF RowsOK
  <2> HIDE DEF rows
  <2> QED BY <1>2, <2>1, <2>2
<1>6. CASE DropRefunded
  <2> DEFINE refunds == {Refunded(r[2]) : r \in exec["spend"].rows} \cap {r \in LedgerRows : HasRow(r)}
             rows == Spendable(exec["spend"].rows \cup refunds)
  <2>1. Continue(rows, "sign") /\ exec["spend"].pc = "refunds"
    BY <1>6 DEF DropRefunded
  <2>2. \A r \in exec["spend"].rows : r \in SpendRows /\ tag[r] = Null
    BY <1>0, <2>1 DEF RowsOK
  <2>3. rows \subseteq exec["spend"].rows
    <3>1. \A r \in refunds : r[1] # "SPEND"
      BY DEF Refunded
    <3> HIDE DEF refunds
    <3> QED BY <3>1 DEF Spendable
  <2> HIDE DEF rows
  <2> QED BY <1>2, <2>1, <2>2, <2>3
<1> QED BY <1>3, <1>4, <1>5, <1>6

LEMMA StampLinks ==
    ASSUME Shape, LinkInv, SettleNetZero
    PROVE  LinkInv'
<1>1. /\ Step("spend", "read") /\ UNCHANGED <<rewardStatus, rewardTag, tx, unseen>>
      /\ \/ tag' = [r \in LedgerRows |-> IF Stamped(r) THEN NetZero ELSE tag[r]]
         \/ tag' = tag
  BY DEF SettleNetZero, gameVars, rewardVars, chainVars
<1>2. \A r \in LedgerRows : /\ tag'[r] \in Txs <=> tag[r] \in Txs
                            /\ tag[r] \in Txs => tag'[r] = tag[r]
                            /\ tag'[r] = Absent <=> tag[r] = Absent
  BY <1>1, TagFacts DEF Stamped
<1>3. /\ exec'["spend"].pc = "read" /\ \A j \in Workers \ {"spend"} : exec'[j] = exec[j]
  BY <1>1, WorkerNames DEF Step, Shape, Exec
<1>4. ASSUME NEW k \in Workers PROVE RowsOK(k, exec'[k], tag', rewardStatus', rewardTag', tx')
  <2>1. CASE k = "spend"
    BY <1>3, <2>1 DEF RowsOK, Sending
  <2>2. CASE k # "spend"
    <3>1. RowsOK(k, exec[k], tag, rewardStatus, rewardTag, tx) /\ exec'[k] = exec[k]
      BY <1>3, <2>2 DEF LinkInv
    <3> QED BY <1>1, <2>2, <3>1, RowsStay
  <2> QED BY <2>1, <2>2
<1>5. ASSUME NEW t \in Txs, IsTagged(t, tx[t], tag, rewardTag) PROVE IsTagged(t, tx[t], tag', rewardTag)
  BY <1>2, <1>5 DEF IsTagged, SpendRows
<1>6. \A s \in Sessions : Spend(s) \in LedgerRows /\ Refunded(s) \in LedgerRows
  BY RowFacts
<1>7. \A r \in LedgerRows : tag'[r] \in Txs => Carries(tx'[tag'[r]], "spend", r)
  BY <1>1, <1>2 DEF LinkInv
<1>8. \A t \in Txs : tx'[t].state \in Broadcasted => IsTagged(t, tx'[t], tag', rewardTag')
  BY <1>1, <1>5 DEF LinkInv
<1>9. \A s \in Sessions : HasRow(Refunded(s))' => HasRow(Spend(s))'
  BY <1>2, <1>6 DEF LinkInv, HasRow
<1> QED BY <1>1, <1>4, <1>7, <1>8, <1>9 DEF LinkInv

----------------------------------------------------------------------------
LEMMA RewardReadLinks ==
    ASSUME Shape, LinkInv, RewardTick \/ ReadPendingRewards
    PROVE  LinkInv'
<1>0. "reward" \in Workers
  BY WorkerNames
<1>1. UNCHANGED <<tag, rewardStatus, rewardTag, tx, unseen>>
  BY DEF RewardTick, ReadPendingRewards, gameVars, rewardVars, chainVars
<1>2. CASE RewardTick
  <2> DEFINE hashes == IF faults' = faults THEN {rewardTag[r] : r \in {q \in Rewards : InFlight(q)}} ELSE {}
             x == [Idle EXCEPT !.pc = "recover", !.hashes = hashes]
  <2>1. exec' = [exec EXCEPT !["reward"] = x]
    BY <1>2 DEF RewardTick
  <2>2. x.pc = "recover"
    BY DEF Idle
  <2> HIDE DEF x
  <2>3. RowsOK("reward", x, tag, rewardStatus, rewardTag, tx)
    BY <2>2 DEF RowsOK, Sending
  <2> QED BY <1>0, <1>1, <2>1, <2>3, LinksOfMove
<1>3. CASE ReadPendingRewards
  <2>1. PICK rows \in AtMost(Limit, {r \in Rewards : rewardStatus[r] = "PENDING" /\ rewardTag[r] = Null}) :
          LET paid == {r \in rows : RewardOf[r] > 0}
          IN  IF paid = {} THEN EndTick("reward")
              ELSE exec' = [exec EXCEPT !["reward"] = [Idle EXCEPT !.rows = paid, !.pc = "sign"]]
    BY <1>3 DEF ReadPendingRewards
  <2> DEFINE paid == {r \in rows : RewardOf[r] > 0}
             x == [Idle EXCEPT !.rows = paid, !.pc = "sign"]
  <2>2. \A r \in paid : r \in Rewards /\ rewardStatus[r] = "PENDING" /\ rewardTag[r] = Null
    BY ReadRows
  <2>3. EndTick("reward") \/ exec' = [exec EXCEPT !["reward"] = x]
    BY <2>1
  <2>4. x.pc = "sign" /\ x.rows = paid
    BY DEF Idle
  <2> HIDE DEF x, paid
  <2>5. RowsOK("reward", x, tag, rewardStatus, rewardTag, tx)
    BY <2>2, <2>4 DEF RowsOK, Sending
  <2> QED BY <1>0, <1>1, <2>3, <2>5, LinksOfMove, LinksOfEnd
<1> QED BY <1>2, <1>3

\* Rewards are marked while their worker remembers no rows.
LEMMA MarkLinks ==
    ASSUME Shape, LinkInv, (\E t \in Txs : RecoverBatch(t)) \/ CreditBatchRows
    PROVE  LinkInv'
<1>0. "reward" \in Workers
  BY WorkerNames
<1>1. /\ UNCHANGED <<tag, rewardTag, tx, unseen>>
      /\ \E x : exec' = [exec EXCEPT !["reward"] = x] /\ x.pc \in {"recover", "idle"}
  <2>1. CASE CreditBatchRows
    BY <2>1, IdleFacts DEF CreditBatchRows, EndTick, gameVars, chainVars
  <2>2. ASSUME NEW t, RecoverBatch(t)
        PROVE  /\ UNCHANGED <<tag, rewardTag, tx, unseen>>
               /\ \E x : exec' = [exec EXCEPT !["reward"] = x] /\ x.pc \in {"recover", "idle"}
    <3> DEFINE x == [exec["reward"] EXCEPT !.hashes = exec["reward"].hashes \ {t}]
    <3>1. exec["reward"].pc = "recover" /\ exec["reward"] \in Exec
      BY <1>0, <2>2 DEF RecoverBatch, Shape
    <3>2. exec' = [exec EXCEPT !["reward"] = x] /\ x.pc = "recover"
      BY <1>0, <2>2, <3>1 DEF RecoverBatch, Shape, Exec
    <3> HIDE DEF x
    <3> QED BY <2>2, <3>2 DEF RecoverBatch, gameVars, chainVars
  <2> QED BY <2>1, <2>2
<1>2. PICK x : exec' = [exec EXCEPT !["reward"] = x] /\ x.pc \in {"recover", "idle"}
  BY <1>1
<1>3. exec'["reward"] = x /\ \A j \in Workers \ {"reward"} : exec'[j] = exec[j]
  BY <1>0, <1>2 DEF Shape
<1>4. ASSUME NEW k \in Workers PROVE RowsOK(k, exec'[k], tag', rewardStatus', rewardTag', tx')
  <2>1. CASE k = "reward"
    BY <1>2, <1>3, <2>1 DEF RowsOK, Sending
  <2>2. CASE k # "reward"
    <3>1. RowsOK(k, exec[k], tag, rewardStatus, rewardTag, tx) /\ exec'[k] = exec[k]
      BY <1>3, <2>2 DEF LinkInv
    <3> QED BY <1>1, <2>2, <3>1, RowsStay
  <2> QED BY <2>1, <2>2
<1> QED BY <1>1, <1>4 DEF LinkInv, HasRow

----------------------------------------------------------------------------
LEMMA QueueLinks ==
    ASSUME Shape, LinkInv, NEW r \in Rewards, QueueReward(r)
    PROVE  LinkInv'
<1>1. /\ rewardStatus[r] = "NONE" /\ rewardStatus' = [rewardStatus EXCEPT ![r] = "PENDING"]
      /\ UNCHANGED <<tag, rewardTag, tx, exec, unseen>>
  BY DEF QueueReward, gameVars, chainVars
<1>2. \A q \in Rewards : rewardStatus[q] = "PENDING" => rewardStatus'[q] = "PENDING"
  BY <1>1 DEF Shape
<1>3. ASSUME NEW k \in Workers PROVE RowsOK(k, exec[k], tag, rewardStatus', rewardTag, tx)
  BY <1>2 DEF LinkInv, RowsOK
<1> QED BY <1>1, <1>3 DEF LinkInv, HasRow

\* Signed with the rows in hand: nothing names a transaction that was never used.
LEMMA SignLinks ==
    ASSUME BatchInv, LinkInv, NEW k \in Workers, SignBatch(k)
    PROVE  LinkInv'
<1>0. Shape /\ WorkersInv /\ exec[k] \in Exec /\ RowsOK(k, exec[k], tag, rewardStatus, rewardTag, tx)
  BY DEF BatchInv, Shape, LinkInv
<1>1. exec[k].pc = "sign" /\ UNCHANGED <<tag, rewardStatus, rewardTag, unseen>>
  BY DEF SignBatch, gameVars, rewardVars
<1>2. CASE EndTick(k) /\ UNCHANGED tx
  BY <1>0, <1>1, <1>2, LinksOfEnd
<1>3. CASE \E t \in Txs :
              /\ tx[t].state = "unused" /\ \A u \in 1..(t - 1) : tx[u].state # "unused"
              /\ tx' = [tx EXCEPT ![t] = [kind |-> k, rows |-> exec[k].rows,
                                          nonce |-> PendingNonce, state |-> "signed"]]
              /\ exec' = [exec EXCEPT ![k].tx = t, ![k].pc = "tag"]
  <2> DEFINE new == [kind |-> k, rows |-> exec[k].rows, nonce |-> PendingNonce, state |-> "signed"]
  <2>1. PICK t \in Txs : /\ tx[t].state = "unused" /\ tx' = [tx EXCEPT ![t] = new]
                         /\ exec' = [exec EXCEPT ![k].tx = t, ![k].pc = "tag"]
    BY <1>3
  <2>2. new.state = "signed" /\ new.kind = k /\ new.rows = exec[k].rows
    OBVIOUS
  <2> HIDE DEF new
  <2>3. tx'[t] = new /\ \A u \in Txs \ {t} : tx'[u] = tx[u]
    BY <1>0, <2>1 DEF Shape
  <2>4. /\ exec'[k].pc = "tag" /\ exec'[k].tx = t /\ exec'[k].rows = exec[k].rows
        /\ \A j \in Workers \ {k} : exec'[j] = exec[j]
    BY <1>0, <2>1 DEF Shape, Exec
  <2>5. ASSUME NEW j \in Workers PROVE RowsOK(j, exec'[j], tag, rewardStatus, rewardTag, tx')
    <3>1. CASE j = k
      BY <1>0, <1>1, <2>2, <2>3, <2>4, <3>1 DEF RowsOK, Sending
    <3>2. CASE j # k
      <4>1. RowsOK(j, exec[j], tag, rewardStatus, rewardTag, tx) /\ exec'[j] = exec[j]
            /\ WorkerOK(j, exec[j], status, tx)
        BY <1>0, <2>4, <3>2 DEF LinkInv, WorkersInv
      <4>2. exec[j].pc \in Sending => exec[j].tx \in Txs \ {t}
        BY <2>1, <4>1 DEF WorkerOK
      <4> QED BY <2>3, <4>1, <4>2, RowsStay
    <3> QED BY <3>1, <3>2
  <2>6. ASSUME NEW u \in Txs, NEW j, NEW r, Carries(tx[u], j, r) PROVE Carries(tx'[u], j, r)
    BY <2>1, <2>3, <2>6 DEF Carries
  <2>7. ASSUME NEW u \in Txs, tx'[u].state \in Broadcasted PROVE IsTagged(u, tx'[u], tag, rewardTag)
    BY <2>2, <2>3, <2>7 DEF LinkInv, Broadcasted
  <2>8. ASSUME NEW log \in unseen PROVE log \in Txs \X Wallets /\ IsCredit(tx'[log[1]])
    <3>1. log \in Txs \X Wallets /\ IsCredit(tx[log[1]]) /\ log[1] \in Txs
      BY DEF LinkInv
    <3> QED BY <2>1, <2>3, <3>1 DEF IsCredit
  <2> QED BY <1>1, <2>5, <2>6, <2>7, <2>8 DEF LinkInv, HasRow
<1> QED BY <1>2, <1>3 DEF SignBatch

\* The tag is written on free rows; every one takes it.
LEMMA TagLinks ==
    ASSUME BatchInv, LinkInv, NEW k \in Workers, TagBatch(k)
    PROVE  LinkInv'
<1>0. /\ Shape /\ WorkersInv /\ exec[k] \in Exec
      /\ WorkerOK(k, exec[k], status, tx) /\ RowsOK(k, exec[k], tag, rewardStatus, rewardTag, tx)
  BY DEF BatchInv, Shape, WorkersInv, LinkInv
<1> DEFINE t == exec[k].tx
           rows == exec[k].rows
<1>1. /\ exec[k].pc = "tag" /\ UNCHANGED <<rewardStatus, tx, unseen>>
      /\ \/ WriteTag(k) /\ (Step(k, "broadcast") \/ EndTick(k))
         \/ UNCHANGED <<tag, rewardTag>> /\ EndTick(k)
  BY DEF TagBatch, gameVars, chainVars
<1>2. t \in Txs /\ tx[t].state = "signed" /\ tx[t].kind = k /\ tx[t].rows = rows
  BY <1>0, <1>1 DEF WorkerOK, RowsOK, Sending
<1>3. CASE UNCHANGED <<tag, rewardTag>> /\ EndTick(k)
  BY <1>0, <1>1, <1>3, LinksOfEnd
<1>4. CASE WriteTag(k) /\ (Step(k, "broadcast") \/ EndTick(k))
  <2>1. /\ \A j \in Workers \ {k} : exec'[j] = exec[j]
        /\ exec'[k] = Idle \/ (exec'[k].pc = "broadcast" /\ exec'[k].tx = t /\ exec'[k].rows = rows)
    BY <1>0, <1>4 DEF Step, EndTick, Shape, Exec
  <2>2. ASSUME k = "spend"
        PROVE  /\ UNCHANGED rewardTag
               /\ \A r \in rows : r \in SpendRows /\ tag[r] = Null /\ tag'[r] = t
               /\ \A r \in LedgerRows : r \notin rows => tag'[r] = tag[r]
    <3>1. /\ tag' = [r \in LedgerRows |-> IF r \in rows /\ tag[r] = Null THEN t ELSE tag[r]]
          /\ UNCHANGED rewardTag
      BY <1>4, <2>2 DEF WriteTag
    <3>2. \A r \in rows : r \in SpendRows /\ tag[r] = Null
      BY <1>0, <1>1, <2>2 DEF RowsOK
    <3> HIDE DEF rows, t
    <3> QED BY <3>1, <3>2 DEF SpendRows
  <2>3. ASSUME k # "spend"
        PROVE  /\ UNCHANGED tag
               /\ \A r \in rows : r \in Rewards /\ rewardTag[r] = Null /\ rewardTag'[r] = t
               /\ \A r \in Rewards : r \notin rows => rewardTag'[r] = rewardTag[r]
    <3>1. /\ rewardTag' = [r \in Rewards |-> IF r \in rows /\ rewardStatus[r] = "PENDING"
                             /\ rewardTag[r] = Null THEN t ELSE rewardTag[r]]
          /\ UNCHANGED tag
      BY <1>4, <2>3 DEF WriteTag
    <3>2. \A r \in rows : r \in Rewards /\ rewardTag[r] = Null /\ rewardStatus[r] = "PENDING"
      BY <1>0, <1>1, <2>3, WorkerNames DEF RowsOK
    <3> HIDE DEF rows, t
    <3> QED BY <3>1, <3>2
  <2> HIDE DEF t, rows
  <2>4. ASSUME NEW j \in Workers PROVE RowsOK(j, exec'[j], tag', rewardStatus', rewardTag', tx')
    <3>1. CASE j = k /\ exec'[k] = Idle
      BY <3>1, IdleRows
    <3>2. CASE j = k /\ exec'[k] # Idle
      BY <1>1, <1>2, <2>1, <2>2, <2>3, <3>2, WorkerNames DEF RowsOK, Sending
    <3>3. CASE j # k
      <4>1. RowsOK(j, exec[j], tag, rewardStatus, rewardTag, tx) /\ exec'[j] = exec[j]
        BY <2>1, <3>3 DEF LinkInv
      <4>2. j = "spend" => UNCHANGED tag
        BY <2>3, <3>3
      <4>3. j = "reward" => UNCHANGED rewardTag
        BY <2>2, <3>3, WorkerNames
      <4> QED BY <1>1, <4>1, <4>2, <4>3, RowsStay
    <3> QED BY <3>1, <3>2, <3>3
  <2>5. \A r \in LedgerRows : tag'[r] = tag[r] \/ (k = "spend" /\ r \in rows /\ tag[r] = Null /\ tag'[r] = t)
    BY <2>2, <2>3
  <2>6. \A r \in Rewards : rewardTag'[r] = rewardTag[r]
            \/ (k = "reward" /\ r \in rows /\ rewardTag[r] = Null /\ rewardTag'[r] = t)
    BY <2>2, <2>3, WorkerNames
  <2>7. Null \notin Txs /\ Absent \notin Txs /\ Null # Absent
    BY TagFacts
  <2>8. \A r \in LedgerRows : tag'[r] \in Txs => Carries(tx'[tag'[r]], "spend", r)
    BY <1>1, <1>2, <2>5 DEF LinkInv, Carries
  <2>9. \A r \in Rewards : rewardTag'[r] \in Txs => Carries(tx'[rewardTag'[r]], "reward", r)
    BY <1>1, <1>2, <2>6 DEF LinkInv, Carries
  <2>10. ASSUME NEW u \in Txs, tx'[u].state \in Broadcasted PROVE IsTagged(u, tx'[u], tag', rewardTag')
    <3>1. IsTagged(u, tx[u], tag, rewardTag) /\ tx'[u] = tx[u]
      BY <1>1, <2>10 DEF LinkInv
    <3>2. \A r \in LedgerRows : tag[r] = u => tag'[r] = u
      BY <2>5, <2>7
    <3>3. \A r \in Rewards : rewardTag[r] = u => rewardTag'[r] = u
      BY <2>6, <2>7
    <3> QED BY <3>1, <3>2, <3>3 DEF IsTagged, SpendRows
  <2>11. \A s \in Sessions : HasRow(Refunded(s))' => HasRow(Spend(s))'
    <3>1. \A r \in LedgerRows : tag'[r] = Absent <=> tag[r] = Absent
      BY <1>2, <2>5, <2>7
    <3> QED BY <3>1, RowFacts DEF LinkInv, HasRow
  <2> QED BY <1>1, <2>4, <2>8, <2>9, <2>10, <2>11 DEF LinkInv
<1> QED BY <1>1, <1>3, <1>4

----------------------------------------------------------------------------
\* Transactions change state only; what is sent for the first time is tagged.
LEMMA LinksOfStates ==
    ASSUME LinkInv, UNCHANGED <<tag, rewardStatus, rewardTag>>,
           \A k \in Workers : \/ exec'[k] = exec[k]
                              \/ RowsOK(k, exec'[k], tag, rewardStatus, rewardTag, tx'),
           \A k \in Workers : exec'[k].pc \in Sending => exec'[k].tx \in Txs,
           \A t \in Txs : /\ tx'[t].kind = tx[t].kind /\ tx'[t].rows = tx[t].rows
                          /\ tx'[t].state = "unused" => tx[t].state = "unused"
                          /\ tx[t].state = "success" => tx'[t].state = "success",
           \A t \in Txs : tx'[t].state \in Broadcasted =>
               tx[t].state \in Broadcasted \/ IsTagged(t, tx[t], tag, rewardTag),
           \A log \in unseen' : log \in unseen
               \/ (log \in Txs \X Wallets /\ IsCredit(tx'[log[1]]))
    PROVE  LinkInv'
<1>1. ASSUME NEW k \in Workers PROVE RowsOK(k, exec'[k], tag', rewardStatus', rewardTag', tx')
  <2>1. CASE exec'[k] = exec[k]
    <3>1. RowsOK(k, exec[k], tag, rewardStatus, rewardTag, tx)
      BY DEF LinkInv
    <3>2. exec[k].pc \in Sending => exec[k].tx \in Txs
      BY <2>1
    <3> QED BY <2>1, <3>1, <3>2, RowsStay
  <2> QED BY <2>1
<1>2. ASSUME NEW t \in Txs, NEW k, NEW r, Carries(tx[t], k, r) PROVE Carries(tx'[t], k, r)
  BY <1>2 DEF Carries
<1>3. ASSUME NEW t \in Txs, IsTagged(t, tx[t], tag, rewardTag) PROVE IsTagged(t, tx'[t], tag', rewardTag')
  BY <1>3 DEF IsTagged
<1>4. ASSUME NEW log \in unseen' PROVE log \in Txs \X Wallets /\ IsCredit(tx'[log[1]])
  <2>1. log \in unseen => log \in Txs \X Wallets /\ IsCredit(tx[log[1]]) /\ log[1] \in Txs
    BY DEF LinkInv
  <2> QED BY <1>4, <2>1 DEF IsCredit
<1> QED BY <1>1, <1>2, <1>3, <1>4 DEF LinkInv, HasRow

LEMMA BroadcastLinks ==
    ASSUME BatchInv, LinkInv, NEW k \in Workers, Broadcast(k)
    PROVE  LinkInv'
<1>0. /\ Shape /\ WorkersInv /\ exec[k] \in Exec
      /\ WorkerOK(k, exec[k], status, tx) /\ RowsOK(k, exec[k], tag, rewardStatus, rewardTag, tx)
  BY DEF BatchInv, Shape, WorkersInv, LinkInv
<1> DEFINE t == exec[k].tx
           rivals == {u \in Txs : tx[u].state = "pool" /\ tx[u].nonce = tx[t].nonce}
           sent == [u \in Txs |-> IF u = t THEN [tx[u] EXCEPT !.state = "pool"]
                       ELSE IF u \in rivals THEN [tx[u] EXCEPT !.state = "gone"] ELSE tx[u]]
<1>1. /\ exec[k].pc = "broadcast" /\ UNCHANGED <<tag, rewardStatus, rewardTag, unseen>>
      /\ \/ tx' = sent /\ (Step(k, "wait") \/ EndTick(k))
         \/ tx' = tx /\ EndTick(k)
  BY DEF Broadcast, gameVars, rewardVars
<1>2. t \in Txs /\ tx[t].state = "signed" /\ IsTagged(t, tx[t], tag, rewardTag)
  BY <1>0, <1>1, WorkerNames DEF WorkerOK, Sending, RowsOK, IsTagged
<1>3. CASE tx' = tx /\ EndTick(k)
  BY <1>0, <1>1, <1>3, LinksOfEnd
<1>4. CASE tx' = sent /\ (Step(k, "wait") \/ EndTick(k))
  <2>1. exec'[k] = Idle \/ exec'[k].pc = "wait"
    BY <1>0, <1>4 DEF Step, EndTick, Shape, Exec
  <2>2. \A j \in Workers \ {k} : exec'[j] = exec[j]
    BY <1>0, <1>4 DEF Step, EndTick, Shape
  <2>3. \A u \in Txs : IsTx(tx[u])
    BY <1>0 DEF Shape
  <2> HIDE DEF t, rivals
  <2>4. ASSUME NEW u \in Txs
        PROVE  /\ tx'[u].kind = tx[u].kind /\ tx'[u].rows = tx[u].rows
               /\ tx'[u].state = "unused" => tx[u].state = "unused"
               /\ tx[u].state = "success" => tx'[u].state = "success"
               /\ tx'[u].state \in Broadcasted => tx[u].state \in Broadcasted \/ u = t
    <3>1. IsTx(tx[u])
      BY <2>3
    <3>2. \A v : /\ [tx[u] EXCEPT !.state = v].kind = tx[u].kind /\ [tx[u] EXCEPT !.state = v].rows = tx[u].rows
                 /\ [tx[u] EXCEPT !.state = v].state = v
      BY <3>1 DEF IsTx
    <3>3. u \in rivals => tx[u].state = "pool"
      BY DEF rivals
    <3>4. tx'[u] = IF u = t THEN [tx[u] EXCEPT !.state = "pool"]
                       ELSE IF u \in rivals THEN [tx[u] EXCEPT !.state = "gone"] ELSE tx[u]
      BY <1>4
    <3> QED BY <1>2, <3>2, <3>3, <3>4 DEF Broadcasted
  <2> HIDE DEF sent
  <2>5. \A j \in Workers : \/ exec'[j] = exec[j]
                           \/ RowsOK(j, exec'[j], tag, rewardStatus, rewardTag, tx')
    <3>1. exec'[k].pc = "wait" => RowsOK(k, exec'[k], tag, rewardStatus, rewardTag, tx')
      BY DEF RowsOK, Sending
    <3> QED BY <2>1, <2>2, <3>1, IdleRows
  <2>6. \A j \in Workers : exec'[j].pc \in Sending => exec'[j].tx \in Txs
    <3>1. \A j \in Workers : exec[j].pc \in Sending => exec[j].tx \in Txs
      BY <1>0 DEF WorkersInv, WorkerOK
    <3> QED BY <2>1, <2>2, <3>1, IdleFacts DEF Sending
  <2> QED BY <1>1, <1>2, <2>4, <2>5, <2>6, LinksOfStates
<1> QED BY <1>1, <1>3, <1>4

LEMMA WaitLinks ==
    ASSUME Shape, LinkInv, NEW k \in Workers, WaitForReceipt(k)
    PROVE  LinkInv'
<1>1. UNCHANGED <<tag, rewardStatus, rewardTag, tx, unseen>> /\ (EndTick(k) \/ Step(k, "credit"))
  BY DEF WaitForReceipt, gameVars, rewardVars, chainVars
<1>2. CASE EndTick(k)
  BY <1>1, <1>2, LinksOfEnd
<1>3. CASE Step(k, "credit")
  <2> DEFINE x == [exec[k] EXCEPT !.pc = "credit"]
  <2>1. exec' = [exec EXCEPT ![k] = x] /\ x.pc = "credit"
    BY <1>3 DEF Step, Shape, Exec
  <2> HIDE DEF x
  <2>2. RowsOK(k, x, tag, rewardStatus, rewardTag, tx)
    BY <2>1 DEF RowsOK, Sending
  <2> QED BY <1>1, <2>1, <2>2, LinksOfMove
<1> QED BY <1>1, <1>2, <1>3

LEMMA ChainLinks ==
    ASSUME BatchInv, LinkInv, NEW t \in Txs, Mine(t) \/ Drop(t)
    PROVE  LinkInv'
<1>0. Shape /\ WorkersInv
  BY DEF BatchInv
<1>1. tx[t].state = "pool" /\ UNCHANGED <<tag, rewardStatus, rewardTag, exec>>
  BY DEF Mine, Drop, rewardVars
<1>2. PICK v \in {"success", "reverted", "gone"} :
         /\ tx' = [tx EXCEPT ![t].state = v]
         /\ \A log \in unseen' : log \in unseen \/ (v = "success" /\ tx[t].kind = "reward" /\ log \in {t} \X Wallets)
  <2>1. CASE Drop(t)
    BY <2>1 DEF Drop
  <2>2. CASE Mine(t)
    BY <2>2 DEF Mine
  <2> QED BY <2>1, <2>2
<1>3. tx'[t] = [tx[t] EXCEPT !.state = v] /\ (\A u \in Txs \ {t} : tx'[u] = tx[u]) /\ IsTx(tx[t])
  BY <1>0, <1>2 DEF Shape
<1>4. tx'[t].kind = tx[t].kind /\ tx'[t].rows = tx[t].rows /\ tx'[t].state = v
  BY <1>3 DEF IsTx
<1>5. \A u \in Txs : /\ tx'[u].kind = tx[u].kind /\ tx'[u].rows = tx[u].rows
                     /\ tx'[u].state = "unused" => tx[u].state = "unused"
                     /\ tx[u].state = "success" => tx'[u].state = "success"
                     /\ tx'[u].state \in Broadcasted => tx[u].state \in Broadcasted
  BY <1>1, <1>3, <1>4 DEF Broadcasted
<1>6. \A k \in Workers : exec'[k].pc \in Sending => exec'[k].tx \in Txs
  BY <1>0, <1>1 DEF WorkersInv, WorkerOK
<1>7. \A log \in unseen' : log \in unseen \/ (log \in Txs \X Wallets /\ IsCredit(tx'[log[1]]))
  <2>1. ASSUME NEW log \in {t} \X Wallets PROVE log \in Txs \X Wallets /\ log[1] = t
    OBVIOUS
  <2> QED BY <1>2, <1>4, <2>1 DEF IsCredit
<1> QED BY <1>1, <1>5, <1>6, <1>7, LinksOfStates

----------------------------------------------------------------------------
LEMMA LinkInit == Init => LinkInv
<1> SUFFICES ASSUME Init PROVE LinkInv
  OBVIOUS
<1>1. \A k \in Workers : RowsOK(k, exec[k], tag, rewardStatus, rewardTag, tx)
  BY IdleRows DEF Init
<1>2. \A t \in Txs : tx[t].state = "unused"
  BY DEF Init, Unused
<1> QED BY <1>1, <1>2, RowFacts, TagFacts DEF Init, LinkInv, Broadcasted, HasRow

LEMMA LinkStep == BatchInv /\ LinkInv /\ [Next]_vars => LinkInv'
<1> SUFFICES ASSUME BatchInv, LinkInv, [Next]_vars PROVE LinkInv'
  OBVIOUS
<1>0. Shape
  BY DEF BatchInv
<1>1. ASSUME UNCHANGED <<tag, rewardStatus, rewardTag, tx, exec>>, unseen' \subseteq unseen PROVE LinkInv'
  BY <1>1 DEF LinkInv, HasRow
<1>2. CASE GameStep
  BY <1>0, <1>2, GameLinks
<1>3. ASSUME NEW r \in Rewards, QueueReward(r) PROVE LinkInv'
  BY <1>0, <1>3, QueueLinks
<1>4. ASSUME NEW k \in Workers, WorkerStep(k) PROVE LinkInv'
  BY <1>0, <1>4, SignLinks, TagLinks, BroadcastLinks, WaitLinks DEF WorkerStep
<1>5. CASE SpendStep
  BY <1>0, <1>4, <1>5, SpendReadLinks, StampLinks, WorkerNames DEF SpendStep
<1>6. CASE RewardStep
  BY <1>0, <1>4, <1>6, RewardReadLinks, MarkLinks, WorkerNames DEF RewardStep
<1>7. ASSUME NEW k \in Workers, ReadFails(k) PROVE LinkInv'
  BY <1>0, <1>7, LinksOfEnd DEF ReadFails, gameVars, rewardVars, chainVars
<1>8. CASE Restart
  BY <1>0, <1>8, IdleRows DEF Restart, gameVars, rewardVars, chainVars, LinkInv, HasRow
<1>9. ASSUME NEW t \in Txs, Mine(t) \/ Drop(t) PROVE LinkInv'
  BY <1>9, ChainLinks
<1>10. ASSUME NEW log \in unseen, MirrorCredit(log) PROVE LinkInv'
  BY <1>1, <1>10 DEF MirrorCredit, rewardVars
<1>11. CASE OwnerSetsOperator
  BY <1>1, <1>11 DEF OwnerSetsOperator, gameVars, rewardVars, chainVars
<1>12. CASE UNCHANGED vars
  BY <1>1, <1>12 DEF vars, gameVars, rewardVars, chainVars
<1> QED BY <1>2, <1>3, <1>5, <1>6, <1>7, <1>8, <1>9, <1>10, <1>11, <1>12 DEF Next


----------------------------------------------------------------------------
(* Balances.  What the two agreements count, wallet by wallet.             *)

TakenBy(w) == {s \in RunsOf(w) : tag[Spend(s)] \in Mined}
OwedBy(w) == {s \in RunsOf(w) : tag[Spend(s)] \notin Mined /\ ~HasRow(Refunded(s))}
LogsOf(w) == {log \in unseen : log[2] = w}
Won(w) == Sum(RewardOf, WonBy(w))
Coming(w) == Sum(CreditOf, LogsOf(w))

BalanceInv ==
    /\ ticketBalance \in Batch /\ mirror \in Batch
    /\ \A w \in Wallets : ticketBalance[w] = Tickets[w] + Won(w) - Cardinality(TakenBy(w))
    /\ \A w \in Wallets : ticketBalance[w] = mirror[w] + Cardinality(OwedBy(w)) + Coming(w)

LEMMA BalanceIsAgreement == BalanceInv => ChainAgreesWithTags /\ SpendIsCovered
<1>1. \A w \in Wallets : Won(w) = MapThenSumSet(LAMBDA r : RewardOf[r], WonBy(w))
  BY DEF Won, Sum
<1>2. \A w \in Wallets : Coming(w) = MapThenSumSet(LAMBDA log : CreditOf[log], {log \in unseen : log[2] = w})
  BY DEF Coming, LogsOf, Sum
<1> QED BY <1>1, <1>2 DEF BalanceInv, ChainAgreesWithTags, SpendIsCovered, TakenBy, OwedBy

\* The amount of a batch, and of a log, is a sum over its rows.
LEMMA BatchSums ==
    /\ \A rows : \A w \in Wallets :
          BatchOf("spend", rows)[w] = Sum([r \in LedgerRows |-> 1], {r \in rows : OwnerOf[r[2]] = w})
    /\ \A rows : \A w \in Wallets :
          BatchOf("reward", rows)[w] = Sum(RewardOf, {r \in rows : WinnerOf[r] = w})
<1>1. AmountOf("spend") = [r \in LedgerRows |-> 1] /\ AmountOf("reward") = RewardOf
      /\ \A r : WalletOf("spend", r) = OwnerOf[r[2]] /\ WalletOf("reward", r) = WinnerOf[r]
  BY DEF AmountOf, WalletOf
<1>2. \A k, rows : \A w \in Wallets :
          BatchOf(k, rows)[w] = Sum(AmountOf(k), {r \in rows : WalletOf(k, r) = w})
  BY DEF BatchOf, Sum
<1>3. ASSUME NEW rows, NEW w \in Wallets
      PROVE  /\ BatchOf("spend", rows)[w] = Sum([r \in LedgerRows |-> 1], {r \in rows : OwnerOf[r[2]] = w})
             /\ BatchOf("reward", rows)[w] = Sum(RewardOf, {r \in rows : WinnerOf[r] = w})
  <2>1. /\ {r \in rows : WalletOf("spend", r) = w} = {r \in rows : OwnerOf[r[2]] = w}
        /\ {r \in rows : WalletOf("reward", r) = w} = {r \in rows : WinnerOf[r] = w}
    BY <1>1
  <2>2. /\ BatchOf("spend", rows)[w] = Sum(AmountOf("spend"), {r \in rows : WalletOf("spend", r) = w})
        /\ BatchOf("reward", rows)[w] = Sum(AmountOf("reward"), {r \in rows : WalletOf("reward", r) = w})
    BY <1>2
  <2> QED BY <1>1, <2>1, <2>2
<1> QED BY <1>3

LEMMA FiniteFacts ==
    /\ IsFiniteSet(Sessions) /\ IsFiniteSet(Rewards) /\ IsFiniteSet(Txs \X Wallets)
    /\ \A r \in Rewards : RewardOf[r] \in Nat
<1>1. MaxTx \in Nat
  BY BoundsArePositive DEF BoundsArePositive
<1>2. IsFiniteSet(Txs)
  BY <1>1, FS_Interval DEF Txs
<1> QED BY <1>2, TablesAreFinite, RewardsAreTickets, WalletsAreFinite, FS_Product
        DEF TablesAreFinite, RewardsAreTickets, WalletsAreFinite

\* Everything the balances count is finite, and every amount a natural number.
LEMMA CountsAreNatural ==
    ASSUME LinkInv, NEW w \in Wallets
    PROVE  /\ IsFiniteSet(TakenBy(w)) /\ IsFiniteSet(OwedBy(w)) /\ IsFiniteSet(WonBy(w)) /\ IsFiniteSet(LogsOf(w))
           /\ Cardinality(TakenBy(w)) \in Nat /\ Cardinality(OwedBy(w)) \in Nat
           /\ Won(w) \in Nat /\ Coming(w) \in Nat /\ \A log \in unseen : CreditOf[log] \in Nat
<1>1. /\ TakenBy(w) \subseteq Sessions /\ OwedBy(w) \subseteq Sessions /\ WonBy(w) \subseteq Rewards
      /\ LogsOf(w) \subseteq Txs \X Wallets
  BY DEF TakenBy, OwedBy, RunsOf, WonBy, LogsOf, LinkInv
<1>2. IsFiniteSet(TakenBy(w)) /\ IsFiniteSet(OwedBy(w)) /\ IsFiniteSet(WonBy(w)) /\ IsFiniteSet(LogsOf(w))
  BY <1>1, FiniteFacts, FS_Subset
<1>3. ASSUME NEW log \in unseen PROVE CreditOf[log] \in Nat
  <2>1. log \in Txs \X Wallets /\ log[1] \in Txs /\ log[2] \in Wallets /\ IsCredit(tx[log[1]])
    BY DEF LinkInv
  <2> DEFINE S == {r \in tx[log[1]].rows : WinnerOf[r] = log[2]}
  <2>2. CreditOf[log] = Sum(RewardOf, S)
    BY <2>1, BatchSums DEF CreditOf
  <2>3. IsTagged(log[1], tx[log[1]], tag, rewardTag)
    BY <2>1 DEF LinkInv, Broadcasted, IsCredit
  <2>4. S \subseteq Rewards
    BY <2>1, <2>3 DEF IsTagged, IsCredit
  <2> HIDE DEF S
  <2>5. IsFiniteSet(S) /\ \A r \in S : RewardOf[r] \in Nat
    BY <2>4, FiniteFacts, FS_Subset
  <2> QED BY <2>2, <2>5, SumIsNatural
<1>4. Won(w) \in Nat
  BY <1>1, <1>2, FiniteFacts, SumIsNatural DEF Won
<1>5. Coming(w) \in Nat
  BY <1>2, <1>3, SumIsNatural DEF Coming, LogsOf
<1> QED BY <1>2, <1>3, <1>4, <1>5, FS_CardinalityType

\* The logs keep their amounts: a transaction's rows never change once it succeeded.
LEMMA ComingStays ==
    ASSUME LinkInv, NEW w \in Wallets, unseen' = unseen,
           \A t \in Txs : tx[t].state = "success" => tx'[t].rows = tx[t].rows
    PROVE  Coming(w)' = Coming(w)
<1>1. LogsOf(w)' = LogsOf(w)
  BY DEF LogsOf
<1>2. ASSUME NEW log \in LogsOf(w) PROVE CreditOf'[log] = CreditOf[log]
  <2>1. log \in Txs \X Wallets /\ log[1] \in Txs /\ tx[log[1]].state = "success"
    BY DEF LinkInv, IsCredit, LogsOf
  <2> QED BY <2>1 DEF CreditOf
<1>3. IsFiniteSet(LogsOf(w))
  BY CountsAreNatural
<1>4. Sum(CreditOf', LogsOf(w)) = Sum(CreditOf, LogsOf(w))
  BY <1>2, <1>3, SumAgrees
<1> QED BY <1>1, <1>4 DEF Coming

\* No balance moves while the same rows name mined transactions.
LEMMA QuietStep ==
    ASSUME LinkInv, BalanceInv, UNCHANGED <<ticketBalance, mirror, unseen>>,
           \A r \in LedgerRows : /\ tag'[r] \in Mined' <=> tag[r] \in Mined
                                 /\ tag'[r] = Absent <=> tag[r] = Absent,
           \A r \in Rewards : rewardTag'[r] \in Mined' <=> rewardTag[r] \in Mined,
           \A t \in Txs : tx[t].state = "success" => tx'[t].rows = tx[t].rows
    PROVE  BalanceInv'
<1> SUFFICES ASSUME NEW w \in Wallets
             PROVE  /\ Won(w)' = Won(w) /\ Coming(w)' = Coming(w)
                    /\ TakenBy(w)' = TakenBy(w) /\ OwedBy(w)' = OwedBy(w)
  BY DEF BalanceInv
<1>1. \A s \in Sessions : Spend(s) \in LedgerRows /\ Refunded(s) \in LedgerRows
  BY RowFacts
<1>2. TakenBy(w)' = TakenBy(w) /\ OwedBy(w)' = OwedBy(w)
  BY <1>1 DEF TakenBy, OwedBy, RunsOf, HasRow
<1>3. WonBy(w)' = WonBy(w)
  BY DEF WonBy
<1> QED BY <1>2, <1>3, ComingStays DEF Won

\* A step that leaves the mined transactions mined, and no other, and tags no row with one.
LEMMA SameMined ==
    ASSUME LinkInv, BalanceInv, UNCHANGED <<ticketBalance, mirror, unseen>>,
           \A t \in Txs : /\ tx'[t].state = "success" <=> tx[t].state = "success"
                          /\ tx[t].state = "success" => tx'[t].rows = tx[t].rows,
           \A r \in LedgerRows : \/ tag'[r] = tag[r]
                                 \/ tag[r] = Null /\ tag'[r] # Absent /\ tag'[r] \notin Mined,
           \A r \in Rewards : \/ rewardTag'[r] = rewardTag[r]
                              \/ rewardTag[r] = Null /\ rewardTag'[r] \notin Mined
    PROVE  BalanceInv'
<1>1. Mined' = Mined /\ Null \notin Mined /\ Null # Absent
  BY TagFacts DEF Mined
<1> QED BY <1>1, QuietStep

LEMMA NothingMoves ==
    ASSUME LinkInv, BalanceInv, UNCHANGED <<ticketBalance, mirror, unseen, tx, tag, rewardTag>>
    PROVE  BalanceInv'
BY SameMined

LEMMA WorkersAreQuiet ==
    ASSUME BatchInv, LinkInv, BalanceInv, SpendStep \/ RewardStep
    PROVE  BalanceInv'
<1>0. Shape
  BY DEF BatchInv
<1>1. UNCHANGED <<ticketBalance, mirror, unseen>>
  BY DEF SpendStep, RewardStep, SpendTick, SettleNetZero, ReadPendingSpends, FilterTerminalSpends,
         DropRefunded, RewardTick, RecoverBatch, ReadPendingRewards, CreditBatchRows, WorkerStep,
         SignBatch, TagBatch, Broadcast, WaitForReceipt, gameVars, chainVars, vaultVars, ticketVars
<1>2. ASSUME NEW k \in Workers, SignBatch(k) PROVE BalanceInv'
  <2>1. UNCHANGED <<tag, rewardTag>>
    BY <1>2 DEF SignBatch, rewardVars
  <2>2. \A t \in Txs : tx'[t] = tx[t] \/ (tx[t].state = "unused" /\ tx'[t].state = "signed")
    <3>1. CASE UNCHANGED tx
      BY <3>1
    <3>2. CASE tx' # tx
      <4>1. PICK t \in Txs : /\ tx[t].state = "unused"
                             /\ tx' = [tx EXCEPT ![t] = [kind |-> k, rows |-> exec[k].rows,
                                                         nonce |-> PendingNonce, state |-> "signed"]]
        BY <1>2, <3>2 DEF SignBatch
      <4>2. tx'[t].state = "signed" /\ \A u \in Txs \ {t} : tx'[u] = tx[u]
        BY <1>0, <4>1 DEF Shape
      <4> QED BY <4>1, <4>2
    <3> QED BY <3>1, <3>2
  <2>3. \A t \in Txs : /\ tx'[t].state = "success" <=> tx[t].state = "success"
                       /\ tx[t].state = "success" => tx'[t].rows = tx[t].rows
    BY <2>2
  <2> QED BY <1>1, <2>1, <2>3, SameMined
<1>3. ASSUME NEW k \in Workers, TagBatch(k) PROVE BalanceInv'
  <2>1. exec[k].pc = "tag" /\ UNCHANGED tx /\ (WriteTag(k) \/ UNCHANGED <<tag, rewardTag>>)
    BY <1>3 DEF TagBatch, chainVars
  <2>2. exec[k].tx \in Txs /\ exec[k].tx \notin Mined
    BY <2>1 DEF BatchInv, WorkersInv, WorkerOK, Sending, Mined
  <2>3. \A r \in LedgerRows : tag'[r] = tag[r] \/ (tag[r] = Null /\ tag'[r] = exec[k].tx)
    BY <2>1 DEF WriteTag
  <2>4. \A r \in Rewards : rewardTag'[r] = rewardTag[r] \/ (rewardTag[r] = Null /\ rewardTag'[r] = exec[k].tx)
    BY <2>1 DEF WriteTag
  <2> QED BY <1>1, <2>1, <2>2, <2>3, <2>4, TagFacts, SameMined
<1>4. ASSUME NEW k \in Workers, Broadcast(k) PROVE BalanceInv'
  <2>1. exec[k].pc = "broadcast" /\ UNCHANGED <<tag, rewardTag>>
    BY <1>4 DEF Broadcast, rewardVars
  <2>2. exec[k].tx \in Txs /\ tx[exec[k].tx].state = "signed"
    BY <2>1 DEF BatchInv, WorkersInv, WorkerOK, Sending
  <2>3. \A t \in Txs : \/ tx'[t] = tx[t]
                       \/ tx[t].state # "success" /\ \E v \in {"pool", "gone"} : tx'[t] = [tx[t] EXCEPT !.state = v]
    BY <1>4, <2>2 DEF Broadcast
  <2>4. ASSUME NEW t \in Txs, NEW v PROVE [tx[t] EXCEPT !.state = v].state = v
    <3>1. IsTx(tx[t])
      BY <1>0 DEF Shape
    <3> QED BY <3>1 DEF IsTx
  <2>5. \A t \in Txs : /\ tx'[t].state = "success" <=> tx[t].state = "success"
                       /\ tx[t].state = "success" => tx'[t].rows = tx[t].rows
    <3>1. ASSUME NEW t \in Txs, tx'[t] # tx[t] PROVE tx[t].state # "success" /\ tx'[t].state # "success"
      <4>1. PICK v \in {"pool", "gone"} : tx[t].state # "success" /\ tx'[t] = [tx[t] EXCEPT !.state = v]
        BY <2>3, <3>1
      <4>2. tx'[t].state = v
        BY <2>4, <4>1
      <4> QED BY <4>1, <4>2
    <3> QED BY <3>1
  <2> QED BY <1>1, <2>1, <2>5, SameMined
<1>5. ASSUME NEW k \in Workers, WorkerStep(k) PROVE BalanceInv'
  <2>1. CASE WaitForReceipt(k)
    BY <1>1, <2>1, NothingMoves DEF WaitForReceipt, rewardVars, chainVars
  <2> QED BY <1>2, <1>3, <1>4, <1>5, <2>1 DEF WorkerStep
<1>6. CASE SettleNetZero
  <2>1. \A r \in LedgerRows : \/ tag'[r] = tag[r]
                              \/ tag[r] = Null /\ tag'[r] = NetZero
    BY <1>6 DEF SettleNetZero, Stamped
  <2>2. UNCHANGED <<tx, rewardTag>> /\ NetZero # Absent /\ NetZero \notin Mined
    BY <1>6, TagFacts DEF SettleNetZero, rewardVars, chainVars, Mined
  <2> QED BY <1>1, <2>1, <2>2, SameMined
<1>7. CASE SpendTick \/ ReadPendingSpends \/ FilterTerminalSpends \/ DropRefunded
  BY <1>1, <1>7, NothingMoves DEF SpendTick, ReadPendingSpends, FilterTerminalSpends, DropRefunded,
     rewardVars, chainVars
<1>8. CASE RewardTick \/ (\E t \in Txs : RecoverBatch(t)) \/ ReadPendingRewards \/ CreditBatchRows
  BY <1>1, <1>8, NothingMoves DEF RewardTick, RecoverBatch, ReadPendingRewards, CreditBatchRows,
     rewardVars, chainVars
<1> QED BY <1>5, <1>6, <1>7, <1>8, WorkerNames DEF SpendStep, RewardStep

----------------------------------------------------------------------------
(* The games: a ticket leaves the mirror for a run, or comes back.         *)

LEMMA DebitBalances ==
    ASSUME BatchInv, LinkInv, BalanceInv, NEW s \in Sessions, Debit(s)
    PROVE  BalanceInv'
<1>0. Shape
  BY DEF BatchInv
<1>1. /\ tag[Spend(s)] = Absent /\ tag' = [tag EXCEPT ![Spend(s)] = Null]
      /\ mirror[OwnerOf[s]] >= 1 /\ mirror' = [mirror EXCEPT ![OwnerOf[s]] = @ - 1]
      /\ UNCHANGED <<ticketBalance, rewardTag, tx, unseen>>
  BY DEF Debit, HasTicket, HasRow, rewardVars, chainVars, vaultVars, ticketVars
<1>2. Mined' = Mined /\ Null \notin Mined /\ Absent \notin Mined /\ Null # Absent
  BY <1>1, TagFacts DEF Mined
<1>3. /\ tag'[Spend(s)] = Null
      /\ \A u \in Sessions \ {s} : tag'[Spend(u)] = tag[Spend(u)]
      /\ \A u \in Sessions : tag'[Refunded(u)] = tag[Refunded(u)]
  BY <1>0, <1>1, RowFacts DEF Shape
<1>4. tag[Refunded(s)] = Absent
  BY <1>1 DEF LinkInv, HasRow
<1> DEFINE o == OwnerOf[s]
<1>5. o \in Wallets
  BY OwnersAreWallets DEF OwnersAreWallets
<1>6. /\ mirror' \in Batch /\ mirror'[o] = mirror[o] - 1
      /\ \A w \in Wallets \ {o} : mirror'[w] = mirror[w]
  BY <1>1, <1>5 DEF BalanceInv, Batch
<1>7. ASSUME NEW w \in Wallets
      PROVE  /\ ticketBalance'[w] = Tickets[w] + Won(w)' - Cardinality(TakenBy(w)')
             /\ ticketBalance'[w] = mirror'[w] + Cardinality(OwedBy(w)') + Coming(w)'
  <2>1. TakenBy(w)' = TakenBy(w)
    BY <1>1, <1>2, <1>3 DEF TakenBy, RunsOf, HasRow
  <2>2. Won(w)' = Won(w)
    <3>1. WonBy(w)' = WonBy(w)
      BY <1>1, <1>2 DEF WonBy
    <3> QED BY <3>1 DEF Won
  <2>3. Coming(w)' = Coming(w)
    BY <1>1, ComingStays
  <2>4. s \notin OwedBy(w) /\ OwedBy(w)' = IF w = o THEN OwedBy(w) \cup {s} ELSE OwedBy(w)
    BY <1>1, <1>2, <1>3, <1>4 DEF OwedBy, RunsOf, HasRow
  <2>5. /\ Cardinality(OwedBy(w)') = IF w = o THEN Cardinality(OwedBy(w)) + 1 ELSE Cardinality(OwedBy(w))
        /\ Cardinality(OwedBy(w)) \in Nat /\ Coming(w) \in Nat
    BY <2>4, CountsAreNatural, FS_AddElement
  <2>6. ticketBalance'[w] = ticketBalance[w] /\ ticketBalance[w] \in Nat /\ mirror[w] \in Nat
    BY <1>1 DEF BalanceInv, Batch
  <2>7. /\ ticketBalance[w] = Tickets[w] + Won(w) - Cardinality(TakenBy(w))
        /\ ticketBalance[w] = mirror[w] + Cardinality(OwedBy(w)) + Coming(w)
    BY DEF BalanceInv
  <2> HIDE DEF o
  <2>8. ticketBalance'[w] = mirror'[w] + Cardinality(OwedBy(w)') + Coming(w)'
    BY <1>6, <2>3, <2>5, <2>6, <2>7
  <2> QED BY <2>1, <2>2, <2>6, <2>7, <2>8
<1> QED BY <1>1, <1>6, <1>7 DEF BalanceInv

LEMMA RefundBalances ==
    ASSUME BatchInv, LinkInv, BalanceInv, NEW s \in Sessions, RefundTicket(s)
    PROVE  BalanceInv'
<1>0. Shape
  BY DEF BatchInv
<1>1. /\ status[s] = "VOIDED" /\ tag[Spend(s)] # Absent /\ tag[Refunded(s)] = Absent
      /\ tag' = [tag EXCEPT ![Refunded(s)] = Null]
      /\ mirror' = [mirror EXCEPT ![OwnerOf[s]] = @ + 1]
      /\ UNCHANGED <<ticketBalance, rewardTag, tx, unseen>>
  BY DEF RefundTicket, RefundAllowed, HasRow, rewardVars, chainVars, vaultVars, ticketVars
<1>2. Mined' = Mined /\ tag[Spend(s)] \notin Mined /\ Null # Absent
  BY <1>1, TagFacts DEF Mined, BatchInv, LedgerInv
<1>3. /\ tag'[Refunded(s)] = Null
      /\ \A u \in Sessions \ {s} : tag'[Refunded(u)] = tag[Refunded(u)]
      /\ \A u \in Sessions : tag'[Spend(u)] = tag[Spend(u)]
  BY <1>0, <1>1, RowFacts DEF Shape
<1> DEFINE o == OwnerOf[s]
<1>4. o \in Wallets
  BY OwnersAreWallets DEF OwnersAreWallets
<1>5. /\ mirror' \in Batch /\ mirror'[o] = mirror[o] + 1
      /\ \A w \in Wallets \ {o} : mirror'[w] = mirror[w]
  BY <1>1, <1>4 DEF BalanceInv, Batch
<1>6. ASSUME NEW w \in Wallets
      PROVE  /\ ticketBalance'[w] = Tickets[w] + Won(w)' - Cardinality(TakenBy(w)')
             /\ ticketBalance'[w] = mirror'[w] + Cardinality(OwedBy(w)') + Coming(w)'
  <2>1. TakenBy(w)' = TakenBy(w)
    BY <1>1, <1>2, <1>3 DEF TakenBy, RunsOf, HasRow
  <2>2. Won(w)' = Won(w)
    <3>1. WonBy(w)' = WonBy(w)
      BY <1>1, <1>2 DEF WonBy
    <3> QED BY <3>1 DEF Won
  <2>3. Coming(w)' = Coming(w)
    BY <1>1, ComingStays
  <2>4. /\ w = o => s \in OwedBy(w)
        /\ OwedBy(w)' = IF w = o THEN OwedBy(w) \ {s} ELSE OwedBy(w)
    BY <1>1, <1>2, <1>3 DEF OwedBy, RunsOf, HasRow
  <2>5. /\ Cardinality(OwedBy(w)') = IF w = o THEN Cardinality(OwedBy(w)) - 1 ELSE Cardinality(OwedBy(w))
        /\ Cardinality(OwedBy(w)) \in Nat /\ Coming(w) \in Nat
    BY <2>4, CountsAreNatural, FS_RemoveElement
  <2>6. ticketBalance'[w] = ticketBalance[w] /\ ticketBalance[w] \in Nat /\ mirror[w] \in Nat
    BY <1>1 DEF BalanceInv, Batch
  <2>7. /\ ticketBalance[w] = Tickets[w] + Won(w) - Cardinality(TakenBy(w))
        /\ ticketBalance[w] = mirror[w] + Cardinality(OwedBy(w)) + Coming(w)
    BY DEF BalanceInv
  <2> HIDE DEF o
  <2>8. ticketBalance'[w] = mirror'[w] + Cardinality(OwedBy(w)') + Coming(w)'
    BY <1>5, <2>3, <2>5, <2>6, <2>7
  <2> QED BY <2>1, <2>2, <2>6, <2>7, <2>8
<1> QED BY <1>1, <1>5, <1>6 DEF BalanceInv

LEMMA GameBalances ==
    ASSUME BatchInv, LinkInv, BalanceInv, GameStep
    PROVE  BalanceInv'
<1>1. ASSUME NEW s \in Sessions, InsertSession(s) \/ \E o \in {"ENDED", "VOIDED"} : CloseSession(s, o)
      PROVE  BalanceInv'
  BY <1>1, NothingMoves DEF InsertSession, CloseSession, rewardVars, chainVars, vaultVars, ticketVars
<1> QED BY <1>1, DebitBalances, RefundBalances DEF GameStep

----------------------------------------------------------------------------
(* The chain: a batch that succeeds moves what its rows say.               *)

\* The spends that name a transaction are the rows it carries.
SpendsOf(t, w) == {s \in Sessions : OwnerOf[s] = w /\ tag[Spend(s)] = t}
RewardsOf(t, w) == {r \in Rewards : WinnerOf[r] = w /\ rewardTag[r] = t}

LEMMA SpendBatchCounts ==
    ASSUME LinkInv, NEW t \in Txs, tx[t].state \in Broadcasted, tx[t].kind = "spend", NEW w \in Wallets
    PROVE  BatchOf("spend", tx[t].rows)[w] = Cardinality(SpendsOf(t, w))
<1> DEFINE R == {r \in tx[t].rows : OwnerOf[r[2]] = w}
           S == SpendsOf(t, w)
           one == [r \in LedgerRows |-> 1]
<1>1. \A r \in tx[t].rows : r \in SpendRows /\ tag[r] = t
  BY DEF LinkInv, IsTagged
<1>2. \A r \in LedgerRows : tag[r] = t => r \in tx[t].rows
  BY DEF LinkInv, Carries
<1>3. R = {Spend(s) : s \in S}
  BY <1>1, <1>2, RowFacts DEF SpendRows, SpendsOf
<1>4. IsFiniteSet(S)
  BY FiniteFacts, FS_Subset DEF SpendsOf
<1>5. IsFiniteSet(R) /\ Cardinality(R) = Cardinality(S)
  <2> DEFINE f == [s \in S |-> Spend(s)]
  <2>1. S \subseteq Sessions
    BY DEF SpendsOf
  <2> HIDE DEF R, S
  <2>2. f \in Bijection(S, R)
    BY <1>3, <2>1, RowFacts DEF Bijection, Injection, Surjection, IsInjective
  <2>3. ExistsBijection(S, R)
    BY <2>2 DEF ExistsBijection
  <2> QED BY <1>4, <2>3, FS_Bijection
<1>6. R \subseteq LedgerRows
  BY <1>1 DEF SpendRows
<1> HIDE DEF R, S
<1>7. \A r \in R : one[r] = 1
  BY <1>6
<1> HIDE DEF one
<1>8. Sum(one, R) = Cardinality(R)
  BY <1>5, <1>7, SumOfOnes
<1> QED BY <1>5, <1>8, BatchSums DEF R, S, one

LEMMA RewardBatchSums ==
    ASSUME LinkInv, NEW t \in Txs, tx[t].state \in Broadcasted, tx[t].kind = "reward", NEW w \in Wallets
    PROVE  BatchOf("reward", tx[t].rows)[w] = Sum(RewardOf, RewardsOf(t, w))
<1>1. \A r \in tx[t].rows : r \in Rewards /\ rewardTag[r] = t
  BY DEF LinkInv, IsTagged
<1>2. \A r \in Rewards : rewardTag[r] = t => r \in tx[t].rows
  BY DEF LinkInv, Carries
<1>3. {r \in tx[t].rows : WinnerOf[r] = w} = RewardsOf(t, w)
  BY <1>1, <1>2 DEF RewardsOf
<1>4. BatchOf("reward", tx[t].rows)[w] = Sum(RewardOf, {r \in tx[t].rows : WinnerOf[r] = w})
  BY BatchSums
<1> QED BY <1>3, <1>4

LEMMA SpendIsMined ==
    ASSUME BatchInv, LinkInv, BalanceInv, NEW t \in Txs, tx[t].state = "pool", tx[t].kind = "spend",
           tx' = [tx EXCEPT ![t].state = "success"], SpendBatch(BatchOf("spend", tx[t].rows)),
           UNCHANGED <<tag, rewardTag, unseen, mirror>>
    PROVE  BalanceInv'
<1> DEFINE batch == BatchOf("spend", tx[t].rows)
<1>0. Shape /\ LedgerInv /\ IsTx(tx[t])
  BY DEF BatchInv, Shape
<1>1. /\ \A u \in Txs \ {t} : tx'[u] = tx[u]
      /\ tx'[t].state = "success" /\ tx'[t].rows = tx[t].rows
  BY <1>0 DEF Shape, IsTx
<1>2. Mined' = Mined \cup {t} /\ t \notin Mined /\ Absent \notin Txs /\ Mined \subseteq Txs
  BY <1>1, TagFacts DEF Mined
<1>3. \A w \in Wallets : ticketBalance'[w] = ticketBalance[w] - batch[w] /\ batch[w] <= ticketBalance[w]
  BY DEF SpendBatch, SpendAllowed
<1>4. \A w \in Wallets : batch[w] = Cardinality(SpendsOf(t, w))
  BY SpendBatchCounts DEF Broadcasted
<1>5. \A r \in Rewards : rewardTag[r] # t
  BY DEF LinkInv, Carries
<1> HIDE DEF batch
<1>6. ASSUME NEW w \in Wallets
      PROVE  /\ ticketBalance'[w] = Tickets[w] + Won(w)' - Cardinality(TakenBy(w)')
             /\ ticketBalance'[w] = mirror'[w] + Cardinality(OwedBy(w)') + Coming(w)'
             /\ ticketBalance'[w] \in Nat
  <2>1. Won(w)' = Won(w)
    <3>1. WonBy(w)' = WonBy(w)
      BY <1>2, <1>5 DEF WonBy
    <3> QED BY <3>1 DEF Won
  <2>2. Coming(w)' = Coming(w)
    BY <1>1, ComingStays
  <2> DEFINE S == SpendsOf(t, w)
  <2>3. TakenBy(w)' = TakenBy(w) \cup S /\ TakenBy(w) \cap S = {}
    BY <1>2 DEF TakenBy, RunsOf, HasRow, SpendsOf
  <2>4. OwedBy(w)' = OwedBy(w) \ S /\ S \subseteq OwedBy(w)
    BY <1>0, <1>2 DEF OwedBy, RunsOf, HasRow, SpendsOf, LedgerInv
  <2>5. IsFiniteSet(S)
    BY FiniteFacts, FS_Subset DEF SpendsOf
  <2>6. /\ IsFiniteSet(TakenBy(w)) /\ IsFiniteSet(OwedBy(w))
        /\ Cardinality(TakenBy(w)) \in Nat /\ Cardinality(OwedBy(w)) \in Nat
        /\ Won(w) \in Nat /\ Coming(w) \in Nat
    BY CountsAreNatural
  <2>7. Cardinality(S) = batch[w]
    BY <1>4
  <2> HIDE DEF S
  <2>8. Cardinality(TakenBy(w)') = Cardinality(TakenBy(w)) + Cardinality(S) /\ Cardinality(S) \in Nat
    BY <2>3, <2>5, <2>6, CountOfUnion
  <2>9. Cardinality(OwedBy(w)) = Cardinality(OwedBy(w)') + Cardinality(S) /\ Cardinality(OwedBy(w)') \in Nat
    <3>1. IsFiniteSet(OwedBy(w)') /\ OwedBy(w)' \cap S = {} /\ OwedBy(w) = OwedBy(w)' \cup S
      BY <2>4, <2>6, FS_Subset
    <3>2. Cardinality(OwedBy(w)' \cup S) = Cardinality(OwedBy(w)') + Cardinality(S)
          /\ Cardinality(OwedBy(w)') \in Nat
      BY <2>5, <3>1, CountOfUnion
    <3> QED BY <3>1, <3>2
  <2>10. /\ ticketBalance[w] \in Nat /\ mirror[w] \in Nat /\ mirror'[w] = mirror[w] /\ Tickets[w] \in Nat
         /\ ticketBalance[w] = Tickets[w] + Won(w) - Cardinality(TakenBy(w))
         /\ ticketBalance[w] = mirror[w] + Cardinality(OwedBy(w)) + Coming(w)
    BY TicketsAreNatural DEF BalanceInv, Batch, TicketsAreNatural
  <2>11. ticketBalance'[w] = ticketBalance[w] - Cardinality(S) /\ Cardinality(S) <= ticketBalance[w]
    BY <1>3, <2>7
  <2>12. ticketBalance'[w] = Tickets[w] + Won(w)' - Cardinality(TakenBy(w)')
    BY <2>1, <2>6, <2>8, <2>10, <2>11
  <2>13. ticketBalance'[w] = mirror'[w] + Cardinality(OwedBy(w)') + Coming(w)'
    BY <2>2, <2>6, <2>8, <2>9, <2>10, <2>11
  <2> QED BY <2>8, <2>10, <2>11, <2>12, <2>13
<1>7. DOMAIN ticketBalance' = Wallets /\ ticketBalance' = [w \in Wallets |-> ticketBalance'[w]]
  BY DEF SpendBatch
<1>8. ticketBalance' \in Batch
  BY <1>6, <1>7 DEF Batch
<1> QED BY <1>6, <1>8 DEF BalanceInv

LEMMA RewardIsMined ==
    ASSUME BatchInv, LinkInv, BalanceInv, NEW t \in Txs, tx[t].state = "pool", tx[t].kind = "reward",
           tx' = [tx EXCEPT ![t].state = "success"], CreditBatch(BatchOf("reward", tx[t].rows)),
           unseen' = unseen \cup ({t} \X {w \in Wallets : BatchOf("reward", tx[t].rows)[w] > 0}),
           UNCHANGED <<tag, rewardTag, mirror>>
    PROVE  BalanceInv'
<1> DEFINE batch == BatchOf("reward", tx[t].rows)
<1>0. Shape /\ IsTx(tx[t])
  BY DEF BatchInv, Shape
<1>1. /\ \A u \in Txs \ {t} : tx'[u] = tx[u]
      /\ tx'[t].state = "success" /\ tx'[t].rows = tx[t].rows
  BY <1>0 DEF Shape, IsTx
<1>2. Mined' = Mined \cup {t} /\ t \notin Mined /\ Absent \notin Txs /\ Mined \subseteq Txs
  BY <1>1, TagFacts DEF Mined
<1>3. /\ \A w \in Wallets : ticketBalance'[w] = ticketBalance[w] + batch[w]
      /\ ticketBalance' = [w \in Wallets |-> ticketBalance'[w]]
  BY DEF CreditBatch, Credit
<1>4. \A w \in Wallets : batch[w] = Sum(RewardOf, RewardsOf(t, w))
  BY RewardBatchSums DEF Broadcasted
<1>5. \A r \in LedgerRows : tag[r] # t
  BY DEF LinkInv, Carries
<1>6. \A u \in Txs : tx'[u].rows = tx[u].rows
  BY <1>1
<1>7. CreditOf' = CreditOf
  BY <1>6 DEF CreditOf
<1>8. \A w \in Wallets : CreditOf[<<t, w>>] = batch[w]
  BY DEF CreditOf
<1>9. unseen' = unseen \cup ({t} \X {w \in Wallets : batch[w] > 0})
  OBVIOUS
<1>10. \A log \in unseen : log[1] # t
  BY DEF LinkInv, IsCredit
<1> HIDE DEF batch
<1>11. ASSUME NEW w \in Wallets
      PROVE  /\ ticketBalance'[w] = Tickets[w] + Won(w)' - Cardinality(TakenBy(w)')
             /\ ticketBalance'[w] = mirror'[w] + Cardinality(OwedBy(w)') + Coming(w)'
             /\ ticketBalance'[w] \in Nat
  <2>1. TakenBy(w)' = TakenBy(w) /\ OwedBy(w)' = OwedBy(w)
    BY <1>2, <1>5, RowFacts DEF TakenBy, OwedBy, RunsOf, HasRow
  <2> DEFINE S == RewardsOf(t, w)
  <2>2. WonBy(w)' = WonBy(w) \cup S /\ WonBy(w) \cap S = {} /\ S \subseteq Rewards /\ WonBy(w) \subseteq Rewards
    BY <1>2 DEF WonBy, RewardsOf
  <2>3. batch[w] = Sum(RewardOf, S)
    BY <1>4
  <2> HIDE DEF S
  <2>4. IsFiniteSet(S) /\ IsFiniteSet(WonBy(w)) /\ \A r \in WonBy(w) \cup S : RewardOf[r] \in Nat
    BY <2>2, FiniteFacts, FS_Subset
  <2>5. batch[w] \in Nat
    BY <2>3, <2>4, SumIsNatural
  <2>6. Sum(RewardOf, WonBy(w) \cup S) = Sum(RewardOf, WonBy(w)) + Sum(RewardOf, S)
    BY <2>2, <2>4, SumOfUnion
  <2>7. Won(w)' = Won(w) + batch[w]
    BY <2>2, <2>3, <2>6 DEF Won
  <2>8. /\ IsFiniteSet(LogsOf(w)) /\ Won(w) \in Nat /\ Coming(w) \in Nat
        /\ Cardinality(TakenBy(w)) \in Nat /\ Cardinality(OwedBy(w)) \in Nat
        /\ \A log \in unseen : CreditOf[log] \in Nat
    BY CountsAreNatural
  <2>9. Coming(w)' = Sum(CreditOf, LogsOf(w)')
    BY <1>7 DEF Coming
  <2>10. Coming(w)' = Coming(w) + batch[w]
    <3>1. CASE batch[w] = 0
      <4>1. LogsOf(w)' = LogsOf(w)
        BY <1>9, <3>1 DEF LogsOf
      <4> QED BY <2>8, <2>9, <3>1, <4>1 DEF Coming
    <3>2. CASE batch[w] # 0
      <4>1. batch[w] > 0
        BY <2>5, <3>2
      <4>2. LogsOf(w)' = LogsOf(w) \cup {<<t, w>>}
        BY <1>9, <4>1 DEF LogsOf
      <4>3. <<t, w>> \notin LogsOf(w) /\ \A log \in LogsOf(w) \cup {<<t, w>>} : CreditOf[log] \in Nat
        BY <1>8, <1>10, <2>5, <2>8 DEF LogsOf
      <4>4. Sum(CreditOf, LogsOf(w) \cup {<<t, w>>}) = Sum(CreditOf, LogsOf(w)) + CreditOf[<<t, w>>]
        BY <2>8, <4>3, SumPutsIn
      <4> QED BY <1>8, <2>9, <4>2, <4>4 DEF Coming
    <3> QED BY <3>1, <3>2
  <2>11. /\ ticketBalance[w] \in Nat /\ mirror[w] \in Nat /\ mirror'[w] = mirror[w] /\ Tickets[w] \in Nat
         /\ ticketBalance[w] = Tickets[w] + Won(w) - Cardinality(TakenBy(w))
         /\ ticketBalance[w] = mirror[w] + Cardinality(OwedBy(w)) + Coming(w)
    BY TicketsAreNatural DEF BalanceInv, Batch, TicketsAreNatural
  <2>12. ticketBalance'[w] = ticketBalance[w] + batch[w]
    BY <1>3
  <2>13. ticketBalance'[w] = Tickets[w] + Won(w)' - Cardinality(TakenBy(w)')
    BY <2>1, <2>5, <2>7, <2>8, <2>11, <2>12
  <2>14. ticketBalance'[w] = mirror'[w] + Cardinality(OwedBy(w)') + Coming(w)'
    BY <2>1, <2>5, <2>8, <2>10, <2>11, <2>12
  <2> QED BY <2>5, <2>11, <2>12, <2>13, <2>14
<1>12. ticketBalance' \in Batch
  BY <1>3, <1>11 DEF Batch
<1> QED BY <1>11, <1>12 DEF BalanceInv

\* The transactions that fail, and those the mempool forgets, move nothing.
LEMMA ChainBalances ==
    ASSUME BatchInv, LinkInv, BalanceInv, NEW t \in Txs, Mine(t) \/ Drop(t)
    PROVE  BalanceInv'
<1>0. Shape /\ IsTx(tx[t])
  BY DEF BatchInv, Shape
<1>1. tx[t].state = "pool" /\ UNCHANGED <<tag, rewardTag, mirror>>
  BY DEF Mine, Drop, gameVars, rewardVars
<1>2. ASSUME NEW v \in {"reverted", "gone"}, tx' = [tx EXCEPT ![t].state = v],
             UNCHANGED <<ticketBalance, unseen>>
      PROVE  BalanceInv'
  <2>1. tx'[t].state = v /\ \A u \in Txs \ {t} : tx'[u] = tx[u]
    BY <1>0, <1>2 DEF Shape, IsTx
  <2>2. \A u \in Txs : /\ tx'[u].state = "success" <=> tx[u].state = "success"
                       /\ tx[u].state = "success" => tx'[u].rows = tx[u].rows
    BY <1>1, <2>1
  <2> QED BY <1>1, <1>2, <2>2, SameMined
<1>3. CASE Drop(t)
  BY <1>2, <1>3 DEF Drop, vaultVars, ticketVars
<1>4. CASE Mine(t)
  <2> DEFINE k == tx[t].kind
             batch == BatchOf(k, tx[t].rows)
             ok == CallSucceeds(k, batch)
  <2>1. /\ tx' = [tx EXCEPT ![t].state = IF ok THEN "success" ELSE "reverted"]
        /\ unseen' = unseen \cup (IF k = "reward" /\ ok
                                  THEN {t} \X {w \in Wallets : batch[w] > 0} ELSE {})
        /\ \/ ok /\ k = "spend" /\ SpendBatch(batch)
           \/ ok /\ k = "reward" /\ CreditBatch(batch)
           \/ ~ok /\ UNCHANGED vaultVars
    BY <1>4 DEF Mine
  <2> HIDE DEF k, batch, ok
  <2>2. CASE ok /\ k = "spend" /\ SpendBatch(batch)
    <3>1. unseen' = unseen /\ tx' = [tx EXCEPT ![t].state = "success"]
      BY <2>1, <2>2
    <3>2. tx[t].kind = "spend" /\ SpendBatch(BatchOf("spend", tx[t].rows))
      BY <2>2 DEF k, batch
    <3> QED BY <1>1, <3>1, <3>2, SpendIsMined
  <2>3. CASE ok /\ k = "reward" /\ CreditBatch(batch)
    <3>1. /\ unseen' = unseen \cup ({t} \X {w \in Wallets : batch[w] > 0})
          /\ tx' = [tx EXCEPT ![t].state = "success"]
      BY <2>1, <2>3
    <3>2. tx[t].kind = "reward" /\ batch = BatchOf("reward", tx[t].rows)
      BY <2>3 DEF k, batch
    <3>3. CreditBatch(BatchOf("reward", tx[t].rows))
      BY <2>3, <3>2
    <3> QED BY <1>1, <3>1, <3>2, <3>3, RewardIsMined
  <2>4. CASE ~ok /\ UNCHANGED vaultVars
    <3>1. unseen' = unseen /\ tx' = [tx EXCEPT ![t].state = "reverted"] /\ UNCHANGED ticketBalance
      BY <2>1, <2>4 DEF vaultVars, ticketVars
    <3> QED BY <1>2, <3>1
  <2> QED BY <2>1, <2>2, <2>3, <2>4
<1> QED BY <1>3, <1>4

\* The listener gives the mirror what the log says, once.
LEMMA CreditBalances ==
    ASSUME LinkInv, BalanceInv, NEW log \in unseen, MirrorCredit(log)
    PROVE  BalanceInv'
<1> DEFINE o == log[2]
           c == CreditOf[log]
<1>1. /\ unseen' = unseen \ {log} /\ mirror' = [mirror EXCEPT ![o] = @ + c]
      /\ UNCHANGED <<tag, rewardTag, tx, ticketBalance>>
  BY DEF MirrorCredit, rewardVars, vaultVars, ticketVars
<1>2. o \in Wallets /\ log \in Txs \X Wallets
  BY DEF LinkInv
<1>3. c \in Nat
  BY <1>2, CountsAreNatural
<1>4. CreditOf' = CreditOf
  BY <1>1 DEF CreditOf
<1> HIDE DEF c
<1>5. /\ mirror' \in Batch /\ mirror'[o] = mirror[o] + c
      /\ \A w \in Wallets \ {o} : mirror'[w] = mirror[w]
  BY <1>1, <1>2, <1>3 DEF BalanceInv, Batch
<1>6. ASSUME NEW w \in Wallets
      PROVE  /\ ticketBalance'[w] = Tickets[w] + Won(w)' - Cardinality(TakenBy(w)')
             /\ ticketBalance'[w] = mirror'[w] + Cardinality(OwedBy(w)') + Coming(w)'
  <2>1. TakenBy(w)' = TakenBy(w) /\ OwedBy(w)' = OwedBy(w) /\ WonBy(w)' = WonBy(w)
    BY <1>1 DEF TakenBy, OwedBy, WonBy, RunsOf, HasRow, Mined
  <2>2. Won(w)' = Won(w)
    BY <2>1 DEF Won
  <2>3. /\ IsFiniteSet(LogsOf(w)) /\ Won(w) \in Nat /\ Coming(w) \in Nat
        /\ Cardinality(TakenBy(w)) \in Nat /\ Cardinality(OwedBy(w)) \in Nat
        /\ \A x \in LogsOf(w) : CreditOf[x] \in Nat
    BY CountsAreNatural DEF LogsOf
  <2>4. Coming(w)' = Sum(CreditOf, LogsOf(w)')
    BY <1>4 DEF Coming
  <2>5. /\ w = o => Coming(w) = c + Coming(w)' /\ Coming(w)' \in Nat
        /\ w # o => Coming(w)' = Coming(w)
    <3>1. CASE w = o
      <4>1. log \in LogsOf(w) /\ LogsOf(w)' = LogsOf(w) \ {log}
        BY <1>1, <3>1 DEF LogsOf
      <4>2. Sum(CreditOf, LogsOf(w)) = CreditOf[log] + Sum(CreditOf, LogsOf(w) \ {log})
        BY <2>3, <4>1, SumTakesOut
      <4>3. IsFiniteSet(LogsOf(w) \ {log})
        BY <2>3, FS_Subset
      <4>4. Sum(CreditOf, LogsOf(w) \ {log}) \in Nat
        BY <2>3, <4>3, SumIsNatural
      <4> QED BY <2>4, <3>1, <4>1, <4>2, <4>4 DEF Coming, c
    <3>2. CASE w # o
      <4>1. LogsOf(w)' = LogsOf(w)
        BY <1>1, <3>2 DEF LogsOf
      <4> QED BY <2>4, <3>2, <4>1 DEF Coming
    <3> QED BY <3>1, <3>2
  <2>6. /\ ticketBalance'[w] = ticketBalance[w] /\ ticketBalance[w] \in Nat /\ mirror[w] \in Nat
        /\ ticketBalance[w] = Tickets[w] + Won(w) - Cardinality(TakenBy(w))
        /\ ticketBalance[w] = mirror[w] + Cardinality(OwedBy(w)) + Coming(w)
    BY <1>1 DEF BalanceInv, Batch
  <2> HIDE DEF o
  <2>7. ticketBalance'[w] = mirror'[w] + Cardinality(OwedBy(w)') + Coming(w)'
    BY <1>3, <1>5, <2>1, <2>3, <2>5, <2>6
  <2> QED BY <2>1, <2>2, <2>6, <2>7
<1> QED BY <1>1, <1>5, <1>6 DEF BalanceInv

LEMMA BalanceInit == Init => BalanceInv
<1> SUFFICES ASSUME Init PROVE BalanceInv
  OBVIOUS
<1>1. /\ ticketBalance = Tickets /\ mirror = Tickets /\ Tickets \in Batch
      /\ unseen = {} /\ \A r \in LedgerRows : tag[r] = Absent
      /\ \A r \in Rewards : rewardTag[r] = Null
  BY TicketsAreNatural DEF Init, VaultInit, Batch, TicketsAreNatural
<1>2. Absent \notin Mined /\ Null \notin Mined
  BY TagFacts DEF Mined
<1>3. ASSUME NEW w \in Wallets
      PROVE  Won(w) = 0 /\ Coming(w) = 0 /\ Cardinality(TakenBy(w)) = 0 /\ Cardinality(OwedBy(w)) = 0
             /\ Tickets[w] \in Nat
  <2>1. WonBy(w) = {} /\ LogsOf(w) = {} /\ TakenBy(w) = {} /\ OwedBy(w) = {}
    BY <1>1, <1>2, RowFacts DEF WonBy, LogsOf, TakenBy, OwedBy, RunsOf, HasRow
  <2>2. Cardinality({}) = 0 /\ Sum(RewardOf, {}) = 0 /\ Sum(CreditOf, {}) = 0
    BY FS_EmptySet, SumEmpty
  <2> QED BY <1>1, <2>1, <2>2 DEF Won, Coming, Batch
<1> QED BY <1>1, <1>3 DEF BalanceInv

LEMMA BalanceStep == BatchInv /\ LinkInv /\ BalanceInv /\ [Next]_vars => BalanceInv'
<1> SUFFICES ASSUME BatchInv, LinkInv, BalanceInv, [Next]_vars PROVE BalanceInv'
  OBVIOUS
<1>1. CASE GameStep
  BY <1>1, GameBalances
<1>2. ASSUME NEW r \in Rewards, QueueReward(r) PROVE BalanceInv'
  BY <1>2, NothingMoves DEF QueueReward, gameVars, chainVars, vaultVars, ticketVars
<1>3. CASE SpendStep \/ RewardStep
  BY <1>3, WorkersAreQuiet
<1>4. ASSUME NEW k \in Workers, ReadFails(k) PROVE BalanceInv'
  BY <1>4, NothingMoves DEF ReadFails, gameVars, rewardVars, chainVars, vaultVars, ticketVars
<1>5. CASE Restart
  BY <1>5, NothingMoves DEF Restart, gameVars, rewardVars, chainVars, vaultVars, ticketVars
<1>6. ASSUME NEW t \in Txs, Mine(t) \/ Drop(t) PROVE BalanceInv'
  BY <1>6, ChainBalances
<1>7. ASSUME NEW log \in unseen, MirrorCredit(log) PROVE BalanceInv'
  BY <1>7, CreditBalances
<1>8. CASE OwnerSetsOperator
  BY <1>8, NothingMoves DEF OwnerSetsOperator, SetOperator, gameVars, rewardVars, chainVars, ticketVars
<1>9. CASE UNCHANGED vars
  BY <1>9, NothingMoves DEF vars, gameVars, rewardVars, chainVars, vaultVars, ticketVars
<1> QED BY <1>1, <1>2, <1>3, <1>4, <1>5, <1>6, <1>7, <1>8, <1>9 DEF Next

----------------------------------------------------------------------------
\* A spend that is tagged for the chain belongs to a run that was never refunded, and
\* never will be: crashes, failed updates and late refunds included.
THEOREM SettledKeepsItsSpend == Spec => []SettledIsNeverRefunded
<1>1. BatchInv => SettledIsNeverRefunded
  BY DEF BatchInv, LedgerInv, SettledIsNeverRefunded
<1> QED BY <1>1, BatchInit, BatchStep, PTL DEF Spec

\* A reward is called CREDITED only when its transaction was mined and succeeded.
THEOREM CreditedWasMined == Spec => []CreditedIsMined
<1>1. BatchInv => CreditedIsMined
  BY DEF BatchInv, RewardsInv, CreditedIsMined, Mined
<1> QED BY <1>1, BatchInit, BatchStep, PTL DEF Spec

\* "A spend batch can never be debited twice" (spendBatchExecutor.ts:244-246), nor
\* a reward batch credited twice, through crashes, lost answers, rejected
\* broadcasts and replaced transactions.
THEOREM ChainIsSettledOnce == Spec => []ChainAgreesWithTags
<1>1. Init => BatchInv /\ LinkInv /\ BalanceInv
  BY BatchInit, LinkInit, BalanceInit
<1>2. BatchInv /\ LinkInv /\ BalanceInv /\ [Next]_vars => (BatchInv /\ LinkInv /\ BalanceInv)'
  BY BatchStep, LinkStep, BalanceStep
<1> QED BY <1>1, <1>2, BalanceIsAgreement, PTL DEF Spec

\* The tickets a batch spends are on the chain: the mirror balance, the spends on
\* their way and the credits not yet seen are what the vault holds for a wallet.
THEOREM EverySpendIsCovered == Spec => []SpendIsCovered
<1>1. Init => BatchInv /\ LinkInv /\ BalanceInv
  BY BatchInit, LinkInit, BalanceInit
<1>2. BatchInv /\ LinkInv /\ BalanceInv /\ [Next]_vars => (BatchInv /\ LinkInv /\ BalanceInv)'
  BY BatchStep, LinkStep, BalanceStep
<1> QED BY <1>1, <1>2, BalanceIsAgreement, PTL DEF Spec
============================================================================
