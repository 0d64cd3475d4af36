-------------------------- MODULE TicketShopProofs --------------------------
(***************************************************************************)
(* The daily reward and the shop, for any number of tabs, transactions and *)
(* faults and any length of the week.                                      *)
(*                                                                         *)
(* The listener follows the chain: the claims it has yet to see lead from  *)
(* the streak of its row to the one earned.  A claim is signed from that   *)
(* row and mined after others may have been; the number of claims that had *)
(* been mined when it was asked for tells whether one came between.        *)
(***************************************************************************)
EXTENDS TicketShop, SumTheorems

LEMMA StreakDayIsDay ==
    ASSUME NEW prev \in Streaks, NEW last \in Days, NEW today \in Days
    PROVE  computeStreakDay(prev, last, today) \in Streaks
<1>1. Cycle \in Nat /\ Cycle > 0 /\ prev \in Nat
  BY ShopBounds, DaysGoOn DEF Streaks
<1>2. prev % Cycle \in 0..(Cycle - 1)
  BY <1>1
<1> HIDE DEF Streaks
<1>3. (prev % Cycle) + 1 \in Streaks /\ 1 \in Streaks
  BY <1>1, <1>2 DEF Streaks
<1> QED BY <1>3 DEF computeStreakDay

LEMMA RewardsAreNatural == ASSUME NEW d PROVE Rewards(d) \subseteq Nat
<1>1. Box \subseteq Nat
  BY ShopBounds
<1> QED BY <1>1 DEF Rewards

LEMMA IdleIsTab == Idle \in Tab
BY ShopBounds, DaysGoOn DEF Idle, Tab, Days, Streaks, Steps

LEMMA CreditKeepsTypes ==
    ASSUME TypeOK, NEW n \in Nat, Credit(One(n))
    PROVE  ticketBalance' \in [Wallets -> Nat] /\ {totalTicketsIssued, totalTicketsSpent}' \subseteq Nat
<1>1. Total(One(n)) = Sum(One(n), Wallets)
  BY Zenon DEF Total, Sum
<1>2. \A w \in Wallets : One(n)[w] \in Nat
  BY DEF One
<1>3. Total(One(n)) \in Nat
  BY <1>1, <1>2, SumIsNatural, WalletsAreFinite
<1> QED BY <1>2, <1>3 DEF Credit, TypeOK

----------------------------------------------------------------------------
(* Types                                                                   *)

\* A press moves one tab; it may look at the chain again.
LEMMA PageTypes ==
    ASSUME TypeOK, NEW t \in Tabs, NEW new \in Tab, Enter(t, new),
           Invalidate(t) \/ UNCHANGED <<status, snapshot>>,
           txs' \in Seq(Tx), faults' \in 0..MaxFaults, UNCHANGED chainVars
    PROVE  TypeOK'
<1>1. tab' \in [Tabs -> Tab]
  BY DEF Enter, TypeOK
<1>2. /\ status' \in [Tabs -> BOOLEAN]
      /\ snapshot' \in [Tabs -> [allowance: Nat, balance: Nat]]
  <2>1. Snapshot \in [allowance: Nat, balance: Nat] /\ Claimable \in BOOLEAN
    BY DEF TypeOK, Snapshot, Claimable
  <2> QED BY <2>1 DEF Invalidate, TypeOK
<1> QED BY <1>1, <1>2 DEF TypeOK, chainVars, vaultVars, ticketVars, ownerVars, coinVars,
           mirrorVars, history

LEMMA TellTypes ==
    ASSUME TypeOK, NEW t \in Tabs, NEW refresh, Tell(t, refresh), txs' = txs,
           faults' \in 0..MaxFaults, UNCHANGED chainVars
    PROVE  TypeOK'
<1>1. txs' \in Seq(Tx)
  BY DEF TypeOK
<1> QED BY <1>1, IdleIsTab, PageTypes DEF Tell

LEMMA AskClaimTypes == ASSUME TypeOK, NEW t \in Tabs, AskClaim(t) PROVE TypeOK'
<1> DEFINE new == [Idle EXCEPT !.step = "asked", !.day = day, !.last = lastClaimDay,
                               !.base = claims, !.kind = "claim"]
<1>1. new \in Tab
  BY IdleIsTab DEF TypeOK, Tab, Steps
<1>2. txs' \in Seq(Tx) /\ faults' \in 0..MaxFaults /\ UNCHANGED chainVars /\ txs' = txs
  BY DEF AskClaim, TypeOK
<1> HIDE DEF new
<1>3. \/ Tell(t, Refreshes("already"))
      \/ Enter(t, new) /\ UNCHANGED <<status, snapshot>>
  BY DEF AskClaim, new
<1> QED BY <1>1, <1>2, <1>3, TellTypes, PageTypes

LEMMA SignClaimTypes == ASSUME TypeOK, NEW t \in Tabs, SignClaim(t) PROVE TypeOK'
<1> DEFINE d == computeStreakDay(streak, tab[t].last, tab[t].day)
<1>1. tab[t] \in Tab
  BY DEF TypeOK
<1>2. d \in Streaks
  BY <1>1, StreakDayIsDay DEF TypeOK, Tab
<1> HIDE DEF d
<1>3. PICK amount \in Rewards(d) : Enter(t, signDailyClaim(tab[t], d, amount))
  BY DEF SignClaim, d
<1>4. amount \in Nat
  BY RewardsAreNatural
<1>5. signDailyClaim(tab[t], d, amount) \in Tab
  BY <1>1, <1>2, <1>4 DEF signDailyClaim, Tab, Steps
<1>6. txs' \in Seq(Tx) /\ faults' \in 0..MaxFaults /\ UNCHANGED chainVars
      /\ UNCHANGED <<status, snapshot>>
  BY DEF SignClaim, KeepStreak, TypeOK, chainVars, mirrorVars
<1> QED BY <1>3, <1>5, <1>6, PageTypes

LEMMA PressBuyTypes ==
    ASSUME TypeOK, NEW t \in Tabs, NEW usd \in Usd, PressBuy(t, usd)
    PROVE  TypeOK'
<1> DEFINE new == [Idle EXCEPT !.step = IF snapshot[t].allowance >= usd THEN "buy" ELSE "approve",
                               !.usd = usd]
<1>1. new \in Tab
  <2>1. usd \in Nat
    BY ShopBounds
  <2> QED BY <2>1, IdleIsTab DEF Tab, Steps
<1>2. txs' \in Seq(Tx) /\ faults' \in 0..MaxFaults /\ UNCHANGED chainVars /\ txs' = txs
  BY DEF PressBuy, TypeOK
<1> HIDE DEF new
<1>3. \/ Tell(t, Refreshes("insufficient"))
      \/ Enter(t, new) /\ UNCHANGED <<status, snapshot>>
  BY DEF PressBuy, new
<1> QED BY <1>1, <1>2, <1>3, TellTypes, PageTypes

\* What the wallet is asked to send, and the tab that waits for it.
Sent(t) == [kind |-> tab[t].step, day |-> tab[t].day, streak |-> tab[t].streak,
            fresh |-> tab[t].caught, base |-> tab[t].base,
            amount |-> tab[t].amount + tab[t].usd, result |-> "pending"]
Waiting(t) == [tab[t] EXCEPT !.step = "wait", !.kind = tab[t].step, !.tx = Len(txs) + 1]

LEMMA ConfirmShape ==
    ASSUME TypeOK, NEW t \in Tabs, Confirm(t)
    PROVE  /\ Sent(t) \in Tx /\ Waiting(t) \in Tab
           /\ txs' = Append(txs, Sent(t)) /\ txs' \in Seq(Tx) /\ Enter(t, Waiting(t))
           /\ faults' \in 0..MaxFaults /\ UNCHANGED <<chainVars, status, snapshot>>
<1>1. tab[t] \in Tab /\ tab[t].step \in {"claim", "approve", "buy"} /\ txs \in Seq(Tx)
  BY DEF Confirm, Prompts, TypeOK
<1>2. tab[t].amount + tab[t].usd \in Nat /\ Len(txs) + 1 \in Nat
  <2>1. tab[t].amount \in Nat /\ tab[t].usd \in Nat
    BY <1>1 DEF Tab
  <2>2. Len(txs) \in Nat
    BY <1>1
  <2> QED BY <2>1, <2>2
<1>3. Sent(t) \in Tx
  BY <1>1, <1>2 DEF Sent, Tx, Tab
<1>4. Waiting(t) \in Tab
  BY <1>1, <1>2 DEF Waiting, Tab, Steps
<1>5. /\ txs' = Append(txs, Sent(t)) /\ Enter(t, Waiting(t))
      /\ faults' = faults /\ UNCHANGED <<chainVars, status, snapshot>>
  BY DEF Confirm, Sent, Waiting
<1> QED BY <1>1, <1>3, <1>4, <1>5 DEF TypeOK

LEMMA ConfirmTypes == ASSUME TypeOK, NEW t \in Tabs, Confirm(t) PROVE TypeOK'
BY ConfirmShape, PageTypes

LEMMA ReceiptTypes == ASSUME TypeOK, NEW t \in Tabs, Receipt(t) PROVE TypeOK'
<1> DEFINE buy == [tab[t] EXCEPT !.step = "buy"]
           done == [Idle EXCEPT !.kind = tab[t].kind, !.tx = tab[t].tx]
<1>1. tab[t] \in Tab
  BY DEF TypeOK
<1>2. buy \in Tab /\ done \in Tab
  BY <1>1, IdleIsTab DEF Tab, Steps
<1>3. txs' \in Seq(Tx) /\ faults' \in 0..MaxFaults /\ UNCHANGED chainVars /\ txs' = txs
  BY DEF Receipt, TypeOK
<1> HIDE DEF buy, done
<1>4. \/ Tell(t, Refreshes("failed"))
      \/ Enter(t, buy) /\ UNCHANGED <<status, snapshot>>
      \/ Enter(t, done) /\ Invalidate(t)
  BY DEF Receipt, buy, done
<1> QED BY <1>2, <1>3, <1>4, TellTypes, PageTypes

LEMMA FailureTypes ==
    ASSUME TypeOK, NEW t \in Tabs,
           RouteFails(t) \/ Reject(t) \/ WalletRefuses(t) \/ ReceiptTimesOut(t)
    PROVE  TypeOK'
<1>1. PICK refresh : Tell(t, refresh)
  BY DEF RouteFails, Reject, WalletRefuses, ReceiptTimesOut
<1>2. txs' = txs /\ UNCHANGED chainVars /\ (faults' = faults \/ (faults < MaxFaults /\ faults' = faults + 1))
  BY DEF RouteFails, Reject, WalletRefuses, ReceiptTimesOut
<1>3. faults' \in 0..MaxFaults
  BY <1>2, ShopBounds DEF TypeOK
<1> QED BY <1>1, <1>2, <1>3, TellTypes

LEMMA RefetchTypes == ASSUME TypeOK, NEW t \in Tabs, Refetch(t) PROVE TypeOK'
<1>1. tab[t] \in Tab /\ Enter(t, tab[t]) /\ Invalidate(t)
  BY DEF Refetch, Enter, TypeOK
<1> QED BY <1>1, PageTypes DEF Refetch, chainVars, TypeOK

\* A transaction settles once; what it changes on the chain keeps its type.
LEMMA SettleTypes ==
    ASSUME TypeOK, NEW i \in DOMAIN txs, NEW result \in {"ok", "failed", "dropped"},
           Settle(i, result)
    PROVE  /\ txs' \in Seq(Tx) /\ DOMAIN txs' = DOMAIN txs
           /\ txs[i] \in Tx /\ txs'[i] = [txs[i] EXCEPT !.result = result]
           /\ \A j \in DOMAIN txs : j # i => txs'[j] = txs[j]
<1>1. txs \in Seq(Tx) /\ txs[i] \in Tx
  BY DEF TypeOK
<1>2. [txs[i] EXCEPT !.result = result] \in Tx
  BY <1>1 DEF Tx
<1> QED BY <1>1, <1>2 DEF Settle

LEMMA ChainTypes ==
    ASSUME TypeOK, NEW i \in DOMAIN txs,
           claimDaily(i) \/ buyTickets(i) \/ approve(i) \/ Revert(i) \/ Dropped(i)
    PROVE  TypeOK'
<1> USE DEF vaultVars, ticketVars, ownerVars, coinVars, mirrorVars, history, pageVars, chainVars
<1>1. /\ txs[i] \in Tx /\ txs' \in Seq(Tx)
  BY SettleTypes DEF claimDaily, buyTickets, approve, Revert, Dropped
<1>2. CASE claimDaily(i)
  <2>1. computeStreakDay(earned, lastClaimDay, txs[i].day) \in Streaks
    BY <1>1, StreakDayIsDay DEF TypeOK, Tx
  <2>2. /\ ticketBalance' \in [Wallets -> Nat]
        /\ {totalTicketsIssued, totalTicketsSpent}' \subseteq Nat
    BY <1>1, <1>2, CreditKeepsTypes DEF claimDaily, Tx
  <2>3. paid' \in [streak: Streaks, inStep: BOOLEAN]
    <3>1. (txs[i].fresh /\ txs[i].base = claims) \in BOOLEAN
      OBVIOUS
    <3> QED BY <1>1, <1>2, <3>1 DEF claimDaily, Tx
  <2>4. lastClaimDay' \in Days /\ logs' \in Seq(Days) /\ claims' \in Nat
    BY <1>1, <1>2 DEF claimDaily, TypeOK, Tx
  <2> QED BY <1>1, <1>2, <2>1, <2>2, <2>3, <2>4 DEF claimDaily, TypeOK
<1>3. CASE buyTickets(i)
  <2>1. txs[i].amount \in Nat /\ 20 * txs[i].amount \in Nat
    BY <1>1 DEF Tx
  <2>2. /\ ticketBalance' \in [Wallets -> Nat]
        /\ {totalTicketsIssued, totalTicketsSpent}' \subseteq Nat
    BY <1>3, <2>1, CreditKeepsTypes DEF buyTickets
  <2>3. funds' \in Nat /\ allowance' \in Nat
    BY <1>3, <2>1 DEF buyTickets, BuyAllowed, TypeOK
  <2> QED BY <1>1, <1>3, <2>2, <2>3 DEF buyTickets, TypeOK
<1>4. CASE approve(i)
  <2>1. txs[i].amount \in Nat
    BY <1>1 DEF Tx
  <2>2. allowance' \in Nat
    BY <1>4, <2>1 DEF approve
  <2>3. UNCHANGED <<vaultVars, ownerVars, lastClaimDay, funds, mirrorVars, day, history,
                    pageVars, faults>>
    BY <1>4 DEF approve
  <2> QED BY <1>1, <2>2, <2>3 DEF TypeOK
<1>5. CASE Revert(i)
  BY <1>1, <1>5 DEF Revert, TypeOK
<1>6. CASE Dropped(i)
  BY <1>1, <1>6, ShopBounds DEF Dropped, TypeOK
<1> QED BY <1>2, <1>3, <1>4, <1>5, <1>6

LEMMA RestTypes == ASSUME TypeOK, ObserveClaim \/ Midnight \/ Owner PROVE TypeOK'
<1> USE DEF vaultVars, ticketVars, ownerVars, coinVars, mirrorVars, history, pageVars
<1>1. CASE ObserveClaim
  <2>1. Head(logs) \in Days /\ Tail(logs) \in Seq(Days)
    BY <1>1 DEF ObserveClaim, TypeOK
  <2>2. computeStreakDay(streak, mirrored, Head(logs)) \in Streaks
    BY <2>1, StreakDayIsDay DEF TypeOK
  <2> QED BY <1>1, <2>1, <2>2 DEF ObserveClaim, TypeOK
<1>2. CASE Midnight
  <2>1. day' \in Days
    BY <1>2, ShopBounds DEF Midnight, TypeOK, Days
  <2>2. UNCHANGED <<vaultVars, ownerVars, lastClaimDay, coinVars, txs, mirrorVars, pageVars,
                    faults, history>>
    BY <1>2 DEF Midnight
  <2> QED BY <2>1, <2>2 DEF TypeOK
<1>3. CASE Owner
  <2>1. faults' \in 0..MaxFaults
    BY <1>3, ShopBounds DEF Owner, TypeOK
  <2>2. paused \in BOOLEAN /\ enabled \in BOOLEAN
    BY DEF TypeOK
  <2>3. paused' \in BOOLEAN /\ enabled' \in BOOLEAN
    BY <1>3, <2>2, Zenon DEF Owner
  <2>4. UNCHANGED <<vaultVars, lastClaimDay, coinVars, txs, mirrorVars, day, pageVars, history>>
    BY <1>3 DEF Owner
  <2> QED BY <2>1, <2>3, <2>4 DEF TypeOK
<1> QED BY <1>1, <1>2, <1>3

LEMMA InitTypes == Init => TypeOK
<1> SUFFICES ASSUME Init PROVE TypeOK
  OBVIOUS
<1>1. Total(Tickets) \in Nat
  <2>1. Total(Tickets) = Sum(Tickets, Wallets)
    BY Zenon DEF Total, Sum
  <2> QED BY <2>1, SumIsNatural, WalletsAreFinite, TicketsAreNatural
<1>2. /\ ticketBalance \in [Wallets -> Nat] /\ {totalTicketsIssued, totalTicketsSpent} \subseteq Nat
      /\ operator \in BOOLEAN
  BY <1>1, TicketsAreNatural DEF Init, VaultInit
<1>3. {0, 1, 2} \subseteq Days /\ 0 \in Streaks /\ 0 \in 0..MaxFaults /\ Funds \in Nat
  BY ShopBounds, DaysGoOn DEF Days, Streaks
<1>4. streak \in Streaks /\ earned \in Streaks /\ lastClaimDay \in Days /\ mirrored \in Days
  BY <1>3, ShopBounds DEF Init, Streaks
<1>5. tab \in [Tabs -> Tab] /\ status \in [Tabs -> BOOLEAN]
      /\ snapshot \in [Tabs -> [allowance: Nat, balance: Nat]]
  BY <1>3, IdleIsTab DEF Init
<1>6. paid \in [streak: Streaks, inStep: BOOLEAN] /\ faults \in 0..MaxFaults /\ claims \in Nat
  BY <1>3 DEF Init
<1>7. txs \in Seq(Tx) /\ logs \in Seq(Days)
  BY DEF Init
<1>8. {paused, enabled} \subseteq BOOLEAN /\ day \in Days /\ funds \in Nat /\ allowance \in Nat
  BY <1>3 DEF Init
<1> QED BY <1>2, <1>4, <1>5, <1>6, <1>7, <1>8 DEF TypeOK

LEMMA StepTypes == TypeOK /\ [Next]_vars => TypeOK'
<1> SUFFICES ASSUME TypeOK, [Next]_vars PROVE TypeOK'
  OBVIOUS
<1>1. CASE UNCHANGED vars
  BY <1>1 DEF TypeOK, vars, vaultVars, ticketVars, ownerVars, coinVars, mirrorVars, history,
     pageVars
<1>2. ASSUME NEW t \in Tabs,
             \/ AskClaim(t) \/ Proceed(t) \/ RouteFails(t) \/ Refetch(t)
             \/ \E usd \in Usd : PressBuy(t, usd)
      PROVE  TypeOK'
  BY <1>2, AskClaimTypes, SignClaimTypes, PressBuyTypes, ConfirmTypes, ReceiptTypes, FailureTypes,
     RefetchTypes DEF Proceed, Answer
<1> QED BY <1>1, <1>2, ChainTypes, RestTypes DEF Next

(***************************************************************************)
(* Balances never run below zero, streak days stay in the week, and every  *)
(* transaction and press keeps its shape.                                  *)
(***************************************************************************)
THEOREM ShopTypes == Spec => []TypeOK
BY InitTypes, StepTypes, PTL DEF Spec

----------------------------------------------------------------------------
(* The streak and the claims                                               *)

\* The streak after each claim the listener has yet to see, from that of its row.
Seen(n) == IF n = 0 THEN mirrored ELSE logs[n]
LeadsOn(after) ==
    /\ after \in [0..Len(logs) -> Streaks]
    /\ after[0] = streak /\ after[Len(logs)] = earned
    /\ \A n \in 1..Len(logs) : after[n] = computeStreakDay(after[n - 1], Seen(n - 1), logs[n])

ListenerFollows == Seen(Len(logs)) = lastClaimDay /\ \E after : LeadsOn(after)

\* A claim that nobody came before is for the next day of the streak.
Due(base, fresh, s, d) ==
    /\ base <= claims
    /\ base = claims /\ fresh => s = computeStreakDay(earned, lastClaimDay, d)

Claimed(c) == c.kind = "claim" /\ c.result = "ok"

TxOK(c) ==
    /\ Claimed(c) => c.day <= lastClaimDay
    /\ c.kind = "claim" /\ c.result = "pending" => Due(c.base, c.fresh, c.streak, c.day)

\* What a tab remembers of the claims, and of the transaction it waits for or tells of.
Waits(x) == x.step = "wait" \/ (x.step = "idle" /\ x.kind # "")
TabOK(x, sent) ==
    /\ x.step = "asked" => x.base <= claims /\ (x.base = claims => x.last = lastClaimDay)
    /\ x.step = "claim" => Due(x.base, x.caught, x.streak, x.day)
    /\ Waits(x) => x.tx \in DOMAIN sent /\ sent[x.tx].kind = x.kind
    /\ Waits(x) /\ x.step = "idle" => sent[x.tx].result = "ok"

ShopInv ==
    /\ TypeOK /\ ListenerFollows
    /\ \A i \in DOMAIN txs : TxOK(txs[i])
    /\ \A t \in Tabs : TabOK(tab[t], txs)
    /\ OneRewardPerDay /\ StreakIsPaid

LEMMA OneRewardMeans ==
    OneRewardPerDay <=>
        \A i, j \in DOMAIN txs : i # j /\ Claimed(txs[i]) /\ Claimed(txs[j]) => txs[i].day # txs[j].day
BY DEF OneRewardPerDay, Claimed

\* What the invariant says is kept by a step that leaves its variables alone.
LEMMA FollowingStays ==
    ASSUME ListenerFollows, UNCHANGED <<streak, mirrored, logs, earned, lastClaimDay>>
    PROVE  ListenerFollows'
BY DEF ListenerFollows, LeadsOn, Seen

LEMMA PageKeeps ==
    ASSUME ShopInv, TypeOK', NEW t \in Tabs, NEW new, Enter(t, new), TabOK(new, txs), txs' = txs,
           UNCHANGED chainVars
    PROVE  ShopInv'
<1>1. UNCHANGED <<lastClaimDay, streak, mirrored, logs, earned, paid, claims>>
  BY DEF chainVars, mirrorVars, history
<1>2. ListenerFollows'
  BY <1>1, FollowingStays DEF ShopInv
<1>3. \A i \in DOMAIN txs' : TxOK(txs[i])'
  BY <1>1 DEF ShopInv, TxOK, Due
<1>4. \A u \in Tabs : TabOK(tab[u], txs)'
  <2>1. \A u \in Tabs : tab'[u] = IF u = t THEN new ELSE tab[u]
    BY DEF Enter, ShopInv, TypeOK
  <2>2. \A u \in Tabs : TabOK(tab'[u], txs)
    BY <2>1 DEF ShopInv
  <2> QED BY <1>1, <2>2 DEF TabOK, Due
<1>5. OneRewardPerDay' /\ StreakIsPaid'
  BY <1>1 DEF ShopInv, OneRewardPerDay, StreakIsPaid
<1> QED BY <1>2, <1>3, <1>4, <1>5 DEF ShopInv

LEMMA IdleIsFine == TabOK(Idle, txs)
BY DEF TabOK, Idle, Waits

LEMMA TellKeeps ==
    ASSUME ShopInv, TypeOK', NEW t \in Tabs, NEW refresh, Tell(t, refresh), txs' = txs,
           UNCHANGED chainVars
    PROVE  ShopInv'
BY IdleIsFine, PageKeeps DEF Tell

LEMMA FailureKeeps ==
    ASSUME ShopInv, TypeOK', NEW t \in Tabs,
           RouteFails(t) \/ Reject(t) \/ WalletRefuses(t) \/ ReceiptTimesOut(t)
    PROVE  ShopInv'
<1>1. PICK refresh : Tell(t, refresh)
  BY DEF RouteFails, Reject, WalletRefuses, ReceiptTimesOut
<1>2. txs' = txs /\ UNCHANGED chainVars
  BY DEF RouteFails, Reject, WalletRefuses, ReceiptTimesOut
<1> QED BY <1>1, <1>2, TellKeeps

LEMMA AskClaimKeeps == ASSUME ShopInv, TypeOK', NEW t \in Tabs, AskClaim(t) PROVE ShopInv'
<1> DEFINE new == [Idle EXCEPT !.step = "asked", !.day = day, !.last = lastClaimDay,
                               !.base = claims, !.kind = "claim"]
<1>1. TabOK(new, txs)
  <2>1. new.step = "asked" /\ new.base = claims /\ new.last = lastClaimDay
    BY DEF Idle
  <2>2. claims \in Nat
    BY DEF ShopInv, TypeOK
  <2> HIDE DEF new
  <2> QED BY <2>1, <2>2 DEF TabOK, Waits
<1>2. txs' = txs /\ UNCHANGED chainVars
  BY DEF AskClaim
<1> HIDE DEF new
<1>3. Tell(t, Refreshes("already")) \/ Enter(t, new)
  BY DEF AskClaim, new
<1> QED BY <1>1, <1>2, <1>3, TellKeeps, PageKeeps

LEMMA PressBuyKeeps ==
    ASSUME ShopInv, TypeOK', NEW t \in Tabs, NEW usd \in Usd, PressBuy(t, usd)
    PROVE  ShopInv'
<1> DEFINE new == [Idle EXCEPT !.step = IF snapshot[t].allowance >= usd THEN "buy" ELSE "approve",
                               !.usd = usd]
<1>1. TabOK(new, txs)
  <2>1. new.step \in {"buy", "approve"}
    BY DEF Idle
  <2> HIDE DEF new
  <2> QED BY <2>1 DEF TabOK, Waits
<1>2. txs' = txs /\ UNCHANGED chainVars
  BY DEF PressBuy
<1> HIDE DEF new
<1>3. Tell(t, Refreshes("insufficient")) \/ Enter(t, new)
  BY DEF PressBuy, new
<1> QED BY <1>1, <1>2, <1>3, TellKeeps, PageKeeps

\* The route signs the day the row leads to.  With nothing left to see, that is the day
\* by the chain, unless a claim was mined since the last claim day was read.
LEMMA SignClaimKeeps == ASSUME ShopInv, TypeOK', NEW t \in Tabs, SignClaim(t) PROVE ShopInv'
<1> DEFINE d == computeStreakDay(streak, tab[t].last, tab[t].day)
<1>1. tab[t] \in Tab /\ TabOK(tab[t], txs) /\ tab[t].step = "asked"
  BY DEF ShopInv, TypeOK, SignClaim
<1>2. logs = <<>> => streak = earned
  BY DEF ShopInv, ListenerFollows, LeadsOn
<1>3. tab[t].base <= claims
      /\ (tab[t].base = claims /\ logs = <<>> => d = computeStreakDay(earned, lastClaimDay, tab[t].day))
  BY <1>1, <1>2 DEF TabOK
<1> HIDE DEF d
<1>4. PICK amount \in Rewards(d) : Enter(t, signDailyClaim(tab[t], d, amount))
  BY DEF SignClaim, d
<1> DEFINE new == signDailyClaim(tab[t], d, amount)
<1>5. /\ new.step = "claim" /\ new.base = tab[t].base /\ new.caught = (logs = <<>>)
      /\ new.streak = d /\ new.day = tab[t].day
  BY <1>1 DEF signDailyClaim, Tab
<1> HIDE DEF new
<1>6. TabOK(new, txs)
  BY <1>3, <1>5 DEF TabOK, Due, Waits
<1>7. txs' = txs /\ UNCHANGED chainVars
  BY DEF SignClaim, KeepStreak, chainVars, mirrorVars
<1> QED BY <1>4, <1>6, <1>7, PageKeeps DEF new

LEMMA ReceiptKeeps == ASSUME ShopInv, TypeOK', NEW t \in Tabs, Receipt(t) PROVE ShopInv'
<1> DEFINE buy == [tab[t] EXCEPT !.step = "buy"]
           done == [Idle EXCEPT !.kind = tab[t].kind, !.tx = tab[t].tx]
<1>1. tab[t] \in Tab /\ TabOK(tab[t], txs) /\ tab[t].step = "wait"
  BY DEF ShopInv, TypeOK, Receipt
<1>2. TabOK(buy, txs)
  BY <1>1 DEF TabOK, Waits, Tab
<1>3. Succeeded(txs[tab[t].tx]) => TabOK(done, txs)
  BY <1>1 DEF TabOK, Waits, Idle, Succeeded
<1>4. txs' = txs /\ UNCHANGED chainVars
  BY DEF Receipt
<1> HIDE DEF buy, done
<1>5. \/ Tell(t, Refreshes("failed"))
      \/ Enter(t, buy)
      \/ Enter(t, done) /\ Succeeded(txs[tab[t].tx])
  BY DEF Receipt, buy, done
<1> QED BY <1>2, <1>3, <1>4, <1>5, TellKeeps, PageKeeps

LEMMA RefetchKeeps == ASSUME ShopInv, TypeOK', NEW t \in Tabs, Refetch(t) PROVE ShopInv'
<1>1. Enter(t, tab[t]) /\ TabOK(tab[t], txs)
  BY DEF Refetch, Enter, ShopInv, TypeOK
<1> QED BY <1>1, PageKeeps DEF Refetch, chainVars

LEMMA ConfirmKeeps == ASSUME ShopInv, TypeOK', NEW t \in Tabs, Confirm(t) PROVE ShopInv'
<1>1. /\ Sent(t) \in Tx /\ Waiting(t) \in Tab /\ Enter(t, Waiting(t))
      /\ txs' = Append(txs, Sent(t)) /\ UNCHANGED chainVars
  BY ConfirmShape DEF ShopInv
<1>2. UNCHANGED <<lastClaimDay, streak, mirrored, logs, earned, paid, claims>>
  BY <1>1 DEF chainVars, mirrorVars, history
<1>3. /\ txs \in Seq(Tx) /\ DOMAIN txs = 1..Len(txs) /\ Len(txs) \in Nat
      /\ DOMAIN txs' = 1..(Len(txs) + 1)
      /\ txs'[Len(txs) + 1] = Sent(t) /\ \A i \in DOMAIN txs : txs'[i] = txs[i]
  <2>1. txs \in Seq(Tx)
    BY DEF ShopInv, TypeOK
  <2>2. Sent(t) \in Tx /\ txs' = Append(txs, Sent(t))
    BY <1>1
  <2>3. DOMAIN txs = 1..Len(txs) /\ Len(txs) \in Nat
    BY <2>1
  <2>4. DOMAIN txs' = 1..(Len(txs) + 1)
    BY <2>1, <2>2, <2>3
  <2>5. txs'[Len(txs) + 1] = Sent(t)
    BY <2>1, <2>2, <2>3
  <2>6. \A i \in DOMAIN txs : txs'[i] = txs[i]
    BY <2>1, <2>2, <2>3
  <2> QED BY <2>1, <2>3, <2>4, <2>5, <2>6
<1>4. tab[t] \in Tab /\ TabOK(tab[t], txs) /\ tab[t].step \in {"claim", "approve", "buy"}
  BY DEF ShopInv, TypeOK, Confirm, Prompts
<1>5. ListenerFollows'
  BY <1>2, FollowingStays DEF ShopInv
<1>6. TxOK(Sent(t))
  BY <1>4 DEF Sent, TxOK, Claimed, TabOK, Due
<1>7. \A i \in DOMAIN txs' : TxOK(txs[i])'
  <2>1. ASSUME NEW i \in DOMAIN txs' PROVE TxOK(txs'[i])
    BY <1>3, <1>6 DEF ShopInv
  <2> QED BY <1>2, <2>1 DEF TxOK, Due
<1>8. \A u \in Tabs : TabOK(tab[u], txs)'
  <2>1. TabOK(Waiting(t), txs')
    <3>1. /\ Waiting(t).step = "wait" /\ Waiting(t).kind = tab[t].step
          /\ Waiting(t).tx = Len(txs) + 1 /\ Sent(t).kind = tab[t].step
      BY <1>4 DEF Waiting, Sent, Tab
    <3> QED BY <1>3, <3>1 DEF TabOK, Waits
  <2>2. ASSUME NEW u \in Tabs PROVE TabOK(tab[u], txs')
    BY <1>3 DEF TabOK, ShopInv
  <2>3. \A u \in Tabs : TabOK(tab'[u], txs')
    BY <1>1, <2>1, <2>2 DEF Enter, ShopInv, TypeOK
  <2> QED BY <1>2, <2>3 DEF TabOK, Due
<1>9. OneRewardPerDay'
  <2>1. ~Claimed(Sent(t))
    BY DEF Claimed, Sent
  <2>2. \A i \in DOMAIN txs' : Claimed(txs'[i]) => i \in DOMAIN txs
    BY <1>3, <2>1
  <2>3. \A i, j \in DOMAIN txs' : i # j /\ Claimed(txs'[i]) /\ Claimed(txs'[j]) =>
            txs'[i].day # txs'[j].day
    BY <1>3, <2>2, OneRewardMeans DEF ShopInv
  <2> QED BY <2>3 DEF OneRewardPerDay, Claimed
<1>10. StreakIsPaid'
  BY <1>2 DEF ShopInv, StreakIsPaid
<1> QED BY <1>5, <1>7, <1>8, <1>9, <1>10 DEF ShopInv

\* A transaction settles that claims nothing: it fails, is dropped, or buys.
LEMMA SettleKeeps ==
    ASSUME ShopInv, TypeOK', NEW i \in DOMAIN txs, NEW result \in {"ok", "failed", "dropped"},
           txs[i].result = "pending", Settle(i, result), txs[i].kind = "claim" => result # "ok",
           UNCHANGED <<lastClaimDay, mirrorVars, history, tab>>
    PROVE  ShopInv'
<1>1. UNCHANGED <<lastClaimDay, streak, mirrored, logs, earned, paid, claims>>
  BY DEF mirrorVars, history
<1>2. /\ DOMAIN txs' = DOMAIN txs /\ txs[i] \in Tx
      /\ txs'[i] = [txs[i] EXCEPT !.result = result] /\ \A j \in DOMAIN txs : j # i => txs'[j] = txs[j]
  BY SettleTypes DEF ShopInv
<1>3. txs'[i].kind = txs[i].kind /\ txs'[i].result = result /\ txs'[i].day = txs[i].day
  BY <1>2 DEF Tx
<1>4. ListenerFollows'
  BY <1>1, FollowingStays DEF ShopInv
<1>5. \A j \in DOMAIN txs' : TxOK(txs[j])'
  <2>1. TxOK(txs'[i])
    BY <1>3 DEF TxOK, Claimed
  <2>2. \A j \in DOMAIN txs' : TxOK(txs'[j])
    BY <1>2, <2>1 DEF ShopInv
  <2> QED BY <1>1, <2>2 DEF TxOK, Due
<1>6. \A u \in Tabs : TabOK(tab[u], txs)'
  <2>1. ASSUME NEW u \in Tabs PROVE TabOK(tab[u], txs')
    BY <1>2, <1>3 DEF TabOK, ShopInv
  <2> QED BY <1>1, <2>1 DEF TabOK, Due
<1>7. OneRewardPerDay'
  <2>1. \A j \in DOMAIN txs' : Claimed(txs'[j]) => j # i /\ txs'[j] = txs[j]
    BY <1>2, <1>3 DEF Claimed
  <2>2. \A j, k \in DOMAIN txs' : j # k /\ Claimed(txs'[j]) /\ Claimed(txs'[k]) =>
            txs'[j].day # txs'[k].day
    BY <1>2, <2>1, OneRewardMeans DEF ShopInv
  <2> QED BY <2>2 DEF OneRewardPerDay, Claimed
<1>8. StreakIsPaid'
  BY <1>1 DEF ShopInv, StreakIsPaid
<1> QED BY <1>4, <1>5, <1>6, <1>7, <1>8 DEF ShopInv

\* The listener has one claim more to see, and it leads to the streak now earned.
LEMMA ClaimFollows ==
    ASSUME TypeOK, TypeOK', ListenerFollows, NEW i \in DOMAIN txs, claimDaily(i)
    PROVE  ListenerFollows'
<1>n. PICK n \in Nat : n = Len(logs)
  BY DEF TypeOK
<1>e. PICK e \in Streaks : e = earned'
  BY DEF TypeOK
<1>1. /\ logs \in Seq(Days) /\ n \in Nat /\ e \in Streaks
      /\ logs' = Append(logs, txs[i].day) /\ lastClaimDay' = txs[i].day
      /\ e = computeStreakDay(earned, lastClaimDay, txs[i].day)
      /\ UNCHANGED <<streak, mirrored>>
  BY <1>e DEF claimDaily, TypeOK
<1>2. /\ Len(logs') = n + 1 /\ logs'[n + 1] = txs[i].day
      /\ \A k \in 1..n : logs'[k] = logs[k]
  <2>1. txs[i] \in Tx
    BY DEF TypeOK
  <2>2. txs[i].day \in Days
    BY <2>1 DEF Tx
  <2> QED BY <1>n, <1>1, <2>2
<1>3. PICK after : LeadsOn(after)
  BY DEF ListenerFollows
<1> DEFINE more == [k \in 0..(n + 1) |-> IF k = n + 1 THEN e ELSE after[k]]
<1>4. \A k \in 0..n : Seen(k)' = Seen(k)
  BY <1>1, <1>2 DEF Seen
<1>s. Seen(n) = lastClaimDay
  BY <1>n DEF ListenerFollows
<1>5. LeadsOn(more)'
  <2>1. /\ after \in [0..n -> Streaks] /\ after[0] = streak /\ after[n] = earned
        /\ \A k \in 1..n : after[k] = computeStreakDay(after[k - 1], Seen(k - 1), logs[k])
    BY <1>n, <1>3 DEF LeadsOn
  <2>2. more \in [0..Len(logs') -> Streaks] /\ more[0] = streak /\ more[Len(logs')] = e
    BY <1>1, <1>2, <2>1
  <2>3. ASSUME NEW k \in 1..(n + 1)
        PROVE  more[k] = computeStreakDay(more[k - 1], Seen(k - 1)', logs'[k])
    <3>1. k - 1 \in 0..n /\ more[k - 1] = after[k - 1] /\ Seen(k - 1)' = Seen(k - 1)
      BY <1>1, <1>4
    <3>2. CASE k \in 1..n
      BY <1>1, <1>2, <2>1, <3>1, <3>2
    <3>3. CASE k = n + 1
      <4>1. k - 1 = n /\ more[k] = e /\ logs'[k] = txs[i].day
        BY <1>2, <3>3
      <4>2. more[k - 1] = earned /\ Seen(k - 1)' = lastClaimDay
        BY <1>s, <2>1, <3>1, <4>1
      <4> HIDE DEF more
      <4> QED BY <1>1, <4>1, <4>2
    <3>4. k \in 1..n \/ k = n + 1
      BY <1>n
    <3> HIDE DEF more
    <3> QED BY <3>2, <3>3, <3>4
  <2> HIDE DEF more
  <2> QED BY <1>1, <1>2, <1>e, <2>2, <2>3 DEF LeadsOn
<1>6. Seen(Len(logs))' = lastClaimDay'
  BY <1>1, <1>2 DEF Seen
<1> HIDE DEF more
<1> QED BY <1>5, <1>6 DEF ListenerFollows

LEMMA ClaimKeeps ==
    ASSUME ShopInv, TypeOK', NEW i \in DOMAIN txs, claimDaily(i)
    PROVE  ShopInv'
<1>1. /\ DOMAIN txs' = DOMAIN txs /\ txs[i] \in Tx
      /\ txs'[i] = [txs[i] EXCEPT !.result = "ok"] /\ \A j \in DOMAIN txs : j # i => txs'[j] = txs[j]
  BY SettleTypes DEF ShopInv, claimDaily
<1>2. /\ txs'[i].kind = "claim" /\ txs[i].kind = "claim" /\ txs'[i].result = "ok"
      /\ txs'[i].day = txs[i].day /\ txs[i].result = "pending"
  BY <1>1 DEF Tx, claimDaily, ClaimAllowed, Next_
<1>3. /\ lastClaimDay < txs[i].day /\ lastClaimDay' = txs[i].day /\ claims' = claims + 1
      /\ earned' = computeStreakDay(earned, lastClaimDay, txs[i].day)
      /\ paid' = [streak |-> txs[i].streak, inStep |-> txs[i].fresh /\ txs[i].base = claims]
      /\ tab' = tab
  BY DEF claimDaily, ClaimAllowed, LaterDay, pageVars
<1>4. /\ claims \in Nat /\ lastClaimDay \in Nat /\ \A j \in DOMAIN txs : txs[j].day \in Nat /\ txs[j] \in Tx
  <2>1. Days \subseteq Nat
    BY ShopBounds DEF Days
  <2>2. claims \in Nat /\ lastClaimDay \in Days /\ txs \in Seq(Tx)
    BY DEF ShopInv, TypeOK
  <2>3. ASSUME NEW j \in DOMAIN txs PROVE txs[j] \in Tx /\ txs[j].day \in Days
    <3>1. txs[j] \in Tx
      BY <2>2
    <3> QED BY <3>1 DEF Tx
  <2> QED BY <2>1, <2>2, <2>3
<1>5. ListenerFollows'
  BY ClaimFollows DEF ShopInv
<1>6. \A base \in Nat : base <= claims => base <= claims' /\ base # claims'
  BY <1>3, <1>4
<1>7. \A j \in DOMAIN txs' : TxOK(txs[j])'
  <2>1. ASSUME NEW j \in DOMAIN txs, j # i PROVE TxOK(txs[j])'
    <3>1. txs'[j] = txs[j] /\ TxOK(txs[j]) /\ txs[j].base \in Nat /\ txs[j].day \in Nat
      BY <1>1, <1>4, <2>1 DEF ShopInv, Tx
    <3>2. Claimed(txs[j]) => txs[j].day <= lastClaimDay'
      BY <1>3, <1>4, <3>1 DEF TxOK
    <3>3. txs[j].kind = "claim" /\ txs[j].result = "pending" =>
              txs[j].base <= claims' /\ txs[j].base # claims'
      BY <1>6, <3>1 DEF TxOK, Due
    <3> QED BY <3>1, <3>2, <3>3 DEF TxOK, Due, Claimed
  <2>2. TxOK(txs[i])'
    BY <1>2, <1>3, <1>4 DEF TxOK, Claimed
  <2> QED BY <1>1, <2>1, <2>2
<1>8. \A u \in Tabs : TabOK(tab[u], txs)'
  <2>1. ASSUME NEW u \in Tabs PROVE TabOK(tab[u], txs)'
    <3>1. TabOK(tab[u], txs) /\ tab'[u] = tab[u] /\ tab[u].base \in Nat
      BY <1>3 DEF ShopInv, TypeOK, Tab
    <3>2. tab[u].step \in {"asked", "claim"} => tab[u].base <= claims' /\ tab[u].base # claims'
      BY <1>6, <3>1 DEF TabOK, Due
    <3>3. Waits(tab[u]) => /\ tab[u].tx \in DOMAIN txs' /\ txs'[tab[u].tx].kind = tab[u].kind
                           /\ tab[u].step = "idle" => txs'[tab[u].tx].result = "ok"
      BY <1>1, <1>2, <3>1 DEF TabOK
    <3> QED BY <3>1, <3>2, <3>3 DEF TabOK, Due
  <2> QED BY <2>1
<1>9. OneRewardPerDay'
  <2>1. \A j \in DOMAIN txs : j # i /\ Claimed(txs'[j]) => txs'[j].day < txs'[i].day
    BY <1>1, <1>2, <1>3, <1>4 DEF ShopInv, TxOK
  <2>2. \A j, k \in DOMAIN txs' : j # k /\ Claimed(txs'[j]) /\ Claimed(txs'[k]) =>
            txs'[j].day # txs'[k].day
    <3>1. \A j, k \in DOMAIN txs : j # k /\ Claimed(txs[j]) /\ Claimed(txs[k]) =>
              txs[j].day # txs[k].day
      BY OneRewardMeans DEF ShopInv
    <3>2. \A j \in DOMAIN txs : j # i /\ Claimed(txs'[j]) => txs'[j].day # txs'[i].day
      BY <1>1, <1>2, <1>4, <2>1
    <3> QED BY <1>1, <3>1, <3>2
  <2> QED BY <2>2 DEF OneRewardPerDay, Claimed
<1>10. StreakIsPaid'
  <2>1. Due(txs[i].base, txs[i].fresh, txs[i].streak, txs[i].day)
    BY <1>2 DEF ShopInv, TxOK
  <2> QED BY <1>3, <2>1 DEF StreakIsPaid, Due
<1> QED BY <1>5, <1>7, <1>8, <1>9, <1>10 DEF ShopInv

\* The row moves to the head of what it leads on by.
LEMMA ObserveKeeps == ASSUME ShopInv, TypeOK', ObserveClaim PROVE ShopInv'
<1>n. PICK n \in Nat : n = Len(logs)
  BY DEF ShopInv, TypeOK
<1>1. /\ logs \in Seq(Days) /\ logs # <<>> /\ logs' = Tail(logs) /\ mirrored' = Head(logs)
      /\ streak' = computeStreakDay(streak, mirrored, Head(logs))
      /\ UNCHANGED <<lastClaimDay, earned, paid, claims, txs, tab>>
  BY DEF ObserveClaim, ShopInv, TypeOK, pageVars, history
<1>2. /\ n >= 1 /\ Len(logs') = n - 1 /\ mirrored' = logs[1] /\ n - 1 \in Nat
      /\ \A k \in 1..(n - 1) : logs'[k] = logs[k + 1]
  BY <1>n, <1>1
<1>3. \A k \in 0..(n - 1) : Seen(k)' = Seen(k + 1)
  BY <1>2 DEF Seen
<1>4. PICK after : LeadsOn(after)
  BY DEF ShopInv, ListenerFollows
<1> DEFINE rest == [k \in 0..(n - 1) |-> after[k + 1]]
<1>5. LeadsOn(rest)'
  <2>1. /\ after \in [0..n -> Streaks] /\ after[0] = streak /\ after[n] = earned
        /\ \A k \in 1..n : after[k] = computeStreakDay(after[k - 1], Seen(k - 1), logs[k])
    BY <1>n, <1>4 DEF LeadsOn
  <2>2. after[1] = streak'
    <3>1. 1 \in 1..n /\ after[1] = computeStreakDay(after[0], Seen(0), logs[1])
      BY <1>2, <2>1
    <3> QED BY <1>1, <1>2, <2>1, <3>1 DEF Seen
  <2>3. rest \in [0..Len(logs') -> Streaks] /\ rest[0] = streak' /\ rest[Len(logs')] = earned'
    BY <1>1, <1>2, <2>1, <2>2
  <2>4. ASSUME NEW k \in 1..(n - 1)
        PROVE  rest[k] = computeStreakDay(rest[k - 1], Seen(k - 1)', logs'[k])
    <3>1. /\ k + 1 \in 1..n /\ k - 1 \in 0..(n - 1) /\ rest[k] = after[k + 1] /\ rest[k - 1] = after[k]
          /\ logs'[k] = logs[k + 1] /\ Seen(k - 1)' = Seen(k) /\ (k + 1) - 1 = k
      BY <1>2, <1>3
    <3>2. after[k + 1] = computeStreakDay(after[(k + 1) - 1], Seen((k + 1) - 1), logs[k + 1])
      BY <2>1, <3>1
    <3> HIDE DEF rest
    <3> QED BY <3>1, <3>2
  <2> HIDE DEF rest
  <2> QED BY <1>2, <2>3, <2>4 DEF LeadsOn
<1>6. Seen(Len(logs))' = lastClaimDay'
  <2>1. Seen(n) = lastClaimDay
    BY <1>n DEF ShopInv, ListenerFollows
  <2>2. Seen(n - 1)' = Seen((n - 1) + 1) /\ (n - 1) + 1 = n
    BY <1>2, <1>3
  <2> QED BY <1>1, <1>2, <2>1, <2>2 DEF Seen
<1>7. ListenerFollows'
  <2> HIDE DEF rest
  <2> QED BY <1>5, <1>6 DEF ListenerFollows
<1>8. /\ \A i \in DOMAIN txs' : TxOK(txs[i])'
      /\ \A t \in Tabs : TabOK(tab[t], txs)'
      /\ OneRewardPerDay' /\ StreakIsPaid'
  <2>1. UNCHANGED <<lastClaimDay, earned, paid, claims, txs, tab>>
    BY <1>1
  <2> QED BY <2>1 DEF ShopInv, TxOK, Claimed, TabOK, Due, OneRewardPerDay, StreakIsPaid
<1> QED BY <1>7, <1>8 DEF ShopInv

LEMMA OthersKeep ==
    ASSUME ShopInv, TypeOK',
           UNCHANGED <<lastClaimDay, mirrorVars, history, txs, tab>>
    PROVE  ShopInv'
<1>1. UNCHANGED <<lastClaimDay, streak, mirrored, logs, earned, paid, claims>>
  BY DEF mirrorVars, history
<1>2. ListenerFollows'
  BY <1>1, FollowingStays DEF ShopInv
<1> QED BY <1>1, <1>2 DEF ShopInv, TxOK, Claimed, TabOK, Due, OneRewardPerDay, StreakIsPaid

LEMMA ShopStep == ShopInv /\ [Next]_vars => ShopInv'
<1> SUFFICES ASSUME ShopInv, [Next]_vars PROVE ShopInv'
  OBVIOUS
<1>1. TypeOK'
  BY StepTypes DEF ShopInv
<1>2. CASE Midnight \/ Owner \/ UNCHANGED vars
  BY <1>1, <1>2, OthersKeep DEF Midnight, Owner, vars, pageVars
<1>3. ASSUME NEW t \in Tabs,
             \/ AskClaim(t) \/ Proceed(t) \/ RouteFails(t) \/ Refetch(t)
             \/ \E usd \in Usd : PressBuy(t, usd)
      PROVE  ShopInv'
  BY <1>1, <1>3, AskClaimKeeps, SignClaimKeeps, PressBuyKeeps, ConfirmKeeps, ReceiptKeeps,
     FailureKeeps, RefetchKeeps DEF Proceed, Answer
<1>4. ASSUME NEW i \in DOMAIN txs,
             claimDaily(i) \/ buyTickets(i) \/ approve(i) \/ Revert(i) \/ Dropped(i)
      PROVE  ShopInv'
  <2>1. ASSUME buyTickets(i) \/ approve(i) \/ Revert(i) \/ Dropped(i) PROVE ShopInv'
    <3>1. UNCHANGED <<lastClaimDay, mirrorVars, history, tab>> /\ txs[i].result = "pending"
      BY <2>1 DEF buyTickets, approve, Revert, Dropped, Next_, chainVars, pageVars
    <3>2. \/ txs[i].kind # "claim" /\ Settle(i, "ok")
          \/ Settle(i, "failed") \/ Settle(i, "dropped")
      BY <2>1 DEF buyTickets, approve, Revert, Dropped, BuyAllowed
    <3> QED BY <1>1, <3>1, <3>2, SettleKeeps
  <2> QED BY <1>1, <1>4, <2>1, ClaimKeeps
<1> QED BY <1>1, <1>2, <1>3, <1>4, ObserveKeeps DEF Next

LEMMA ShopInit == Init => ShopInv
<1> SUFFICES ASSUME Init PROVE ShopInv
  OBVIOUS
<1>1. TypeOK
  BY InitTypes
<1>2. logs = <<>> /\ streak = earned /\ mirrored = lastClaimDay /\ txs = <<>>
      /\ tab = [t \in Tabs |-> Idle] /\ paid.inStep = FALSE
  BY DEF Init
<1>3. ListenerFollows
  <2> DEFINE alone == [k \in 0..0 |-> streak]
  <2>1. Len(logs) = 0
    BY <1>2
  <2>2. alone \in [0..0 -> Streaks] /\ alone[0] = streak /\ 1..0 = {}
    BY <1>1 DEF TypeOK
  <2> HIDE DEF alone
  <2>3. LeadsOn(alone)
    BY <1>2, <2>1, <2>2 DEF LeadsOn
  <2> QED BY <1>2, <2>1, <2>3 DEF ListenerFollows, Seen
<1>4. \A t \in Tabs : TabOK(tab[t], txs)
  BY <1>2, IdleIsFine
<1>5. DOMAIN txs = {}
  BY <1>2
<1> QED BY <1>1, <1>2, <1>3, <1>4, <1>5 DEF ShopInv, OneRewardPerDay, StreakIsPaid

LEMMA ShopInvariant == Spec => []ShopInv
BY ShopInit, ShopStep, PTL DEF Spec

(***************************************************************************)
(* However many tabs ask and sign, and in whatever order their claims are  *)
(* mined, dropped or replaced, the chain carries out one claim for a day.  *)
(***************************************************************************)
THEOREM OneRewardADay == Spec => []OneRewardPerDay
<1>1. ShopInv => OneRewardPerDay
  BY DEF ShopInv
<1> QED BY <1>1, ShopInvariant, PTL

(***************************************************************************)
(* A claim signed while the listener had seen all, and mined before any    *)
(* other, pays the reward of its day in the streak the chain gives.        *)
(***************************************************************************)
THEOREM RewardFitsStreak == Spec => []StreakIsPaid
<1>1. ShopInv => StreakIsPaid
  BY DEF ShopInv
<1> QED BY <1>1, ShopInvariant, PTL

(***************************************************************************)
(* What a page says it added was added by the transaction of its press.    *)
(***************************************************************************)
THEOREM SuccessIsTrue == Spec => []SuccessIsReal
<1>1. ShopInv => SuccessIsReal
  BY DEF ShopInv, TabOK, Waits, SuccessIsReal
<1> QED BY <1>1, ShopInvariant, PTL

(***************************************************************************)
(* The listener never loses the streak: once it has seen every claim, its  *)
(* row holds the streak and the day of the chain.                          *)
(***************************************************************************)
THEOREM RowCatchesUp == Spec => [](logs = <<>> => streak = earned /\ mirrored = lastClaimDay)
<1>1. ShopInv => (logs = <<>> => streak = earned /\ mirrored = lastClaimDay)
  BY DEF ShopInv, ListenerFollows, LeadsOn, Seen
<1> QED BY <1>1, ShopInvariant, PTL

=============================================================================
