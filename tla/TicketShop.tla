----------------------------- MODULE TicketShop -----------------------------
(***************************************************************************)
(* The daily reward and the ticket shop, for one wallet: claimDaily and    *)
(* buyTickets of TicketVault.sol, the claim and status routes              *)
(* (routes/tickets.ts, dailyClaimService.ts), the streak row the listener  *)
(* keeps, and the tabs that claim and buy (useDailyRewardClaim.ts,         *)
(* useTicketTopUp.ts and the pages on them).                               *)
(*                                                                         *)
(* A wallet's transactions are mined in the order of their nonces.  Lost   *)
(* and repeated events are in TicketMirror.                                *)
(***************************************************************************)
EXTENDS TicketVault, Sequences

CONSTANTS
    Player,       \* the wallet
    Tabs,         \* tabs it is connected in
    Cycle,        \* days of the reward week (7)
    Box,          \* amounts a mystery box may roll (1..10)
    Usd,          \* whole dollars a top-up may be for
    FirstStreaks, \* streak days the wallet may start with; 0 is no claim yet
    Funds,        \* dollars it holds
    MaxDay, MaxTxs, MaxFaults    \* bounds

ASSUME PlayerHolds == Player \in Wallets
ASSUME ShopBounds ==
    /\ {Cycle, Funds, MaxDay, MaxTxs, MaxFaults} \subseteq Nat
    /\ Box \cup Usd \subseteq Nat \ {0} /\ FirstStreaks \subseteq 0..Cycle
\* A week has days, and the model starts on the second one.
ASSUME DaysGoOn == Cycle > 0 /\ MaxDay > 1

VARIABLES
    paused, enabled,        \* the contract's pause, and the token's switch
    lastClaimDay,           \* 0 for never
    funds, allowance,       \* the wallet's stablecoin, and what the vault may take of it
    txs,                    \* the wallet's transactions, in nonce order
    streak, mirrored,       \* daily_streaks: streak_day and last_claim_day
    logs,                   \* days of TicketClaimed events the listener has yet to see
    day,                    \* utcDayIndex
    tab,                    \* the mutation a tab runs
    status,                 \* the status a tab shows: claimable?
    snapshot,               \* the allowance and balance it read
    faults,                 \* faults and acts of the owner
    earned, paid, claims    \* history: the streak by the chain, the last reward, their number

coinVars == <<funds, allowance>>
mirrorVars == <<streak, mirrored, logs>>
ownerVars == <<paused, enabled>>
pageVars == <<tab, status, snapshot>>
history == <<earned, paid, claims>>
vars == <<vaultVars, ownerVars, lastClaimDay, coinVars, txs, mirrorVars, day, pageVars,
          faults, history>>

Days == 0..MaxDay
Streaks == 0..Cycle
Steps == {"idle", "asked", "claim", "approve", "buy", "wait"}
Tab == [step: Steps, day: Days, last: Days, streak: Streaks, base: Nat, caught: BOOLEAN,
        amount: Nat, usd: Nat, kind: {"", "claim", "approve", "buy"}, tx: Nat]
Idle == [step |-> "idle", day |-> 0, last |-> 0, streak |-> 0, base |-> 0, caught |-> FALSE,
         amount |-> 0, usd |-> 0, kind |-> "", tx |-> 0]
Tx == [kind: {"claim", "approve", "buy"}, day: Days, streak: Streaks, fresh: BOOLEAN,
       base: Nat, amount: Nat, result: {"pending", "ok", "failed", "dropped"}]

Snapshot == [allowance |-> allowance, balance |-> funds]
Claimable == lastClaimDay < day

Init ==
    /\ VaultInit
    /\ paused = FALSE /\ enabled = TRUE
    /\ day = 2 /\ funds = Funds /\ allowance = 0
    /\ \E s \in FirstStreaks :
           /\ streak = s /\ earned = s
           /\ lastClaimDay = (IF s = 0 THEN 0 ELSE 1) /\ mirrored = lastClaimDay
    /\ txs = <<>> /\ logs = <<>>
    /\ tab = [t \in Tabs |-> Idle] /\ status = [t \in Tabs |-> TRUE]
    /\ snapshot = [t \in Tabs |-> [allowance |-> 0, balance |-> Funds]]
    /\ faults = 0 /\ claims = 0 /\ paid = [streak |-> 0, inStep |-> FALSE]

----------------------------------------------------------------------------
(* Rewards and the pages                                                   *)

\* DAILY_REWARDS and rollDailyAmount.
Rewards(d) ==
    CASE d = 1 -> {5} [] d = 3 -> {7} [] d = 5 -> {9} [] d = 7 -> {10} [] OTHER -> Box

computeStreakDay(prev, last, today) ==
    IF last # 0 /\ today = last + 1 THEN (prev % Cycle) + 1 ELSE 1

\* Invalidating the ticket queries fetches both pages' data anew.
Invalidate(t) ==
    /\ status' = [status EXCEPT ![t] = Claimable]
    /\ snapshot' = [snapshot EXCEPT ![t] = Snapshot]

Enter(t, next) == tab' = [tab EXCEPT ![t] = next]

\* Mutant: an answer "already claimed" shows its message and no more.
RefreshOnTimeout(message) == message \in {"timeout", "closed"}

\* classifyDailyClaimError, classifyTopUpError: the messages that refresh.  A top-up
\* that timed out does not.
Refreshes(message) == message \in {"already", "timeout", "closed"}

\* A press has failed.
Tell(t, refresh) ==
    /\ Enter(t, Idle)
    /\ IF refresh THEN Invalidate(t) ELSE UNCHANGED <<status, snapshot>>

\* A query is fetched again when a page is opened or comes back into view.
Refetch(t) ==
    /\ tab[t].step = "idle"
    /\ Invalidate(t)
    /\ UNCHANGED <<vaultVars, ownerVars, lastClaimDay, coinVars, txs, mirrorVars, day, tab,
                   faults, history>>

chainVars == <<vaultVars, ownerVars, lastClaimDay, coinVars, mirrorVars, day, history>>

----------------------------------------------------------------------------
(* The daily claim                                                         *)

\* Pressed; the route reads the last claim day and refuses the day that is claimed.
AskClaim(t) ==
    /\ tab[t].step = "idle" /\ status[t]
    /\ IF lastClaimDay >= day
       THEN Tell(t, Refreshes("already"))
       ELSE /\ Enter(t, [Idle EXCEPT !.step = "asked", !.day = day, !.last = lastClaimDay,
                                     !.base = claims, !.kind = "claim"])
            /\ UNCHANGED <<status, snapshot>>
    /\ UNCHANGED <<chainVars, txs, faults>>

\* Mutant: a signed claim counts, whether or not it is ever sent.
AdvanceAtOnce(d, today) == streak' = d /\ mirrored' = today

\* Progress is left to the listener.
KeepStreak(d, today) == UNCHANGED <<streak, mirrored>>

\* signDailyClaim for the day that was asked for, and the transaction it is sent in.
signDailyClaim(asked, d, amount) ==
    [asked EXCEPT !.step = "claim", !.streak = d, !.amount = amount, !.caught = logs = <<>>]

\* The route reads the streak row, rolls the amount and signs.
SignClaim(t) ==
    /\ tab[t].step = "asked"
    /\ LET d == computeStreakDay(streak, tab[t].last, tab[t].day)
       IN  /\ \E amount \in Rewards(d) : Enter(t, signDailyClaim(tab[t], d, amount))
           /\ KeepStreak(d, tab[t].day)
    /\ UNCHANGED <<vaultVars, ownerVars, lastClaimDay, coinVars, logs, day, history, txs,
                   status, snapshot, faults>>

\* What parseSignedDailyClaim makes of an answer the page may not use: by its own clock the
\* claim is one of the future or has expired, or it is not for the account the press was for.
parseSignedDailyClaim == {"future", "expired", "foreign"}

RouteFails(t) ==
    /\ faults < MaxFaults /\ faults' = faults + 1
    /\ tab[t].step = "asked"
    /\ \E error \in {"unavailable"} \cup parseSignedDailyClaim : Tell(t, Refreshes(error))
    /\ UNCHANGED <<chainVars, txs>>

----------------------------------------------------------------------------
(* The top-up                                                              *)

\* buildTopUpTransactionPlan, from the balance and allowance the page has read.
PressBuy(t, usd) ==
    /\ tab[t].step = "idle"
    /\ IF snapshot[t].balance < usd
       THEN Tell(t, Refreshes("insufficient"))
       ELSE /\ Enter(t, [Idle EXCEPT !.step = IF snapshot[t].allowance >= usd
                                              THEN "buy" ELSE "approve",
                                     !.usd = usd])
            /\ UNCHANGED <<status, snapshot>>
    /\ UNCHANGED <<chainVars, txs, faults>>

----------------------------------------------------------------------------
(* The wallet's prompt                                                     *)

Prompts == {"claim", "approve", "buy"}

Confirm(t) ==
    /\ tab[t].step \in Prompts /\ Len(txs) < MaxTxs
    /\ txs' = Append(txs, [kind |-> tab[t].step, day |-> tab[t].day, streak |-> tab[t].streak,
                           fresh |-> tab[t].caught, base |-> tab[t].base,
                           amount |-> tab[t].amount + tab[t].usd, result |-> "pending"])
    /\ Enter(t, [tab[t] EXCEPT !.step = "wait", !.kind = tab[t].step, !.tx = Len(txs) + 1])
    /\ UNCHANGED <<chainVars, status, snapshot, faults>>

Reject(t) ==
    /\ tab[t].step \in Prompts
    /\ Tell(t, Refreshes("cancelled"))
    /\ UNCHANGED <<chainVars, txs, faults>>

\* A wallet that simulates the call passes on why it would revert.
Refusal(t) ==
    CASE tab[t].step = "claim" /\ lastClaimDay >= tab[t].day -> "already"
      [] tab[t].step = "buy" /\ ~enabled -> "closed"
      [] tab[t].step = "buy" /\ funds < tab[t].usd -> "insufficient"
      [] (tab[t].step = "buy" /\ allowance < tab[t].usd) \/ (paused /\ tab[t].step # "approve")
             -> "refused"
      [] OTHER -> ""

WalletRefuses(t) ==
    /\ tab[t].step \in Prompts /\ Refusal(t) # ""
    /\ Tell(t, Refreshes(Refusal(t)))
    /\ UNCHANGED <<chainVars, txs, faults>>

----------------------------------------------------------------------------
(* The receipt                                                             *)

Succeeded(tx) == tx.result = "ok"

\* The purchase follows its approval; the others are the end.
Receipt(t) ==
    /\ tab[t].step = "wait" /\ txs[tab[t].tx].result \in {"ok", "failed"}
    /\ IF ~Succeeded(txs[tab[t].tx])
       THEN Tell(t, Refreshes("failed"))
       ELSE IF tab[t].kind = "approve"
       THEN /\ Enter(t, [tab[t] EXCEPT !.step = "buy"])
            /\ UNCHANGED <<status, snapshot>>
       ELSE /\ Enter(t, [Idle EXCEPT !.kind = tab[t].kind, !.tx = tab[t].tx])
            /\ Invalidate(t)
    /\ UNCHANGED <<chainVars, txs, faults>>

\* 60 seconds have passed.
ReceiptTimesOut(t) ==
    /\ tab[t].step = "wait" /\ txs[tab[t].tx].result \in {"pending", "dropped"}
    /\ Tell(t, tab[t].kind = "claim" /\ Refreshes("timeout"))
    /\ UNCHANGED <<chainVars, txs, faults>>

----------------------------------------------------------------------------
(* The chain                                                               *)

Next_(tx) == txs[tx].result = "pending" /\ \A i \in 1..(tx - 1) : txs[i].result # "pending"
Settle(tx, result) == txs' = [txs EXCEPT ![tx].result = result]

One(n) == [w \in Wallets |-> IF w = Player THEN n ELSE 0]

\* Mutant: a signature is good once, which its nonce sees to.
NonceOnly(d) == TRUE

\* The day index only goes up.
LaterDay(d) == lastClaimDay < d

ClaimAllowed(c) == ~paused /\ c.kind = "claim" /\ c.day >= day - 1 /\ LaterDay(c.day)

claimDaily(i) ==
    /\ Next_(i) /\ ClaimAllowed(txs[i])
    /\ Settle(i, "ok")
    /\ lastClaimDay' = txs[i].day /\ Credit(One(txs[i].amount))
    /\ logs' = Append(logs, txs[i].day)
    /\ earned' = computeStreakDay(earned, lastClaimDay, txs[i].day)
    /\ paid' = [streak |-> txs[i].streak, inStep |-> txs[i].fresh /\ txs[i].base = claims]
    /\ claims' = claims + 1
    /\ UNCHANGED <<operator, ownerVars, coinVars, streak, mirrored, day, pageVars, faults>>

BuyAllowed(b) ==
    /\ ~paused /\ enabled
    /\ b.kind = "buy" /\ b.amount <= allowance /\ b.amount <= funds

buyTickets(i) ==
    /\ Next_(i) /\ BuyAllowed(txs[i])
    /\ Settle(i, "ok")
    /\ funds' = funds - txs[i].amount /\ allowance' = allowance - txs[i].amount
    /\ Credit(One(20 * txs[i].amount))
    /\ UNCHANGED <<operator, ownerVars, lastClaimDay, mirrorVars, day, history, pageVars, faults>>

approve(i) ==
    /\ Next_(i) /\ txs[i].kind = "approve"
    /\ Settle(i, "ok")
    /\ allowance' = txs[i].amount
    /\ UNCHANGED <<vaultVars, ownerVars, lastClaimDay, funds, mirrorVars, day, history,
                   pageVars, faults>>

\* A claim may also be mined after its ten minutes.
Revert(i) ==
    /\ Next_(i) /\ txs[i].kind # "approve" /\ ~BuyAllowed(txs[i])
    /\ Settle(i, "failed")
    /\ UNCHANGED <<chainVars, pageVars, faults>>

\* The wallet's owner replaces it, or no block takes it.
Dropped(i) ==
    /\ faults < MaxFaults /\ faults' = faults + 1
    /\ Next_(i) /\ Settle(i, "dropped")
    /\ UNCHANGED <<chainVars, pageVars>>

\* advanceDailyStreak, for the next event.
ObserveClaim ==
    /\ logs # <<>>
    /\ streak' = computeStreakDay(streak, mirrored, Head(logs))
    /\ mirrored' = Head(logs) /\ logs' = Tail(logs)
    /\ UNCHANGED <<vaultVars, ownerVars, lastClaimDay, coinVars, txs, day, pageVars, faults,
                   history>>

Midnight ==
    /\ day < MaxDay /\ day' = day + 1
    /\ UNCHANGED <<vaultVars, ownerVars, lastClaimDay, coinVars, txs, mirrorVars, pageVars,
                   faults, history>>

\* pause, unpause and setToken.
Owner ==
    /\ faults < MaxFaults /\ faults' = faults + 1
    /\ \/ paused' = ~paused /\ UNCHANGED enabled
       \/ enabled' = ~enabled /\ UNCHANGED paused
    /\ UNCHANGED <<vaultVars, lastClaimDay, coinVars, txs, mirrorVars, day, pageVars, history>>

Answer(t) == Confirm(t) \/ Reject(t) \/ WalletRefuses(t)
Proceed(t) == SignClaim(t) \/ Answer(t) \/ Receipt(t) \/ ReceiptTimesOut(t)

Next ==
    \/ \E t \in Tabs :
           \/ AskClaim(t) \/ Proceed(t) \/ RouteFails(t) \/ Refetch(t)
           \/ \E usd \in Usd : PressBuy(t, usd)
    \/ \E i \in DOMAIN txs :
           claimDaily(i) \/ buyTickets(i) \/ approve(i) \/ Revert(i) \/ Dropped(i)
    \/ ObserveClaim \/ Midnight \/ Owner

Spec == Init /\ [][Next]_vars

\* Prompts are answered and waits end; a player who is offered a reward asks for it.
FairSpec ==
    /\ Spec
    /\ \A t \in Tabs : WF_vars(Proceed(t)) /\ SF_vars(AskClaim(t))

----------------------------------------------------------------------------
(* Properties                                                              *)

TypeOK ==
    /\ ticketBalance \in [Wallets -> Nat] /\ {totalTicketsIssued, totalTicketsSpent} \subseteq Nat
    /\ {paused, enabled, operator} \subseteq BOOLEAN
    /\ {lastClaimDay, mirrored, day} \subseteq Days /\ {streak, earned} \subseteq Streaks
    /\ {funds, allowance, claims} \subseteq Nat
    /\ txs \in Seq(Tx) /\ logs \in Seq(Days)
    /\ tab \in [Tabs -> Tab] /\ status \in [Tabs -> BOOLEAN]
    /\ snapshot \in [Tabs -> [allowance: Nat, balance: Nat]]
    /\ faults \in 0..MaxFaults /\ paid \in [streak: Streaks, inStep: BOOLEAN]

\* The chain pays one reward a day, however many tabs ask, and however late a claim
\* that was thought lost is mined after the one that replaced it.
OneRewardPerDay ==
    \A i, j \in DOMAIN txs :
        (i # j /\ {txs[i].kind, txs[j].kind} = {"claim"}
               /\ {txs[i].result, txs[j].result} = {"ok"}) => txs[i].day # txs[j].day

\* A reward is the one of its day in the streak, by the chain's own history, when the
\* listener had seen the claims before it and none of them was mined in between:
\* claims that were signed and thrown away do not count.
StreakIsPaid == paid.inStep => paid.streak = earned

\* "+N tickets added" is said of a transaction of the press itself that the chain has
\* carried out.
SuccessIsReal ==
    \A t \in Tabs :
        (tab[t].step = "idle" /\ tab[t].kind # "") =>
            txs[tab[t].tx].kind = tab[t].kind /\ txs[tab[t].tx].result = "ok"

\* A tab that offers a reward which is already claimed finds that out: the refusal, a
\* timeout or a success makes it look again.
ClaimedIsShown ==
    \A t \in Tabs : (status[t] /\ ~Claimable) ~> (~status[t] \/ Claimable)
=============================================================================
