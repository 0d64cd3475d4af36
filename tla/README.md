# PassChick in TLA+

A verification project for PassChick, a game in which a chicken crosses roads for
season points (V2: a run costs one ticket) or for a staked USDC payout (V1). The
source is a TypeScript backend on Postgres (`src/backend`), six Solidity contracts
(`src/sc`) and a Next.js frontend with a game engine in one script (`src/frontend`).

Contents: [inventory](#inventory), [modules](#modules), then one section per part:
[ticket play](#ticket-play), [ticket mirror](#ticket-mirror),
[batches](#ticket-batches), [season](#season-reset),
[vault and settlement](#vault-and-settlement), [V1 flow](#v1-settlement-flow),
[run engine](#run-engine), [map](#map-generator), [shop](#daily-reward-and-shop),
[sign-in](#sign-in), [passport](#passport); then [runs](#runs), [proofs](#proofs),
[what the models refute](#what-the-models-refute), [not modelled](#not-modelled),
[plan](#plan).

## Inventory

| Component | State | Operations | Talks to | What makes it correct |
|---|---|---|---|---|
| Game gateway (`gameGateway.ts`, `gameState.ts`) | `activeGames` by wallet, grace timers, socket listeners | start, move, crash, cash-out/end_run, abort, disconnect, reconnect, checkpoint timeout | Postgres, chain, sockets | one charged run per wallet; each run ends once; a repeated start replays; a close ends its own run |
| Ticket play (`ticketPlay.ts`, `schema_v2.sql`) | `game_sessions`, `ticket_ledger`, `ticket_balances`, `season_points` | debit, refund, close, void, credit | Postgres | balance = ledger; refund and outcome exclude each other; no double points |
| Recovery worker (`recoveryWorker.ts`) | none | sweep of V2 orphans, V1 receipts | rows, `activeGames`, chain | every orphan is eventually closed; a hash that proves nothing is dropped |
| Run engine (`script.js`, `GameBridgeClient.tsx`, `gameValidator.ts`, `timerAuthority.ts`) | row, checkpoint and stay at both ends; the bridge's call; the start intent | hop, start, end, crash, connect, lose, resume | sockets | both ends count alike; what is offered is granted; no end waits for ever |
| Map generator (`script.js`) | counters between rows, hop queue | generate row, add rows, queue, step | – | whole rivers, rest between roads, rows under every hop |
| `GameVault.sol` | balances, locks, treasury, totals | deposit, withdraw, fund, rescue, lock, settle | ERC-20, settlement contract | solvent; totals are sums |
| `GameSettlement.sol` | sessions, active slot per player | start, settle with signature, expire | vault, backend signer | one stake per active session, released once, never stranded |
| `TicketVault.sol` | ticket balances, claim days, nonces | claimDaily, buyTickets, creditBatch, spendBatch | ERC-20, listener, executors | a day is claimed once; balances never negative |
| `TrustPassport.sol` | passports, nonces, badges, season records | claim, revoke, verify, record, grant | passport route | the newest claim stands; a signature is used once; the gate closes by revocation only |
| `USDCFaucet.sol`, `GameUSDC.sol` | cooldowns, test token | claim, mint | wallets | cooldown |
| Blockchain listener (`blockchainListener.ts`) | event log, cursor, mirror balance, streaks | watch, backfill, apply delta | chain, Postgres | no log is applied twice, none is passed over |
| Spend and reward batch executors | tags on ledger and reward rows, the operator's nonce | nett, tag, broadcast, recover | chain, Postgres | each spend or reward reaches the chain at most once |
| Season pipeline (`seasonService.ts`, `seasonScheduler.ts`) | season status, ranks, divisions, reward queue | freeze, rank, move, queue, badge, open next | Postgres | each stage once per season, in order, across crashes; the standings decide |
| V1 settlement (`routes/game.ts`, `settlementExecutor.ts`) | V1 rows, stored signatures | start, settle, force-end, submit, list, clear | chain, Postgres | what is paid was earned; what is marked settled is |
| Daily claim, shop (`tickets.ts`, `useDailyRewardClaim.ts`, `useTicketTopUp.ts`) | claims to sign, tabs, prompts | status, claim, approve, buy | TicketVault | one reward a day, the streak's reward |
| Sign-in (`auth.ts`, `sessionStore.ts`, `WalletProvider.tsx`) | nonces, sessions, cookie, token, single flight | nonce, verify, check, switch, log out | all routes | a request acts for the account it was made for; a player who tries gets in |
| Passport routes (`passport.ts`, `tiers.ts`) | – | eligibility, sign | TrustPassport | a tier is earned |
| Read-only routes, faucet route, deposit page, start-up | – | queries, one transaction at a time | – | no protocol |

What is hard here: handlers are asynchronous and keyed by wallet, so several may be
between two awaits for one wallet; an effect is spread over several database or RPC
calls, each of which may fail or be answered too late; everything in memory is lost on a
restart while the rows remain; two workers share one operator key; a transaction may be
mined long after its sender gave up; two ends of a socket count and time the same run
apart; several tabs share one wallet. `PROJECT.json` lists each such hazard at its line
with the properties that would catch it.

## Modules

| Module | What it is |
|---|---|
| `TicketPlay` | what one-ticket play promises, in three variables and five actions |
| `TicketSession` | the V2 handlers, rows, timer and sweeper of one wallet; refines `TicketPlay` |
| `TicketMirror` | the listener's watchers, backfill and handlers around one wallet's mirror row and streak |
| `TicketVault` | the accounts of the contract and its operators |
| `TicketBatches` | both batch executors, the operator's mempool and the games, over `TicketVault` (EXTENDS) |
| `TicketShop` | daily claims and purchases of several tabs, over `TicketVault` (EXTENDS) |
| `SeasonReset` | the pipeline's stages, the closes that credit points meanwhile, the season leaderboard |
| `GameVault` | the vault contract under any settlement contract |
| `GameSettlement` | the settlement contract on top of `GameVault` (EXTENDS it) |
| `V1Settlement` | the staked game: handlers, routes, relayer and sweep around rows and on-chain sessions |
| `RunEngine` | one run at both ends of a socket: page, bridge, link, gateway |
| `RowGenerator` | the engine's endless map and its hop queue |
| `Checkpoints` | which rows are checkpoints, for the two modules above |
| `SignIn` | backend sessions and the page that signs in |
| `Passport` | tiers, signed claims, the contract's record |
| `MC*` | constant functions and symmetry sets for TLC |
| `TicketSessionProofs`, `TicketMirrorProofs`, `TicketBatchesProofs`, `TicketShopProofs`, `StakedGameProofs`, `EngineProofs`, `PlayerProofs` | theorems (`StakedGameProofs` holds those about `GameVault`, `GameSettlement` and `V1Settlement`, `EngineProofs` those about `RowGenerator` and `RunEngine`, `PlayerProofs` those about `Passport`, `SeasonReset` and `SignIn`) |
| `SumTheorems` | facts about sums over finite sets that the proofs cite |

The modules overlap on purpose where two components share a piece of state: a game's
debit and refund are cut at their awaits in `TicketSession`, one step each in
`TicketMirror` and `TicketBatches`; the gateway's handlers are one step each in
`RunEngine`; the listener's update is cut in `TicketMirror`, one step in `TicketShop` and
`TicketBatches`. Each section says what it takes from the others.

"be07" and "be08" below are `docs/be07-game-session-contract.md` and
`docs/be08-season-leaderboard-api.md`.

Some definitions just before a guard are marked `Mutant:`; nothing in the specifications
uses them. `PROJECT.json` names, for every checked property, one such variant of a
modelled definition under which TLC finds the property violated.

## Ticket play

**State.** `status`, `intent`, `awarded` are columns of `game_sessions`; `spent` and
`refunded` the sessions with a SPEND or REFUND row in `ticket_ledger`; `balance` and
`points` the wallet's `ticket_balances` and `season_points`; `season` the status of the
current season. `mem` is `activeGames.get(wallet)` (checkpoint, cash-out window, paused,
timer armed), `moved` the sessions with a recorded move, `leaked` the number of armed
grace timers that no game refers to, `task` the handlers between two awaits.

**Steps.** Node runs one callback at a time, so a handler is cut at its awaits: an
action is one database call with the JavaScript that follows it up to the next call, and
the decisions that read or change the game in memory after an await are actions of their
own (`ResolveExisting`, `CreateGameState`, `RemoveGameState`, `SweepCheck`). A call
commits and is answered, commits and its answer is lost, or fails; the handler then does
what its `if (error)` or `catch` does. `debit_ticket_for_session` and
`refund_ticket_for_session` are one transaction each and one action each.

| Actions | Code |
|---|---|
| `HandleGameStartV2`, `LookupIntent`, `ResolveExisting`, `CheckStaleActive`, `CheckSeason`, `InsertSession`, `DebitTicket`, `DeleteSession`, `CreateGameState` | `handleGameStartV2`, `debit_ticket_for_session` |
| `HandleGameMove`, `SpeedHack`, `CheckCpStayTimeouts`, `HandleGameCrash`, `HandleGameCashout`, `HandleAbortStart` | the handlers of those names |
| `HandleDisconnect`, `HandleReconnect`, `GraceExpired` | disconnect, grace timer, reconnect |
| `CloseReadSeason`, `CloseUpdate`, `ReadPoints`, `CreditPoints`, `RemoveGameState` | `closeV2FromState`, `closeV2Session`, `creditSeasonPoints` |
| `VoidSession`, `RefundTicket` | `voidAndRefundSession` |
| `SweepFind`, `SweepCheck` | `sweepV2Orphans` |
| `FreezeSeason`, `Restart` | `freezeSeason`'s status change; the process dies |

**One wallet.** Every map, row and query of this path is keyed by the wallet (the sweep
goes row by row and asks about that row's wallet), so wallets do not interact; the model
is one wallet with several sessions and handlers. Season credits, ledger rows and
balances of other wallets are independent rows.

**Abstractions.** A division is its threshold and does not change during a run. The row a
player stands on is the checkpoint reached and whether the cash-out window is open. A
client may hold several sockets, so any client event may come at any time a game is in
memory. A session id is reused once no row, ledger entry or handler refers to it, which
only makes the set of ids finite. An abort carries no transaction hash, as a V2 start has
none. Left out because nothing depends on them: `players.total_games`, map seeds, socket
ids, the wording of events, the replay of `game:ended`.

**Bounds.** `Sessions` and `Tasks` have two members, and `Intents` two in the run without
faults: every property relates at most two sessions, and a race needs two handlers beside
the sweeper, which has a slot of its own. `MaxCp = Threshold = 1` distinguishes a run below the
threshold from one that scores. `MaxLeaked` bounds leaked timers (one suffices to hit a
later game), `MaxFaults` failed calls and restarts. The races of two
intents are checked without faults, a fault with one intent and its resent starts, so that
both remain exhaustive.

**Sweep age.** `SweepFind` does not list a row whose start handler is still running: a
row is listed when it is ten minutes old, and the start's few calls are taken to end
earlier.

**Fairness** (`FairSpec`). Weak fairness of each handler's steps: a call that was sent is
answered or fails, and the event loop runs the continuation. Strong fairness of
`SweepFind(s)` for each session: the interval fires every minute for ever and lists every
old ACTIVE row (fewer than the query's limit of 20), although the sweeper is busy with
another row in between. Clients, timers, restarts and the scheduler get none.

## Ticket mirror

**State.** `head` and `minedIn` are the chain: its last block and the block of each log.
`seen` is `ticket_event_log`, `row` the wallet's `ticket_balances`, `streak` its
`daily_streaks`, `cursor` the row of `chain_sync_state`, `ledger` the number of SPEND and
REFUND rows of `ticket_ledger`. `job` is the handler each source has running (a watcher
starts one per log, a backfill awaits one at a time) with the row it has read; `backfill`
holds the local variables of each run of `backfillTicketEvents`. Two variables record
history only: `since` is the head when the watchers were installed, `forgone` the logs a
backfill went past without claiming them: its claim failed (`ClaimTicketEvent`), or a
cold start, which a failed read of the cursor is taken for, began behind them
(`PassedOver`).

| Actions | Code |
|---|---|
| `Deliver` | the four `watchContractEvent` callbacks; a log may come again or never |
| `ClaimTicketEvent`, `Record`, `ReadRow`, `WriteRow`, `ReadStreak`, `WriteStreak` | the handlers: `claimTicketEvent`, `ensurePlayer` with `logTransaction`, `applyTicketMirrorDelta`, `advanceDailyStreak`, one database call each |
| `GetBlockNumber`, `ReadSyncCursor`, `GetContractEvents`, `DispatchTicketLog`, `WriteSyncCursor` | `backfillTicketEvents` |
| `DebitTicketForSession`, `RefundTicketForSession` | the effect on the row of the two database functions, one transaction each |
| `NewBlock`, `Restart` | blocks with any set of new logs; a deploy or a crash |

**Abstractions.** Every log belongs to one wallet and is worth one ticket: rows are per
wallet, and the amount only scales the sum. Purchases and batch credits take the same
steps, a claim adds the streak's, a spend stops after `Record`. `ensurePlayer` and
`logTransaction` change nothing the properties read and only log their errors, so they
are one step without a fault. When a game may be debited is `TicketSession`'s subject;
here a debit needs a ticket and a refund an unrefunded debit. Days of claims come from a
constant, and a later claim has a later day, as the contract demands.
`last_synced_block` is written and never read and is left out.

**Bounds.** Two claims on consecutive days let the streak grow, break or be handled out
of order. `Chunk = 2`, `ColdStart = 2` and three blocks give several chunks, a
clamped and an unclamped cold start. `Faults` names the calls that may fail, in the run
all of them: a failed insert may have committed. One restart and one fault fall anywhere.
The run has one backfill; overlapping ones are covered by the theorem.

**Fairness** (`FairSpec`). Weak fairness of each backfill's steps and of the handler it
awaits: the timer starts it again every five minutes and calls are answered. Watchers,
blocks, debits and restarts get none, so `MissedLogsAreFound` is about the backfill alone.

**What the cursor promises.** The comment in `backfillTicketEvents` says that it "must never
skip past a range we failed to read". It does not skip a range whose `getContractEvents`
failed, but it does pass a log whose dedupe insert failed, as `claimTicketEvent` answers
false for it, and everything older than the cold start's reach when the read of the cursor
failed. `CursorCoversLogs` says that these are the only two ways; `NothingIsSkipped`, the
comment's words, is refuted.

## Ticket batches

**State.** `status`, `mirror` and `tag` are the sessions, the balances of
`ticket_balances` and `reconciled_tx_hash` of each SPEND and REFUND row (`Absent` without
row, `NetZero` for the sentinel `net-zero-refund`); `rewardStatus` and `rewardTag` the
reward columns of `season_points`. `tx` holds the operator's transactions with their
nonces and where each one is (signed, in the mempool, mined as success or reverted,
gone), `chainNonce` the nonce the chain expects, `exec` what each worker keeps over its
awaits, `unseen` the credit logs the listener has not applied.

| Actions | Code |
|---|---|
| `SpendTick`, `SettleNetZero`, `ReadPendingSpends`, `FilterTerminalSpends`, `DropRefunded` | `spendBatchExecutor`: recovery (which only logs), the netting of a refunded spend, and the three reads of `processNextBatch` |
| `RewardTick`, `RecoverBatch`, `ReadPendingRewards`, `CreditBatchRows` | `rewardBatchExecutor`: recovery by receipt, the read, the credit after the receipt |
| `SignBatch`, `WriteTag`, `TagBatch`, `Broadcast`, `WaitForReceipt`, `ReadFails` | the same for both: preparing takes the pending nonce and simulates the call; the tag is written before the broadcast |
| `Mine`, `Drop` | the chain takes a transaction when its nonce comes, or the mempool drops it |
| `InsertSession`, `Debit`, `CloseSession`, `RefundTicket`, `QueueReward`, `MirrorCredit` | games, the season's queue and the listener, one transaction each |
| `CreditBatch`, `SpendBatch`, `SetOperator` | `TicketVault.sol` |

**Abstractions.** A run costs one ticket and a batch lists a wallet once, as the code
groups it. A failed call that may have committed is one that committed with its answer
lost (`WriteTag`), then the tick ends. Reads are of the state at that moment; a limited
read returns any rows of that number, since the query names no order.

**Bounds.** Two runs of one wallet and two rewards, one of them of 0 tickets; `Limit = 1`
makes a tick see a part of what is pending. Two transactions suffice for the nonce race
of the two executors. One fault falls anywhere.

**Fairness.** Weak fairness of each worker's steps: `setInterval` starts the next tick.
Games, chain, listener and faults get none.

## Season reset

**State.** `season`, `sp`, `division`, `updatedBy` are rows of `seasons`,
`season_points` and `divisions` (`NoRow` where a wallet has none); `worker` is the tick with the rows it still has to
write, `close` the credit of each wallet's ending run, cut at its four calls
(`GetPlayerDivision`, `GetSeason`, `ReadPoints`, `CreditSeasonPoints`). `late` and `cut`
record which seasons were credited after the freeze or had a tick broken off.

**The divisions table.** `applyMovements` updates `divisions` by wallet, and nothing in the
repository inserts a row: with what the program itself writes, the table stays empty, every
wallet reads as ROOKIE and a promotion moves nobody (`PromotedPlayHigher` is refuted).
`WriteDivision` is that update, without effect where there is no row, and
`GetPlayerDivision` reads ROOKIE for a missing row as for a failed query.
`FirstDivisions` says what the table holds at the start: in the run either nothing, or rows
of two wallets put in by hand, the third without.

The tick's stages are those of `seasonScheduler.ts` (`NextStage` reads the status and
timestamps), each cut at its calls: `FreezeSeason`, `ReadRanks`, `WriteRank`,
`ReadMoves`, `WriteMovement`, `WriteDivision`, `StartSettling`, `ReadRewards`,
`QueueReward`, `UpdatePassportBadges`, `OpenNextSeason`, `SettleSeason`,
`BootstrapFirstSeason`. A failed call and a restart both end the tick, so `TickFails` is
both. `Outranks`, `PromoteCount`, `RelegateCount`, `MovementOf` are the pure functions;
`Standing` and `Viewer` are what `GET /api/leaderboard/season` answers.

**Bounds.** Three wallets and three divisions, shares of 50 % (the code's percentages
would move nobody among three), `SmallDivision = 2` so that both branches of the
promotion count are met, two seasons, three closes, one broken tick.

**Fairness.** Weak fairness of the scheduler. Closes and the calendar get none.

## Vault and settlement

A transaction is one action, and a revert leaves no trace, so every `revert` and every
checked subtraction is a guard. `token` is the vault's USDC balance; the rest of `Supply`
belongs to other accounts, which is all a transfer in can bring. `GameVault`'s own
specification `VaultSpec` lets a settlement contract ask for any lock, cash-out or crash,
and the owner name another one at any time. `GameSettlement` extends it with the sessions
and the backend's signatures: `signed` holds every resolution a key of `Signers` has ever
signed. Because the V1 backend can sign a crash, a cash-out and refreshed deadlines for
one session, and anybody may submit a signature, `signed` only grows and
`SettleWithSignature` may use any member at any time until its deadline.

| Actions | Code |
|---|---|
| `Deposit`, `Withdraw`, `FundTreasury`, `TreasuryWithdraw`, `RescueToken`, `Pause`, `Unpause`, `SetSettlement`, `LockStake`, `SettleCashout`, `SettleCrash` | functions of `GameVault.sol` |
| `StrayTransfer` | a plain ERC-20 transfer to the vault (external) |
| `StartSession`, `SettleWithSignature`, `ExpireSession`, `SetBackendSigner`, `SetSessionExpiryDelay`, `PauseSettlement`, `UnpauseSettlement` | functions of `GameSettlement.sol` |
| `SignSettlement`, `Tick` | the backend signs; block time passes |

Bounds: `Supply` is a real bound of the system, small in the runs. `MaxTime` and
`MaxSigned` bound time and signatures: two signatures give the pairs that matter (crash
and cash-out, or two deadlines, or two keys) and two ticks put an expiry before, at and
after a deadline. `Multipliers = {1, 4}` at `Scale = 2` give a payout below and one above
the stake, so the treasury both takes and pays. Not modelled: `setVault`, the UUPS
upgrade, overflow of the 64-bit expiry time, rescue of other tokens.

## V1 settlement flow

**State.** `onchain` is each session of `GameSettlement.sol`, `pool` the settlements that
were broadcast and given up, `row` the wallet's `game_sessions`, with the outcome a stored
signature is for and the kind of `settlement_tx_hash` (null, a hash, or one of the two
marks), `game` the entry of `activeGames`, `task` what each handler, route and the sweep
keeps over its awaits. `reached` records the sessions that were asked to pay in an open
window. `crowded` says that 30 later rows of other wallets keep a false hash out of the sweep's
query.

| Actions | Code |
|---|---|
| `HandleGameStart`, `ReadActiveSession`, `InsertRow`, `CreateGameState` | `handleGameStart` |
| `HandleGameCrash`, `HandleGameCashout`, `PersistEnd`, `RemoveGameState`, `HandleAbortStart`, `DeleteRow` | the ends of a game, with the grace timer's and the auto cash-out's calls of the same functions |
| `Refused`, `Broadcast`, `Mined`, `ReceiptTimesOut`, `MineLate` | `submitSettlement`: refused, sent, mined (also as reverted), given up |
| `ForceEnd`, `PersistCrash`, `RemoveForced`, `ListActive`, `CrashRow`, `RecoverOnchain`, `PersistRecovered`, `AnswerForced` | `force-end-active`: memory, rows, chain |
| `SubmitSettlement`, `PersistSubmitted`, `ReadPending`, `ClearPending`, `ReadToClear`, `ClearSettlement` | the other routes of `routes/game.ts` |
| `PlayBlocker`, with `PendingListed` and `HasActiveGame` | `getPlayBlocker` of the bridge: what `/pending-settlement` lists, and `/active` |
| `SweepRead`, `SweepClear` | `recoveryWorker.ts`: of the 30 rows that ended last over all wallets, and more than two minutes ago, the latest of each wallet that has a hash |
| `OthersEnd` | runs of other wallets end, or drop out of those 30 |
| `ObserveSettled` | the listener's `SessionSettled` handler: late, again or never |
| `Window`, `StartOnchain`, `ExpireOnchain`, `Restart` | checkpoints come and go, the contract, a deploy |

`Settled` is what `SettleWithSignature` of `GameSettlement` does to a session, money left
aside. Amounts, multipliers and row counts are left out.

**Bounds.** One on-chain session and two rows' ids, two requests and the sweep, one
fault: two writers of one row, and a write of a handler that outlives its game.

Which later rows are younger than two minutes is left open: `SweepRead` may take any
row with a hash, as if the later ones were too young.

**Fairness.** Answers come or calls fail; the sweep's interval fires for ever and, when the
wallet's latest row with a hash is among the 30, reads it (weak). That it is among them the
code does not guarantee: `OthersEnd` may keep it out for good, so `FalseHashIsCleared` speaks
of behaviours in which that ends (`<>[]~crowded`), and without it the property is refuted. A player who is shown a
blocker presses END NOW again and again: without him nothing in the code ends a row that
has no game.

## Run engine

**State.** `bet` is the page's run (`script.js`'s `bet` and `position.currentRow`), `over`,
`panel` and `settling` what the page shows, `call` the bridge's awaited call, `intent` the
client session id; `conn`, `handlers`, `up`, `down` the link, connection by connection,
with the listeners the gateway put on each; `game`, `session` and `last` the gateway's
game, its rows and the wallet's last end.

| Actions | Code |
|---|---|
| `PressStart`, `PressEndRun`, `Crash`, `Hop`, `StayEnds`, `TogglePanel`, `Retry`, `FreePractice` | the player and the page's timers in `script.js` |
| `Emit`, `Receive`, `Reject`, `Activate`, `RunEnded`, `CpExpired`, `BridgeFails` | `GameBridgeClient.tsx` and `socket.ts`: a call is emitted, answered, or timed out |
| `Connect`, `Drop`, `LossNoticed`, `HandleDisconnect`, `GraceExpires` | connection, loss, and the gateway hearing of it later, possibly after the player is back on another socket |
| `Handle` with `StartRun`, `MoveRun`, `EndRun`, `CrashRun`, `ReplayEnd`; `CpStayExpires`, `Tick` | the gateway's handlers and the stay's timer |

`ClientHop` and `ServerHop` are the two counts of the same hop. `Interval = 2` and
`Stay = 1` make a checkpoint, a step out of it and a late step out reachable with three
rows; two intents give a start after an end, two sockets a resumed run. The link breaks
at any moment and loses what is in flight.

**Fairness.** What arrives is handled, timers run, the ping timeout notices a loss. `Emit`
is strongly fair: a call waits for room in the link, which moves may take again.

## Map generator

Counters are the script's (`pendingRoadRowsInSegment` to `trainCooldownRows`); a random
draw is a choice; each action of `GenerateRow` is one branch of `generateRow`, and `owed`
is the running batch of `addRows`. `current` and `previous` are the last two rows, all that the
properties look at. The run uses the engine's own numbers over two checkpoints; the
theorems hold for any.

## Daily reward and shop

`txs` are the wallet's transactions, mined in order of their nonces or dropped; a tab's
mutation goes through `asked`, the prompts and `wait`. `claimDaily`, `buyTickets` and
`approve` are the contract's; `SignClaim` the route with `computeStreakDay`;
`ObserveClaim` the listener; `Refetch`, `Refreshes` and `Invalidate` what the page reads
again after each outcome. Bounds: one wallet, two tabs, streaks that start at 6 or 7 so
that the week's end falls into the run, two transactions, two midnights, one fault or act
of the owner. Fairness: prompts are answered and waits end (weak), and a player who is
offered a reward asks for it again and again (strong, as the offer comes and goes).

## Sign-in

A session is a number, a nonce is named by its page. `Press` and `Bridge` are the two
callers of `ensureBackendSession`; `flight`, `busy` and `cache` its single flight and
the cached check; `Deliver` an answer of `/auth/me`, which may arrive after the account
changed. The backend answers with the checksummed address and the page compares it with
the wallet's text (`SameAddress`): an account outside `Checksummed`, as MiniPay may report
it, never passes the check and signs in anew each time. An external wallet signs in by nonce and signature, an embedded one by one post.
Bounds: one page (a second tab's effect on the browser is a `Switch` the page has not
heard of), two accounts of both kinds, the embedded one in small letters, one switch, one restart of the backend. Fairness:
requests are answered, the cache expires, a player who is not signed in presses.

## Passport

`runs` are the player's finished runs; `computeTier` over the last `Window` of them is
what the route signs. `tabs` hold the status
they have read and the claim they ask the wallet to send; `sent` claims may be mined in
any order or never. `claimWithSignature`, `verifyHuman`, `revokePassport`,
`unrevokePassport` and `setPaused` are the contract's. Bounds: two tabs, two tiers, two
claims, a validity of one tick and a clock of three, so that expiry falls before, at and
after a claim. `EffectiveTier`, `Unlocked` and `Progression` are the tier a status shows,
what it opens and how far the next one is.

## Runs

Each run asks several questions of one instance. States are distinct ones; every run ends by itself
within four minutes on two workers.

| Run | States | Instance | Shows |
|---|---|---|---|
| `TicketSession_races` | 1.7 M | two sessions, intents and handlers, the sweeper, a leaked timer, resent starts, symmetry | `OneChargedRun`, `RefundExcludesOutcome`, `NoDoublePoints` |
| `TicketSession_faults` | 0.5 M | the same with one intent and one failed call, lost answer or restart | `OutcomeWasPaid`, `LedgerMatchesBalance`, refinement of `TicketPlay` (`KeepsPromise`), `ChargedRunIsSwept` under fairness |
| `GameSettlement` | 2.6 M | two players, ids, keys and settlement contracts, two signatures | `StakeIsLocked`, `Solvent`, `OneClosePerStake` |
| `TicketMirror` | 1.3 M | two claims, watchers and a backfill, a debit, a fault at any call, a restart | `NeverCreditedTwice`, `StreakIsEarned`, `CursorCoversLogs`, `MissedLogsAreFound` under fairness |
| `TicketBatches` | 0.3 M | two runs, two rewards, two transactions, a fault | `ChainAgreesWithTags`, `SettledIsNeverRefunded`, `SpendIsCovered`, `MinedRewardIsCredited` under fairness |
| `SeasonReset` | 1.6 M | three wallets with or without a division, two seasons, three closes, a broken tick | `PromotedIsQueued`, `StandingsDecide`, `MovesAreCarriedOut`, `NextSeasonOpens` under fairness |
| `V1Settlement` | 0.7 M | one on-chain session, two rows, two requests, the sweep, others' runs, a fault | `PayoutWasEarned`, `SettledMarkIsTrue`, `FalseHashIsCleared` and `BarredPlayerIsFreed` under fairness |
| `RunEngine` | 0.7 M | three rows, two intents, two sockets, two messages each way | `TracksAgree`, `OfferedEndIsGranted`, `SettlingEnds` and `PausedRunIsResolved` under fairness |
| `RowGenerator` | 1.3 M | the engine's numbers, 85 rows | `RiversAreWhole`, `QueueIsOnTheMap` |
| `TicketShop` | 0.2 M | two tabs, two transactions, two midnights, a fault | `OneRewardPerDay`, `StreakIsPaid`, `ClaimedIsShown` under fairness |
| `SignIn` | 0.4 M | two accounts, one page, a switch, a restart | `StaleTabIsRefused`, `TryingSignsIn` under fairness |
| `Passport` | 1.8 M | two tabs, three runs, two claims | `TierWasEarned`, `NewestClaimStands`, `GateClosesByRevocation` |

`CHECK_DEADLOCK` is on everywhere: where a bound is reached, some time, tick or player
step is still possible. Symmetry is used only in runs without liveness; sessions, intents,
handlers, players, ids and keys are only compared for equality.

Not listed in a cfg but holding on the same instances (add the name to the cfg): the
`TypeOK` of every module, `OutcomeIsFinal`, `ActiveIsRegistered`, `ExpiryIsPossible`,
`TotalsAgree`, `BalanceIsDifference`, `CreditedIsMined`, `RoadsHaveRest`,
`RiversAreApart`, `SuccessIsReal`, `UsedClaimCannotRestore`, `StatusIsFair`.

What the exemptions in some properties mean: `CursorCoversLogs` and `MissedLogsAreFound`
except the logs in `forgone`, `FalseHashIsCleared` a row that is crowded out; `MovesAreCarriedOut`
lets a season that was credited late leave a row without a movement, and a broken tick a
movement without its division; `StandingsDecide` speaks of seasons without
a failed tick and without a credit after the freeze, because with either the code's
standings do differ; `StreakIsPaid` of rewards that were not overtaken by another claim
and whose listener was up to date; `SpendIsCovered` takes the mirror's update as one
step. The section on refuted statements says what happens otherwise.

## Proofs

Every theorem holds for all values of the constants, under the assumptions that its module
names: bounds and lengths are natural numbers (positive where the code divides by them or
needs one), tables that are summed over are finite, and a "no value" constant is none of the values. An invariant of a run is
seldom inductive; each section names what had to be added and why.

**Ticket play** (`TicketSessionProofs`), for any number of sessions, intents, handlers,
tickets and faults. `SessionInv` strengthens the three safety invariants with
`PaidInFlight` (the game in memory, and every handler that will create or close a game, is
for a session with a SPEND row; a handler that is about to refund has voided its row) and
`SpentRowExists` (a charged session has a row). Without the first a close of an unpaid row
could score it, and without its refund clause a refund could meet a scored one. One lemma
per group of steps, by what the step does to the rows: opens, drops, voids, scores,
charges or refunds one, or is harmless. From it: `TypeCorrect`, `OneTicketAtATime`,
`RefundOrOutcome`, `OutcomesArePaid`, `OutcomesAreFinal`, and `Implementation`, the
refinement of `TicketPlay`. `LedgerIsBalance` adds an invariant with cardinalities of the
ledger's sets. `PointsAreNotDoubled` needs `CreditInv`: the points of the wallet are at
most the sum over the sessions credited, or about to be credited by a handler at its
last await; a session enters that set by the one close that scores its row, and
`UnderCredit` and `Credited` keep two handlers apart. A sum needs finitely many sessions:
`SessionsAreFinite`.

**Ticket mirror** (`TicketMirrorProofs`), for any finite set of logs, any overlapping
backfills and any bounds. `TypeInv` adds to the types what a handler at each step knows of
its log (mined, recorded, a credit, a claim) and that a backfill reads no further than the
head. `NeverCreditsTwice` needs `CreditInv`: the row, and every copy of it that a handler
holds, counts at most the recorded credit logs that no handler is still to apply; a handler
releases its own log when it writes, so even a stale copy stays within it.
`BalanceStaysDifference` and `StreakStaysEarned` extend their formula to the copies.
`CursorSkipsOnlyForgone` needs `RunCovers`: behind what each run has read, every log is
recorded, forgone, still to do, or about to be claimed by that run. It holds under every
fault: a failed insert of a backfill and a cold start put what they drop into `forgone`, and
nothing else does.

**Ticket batches** (`TicketBatchesProofs`), for any runs, rewards, transactions, limits and
faults. `BatchInv` relates what a worker holds over its awaits to rows and mempool: the
spend rows it means to tag are of ENDED runs, a refund row exists for VOIDED runs only,
and both states are final; a transaction it has signed is nobody else's, and one it saw
succeed stays mined. Hence `SettledKeepsItsSpend` and `CreditedWasMined`. The two sums
need more. `LinkInv` ties rows and transactions together: a tagged row names a
transaction that carries it, every row that a broadcast transaction carries names it, so
no row is in two of them, and a worker's rows stay free until its own tag. Mining a
transaction then moves exactly its rows from not mined to mined, which gives
`ChainIsSettledOnce`. `BalanceInv` states both sums with the types of the two tables of
balances; `EverySpendIsCovered` follows, and with it that no spend batch
reverts for want of tickets. Sums over rows and logs use `SumTheorems`: the fold of the
community modules is unfolded by one element at a time, and its lemmas say what adding,
removing or changing an element does. The tables must be finite: `TablesAreFinite`.

**Daily reward and shop** (`TicketShopProofs`), for any tabs, transactions, faults and
length of the week. `ShopInv` compares what a prompt was composed from with what the chain
has become: the claims that the listener has yet to see lead, one computed day after the
other, from the streak of its row to the one the chain has earned (`ListenerFollows`); the
number of claims at the moment of asking tells whether another one came between
(`Due`), and no claim that went through is for a day after `lastClaimDay`. A reward's streak
was read from a row that may lag, so it fits only where nothing was left to see: that
is what `RewardFitsStreak` says. `OneRewardADay`, `SuccessIsTrue` and the action property
`RowCatchesUp` follow. Days go on past any bound: `DaysGoOn`.

**Vault and settlement** (`StakedGameProofs`). The first part proves solvency of `VaultSpec`, so for any
settlement contract, and that the totals are the sums of the accounts (`TotalsAreSums`, with
the lemmas of `SumTheorems` about folds; it assumes that the players are finitely many, as
20-byte addresses are). Hence `EveryBalanceIsBacked`: the contract holds, in USDC, what it says any
player has, and no checked subtraction from a total refuses it. The second proves type correctness, the agreement between
sessions and slots, the exact locked stake, solvency and the action property that a stake
is released once; the invariant is the conjunction of types, `ActiveIsRegistered`,
`StakeIsLocked` and the vault's, whose part is reused through its lemmas.
`SettlementImplementsVault` is the step simulation behind the composition: every step of
the two contracts is a step of `VaultSpec` or leaves the vault alone, because a stake that is
released fits what is locked and a payout fits lock and treasury. With it `ExpiryIsCovered`
says of `ExpireSession` what can be said without ENABLED: while a session is active, the
subtractions of its expiry go through.

**V1 flow** (`StakedGameProofs`), for any on-chain sessions, rows, concurrent handlers
and faults. `PayInv` says what survives an await: a session that was opened stays opened
and one that is closed stays closed, a row keeps its on-chain id while anybody holds its
session id, and wherever a cash-out or its signature is held (row, handler, mempool, chain)
the session was reached. Hence `PayoutsAreEarned` and `SettledMarksAreTrue`.

**Map generator** (`EngineProofs`), for any lengths, gaps and buffers. `MapTypeCorrect`
bounds the counters; `RoadsAreShort`; `HopsAreOnTheMap` from `MapInv` (the rows made and
owed reach past the last queued hop); `RiversHaveBanks` and `RiversKeepApart` from `RiverInv`,
which knows that a river only starts where it fits before the next checkpoint, that its
lines alternate and that the wait after it covers the cooldown. Remainders need a few
arithmetic lemmas of their own.

**Run engine** (`EngineProofs`), for any spacing of checkpoints, stay, walk, number of starts
and connections and room in the link. `EngineInv` says how the two ends hang together:
while the page is in a run that the gateway still has, there are places, one per message in
flight, that lead from the gateway's place to the page's, each one hop of the gateway
from the one before, and none further than the page has come (`FollowInv`). That the engine
and the gateway, each with code of its own, lead from one place to the same next one is
`ClientWalks` and `ServerWalks`. Nothing is hopped while a window is open, as a hop closes
it or reaches the next checkpoint; so where the window is open and the gateway has
come as far as the page, its window is open too, with at least as much time left
(`GrantInv`), though it opened later. The rest ties the page's run to its row: a started
message names a row that exists, and a row that exists is never played anew. Hence
`BothEndsCountAlike` and `EndRunIsGranted`.

**Passport** (`PlayerProofs`), for any table of tiers, window, tabs and claims.
`TierIsEarned` rests on `EarnedInv`: every tier that a tab, a claim or the contract holds
was deserved by the runs of some moment, and those are a prefix of all later ones. `NewestStands`
rests on `NonceInv`: a nonce is drawn
once, so claims are told apart by it and the one a wallet still holds was neither sent nor
used. `UsedClaimsRestoreNothing`
and `GateStaysOpen` follow from the actions and the types. `StatusShowsEarned` is about
what the status route shows: the tier is the passport's or the one the last runs earn,
either was earned, and as no rule above the computed tier is met, the requirement for the
next tier is never shown as fulfilled.

**Season reset** (`PlayerProofs`), for any wallets, divisions, shares, points, seasons,
closes and failed ticks. `RewardsBeforeNextSeason` and `MovesCarriedOut` rest on `SeasonInv`:
what the worker holds over its awaits fits the stage its season is in. Rows it still has to
move are unmoved, the wallet whose division it is about to write was not moved by this
season, promoted rows without a reward are among those it still has to do, and a later
season exists only behind a season that marked its rewards. A close that found no row
inserts one that nobody moved, and an existing row keeps its movement. `MovesCarriedOut`
adds `CarriedInv`: a row that has a movement belongs to a season that is frozen, the wallet
whose division is being written has the very movement that the worker holds, an unmoved
row of the season being moved is on the worker's list or came late, and a movement
without its division is that wallet's or was left by a broken tick.
`StandingsAreFinal` needs `DecideInv` too: while a season is frozen, with no tick broken
off and no credit late, the worker's plan, the ranks written so far and the movements written so far
are `PlanFor` of the season's rows. That plan depends only on divisions, points and times
(`PlanStays`), so the writes of ranks, movements and rewards do not change it, and a credit
that would puts the season into `late`. What the plan says is a matter of order:
`Outranks` is a strict total order, so ranks differ (`RanksDiffer`), somebody is first, the
first k are no more than k (`FewAreFirst`), and whoever goes up outranks whoever stays, within
the quota (`BestGoUp`). One assumption is about the code's table: `SomebodyGoesUp`, the
3 who go up from a small division are not 0.

**Sign-in** (`PlayerProofs`), for any accounts, pages, sessions, switches and restarts.
`SignInTypes` includes that a claim which waits has a flight to wait for, so an answer
always finds whom it belongs to; `ScopeIsKept`, that a claim is signed for the account it
was asked for, is inductive with it, because the claim carries its scope through the
flight and the route compares it with the session. `SocketAgrees`: the routes look at the
Bearer token before the cookie, the socket's handshake at the cookie before the token, and
both find the same wallet (`SocketIsTheSession`), because a stored token is always the
cookie's (`TokenIsTheCookie`).

Only model-checked: every liveness property, and `ExpiryIsPossible` (ENABLED).

## What the models refute

Statements of the repository that the code does not keep. Their definitions stay in the
modules; each is refuted by TLC when it is put in the cfg of the run named (with the
changes in brackets), and no passing run depends on it. The safety properties of the runs
hold all the same: none of these charges twice, scores an unpaid run, refunds a scored
one, or pays a stake that was not earned.

| Definition | Run | The repository says | The code does |
|---|---|---|---|
| `GameInMemoryIsOpen` | `TicketSession_races` | be07 line 96: a repeated start gets the same answer; `gameGateway.ts:532`: it "resolves through the replay path" | a repeat that meets the first start before its `createGameState` voids the session (`gameGateway.ts:464`), and the first start puts a voided session in memory |
| `CloseRemovesOwnGame` | `TicketSession_races` | be07 line 112: both ways of ending are idempotent per `sessionId` | `closeV2FromState` removes by wallet (`gameGateway.ts:661`): the second close removes the next game, whose row stays ACTIVE until the sweep |
| `SweepVoidsOnlyUnplayed` | `TicketSession_faults` | be07 lines 178-179: with progress, CRASHED at the last checkpoint | the sweep voids and refunds every orphan (`recoveryWorker.ts:33`; its comment argues no move is persisted) |
| `NoTicketStranded` | `TicketSession_faults` | be07 line 175: `VOIDED` and the ticket refunded | two calls (`ticketPlay.ts:298`); a crash or error between them is never retried |
| `AppliedExactlyOnce` | `TicketMirror` | `blockchainListener.ts:91`: "exactly once, forever"; `schema_v2.sql:331`: "missed-claim fix" | a restart between the dedupe row and the mirror's write loses the ticket: the replay is refused |
| `NothingIsSkipped` | `TicketMirror` | `blockchainListener.ts:421`: the cursor "must never skip past a range we failed to read, or those events are lost for good" | a failed read of the cursor counts as a first start (line 354), and a failed insert of the dedupe row as a log already seen (line 138): the cursor goes on past unclaimed logs |
| `DebitedIsLedger` | `TicketMirror` | `blockchainListener.ts:147`: debited "is relieved only by refunds" | read and write are two calls (`blockchainListener.ts:164`); a debit in between is overwritten |
| `PromotionQuota` | `SeasonReset` | `seasonService.ts:279`: guarded, "so it's safe to re-run after a crash" | the second run ranks the rows that are left as if they were the whole division, and promotes its quota again |
| `PromotedPlayHigher` | `SeasonReset` | `seasonService.ts:278`: "Apply promotion/relegation per division, update the `divisions` table" | the update finds no row, since nothing inserts one: who was promoted plays on as ROOKIE. A tick cut off between movement and division does the same to a wallet with a row |
| `ViewerIsListed` | `SeasonReset` | be08 lines 75-77: viewer is null only without parameter or row | the viewer is looked up in the division of `divisions`, the standings are by `season_points.division`: after the movements whoever has a row in `divisions` and moved is not found |
| `EveryFalseHashIsCleared` | `V1Settlement` | `recoveryWorker.ts:77`: a row whose session is still open is a dropped transaction, whose hash is cleared | only the 30 rows of all wallets that ended last are read (line 60): a row behind them is not looked at again |
| `FailedCashoutStaysPending` | `V1Settlement` | `gameGateway.ts:999`: a failed cash-out "will remain pending" | `game.ts:570` reads `wallet_address`, which its callers' queries do not select, so every pending settlement is marked `not-pending-onchain` |
| `ConsumedIntentIsReplaced` | `RunEngine` | be07 line 201: on SESSION_CONSUMED generate a new id, then start again | the bridge keeps the id (`GameBridgeClient.tsx:933`), so each START is refused until the page is loaded again |
| `RevocationLasts` | `Passport` | `update_v2.md` line 358: a revocation is permanent, and `unrevokePassport` is added for the owner to undo it; comment at `TrustPassport.sol:161` | `claimWithSignature` writes `revoked: false` (line 146): a signature from before the revocation, or a new one, lifts it |

Two more facts of the batches that no property states: a batch whose broadcast was
rejected or whose transaction was dropped stays tagged and is never settled
(`spendBatchExecutor.ts:369` leaves it to a recovery that only logs), which the two
executors can bring about by taking the same nonce; and a reward of 0 tickets stays PENDING
for ever (`rewardBatchExecutor.ts:147`).

## Not modelled

- Test tokens and their faucet, contract and route (one guard per function); the player and
  vault routes (queries and one insert); the deposit and withdrawal page (one transaction
  at a time, whose vault side is `GameVault`); the chain client, health and start-up;
  drawing, vehicles, pages and styles. A crash of the chicken may come at any time in
  the models, so collisions need no model.
- Of the contracts: UUPS upgrades, `setVault`, rotation of the ticket signer, prices and
  decimals, badges, milestones and season history of the passport, which the backend
  never writes.
- Of the backend: the watchers of the vault, of started sessions and of the faucet, which
  only record;
  the sweep's limit of 20 rows, which the query lists in no order, so that 20 rows whose
  game is in memory hide the others; the leaderboard's all-time boards and the tier they show,
  which is computed from at most 2000 cash-outs of up to 100 wallets in no order, is 0 for
  everybody when that query fails (`leaderboard.ts:66-76`), and need not be the passport's
  (`tiers.ts:5-7` says so); expiry of sessions by time; the speed-hack test and
  the decay of the multiplier by wall-clock, and the segment timer of V1.
- In the page: two presses of START RUN while the ticket balance is still being read. The
  button's guard is set only after that await (`script.js:6268-6320`), so a second
  `startBet` may ask for the same id; `PressStart` is one press.
- `GameVault.sol:199` lets a winning cash-out revert while the treasury is short. When the
  expiry delay is over anybody may close the session, and the winner gets nothing. The
  models say what the contracts do then; that a treasury is always filled is no property
  of the code.

## Plan

1. The mirror's two calls in `TicketBatches` in place of one step, and `SpendIsCovered` for
   as long as no debit falls between them.
2. The money of a V1 run: `V1Settlement` over `GameSettlement`, with the treasury.
3. The multiplier's decay and the segment timer at both ends of a run, and what each pays.
