----------------------------- MODULE GameVault -----------------------------
(***************************************************************************)
(* GameVault.sol: the contract that keeps the players' USDC, the stakes    *)
(* locked by a settlement contract and the treasury.                       *)
(*                                                                         *)
(* A transaction is one action; a revert leaves no trace, so every revert  *)
(* is a guard, Solidity's checked subtraction included.  The token is      *)
(* modelled by the vault's own balance: what the vault does not hold is    *)
(* spread over the other accounts, at most Supply in all.                  *)
(***************************************************************************)
EXTENDS Integers, FiniteSets, Functions

CONSTANTS
    Players,
    Settlements,   \* addresses the owner may name as the settlement contract
    NoAddress,     \* address(0)
    Supply         \* USDC in existence

ASSUME AddressesAreDistinct == NoAddress \notin Settlements
ASSUME SupplyIsNatural == Supply \in Nat
ASSUME PlayersAreFinite == IsFiniteSet(Players)

VARIABLES
    token,           \* usdc.balanceOf(vault)
    available,       \* availableBalances
    locked,          \* lockedBalances
    totalAvailable,  \* totalAvailableBalance
    totalLocked,     \* totalLockedBalance
    treasury,        \* treasuryBalance
    settlement,      \* the contract allowed to lock and settle
    vaultPaused

playerVars == <<available, locked>>
totalVars == <<totalAvailable, totalLocked, treasury>>
vaultVars == <<token, playerVars, totalVars, settlement, vaultPaused>>

VaultInit ==
    /\ token = 0
    /\ available = [p \in Players |-> 0]
    /\ locked = [p \in Players |-> 0]
    /\ totalAvailable = 0 /\ totalLocked = 0 /\ treasury = 0
    /\ settlement = NoAddress
    /\ vaultPaused = FALSE

----------------------------------------------------------------------------
Amounts == 1..Supply

TransferIn(amount) == amount <= Supply - token /\ token' = token + amount
TransferOut(amount) == amount <= token /\ token' = token - amount

Credit(p, amount) ==
    /\ available' = [available EXCEPT ![p] = @ + amount]
    /\ totalAvailable' = totalAvailable + amount

Debit(p, amount) ==
    /\ amount <= available[p] /\ amount <= totalAvailable
    /\ available' = [available EXCEPT ![p] = @ - amount]
    /\ totalAvailable' = totalAvailable - amount

Deposit(p, amount) ==
    /\ ~vaultPaused
    /\ TransferIn(amount)
    /\ Credit(p, amount)
    /\ UNCHANGED <<locked, totalLocked, treasury, settlement, vaultPaused>>

\* Not stopped by a pause.
Withdraw(p, amount) ==
    /\ Debit(p, amount)
    /\ TransferOut(amount)
    /\ UNCHANGED <<locked, totalLocked, treasury, settlement, vaultPaused>>

FundTreasury(amount) ==
    /\ ~vaultPaused
    /\ TransferIn(amount)
    /\ treasury' = treasury + amount
    /\ UNCHANGED <<playerVars, totalAvailable, totalLocked, settlement, vaultPaused>>

TreasuryWithdraw(amount) ==
    /\ amount <= treasury
    /\ treasury' = treasury - amount
    /\ TransferOut(amount)
    /\ UNCHANGED <<playerVars, totalAvailable, totalLocked, settlement, vaultPaused>>

\* Mutant: the treasury is not counted as reserved.
ReservedForPlayers == totalAvailable + totalLocked

Reserved == totalAvailable + totalLocked + treasury

\* Only what no account of the vault stands for can be rescued.
RescueToken(amount) ==
    /\ token > Reserved /\ amount <= token - Reserved
    /\ TransferOut(amount)
    /\ UNCHANGED <<playerVars, totalVars, settlement, vaultPaused>>

\* USDC sent to the vault's address by a plain ERC-20 transfer.
StrayTransfer(amount) ==
    /\ TransferIn(amount)
    /\ UNCHANGED <<playerVars, totalVars, settlement, vaultPaused>>

Pause ==
    /\ ~vaultPaused /\ vaultPaused' = TRUE
    /\ UNCHANGED <<token, playerVars, totalVars, settlement>>

Unpause ==
    /\ vaultPaused /\ vaultPaused' = FALSE
    /\ UNCHANGED <<token, playerVars, totalVars, settlement>>

SetSettlement(address) ==
    /\ settlement' = address
    /\ UNCHANGED <<token, playerVars, totalVars, vaultPaused>>

----------------------------------------------------------------------------
(* What the settlement contract calls.  Each takes the caller's address.   *)

OnlySettlement(caller) == settlement # NoAddress /\ caller = settlement

LockStake(caller, p, amount) ==
    /\ OnlySettlement(caller) /\ ~vaultPaused
    /\ amount # 0
    /\ Debit(p, amount)
    /\ locked' = [locked EXCEPT ![p] = @ + amount]
    /\ totalLocked' = totalLocked + amount
    /\ UNCHANGED <<token, treasury, settlement, vaultPaused>>

Unlock(p, stake) ==
    /\ stake <= locked[p] /\ stake <= totalLocked
    /\ locked' = [locked EXCEPT ![p] = @ - stake]
    /\ totalLocked' = totalLocked - stake

\* The treasury takes the rest of the stake, or adds what the stake lacks.
TreasuryCovers(stake, payout) ==
    /\ payout > stake => payout - stake <= treasury
    /\ treasury' = treasury + stake - payout

SettleCashout(caller, p, stake, payout) ==
    /\ OnlySettlement(caller) /\ ~vaultPaused
    /\ Unlock(p, stake)
    /\ TreasuryCovers(stake, payout)
    /\ Credit(p, payout)
    /\ UNCHANGED <<token, settlement, vaultPaused>>

SettleCrash(caller, p, stake) ==
    /\ OnlySettlement(caller) /\ ~vaultPaused
    /\ Unlock(p, stake)
    /\ treasury' = treasury + stake
    /\ UNCHANGED <<token, available, totalAvailable, settlement, vaultPaused>>

----------------------------------------------------------------------------
Account(p) == \E amount \in Amounts : Deposit(p, amount) \/ Withdraw(p, amount)

Anyone == \E amount \in Amounts : FundTreasury(amount) \/ StrayTransfer(amount)

Owner ==
    \/ \E amount \in Amounts : TreasuryWithdraw(amount) \/ RescueToken(amount)
    \/ Pause \/ Unpause
    \/ \E address \in Settlements : SetSettlement(address)

Settle(caller, p) ==
    \/ \E amount \in Amounts : LockStake(caller, p, amount)
    \/ \E stake, payout \in 0..Supply : SettleCashout(caller, p, stake, payout)
    \/ \E stake \in 0..Supply : SettleCrash(caller, p, stake)

\* The vault on its own: a settlement contract that may ask for anything.
VaultNext ==
    \/ \E p \in Players : Account(p)
    \/ Anyone \/ Owner
    \/ \E caller \in Settlements, p \in Players : Settle(caller, p)

VaultSpec == VaultInit /\ [][VaultNext]_vaultVars

----------------------------------------------------------------------------
(* Properties                                                              *)

VaultTypeOK ==
    /\ token \in 0..Supply
    /\ available \in [Players -> Nat] /\ locked \in [Players -> Nat]
    /\ totalAvailable \in Nat /\ totalLocked \in Nat /\ treasury \in Nat
    /\ settlement \in Settlements \cup {NoAddress}
    /\ vaultPaused \in BOOLEAN

\* Whatever a settlement contract asks for and the owner rescues, the vault holds
\* the USDC for every balance, every locked stake and the treasury.
Solvent == token >= totalAvailable + totalLocked + treasury

\* The totals are the sums of the accounts, so the owner's rescue counts every
\* player and no checked subtraction of a total can block a player's withdrawal.
TotalsAgree ==
    /\ totalAvailable = SumFunction(available)
    /\ totalLocked = SumFunction(locked)
============================================================================
