-------------------------- MODULE StakedGameProofs --------------------------
(***************************************************************************)
(* The staked game.  First the contracts, for every set of players,         *)
(* sessions, signatures and clock readings: the vault's accounting under   *)
(* any settlement contract, then the two together.  Then the flow around   *)
(* them, for any number of on-chain sessions, rows, concurrent handlers    *)
(* and faults.                                                             *)
(***************************************************************************)
EXTENDS GameSettlement, V1Settlement, SumTheorems, TLAPS

VaultInv == VaultTypeOK /\ Solvent

LEMMA DepositKeeps ==
    ASSUME VaultInv, NEW p \in Players, NEW amount \in Nat, Deposit(p, amount)
    PROVE  VaultInv'
BY SupplyIsNatural DEF VaultInv, VaultTypeOK, Solvent, Deposit, TransferIn, Credit

LEMMA WithdrawKeeps ==
    ASSUME VaultInv, NEW p \in Players, NEW amount \in Nat, Withdraw(p, amount)
    PROVE  VaultInv'
BY SupplyIsNatural DEF VaultInv, VaultTypeOK, Solvent, Withdraw, TransferOut, Debit

LEMMA TreasuryKeeps ==
    ASSUME VaultInv, NEW amount \in Nat,
           \/ FundTreasury(amount) \/ StrayTransfer(amount)
           \/ TreasuryWithdraw(amount) \/ RescueToken(amount)
    PROVE  VaultInv'
BY SupplyIsNatural DEF VaultInv, VaultTypeOK, Solvent, FundTreasury, StrayTransfer, TreasuryWithdraw,
     RescueToken, Reserved, TransferIn, TransferOut, playerVars, totalVars

LEMMA SwitchKeeps ==
    ASSUME VaultInv, Pause \/ Unpause \/ \E address \in Settlements : SetSettlement(address)
    PROVE  VaultInv'
BY DEF VaultInv, VaultTypeOK, Solvent, Pause, Unpause, SetSettlement, playerVars, totalVars

LEMMA LockKeeps ==
    ASSUME VaultInv, NEW caller, NEW p \in Players, NEW amount \in Nat, LockStake(caller, p, amount)
    PROVE  VaultInv'
BY SupplyIsNatural DEF VaultInv, VaultTypeOK, Solvent, LockStake, Debit

LEMMA SettleCashoutKeeps ==
    ASSUME VaultInv, NEW caller, NEW p \in Players, NEW stake \in Nat, NEW payout \in Nat,
           SettleCashout(caller, p, stake, payout)
    PROVE  VaultInv'
<1>1. locked' \in [Players -> Nat] /\ totalLocked' \in Nat /\ totalLocked' = totalLocked - stake
  BY DEF VaultInv, VaultTypeOK, SettleCashout, Unlock
<1>2. treasury' \in Nat /\ treasury' = treasury + stake - payout
  BY DEF VaultInv, VaultTypeOK, SettleCashout, TreasuryCovers
<1>3. /\ available' \in [Players -> Nat]
      /\ totalAvailable' \in Nat /\ totalAvailable' = totalAvailable + payout
  BY DEF VaultInv, VaultTypeOK, SettleCashout, Credit
<1> QED BY <1>1, <1>2, <1>3 DEF VaultInv, VaultTypeOK, Solvent, SettleCashout

LEMMA SettleCrashKeeps ==
    ASSUME VaultInv, NEW caller, NEW p \in Players, NEW stake \in Nat, SettleCrash(caller, p, stake)
    PROVE  VaultInv'
BY DEF VaultInv, VaultTypeOK, Solvent, SettleCrash, Unlock

LEMMA VaultStep == VaultInv /\ [VaultNext]_vaultVars => VaultInv'
<1> SUFFICES ASSUME VaultInv, [VaultNext]_vaultVars PROVE VaultInv'
    OBVIOUS
<1>a. Amounts \subseteq Nat /\ 0..Supply \subseteq Nat
  BY SupplyIsNatural DEF Amounts
<1>1. ASSUME NEW p \in Players, Account(p) PROVE VaultInv'
  BY <1>1, <1>a, DepositKeeps, WithdrawKeeps DEF Account
<1>2. CASE Anyone
  BY <1>2, <1>a, TreasuryKeeps DEF Anyone
<1>3. CASE Owner
  BY <1>3, <1>a, TreasuryKeeps, SwitchKeeps DEF Owner
<1>4. ASSUME NEW caller \in Settlements, NEW p \in Players, Settle(caller, p) PROVE VaultInv'
  BY <1>4, <1>a, LockKeeps, SettleCashoutKeeps, SettleCrashKeeps DEF Settle
<1>5. CASE UNCHANGED vaultVars
  BY <1>5 DEF VaultInv, VaultTypeOK, Solvent, vaultVars, playerVars, totalVars
<1> QED BY <1>1, <1>2, <1>3, <1>4, <1>5 DEF VaultNext

LEMMA VaultInitInv == VaultInit => VaultInv
<1> SUFFICES ASSUME VaultInit PROVE VaultInv
    OBVIOUS
<1>1. available \in [Players -> Nat] /\ locked \in [Players -> Nat]
  BY DEF VaultInit
<1>2. token \in 0..Supply /\ Solvent
  BY SupplyIsNatural DEF VaultInit, Solvent
<1> QED BY <1>1, <1>2 DEF VaultInit, VaultInv, VaultTypeOK

(***************************************************************************)
(* No sequence of deposits, withdrawals, settlements, rescues and owner's  *)
(* switches leaves the vault owing more USDC than it holds.                *)
(***************************************************************************)
THEOREM VaultIsSolvent == VaultSpec => []Solvent
<1>1. VaultInv => Solvent
  BY DEF VaultInv
<1> QED BY <1>1, VaultInitInv, VaultStep, PTL DEF VaultSpec

----------------------------------------------------------------------------
(* The totals are the sums of the accounts.                                *)

LEMMA SumFunctionIsSum == ASSUME NEW f PROVE SumFunction(f) = Sum(f, DOMAIN f)
BY Zenon DEF SumFunction, SumFunctionOnSet, FoldFunctionOnSet, MapThenFoldSet, Sum, MapThenSumSet

\* One account changes; a is negative for a debit.
LEMMA SumMoves ==
    ASSUME NEW f, NEW g, f \in [Players -> Nat], g \in [Players -> Nat],
           NEW p \in Players, NEW a \in Int,
           g[p] = f[p] + a, \A q \in Players \ {p} : f[q] = g[q]
    PROVE  SumFunction(g) = SumFunction(f) + a
<1>1. \A x \in Players : f[x] \in Nat /\ g[x] \in Nat
  OBVIOUS
<1>2. /\ Sum(f, Players) = f[p] + Sum(f, Players \ {p})
      /\ Sum(g, Players) = g[p] + Sum(f, Players \ {p})
      /\ Sum(f, Players \ {p}) \in Nat
  BY <1>1, SumOfChange, PlayersAreFinite
<1>3. SumFunction(f) = Sum(f, Players) /\ SumFunction(g) = Sum(g, Players)
  BY SumFunctionIsSum
<1> QED BY <1>1, <1>2, <1>3

LEMMA AccountIsPart ==
    ASSUME NEW f \in [Players -> Nat], NEW p \in Players
    PROVE  f[p] <= SumFunction(f)
<1>1. Sum(f, Players) = f[p] + Sum(f, Players \ {p}) /\ Sum(f, Players \ {p}) \in Nat
  BY SumOfChange, PlayersAreFinite
<1>2. SumFunction(f) = Sum(f, Players) /\ f[p] \in Nat
  BY SumFunctionIsSum
<1> QED BY <1>1, <1>2

LEMMA SumOfNothing == SumFunction([p \in Players |-> 0]) = 0
<1> DEFINE f == [p \in Players |-> 0]
<1>1. SumFunction(f) = Sum(f, Players)
  BY SumFunctionIsSum
<1>2. \A S \in SUBSET Players : Sum(f, S) = 0
  <2> DEFINE Bad == {s \in SUBSET Players : Sum(f, s) # 0}
  <2> SUFFICES ASSUME Bad # {} PROVE FALSE
    OBVIOUS
  <2>1. PICK s \in Bad : \A t \in Bad : Cardinality(s) <= Cardinality(t)
    BY PlayersAreFinite, SmallestExists
  <2>2. s # {} /\ IsFiniteSet(s) /\ s \in SUBSET Players /\ Sum(f, s) # 0
    BY SumEmpty, PlayersAreFinite, FS_Subset
  <2>3. /\ First(s) \in s /\ Rest(s) \in SUBSET s
        /\ Cardinality(s) \in Nat /\ Cardinality(Rest(s)) = Cardinality(s) - 1
    BY <2>2, RestIsSmaller
  <2>4. Sum(f, s) = f[First(s)] + Sum(f, Rest(s)) /\ f[First(s)] = 0
    BY <2>2, <2>3, SumFirst
  <2>5. Sum(f, Rest(s)) = 0
    BY <2>1, <2>2, <2>3
  <2> HIDE DEF f, Bad
  <2> QED BY <2>2, <2>4, <2>5
<1> QED BY <1>1, <1>2

TotalsInv == VaultInv /\ TotalsAgree

LEMMA CreditAgrees ==
    ASSUME TotalsInv, VaultInv', NEW p \in Players, NEW amount \in Nat,
           Credit(p, amount) \/ Debit(p, amount)
    PROVE  totalAvailable' = SumFunction(available')
<1>1. available \in [Players -> Nat] /\ available' \in [Players -> Nat]
      /\ totalAvailable = SumFunction(available)
  BY DEF TotalsInv, TotalsAgree, VaultInv, VaultTypeOK
<1>2. available[p] \in Nat /\ totalAvailable \in Nat /\ amount \in Int /\ -amount \in Int
  BY DEF TotalsInv, VaultInv, VaultTypeOK
<1>3. \A q \in Players \ {p} : available[q] = available'[q]
  BY <1>1 DEF Credit, Debit
<1>4. CASE Credit(p, amount)
  <2>1. available'[p] = available[p] + amount /\ totalAvailable' = totalAvailable + amount
    BY <1>1, <1>4 DEF Credit
  <2> QED BY <1>1, <1>2, <1>3, <2>1, SumMoves
<1>5. CASE Debit(p, amount)
  <2>1. available'[p] = available[p] + -amount /\ totalAvailable' = totalAvailable + -amount
    BY <1>1, <1>2, <1>5 DEF Debit
  <2> QED BY <1>1, <1>2, <1>3, <2>1, SumMoves
<1> QED BY <1>4, <1>5

LEMMA UnlockAgrees ==
    ASSUME TotalsInv, VaultInv', NEW p \in Players, NEW stake \in Nat, Unlock(p, stake)
    PROVE  totalLocked' = SumFunction(locked')
<1>1. locked \in [Players -> Nat] /\ locked' \in [Players -> Nat]
      /\ totalLocked = SumFunction(locked)
  BY DEF TotalsInv, TotalsAgree, VaultInv, VaultTypeOK
<1>2. locked[p] \in Nat /\ totalLocked \in Nat /\ -stake \in Int
  BY DEF TotalsInv, VaultInv, VaultTypeOK
<1>3. /\ locked'[p] = locked[p] + -stake /\ totalLocked' = totalLocked + -stake
      /\ \A q \in Players \ {p} : locked[q] = locked'[q]
  BY <1>1, <1>2 DEF Unlock
<1> QED BY <1>1, <1>2, <1>3, SumMoves

LEMMA SettleAgrees ==
    ASSUME TotalsInv, VaultInv', NEW caller, NEW p \in Players,
           \/ \E amount \in Nat : LockStake(caller, p, amount)
           \/ \E stake, payout \in Nat : SettleCashout(caller, p, stake, payout)
           \/ \E stake \in Nat : SettleCrash(caller, p, stake)
    PROVE  TotalsAgree'
<1>1. CASE \E amount \in Nat : LockStake(caller, p, amount)
  <2>1. PICK amount \in Nat : LockStake(caller, p, amount)
    BY <1>1
  <2>2. totalAvailable' = SumFunction(available')
    BY <2>1, CreditAgrees DEF LockStake
  <2>3. locked \in [Players -> Nat] /\ locked' \in [Players -> Nat]
        /\ totalLocked = SumFunction(locked)
    BY DEF TotalsInv, TotalsAgree, VaultInv, VaultTypeOK
  <2>4. /\ locked'[p] = locked[p] + amount /\ totalLocked' = totalLocked + amount
        /\ \A q \in Players \ {p} : locked[q] = locked'[q]
    BY <2>1, <2>3 DEF LockStake
  <2>5. totalLocked' = SumFunction(locked')
    BY <2>3, <2>4, SumMoves
  <2> QED BY <2>2, <2>5 DEF TotalsAgree
<1>2. CASE \E stake, payout \in Nat : SettleCashout(caller, p, stake, payout)
  BY <1>2, CreditAgrees, UnlockAgrees DEF SettleCashout, TotalsAgree
<1>3. CASE \E stake \in Nat : SettleCrash(caller, p, stake)
  BY <1>3, UnlockAgrees DEF SettleCrash, TotalsInv, TotalsAgree
<1> QED BY <1>1, <1>2, <1>3

\* Deposits and withdrawals change one account; no switch or transfer does.
LEMMA OutsideAgrees ==
    ASSUME TotalsInv, VaultInv', (\E p \in Players : Account(p)) \/ Anyone \/ Owner
    PROVE  TotalsAgree'
<1>1. ASSUME NEW p \in Players, NEW amount \in Amounts, Deposit(p, amount) \/ Withdraw(p, amount)
      PROVE  TotalsAgree'
  <2>1. amount \in Nat
    BY SupplyIsNatural DEF Amounts
  <2>2. totalAvailable' = SumFunction(available')
    BY <1>1, <2>1, CreditAgrees DEF Deposit, Withdraw
  <2> QED BY <1>1, <2>2 DEF Deposit, Withdraw, TotalsInv, TotalsAgree
<1>2. CASE Anyone \/ Owner
  <2>1. UNCHANGED <<available, locked, totalAvailable, totalLocked>>
    BY <1>2 DEF Anyone, Owner, FundTreasury, StrayTransfer, TreasuryWithdraw, RescueToken, Pause,
       Unpause, SetSettlement, playerVars, totalVars
  <2> QED BY <2>1 DEF TotalsInv, TotalsAgree
<1> QED BY <1>1, <1>2 DEF Account

LEMMA TotalsInit == VaultInit => TotalsAgree
BY SumOfNothing DEF VaultInit, TotalsAgree

LEMMA TotalsStep == TotalsInv /\ [VaultNext]_vaultVars => TotalsInv'
<1> SUFFICES ASSUME TotalsInv, [VaultNext]_vaultVars PROVE TotalsInv'
  OBVIOUS
<1>1. VaultInv'
  BY VaultStep DEF TotalsInv
<1>2. Amounts \subseteq Nat /\ 0..Supply \subseteq Nat
  BY SupplyIsNatural DEF Amounts
<1>3. ASSUME NEW caller \in Settlements, NEW p \in Players, Settle(caller, p) PROVE TotalsAgree'
  BY <1>1, <1>2, <1>3, SettleAgrees DEF Settle
<1>4. CASE UNCHANGED vaultVars
  <2>1. UNCHANGED <<available, locked, totalAvailable, totalLocked>>
    BY <1>4 DEF vaultVars, playerVars, totalVars
  <2> QED BY <1>1, <2>1 DEF TotalsInv, TotalsAgree
<1>5. CASE VaultNext
  BY <1>1, <1>3, <1>5, OutsideAgrees DEF VaultNext, TotalsInv
<1> QED BY <1>4, <1>5

(***************************************************************************)
(* Whatever a settlement contract asks for, the totals are the sums over   *)
(* all players' accounts.                                                  *)
(***************************************************************************)
THEOREM TotalsAreSums == VaultSpec => []TotalsAgree
<1>1. VaultInit => TotalsInv
  BY VaultInitInv, TotalsInit DEF TotalsInv
<1>2. TotalsInv => TotalsAgree
  BY DEF TotalsInv
<1> QED BY <1>1, <1>2, TotalsStep, PTL DEF VaultSpec

(***************************************************************************)
(* What the contract says a player has, free or locked, it holds in USDC,  *)
(* and no checked subtraction from a total stands in the way of it.        *)
(***************************************************************************)
THEOREM EveryBalanceIsBacked ==
    VaultSpec => [](\A p \in Players : /\ available[p] <= totalAvailable /\ locked[p] <= totalLocked
                                       /\ available[p] + locked[p] <= token)
<1>1. TotalsInv => \A p \in Players : /\ available[p] <= totalAvailable /\ locked[p] <= totalLocked
                                      /\ available[p] + locked[p] <= token
  <2> SUFFICES ASSUME TotalsInv, NEW p \in Players
               PROVE  /\ available[p] <= totalAvailable /\ locked[p] <= totalLocked
                      /\ available[p] + locked[p] <= token
    OBVIOUS
  <2>1. available[p] <= totalAvailable /\ locked[p] <= totalLocked
    BY AccountIsPart DEF TotalsInv, TotalsAgree, VaultInv, VaultTypeOK
  <2> QED BY <2>1 DEF TotalsInv, VaultInv, VaultTypeOK, Solvent
<1>2. VaultInit => TotalsInv
  BY VaultInitInv, TotalsInit DEF TotalsInv
<1> QED BY <1>1, <1>2, TotalsStep, PTL DEF VaultSpec

----------------------------------------------------------------------------
(* The two contracts composed.                                             *)

SettlementInv == VaultInv /\ SettlementTypeOK /\ ActiveIsRegistered /\ StakeIsLocked

LEMMA PayoutIsNatural == ASSUME NEW m \in Multipliers \cup {0} PROVE PayoutOf(m) \in Nat
BY AmountsAreNatural DEF PayoutOf

\* A session that starts takes a free slot and locks one stake behind it.
LEMMA StartSessionKeeps ==
    ASSUME SettlementInv, NEW p \in Players, NEW s \in SessionIds, StartSession(p, s)
    PROVE  SettlementInv'
<1> USE IdsAreDistinct, AmountsAreNatural
<1>1. VaultInv'
  BY LockKeeps DEF StartSession, SettlementInv
<1>2. /\ session' = [session EXCEPT ![s] =
             [player |-> p, startedAt |-> now, active |-> TRUE, settled |-> FALSE]]
      /\ activeSessionOf' = [activeSessionOf EXCEPT ![p] = s]
      /\ locked' = [locked EXCEPT ![p] = @ + FixedStake]
      /\ ~Exists(s) /\ NoActiveSession(p)
      /\ UNCHANGED <<backendSigner, expiryDelay, paused, now, signed>>
  BY DEF StartSession, LockStake, configVars
<1>3. SettlementTypeOK'
  <2>1. [player |-> p, startedAt |-> now, active |-> TRUE, settled |-> FALSE] \in Session
    BY DEF SettlementInv, SettlementTypeOK, Session
  <2> QED BY <1>2, <2>1 DEF SettlementInv, SettlementTypeOK
<1>4. activeSessionOf[p] = NoId
  BY <1>2 DEF SettlementInv, SettlementTypeOK, ActiveIsRegistered, NoActiveSession
<1>5. \A r \in SessionIds : session[r].active => session[r].player # p
  BY <1>4 DEF SettlementInv, ActiveIsRegistered, SettlementTypeOK
<1>6. ActiveIsRegistered'
  BY <1>2, <1>4, <1>5 DEF SettlementInv, SettlementTypeOK, ActiveIsRegistered, Exists, Session
<1>7. StakeIsLocked'
  BY <1>2, <1>4 DEF SettlementInv, SettlementTypeOK, StakeIsLocked, VaultInv, VaultTypeOK
<1> QED BY <1>1, <1>3, <1>6, <1>7 DEF SettlementInv

\* Closing a session frees its player's slot with the stake that was behind it.
LEMMA CloseKeeps ==
    ASSUME SettlementInv, VaultInv', NEW s \in SessionIds, Open(s),
           CloseSession(s, session[s].player),
           locked' = [locked EXCEPT ![session[s].player] = @ - FixedStake],
           UNCHANGED <<backendSigner, expiryDelay, paused, now, signed>>
    PROVE  SettlementInv'
<1> USE IdsAreDistinct, AmountsAreNatural
<1> DEFINE p == session[s].player
<1>1. p \in Players /\ activeSessionOf[p] = s
  BY DEF SettlementInv, SettlementTypeOK, ActiveIsRegistered, Open, Exists, Session
<1>2. SettlementTypeOK'
  BY <1>1 DEF SettlementInv, SettlementTypeOK, CloseSession, Session
<1>3. ActiveIsRegistered'
  BY <1>1 DEF SettlementInv, SettlementTypeOK, ActiveIsRegistered, CloseSession, Exists, Session
<1>4. StakeIsLocked'
  BY <1>1 DEF SettlementInv, SettlementTypeOK, StakeIsLocked, CloseSession, VaultInv, VaultTypeOK
<1> QED BY <1>2, <1>3, <1>4 DEF SettlementInv

LEMMA SettleWithSignatureKeeps ==
    ASSUME SettlementInv, NEW r \in signed, SettleWithSignature(r)
    PROVE  SettlementInv'
<1> USE AmountsAreNatural
<1>1. /\ r.id \in SessionIds /\ r.stake = FixedStake /\ r.payout \in Nat
  BY PayoutIsNatural DEF SettlementInv, SettlementTypeOK, Resolution
<1>2. Open(r.id) /\ r.player = session[r.id].player /\ CloseSession(r.id, r.player)
  BY DEF SettleWithSignature, Matches
<1>3. r.player \in Players
  BY <1>1, <1>2 DEF SettlementInv, SettlementTypeOK, Open, Exists, Session
<1>4. /\ VaultInv' /\ locked' = [locked EXCEPT ![r.player] = @ - FixedStake]
  <2>1. CASE SettleCashout(This, r.player, r.stake, r.payout)
    BY <1>1, <1>3, <2>1, SettleCashoutKeeps DEF SettlementInv, SettleCashout, Unlock
  <2>2. CASE SettleCrash(This, r.player, r.stake)
    BY <1>1, <1>3, <2>2, SettleCrashKeeps DEF SettlementInv, SettleCrash, Unlock
  <2> QED BY <2>1, <2>2 DEF SettleWithSignature
<1> QED BY <1>1, <1>2, <1>4, CloseKeeps DEF SettleWithSignature, configVars

LEMMA ExpireSessionKeeps ==
    ASSUME SettlementInv, NEW s \in SessionIds, ExpireSession(s)
    PROVE  SettlementInv'
<1> USE AmountsAreNatural
<1>1. session[s].player \in Players
  BY DEF SettlementInv, SettlementTypeOK, ExpireSession, Open, Exists, Session
<1>2. VaultInv' /\ locked' = [locked EXCEPT ![session[s].player] = @ - FixedStake]
  BY <1>1, SettleCrashKeeps DEF SettlementInv, ExpireSession, SettleCrash, Unlock
<1> QED BY <1>2, CloseKeeps DEF ExpireSession, configVars

LEMMA SignSettlementKeeps ==
    ASSUME SettlementInv, NEW s \in SessionIds, NEW key \in Signers, SignSettlement(s, key)
    PROVE  SettlementInv'
<1>1. PICK outcome \in SignedOutcomes, m \in Multipliers :
         LET bp == IF outcome = "CASHED_OUT" THEN m ELSE 0 IN
         signed' = signed \cup
            {[id |-> s, player |-> session[s].player, stake |-> FixedStake,
              payout |-> PayoutOf(bp), multiplier |-> bp, outcome |-> outcome,
              deadline |-> now + Ttl, key |-> key]}
  BY DEF SignSettlement
<1> DEFINE bp == IF outcome = "CASHED_OUT" THEN m ELSE 0
<1>2. bp \in Multipliers \cup {0}
  OBVIOUS
<1>3. now + Ttl \in 0..(MaxTime + Ttl) /\ session[s].player \in Players \cup {NoPlayer}
  BY AmountsAreNatural DEF SettlementInv, SettlementTypeOK, Session
<1> HIDE DEF bp
<1>4. [id |-> s, player |-> session[s].player, stake |-> FixedStake,
       payout |-> PayoutOf(bp), multiplier |-> bp, outcome |-> outcome,
       deadline |-> now + Ttl, key |-> key] \in Resolution
  BY <1>2, <1>3 DEF Resolution
<1>5. signed' \subseteq Resolution
  BY <1>1, <1>4 DEF bp, SettlementInv, SettlementTypeOK
<1> QED BY <1>5 DEF SignSettlement, SettlementInv, SettlementTypeOK, VaultInv, VaultTypeOK, Solvent,
             ActiveIsRegistered, StakeIsLocked, Exists, vaultVars, playerVars, totalVars, sessionVars,
             configVars

\* Money moved by players, funders and the owner leaves the locks alone.
LEMMA VaultOnlyKeeps == ASSUME SettlementInv, VaultOnly PROVE SettlementInv'
<1>1. VaultInv'
  BY VaultStep DEF VaultOnly, VaultNext, SettlementInv
<1>2. locked' = locked
  BY DEF VaultOnly, Account, Anyone, Owner, Deposit, Withdraw, FundTreasury, StrayTransfer,
         TreasuryWithdraw, RescueToken, Pause, Unpause, SetSettlement, playerVars
<1> QED BY <1>1, <1>2 DEF VaultOnly, SettlementInv, SettlementTypeOK, ActiveIsRegistered, StakeIsLocked,
           Exists, settlementVars, sessionVars, configVars

LEMMA SettlementStep == SettlementInv /\ [SettlementNext]_contractVars => SettlementInv'
<1> SUFFICES ASSUME SettlementInv, [SettlementNext]_contractVars PROVE SettlementInv'
    OBVIOUS
<1>1. ASSUME UNCHANGED <<vaultVars, sessionVars, signed>>,
             backendSigner' \in Signers, expiryDelay' \in Delays, paused' \in BOOLEAN,
             now' \in 0..MaxTime
      PROVE  SettlementInv'
  BY <1>1 DEF SettlementInv, SettlementTypeOK, VaultInv, VaultTypeOK, Solvent, ActiveIsRegistered,
       StakeIsLocked, Exists, vaultVars, playerVars, totalVars, sessionVars
<1>2. CASE \/ \E key \in Signers : SetBackendSigner(key)
           \/ \E delay \in Delays : SetSessionExpiryDelay(delay)
           \/ PauseSettlement \/ UnpauseSettlement \/ UNCHANGED contractVars
  BY <1>1, <1>2 DEF SetBackendSigner, SetSessionExpiryDelay, PauseSettlement, UnpauseSettlement,
       SettlementInv, SettlementTypeOK, contractVars, settlementVars, configVars
<1>3. CASE Tick
  <2>1. now' \in 0..MaxTime
    BY <1>3, AmountsAreNatural DEF Tick, SettlementInv, SettlementTypeOK
  <2> QED BY <1>1, <1>3, <2>1 DEF Tick, SettlementInv, SettlementTypeOK, configVars
<1> QED BY <1>2, <1>3, VaultOnlyKeeps, StartSessionKeeps, SettleWithSignatureKeeps, ExpireSessionKeeps, SignSettlementKeeps DEF SettlementNext

LEMMA SettlementInitInv == SettlementInit => SettlementInv
<1> SUFFICES ASSUME SettlementInit PROVE SettlementInv
    OBVIOUS
<1>1. VaultInv
  BY VaultInitInv DEF SettlementInit
<1>2. NoSession \in Session
  BY AmountsAreNatural DEF NoSession, Session
<1>3. SettlementTypeOK
  <2>1. session \in [SessionIds -> Session] /\ activeSessionOf \in [Players -> SessionIds \cup {NoId}]
    BY <1>2 DEF SettlementInit
  <2>2. now \in 0..MaxTime
    BY AmountsAreNatural DEF SettlementInit
  <2> QED BY <2>1, <2>2 DEF SettlementInit, SettlementTypeOK
<1>4. ActiveIsRegistered /\ StakeIsLocked
  BY DEF SettlementInit, VaultInit, ActiveIsRegistered, StakeIsLocked, NoSession
<1> QED BY <1>1, <1>3, <1>4 DEF SettlementInv

LEMMA SettlementInvariant == SettlementSpec => []SettlementInv
BY SettlementInitInv, SettlementStep, PTL DEF SettlementSpec

(***************************************************************************)
(* Amounts, balances, sessions and signatures keep their types; no checked *)
(* subtraction ever makes a total negative.                                *)
(***************************************************************************)
THEOREM TypeCorrect == SettlementSpec => [](VaultTypeOK /\ SettlementTypeOK)
<1>1. SettlementInv => VaultTypeOK /\ SettlementTypeOK
  BY DEF SettlementInv, VaultInv
<1> QED BY <1>1, SettlementInvariant, PTL

(***************************************************************************)
(* A session that is active is the one its player's slot names.            *)
(***************************************************************************)
THEOREM ActiveSessionIsRegistered == SettlementSpec => []ActiveIsRegistered
<1>1. SettlementInv => ActiveIsRegistered
  BY DEF SettlementInv
<1> QED BY <1>1, SettlementInvariant, PTL

(***************************************************************************)
(* The vault's locks and the settlement's sessions never come apart: one   *)
(* stake for each player with an active session, none for the others.      *)
(***************************************************************************)
THEOREM OneStakePerActiveSession == SettlementSpec => []StakeIsLocked
<1>1. SettlementInv => StakeIsLocked
  BY DEF SettlementInv
<1> QED BY <1>1, SettlementInvariant, PTL

(***************************************************************************)
(* Under this settlement contract, too, the vault covers what it owes.     *)
(***************************************************************************)
THEOREM StaysSolvent == SettlementSpec => []Solvent
<1>1. SettlementInv => Solvent
  BY DEF SettlementInv, VaultInv
<1> QED BY <1>1, SettlementInvariant, PTL
\* Only settling or expiring his active session takes a stake from a player's lock.
LEMMA CloseStep ==
    ASSUME SettlementInv, NEW s \in SessionIds, Open(s), CloseSession(s, session[s].player),
           locked' = [locked EXCEPT ![session[s].player] = @ - FixedStake],
           NEW p \in Players, locked'[p] < locked[p]
    PROVE  /\ session[s].player = p /\ session[s].active
           /\ session'[s].settled /\ activeSessionOf[p] = s
<1>1. session[s].player = p
  BY DEF SettlementInv, VaultInv, VaultTypeOK
<1> QED BY <1>1 DEF SettlementInv, SettlementTypeOK, ActiveIsRegistered, Open, CloseSession, Session

(***************************************************************************)
(* However many resolutions were signed for a session and however often    *)
(* they are submitted, its stake is released once, with the session.       *)
(***************************************************************************)
THEOREM StakeReleasedOnce == SettlementSpec => OneClosePerStake
<1>1. ASSUME SettlementInv, [SettlementNext]_contractVars, NEW p \in Players, locked'[p] < locked[p]
      PROVE  \E s \in SessionIds : /\ session[s].player = p /\ session[s].active
                                   /\ session'[s].settled /\ activeSessionOf[p] = s
  <2>a. locked \in [Players -> Nat] /\ locked' # locked
    BY <1>1 DEF SettlementInv, VaultInv, VaultTypeOK
  <2>1. ASSUME NEW q \in Players, NEW s \in SessionIds, StartSession(q, s) PROVE FALSE
    BY <1>1, <2>a, <2>1, AmountsAreNatural DEF StartSession, LockStake
  <2>2. ASSUME NEW r \in signed, SettleWithSignature(r)
        PROVE  \E s \in SessionIds : /\ session[s].player = p /\ session[s].active
                                     /\ session'[s].settled /\ activeSessionOf[p] = s
    <3>1. r.id \in SessionIds /\ r.stake = FixedStake
      BY <1>1 DEF SettlementInv, SettlementTypeOK, Resolution
    <3>2. /\ Open(r.id) /\ CloseSession(r.id, session[r.id].player)
          /\ locked' = [locked EXCEPT ![session[r.id].player] = @ - FixedStake]
      BY <2>2, <3>1 DEF SettleWithSignature, Matches, SettleCashout, SettleCrash, Unlock
    <3> QED BY <1>1, <3>1, <3>2, CloseStep
  <2>3. ASSUME NEW s \in SessionIds, ExpireSession(s)
        PROVE  /\ session[s].player = p /\ session[s].active
               /\ session'[s].settled /\ activeSessionOf[p] = s
    BY <1>1, <2>3, CloseStep DEF ExpireSession, SettleCrash, Unlock
  <2>4. CASE VaultOnly
    BY <2>4, <2>a DEF VaultOnly, Account, Anyone, Owner, Deposit, Withdraw, FundTreasury,
         StrayTransfer, TreasuryWithdraw, RescueToken, Pause, Unpause, SetSettlement, playerVars
  <2>5. CASE \/ \E key \in Signers : SetBackendSigner(key)
             \/ \E delay \in Delays : SetSessionExpiryDelay(delay)
             \/ PauseSettlement \/ UnpauseSettlement \/ Tick \/ UNCHANGED contractVars
             \/ \E s \in SessionIds, key \in Signers : SignSettlement(s, key)
    BY <2>5, <2>a DEF SetBackendSigner, SetSessionExpiryDelay, PauseSettlement, UnpauseSettlement,
         Tick, SignSettlement, contractVars, vaultVars, playerVars
  <2> QED BY <1>1, <2>1, <2>2, <2>3, <2>4, <2>5 DEF SettlementNext
<1>2. SettlementInv /\ [SettlementNext]_contractVars =>
          [\A p \in Players : locked'[p] < locked[p] =>
              \E s \in SessionIds : /\ session[s].player = p /\ session[s].active
                                    /\ session'[s].settled /\ activeSessionOf[p] = s]_contractVars
  BY <1>1
<1> QED BY <1>2, SettlementInvariant, PTL DEF SettlementSpec, OneClosePerStake

----------------------------------------------------------------------------
(* This settlement contract is one of those the vault's theorems speak of. *)

LEMMA StartIsLock ==
    ASSUME SettlementInv, NEW p \in Players, NEW s \in SessionIds, StartSession(p, s)
    PROVE  Settle(This, p)
<1>1. LockStake(This, p, FixedStake)
  BY DEF StartSession
<1>2. FixedStake \in Amounts
  BY <1>1, AmountsAreNatural, SupplyIsNatural
     DEF LockStake, Debit, Amounts, SettlementInv, VaultInv, VaultTypeOK, Solvent
<1> QED BY <1>1, <1>2 DEF Settle

\* What is settled fits what is locked, what is paid fits lock and treasury.
LEMMA CloseIsSettle ==
    ASSUME SettlementInv, NEW p \in Players, NEW stake \in Nat, NEW payout \in Nat,
           SettleCashout(This, p, stake, payout) \/ SettleCrash(This, p, stake)
    PROVE  Settle(This, p)
<1>1. stake \in 0..Supply
  BY SupplyIsNatural DEF SettleCashout, SettleCrash, Unlock, SettlementInv, VaultInv, VaultTypeOK, Solvent
<1>2. CASE SettleCashout(This, p, stake, payout)
  <2>1. payout \in 0..Supply
    BY <1>1, <1>2, SupplyIsNatural DEF SettleCashout, Unlock, TreasuryCovers, SettlementInv, VaultInv,
       VaultTypeOK, Solvent
  <2> QED BY <1>1, <1>2, <2>1 DEF Settle
<1>3. CASE SettleCrash(This, p, stake)
  BY <1>1, <1>3 DEF Settle
<1> QED BY <1>2, <1>3

LEMMA SettlementStepsAreVaultSteps ==
    SettlementInv /\ [SettlementNext]_contractVars => [VaultNext]_vaultVars
<1> SUFFICES ASSUME SettlementInv, [SettlementNext]_contractVars PROVE [VaultNext]_vaultVars
  OBVIOUS
<1>1. CASE VaultOnly
  BY <1>1 DEF VaultOnly, VaultNext
<1>2. ASSUME NEW p \in Players, NEW s \in SessionIds, StartSession(p, s) PROVE VaultNext
  BY <1>2, StartIsLock, IdsAreDistinct DEF VaultNext
<1>3. ASSUME NEW r \in signed, SettleWithSignature(r) PROVE VaultNext
  <2>1. r.id \in SessionIds /\ r.stake \in Nat /\ r.payout \in Nat
    BY PayoutIsNatural, AmountsAreNatural DEF SettlementInv, SettlementTypeOK, Resolution
  <2>2. r.player \in Players
    BY <1>3, <2>1 DEF SettleWithSignature, Matches, SettlementInv, SettlementTypeOK, Open, Exists, Session
  <2>3. Settle(This, r.player)
    BY <1>3, <2>1, <2>2, CloseIsSettle DEF SettleWithSignature
  <2> QED BY <2>2, <2>3, IdsAreDistinct DEF VaultNext
<1>4. ASSUME NEW s \in SessionIds, ExpireSession(s) PROVE VaultNext
  <2>1. session[s].player \in Players
    BY <1>4 DEF SettlementInv, SettlementTypeOK, ExpireSession, Open, Exists, Session
  <2>2. SettleCrash(This, session[s].player, FixedStake) /\ FixedStake \in Nat /\ 0 \in Nat
    BY <1>4, AmountsAreNatural DEF ExpireSession
  <2>3. Settle(This, session[s].player)
    BY <2>1, <2>2, CloseIsSettle
  <2> QED BY <2>1, <2>3, IdsAreDistinct DEF VaultNext
<1>5. CASE \/ \E key \in Signers : SetBackendSigner(key)
           \/ \E delay \in Delays : SetSessionExpiryDelay(delay)
           \/ PauseSettlement \/ UnpauseSettlement \/ Tick \/ UNCHANGED contractVars
           \/ \E s \in SessionIds, key \in Signers : SignSettlement(s, key)
  BY <1>5 DEF SetBackendSigner, SetSessionExpiryDelay, PauseSettlement, UnpauseSettlement, Tick,
     SignSettlement, contractVars
<1> QED BY <1>1, <1>2, <1>3, <1>4, <1>5 DEF SettlementNext

(***************************************************************************)
(* The two contracts together implement the vault: every step of a session *)
(* is a lock, a cash-out or a crash that the vault's owner-named contract  *)
(* may ask for, or leaves the vault alone.                                 *)
(***************************************************************************)
THEOREM SettlementImplementsVault == SettlementSpec => VaultSpec
<1>1. SettlementInit => VaultInit
  BY DEF SettlementInit
<1> QED BY <1>1, SettlementInvariant, SettlementStepsAreVaultSteps, PTL DEF SettlementSpec, VaultSpec

(***************************************************************************)
(* Nothing but a pause or another settlement contract refuses the call     *)
(* that closes an overdue session: its player's lock and the total hold    *)
(* the stake for as long as the session is active.                         *)
(***************************************************************************)
THEOREM ExpiryIsCovered ==
    SettlementSpec => [](\A s \in SessionIds : session[s].active =>
                             /\ Open(s)
                             /\ FixedStake <= locked[session[s].player] /\ FixedStake <= totalLocked)
<1>1. SettlementInv /\ TotalsAgree =>
          \A s \in SessionIds : session[s].active =>
              /\ Open(s)
              /\ FixedStake <= locked[session[s].player] /\ FixedStake <= totalLocked
  <2> SUFFICES ASSUME SettlementInv, TotalsAgree, NEW s \in SessionIds, session[s].active
               PROVE  /\ Open(s)
                      /\ FixedStake <= locked[session[s].player] /\ FixedStake <= totalLocked
    OBVIOUS
  <2> DEFINE p == session[s].player
  <2>1. Open(s) /\ p \in Players /\ activeSessionOf[p] = s
    BY DEF SettlementInv, SettlementTypeOK, ActiveIsRegistered, Open, Exists, Session
  <2>2. locked[p] = FixedStake
    BY <2>1, IdsAreDistinct DEF SettlementInv, StakeIsLocked
  <2>3. locked[p] <= totalLocked
    BY <2>1, AccountIsPart DEF SettlementInv, VaultInv, VaultTypeOK, TotalsAgree
  <2> QED BY <2>1, <2>2, <2>3, AmountsAreNatural
<1> QED BY <1>1, SettlementInvariant, SettlementImplementsVault, TotalsAreSums, PTL

----------------------------------------------------------------------------
(***************************************************************************)
(* The V1 flow.  A handler remembers a session over its awaits, while      *)
(* others change the rows and the chain.  What it remembers stays true     *)
(* enough: a session that was opened stays opened, one that is closed      *)
(* stays closed, a row keeps its on-chain id for as long as anybody holds  *)
(* its session id.                                                         *)
(***************************************************************************)

States == {NONE, "ACTIVE", "EXPIRED"} \cup Outcomes
Games == [sid: Sids, id: Ids, window: BOOLEAN]
Memory == [op: Ops \cup {NONE}, pc: Pcs \cup {NONE}, sid: Sids \cup {NONE}, id: Ids \cup {NONE},
           outcome: Outcomes \cup {NONE}, sig: Outcomes \cup {NONE},
           result: {NONE, "HASH", "ALREADY", "ERROR"}, todo: SUBSET Sids, resolved: BOOLEAN,
           again: BOOLEAN]

Shape ==
    /\ onchain \in [Ids -> States] /\ pool \subseteq [id: Ids, outcome: Outcomes]
    /\ row \in [Sids -> Row \cup {NoRow}] /\ game \in Games \cup {NoGame}
    /\ task \in [Tasks -> Memory]

\* oc, rw, rc: the chain, the rows and the reached sessions.
Paying == {"send", "receipt", "sent"}
TaskOK(x, oc, rw, rc) ==
    /\ x.id \in Ids => oc[x.id] # NONE
    /\ x.outcome = "CASHED_OUT" \/ x.sig = "CASHED_OUT" => x.id \in rc
    /\ x.sid \in Sids /\ x.id \in Ids /\ rw[x.sid] # NoRow => rw[x.sid].id = x.id
    /\ x.pc \in Paying => x.id \in Ids /\ x.outcome \in Outcomes
    /\ x.pc \in Paying /\ x.op # "recover" => x.sid \in Sids
    /\ x.pc = "insert" => x.id \in Ids
    /\ x.pc = "create" => x.id \in Ids /\ x.sid \in Sids
    /\ x.pc = "write" => x.sid \in Sids
    /\ x.result = "ALREADY" => x.id \in Ids /\ oc[x.id] # "ACTIVE"

RowOK(r, oc, rc) ==
    r # NoRow =>
        /\ oc[r.id] # NONE
        /\ r.status = "CASHED_OUT" \/ r.sig = "CASHED_OUT" => r.id \in rc
        /\ r.tx = "SETTLED" => oc[r.id] # "ACTIVE"

GameOK(g, oc, rw) ==
    g # NoGame => /\ oc[g.id] # NONE
                  /\ rw[g.sid] # NoRow => rw[g.sid].id = g.id

ChainOK ==
    /\ PayoutWasEarned
    /\ \A x \in pool : x.outcome = "CASHED_OUT" => x.id \in reached

PayInv ==
    /\ Shape /\ ChainOK
    /\ \A t \in Tasks : TaskOK(task[t], onchain, row, reached)
    /\ \A s \in Sids : RowOK(row[s], onchain, reached)
    /\ GameOK(game, onchain, row)

----------------------------------------------------------------------------
(* Small facts                                                             *)

LEMMA NoneFacts ==
    /\ NONE \notin Ids /\ NONE \notin Sids /\ NONE \notin Outcomes
    /\ "CASHED_OUT" \in Outcomes /\ "CRASHED" \in Outcomes
    /\ NoRow \notin Row /\ NoGame \notin Games
    /\ NoRow.id = NONE /\ NoRow.tx = NONE /\ NoRow.status = NONE
    /\ Sweeper \in Tasks /\ \A t \in Requests : t \in Tasks
BY NoneIsNobody DEF NoneIsNobody, NONE, Outcomes, NoRow, Row, NoGame, Games, Tasks

LEMMA IdleFacts ==
    /\ Idle \in Memory
    /\ \A oc, rw, rc : TaskOK(Idle, oc, rw, rc)
BY NoneFacts DEF Idle, Memory, TaskOK, Paying, Outcomes, NONE

\* The chain only goes on: an opened session stays opened, a closed one closed.
GoesOn(oc, oc2) ==
    \A i \in Ids : oc[i] # NONE => oc2[i] # NONE /\ (oc[i] # "ACTIVE" => oc2[i] # "ACTIVE")

\* A row somebody holds is kept with its id, or deleted.
Kept(sid, rw, rw2) ==
    sid \in Sids => rw2[sid] = NoRow \/ (rw[sid] # NoRow /\ rw2[sid].id = rw[sid].id)

LEMMA TaskStays ==
    ASSUME NEW x, NEW oc, NEW oc2, NEW rw, NEW rw2, NEW rc, NEW rc2,
           TaskOK(x, oc, rw, rc), GoesOn(oc, oc2), Kept(x.sid, rw, rw2), rc \subseteq rc2
    PROVE  TaskOK(x, oc2, rw2, rc2)
BY DEF TaskOK, GoesOn, Kept

LEMMA RowStays ==
    ASSUME NEW r \in Row \cup {NoRow}, NEW oc, NEW oc2, NEW rc, NEW rc2,
           RowOK(r, oc, rc), GoesOn(oc, oc2), rc \subseteq rc2
    PROVE  RowOK(r, oc2, rc2)
<1>1. r # NoRow => r.id \in Ids
  BY DEF Row
<1> QED BY <1>1 DEF RowOK, GoesOn

LEMMA GameStays ==
    ASSUME NEW g \in Games \cup {NoGame}, NEW oc, NEW oc2, NEW rw, NEW rw2,
           GameOK(g, oc, rw), GoesOn(oc, oc2), Kept(g.sid, rw, rw2)
    PROVE  GameOK(g, oc2, rw2)
<1>1. g # NoGame => g.id \in Ids /\ g.sid \in Sids
  BY DEF Games
<1> QED BY <1>1 DEF GameOK, GoesOn, Kept

LEMMA Reflexive ==
    ASSUME Shape
    PROVE  GoesOn(onchain, onchain) /\ \A sid : Kept(sid, row, row)
BY DEF GoesOn, Kept

----------------------------------------------------------------------------
(* What a step may change                                                  *)

\* Only handlers' memories: each is as it was, or good.
LEMMA MemoriesMove ==
    ASSUME PayInv, UNCHANGED <<onchain, pool, row, game, reached>>,
           task' \in [Tasks -> Memory],
           \A u \in Tasks : task'[u] = task[u] \/ TaskOK(task'[u], onchain, row, reached)
    PROVE  PayInv'
<1>1. \A u \in Tasks : TaskOK(task'[u], onchain, row, reached)
  BY DEF PayInv
<1>2. Shape' /\ ChainOK'
  BY DEF PayInv, Shape, ChainOK, PayoutWasEarned
<1> QED BY <1>1, <1>2 DEF PayInv

LEMMA MemoryMoves ==
    ASSUME PayInv, UNCHANGED <<onchain, pool, row, game, reached>>,
           NEW t \in Tasks, NEW x \in Memory, TaskOK(x, onchain, row, reached),
           task' = [task EXCEPT ![t] = x]
    PROVE  PayInv'
<1>1. task' \in [Tasks -> Memory] /\ task'[t] = x /\ \A u \in Tasks \ {t} : task'[u] = task[u]
  BY DEF PayInv, Shape
<1> QED BY <1>1, MemoriesMove

\* The game changes, and the memory of one handler.
LEMMA GameMoves ==
    ASSUME PayInv, UNCHANGED <<onchain, pool, row, reached>>,
           NEW g \in Games \cup {NoGame}, game' = g, GameOK(g, onchain, row),
           NEW t \in Tasks, NEW x \in Memory, TaskOK(x, onchain, row, reached),
           task' = [task EXCEPT ![t] = x]
    PROVE  PayInv'
<1>1. task' \in [Tasks -> Memory] /\ task'[t] = x /\ \A u \in Tasks \ {t} : task'[u] = task[u]
  BY DEF PayInv, Shape
<1>2. \A u \in Tasks : TaskOK(task'[u], onchain, row, reached)
  BY <1>1 DEF PayInv
<1>3. Shape' /\ ChainOK'
  BY <1>1 DEF PayInv, Shape, ChainOK, PayoutWasEarned
<1> QED BY <1>2, <1>3 DEF PayInv

\* The chain goes on, the pool with it, and the memory of one handler.
LEMMA ChainMoves ==
    ASSUME PayInv, UNCHANGED <<row, game, reached>>, GoesOn(onchain, onchain'),
           onchain' \in [Ids -> States], pool' \subseteq [id: Ids, outcome: Outcomes], ChainOK',
           NEW t \in Tasks, NEW x \in Memory, TaskOK(x, onchain', row, reached),
           task' = [task EXCEPT ![t] = x]
    PROVE  PayInv'
<1>0. Shape /\ \A sid : Kept(sid, row, row)
  BY Reflexive DEF PayInv
<1>1. task' \in [Tasks -> Memory] /\ task'[t] = x /\ \A u \in Tasks \ {t} : task'[u] = task[u]
  BY <1>0 DEF Shape
<1>2. \A u \in Tasks : TaskOK(task'[u], onchain', row, reached)
  BY <1>0, <1>1, TaskStays DEF PayInv
<1>3. \A s \in Sids : RowOK(row[s], onchain', reached)
  BY <1>0, RowStays DEF PayInv, Shape
<1>4. GameOK(game, onchain', row)
  BY <1>0, GameStays DEF PayInv, Shape
<1>5. Shape'
  BY <1>0, <1>1 DEF Shape
<1> QED BY <1>2, <1>3, <1>4, <1>5 DEF PayInv

\* One row is written, and the memory of one handler.
LEMMA RowMoves ==
    ASSUME PayInv, UNCHANGED <<onchain, pool, game, reached>>,
           NEW s \in Sids, NEW r \in Row \cup {NoRow}, row' = [row EXCEPT ![s] = r],
           RowOK(r, onchain, reached),
           Unused(s) \/ Kept(s, row, row'),
           NEW t \in Tasks, NEW x \in Memory, TaskOK(x, onchain, row', reached),
           task' = [task EXCEPT ![t] = x]
    PROVE  PayInv'
<1>0. Shape /\ GoesOn(onchain, onchain)
  BY Reflexive DEF PayInv
<1>1. task' \in [Tasks -> Memory] /\ task'[t] = x /\ \A u \in Tasks \ {t} : task'[u] = task[u]
  BY <1>0 DEF Shape
<1>2. row' \in [Sids -> Row \cup {NoRow}] /\ row'[s] = r /\ \A q \in Sids \ {s} : row'[q] = row[q]
  BY <1>0 DEF Shape
<1>3. \A sid : (sid = s => Kept(s, row, row')) => Kept(sid, row, row')
  BY <1>2 DEF Kept
<1>4. \A u \in Tasks : Kept(task[u].sid, row, row')
  BY <1>3 DEF Unused
<1>5. \A u \in Tasks : TaskOK(task'[u], onchain, row', reached)
  BY <1>0, <1>1, <1>4, TaskStays DEF PayInv
<1>6. \A q \in Sids : RowOK(row'[q], onchain, reached)
  BY <1>2 DEF PayInv
<1>7. GameOK(game, onchain, row')
  BY <1>0, <1>3, GameStays DEF PayInv, Shape, Unused
<1>8. Shape' /\ ChainOK'
  BY <1>0, <1>1, <1>2 DEF PayInv, Shape, ChainOK, PayoutWasEarned
<1> QED BY <1>5, <1>6, <1>7, <1>8 DEF PayInv

LEMMA PayInit == Init => PayInv
<1> SUFFICES ASSUME Init PROVE PayInv
  OBVIOUS
<1>1. \A t \in Tasks : task[t] = Idle
  BY DEF Init
<1>2. task \in [Tasks -> Memory]
  BY IdleFacts DEF Init
<1>3. onchain \in [Ids -> States] /\ row \in [Sids -> Row \cup {NoRow}] /\ game = NoGame /\ pool = {}
      /\ (\A s \in Sids : row[s] = NoRow) /\ (\A i \in Ids : onchain[i] = NONE)
  BY DEF Init, States
<1>4. ChainOK
  BY <1>3 DEF ChainOK, PayoutWasEarned, NONE
<1> QED BY <1>1, <1>2, <1>3, <1>4, IdleFacts DEF PayInv, Shape, RowOK, GameOK

\* The memory of a handler that begins something, as Goto writes it.
LEMMA FreshMemory ==
    ASSUME NEW op \in Ops, NEW pc \in Pcs, NEW sid \in Sids \cup {NONE}, NEW id \in Ids \cup {NONE}
    PROVE  LET x == [Idle EXCEPT !.op = op, !.pc = pc, !.sid = sid, !.id = id]
           IN  /\ x \in Memory /\ x.op = op /\ x.pc = pc /\ x.sid = sid /\ x.id = id
               /\ x.outcome = NONE /\ x.sig = NONE /\ x.result = NONE
BY DEF Idle, Memory

\* ... and of one that signs an outcome and sends it.
LEMMA SendingMemory ==
    ASSUME NEW m \in Memory, NEW op \in Ops, NEW sid \in Sids \cup {NONE}, NEW id \in Ids,
           NEW outcome \in Outcomes, NEW todo \in SUBSET Sids
    PROVE  LET x == [m EXCEPT !.op = op, !.pc = "send", !.todo = todo, !.sid = sid, !.id = id,
                              !.outcome = outcome, !.sig = outcome, !.result = NONE]
           IN  /\ x \in Memory /\ x.op = op /\ x.pc = "send" /\ x.sid = sid /\ x.id = id
               /\ x.outcome = outcome /\ x.sig = outcome /\ x.result = NONE
BY DEF Memory, Pcs

----------------------------------------------------------------------------
(* The chain                                                               *)

\* Nobody remembers anything else: the shape of steps that leave the handlers alone.
LEMMA ChainAloneMoves ==
    ASSUME PayInv, UNCHANGED <<row, game, task, reached>>, GoesOn(onchain, onchain'),
           onchain' \in [Ids -> States], pool' \subseteq [id: Ids, outcome: Outcomes], ChainOK'
    PROVE  PayInv'
<1>1. task' = [task EXCEPT ![Sweeper] = task[Sweeper]] /\ Sweeper \in Tasks
      /\ task[Sweeper] \in Memory
  BY NoneFacts DEF PayInv, Shape
<1>2. TaskOK(task[Sweeper], onchain', row, reached)
  <2>1. Shape /\ Kept(task[Sweeper].sid, row, row)
    BY Reflexive DEF PayInv
  <2> QED BY <1>1, <2>1, TaskStays DEF PayInv
<1> QED BY <1>1, <1>2, ChainMoves

LEMMA SettledFacts ==
    ASSUME PayInv, NEW id \in Ids, NEW outcome \in Outcomes,
           outcome = "CASHED_OUT" => id \in reached
    PROVE  LET oc == Settled(id, outcome)
           IN  /\ oc \in [Ids -> States] /\ GoesOn(onchain, oc)
               /\ \A i \in Ids : oc[i] = "CASHED_OUT" => i \in reached
<1>1. onchain \in [Ids -> States] /\ \A i \in Ids : onchain[i] = "CASHED_OUT" => i \in reached
  BY DEF PayInv, Shape, ChainOK, PayoutWasEarned
<1> QED BY <1>1 DEF Settled, GoesOn, States, Outcomes, NONE

LEMMA ChainSteps ==
    ASSUME PayInv
    PROVE  /\ \A id \in Ids : StartOnchain(id) \/ ExpireOnchain(id) => PayInv'
           /\ \A x \in pool : MineLate(x) => PayInv'
<1>0. Shape /\ ChainOK
  BY DEF PayInv
<1>1. ASSUME NEW id \in Ids, StartOnchain(id) PROVE PayInv'
  <2>1. /\ onchain[id] = NONE /\ onchain' = [onchain EXCEPT ![id] = "ACTIVE"]
        /\ UNCHANGED <<pool, row, game, task, reached>>
    BY <1>1 DEF StartOnchain
  <2>2. onchain' \in [Ids -> States] /\ GoesOn(onchain, onchain')
    BY <1>0, <2>1 DEF Shape, States, GoesOn
  <2>3. ChainOK'
    BY <1>0, <2>1 DEF ChainOK, PayoutWasEarned, Shape
  <2> QED BY <1>0, <2>1, <2>2, <2>3, ChainAloneMoves DEF Shape
<1>2. ASSUME NEW id \in Ids, ExpireOnchain(id) PROVE PayInv'
  <2>1. /\ onchain[id] = "ACTIVE" /\ onchain' = [onchain EXCEPT ![id] = "EXPIRED"]
        /\ UNCHANGED <<pool, row, game, task, reached>>
    BY <1>2 DEF ExpireOnchain
  <2>2. onchain' \in [Ids -> States] /\ GoesOn(onchain, onchain')
    BY <1>0, <2>1 DEF Shape, States, GoesOn, NONE
  <2>3. ChainOK'
    BY <1>0, <2>1 DEF ChainOK, PayoutWasEarned, Shape
  <2> QED BY <1>0, <2>1, <2>2, <2>3, ChainAloneMoves DEF Shape
<1>3. ASSUME NEW x \in pool, MineLate(x) PROVE PayInv'
  <2>1. /\ pool' = pool \ {x} /\ onchain' \in {onchain, Settled(x.id, x.outcome)}
        /\ UNCHANGED <<row, game, task, reached>>
    BY <1>3 DEF MineLate
  <2>2. x.id \in Ids /\ x.outcome \in Outcomes /\ (x.outcome = "CASHED_OUT" => x.id \in reached)
    BY <1>0 DEF Shape, ChainOK
  <2>3. /\ onchain' \in [Ids -> States] /\ GoesOn(onchain, onchain')
        /\ \A i \in Ids : onchain'[i] = "CASHED_OUT" => i \in reached
    BY <1>0, <2>1, <2>2, SettledFacts, Reflexive DEF Shape, ChainOK, PayoutWasEarned
  <2>4. ChainOK'
    BY <1>0, <2>1, <2>3 DEF ChainOK, PayoutWasEarned
  <2> QED BY <1>0, <2>1, <2>3, <2>4, ChainAloneMoves DEF Shape
<1> QED BY <1>1, <1>2, <1>3

----------------------------------------------------------------------------
(* Submitting a settlement                                                 *)

LEMMA AnswerFacts ==
    ASSUME NEW m \in Memory, NEW result \in {NONE, "HASH", "ALREADY", "ERROR"}
    PROVE  LET x == [m EXCEPT !.pc = "sent", !.result = result]
           IN  /\ x \in Memory /\ x.op = m.op /\ x.pc = "sent" /\ x.sid = m.sid /\ x.id = m.id
               /\ x.outcome = m.outcome /\ x.sig = m.sig /\ x.result = result
BY DEF Memory, Pcs

LEMMA SubmissionKeeps ==
    ASSUME PayInv, NEW t \in Requests, Submission(t)
    PROVE  PayInv'
<1>0. Shape /\ ChainOK /\ t \in Tasks /\ task[t] \in Memory /\ TaskOK(task[t], onchain, row, reached)
  BY NoneFacts DEF PayInv, Shape
<1> DEFINE m == task[t]
           Ans(result) == [m EXCEPT !.pc = "sent", !.result = result]
<1>1. \A result : Answer(t, result) => task' = [task EXCEPT ![t] = Ans(result)]
  BY <1>0 DEF Answer, Shape
<1>2. ASSUME m.pc \in {"send", "receipt"}, NEW result \in {"HASH", "ERROR"}, NEW oc, GoesOn(onchain, oc)
      PROVE  Ans(result) \in Memory /\ TaskOK(Ans(result), oc, row, reached)
  <2>1. TaskOK(m, oc, row, reached) /\ m.id \in Ids
    BY <1>0, <1>2, TaskStays, Reflexive DEF TaskOK, Paying
  <2>2. /\ Ans(result) \in Memory /\ Ans(result).op = m.op /\ Ans(result).pc = "sent"
        /\ Ans(result).sid = m.sid /\ Ans(result).id = m.id /\ Ans(result).outcome = m.outcome
        /\ Ans(result).sig = m.sig /\ Ans(result).result = result
    <3>1. result \in {NONE, "HASH", "ALREADY", "ERROR"}
      OBVIOUS
    <3> HIDE DEF m
    <3> QED BY <1>0, <3>1, AnswerFacts DEF m
  <2> HIDE DEF Ans
  <2> QED BY <1>0, <1>2, <2>1, <2>2 DEF TaskOK, Paying
<1>3. CASE Refused(t)
  <2>1. /\ m.pc = "send" /\ UNCHANGED <<onchain, pool, row, game, reached>>
        /\ \/ onchain[m.id] # "ACTIVE" /\ Answer(t, "ALREADY")
           \/ Answer(t, "ERROR")
    BY <1>3 DEF Refused
  <2>2. m.id \in Ids
    BY <1>0, <2>1 DEF TaskOK, Paying
  <2>3. CASE onchain[m.id] # "ACTIVE" /\ Answer(t, "ALREADY")
    <3>1. Ans("ALREADY") \in Memory /\ TaskOK(Ans("ALREADY"), onchain, row, reached)
      BY <1>0, <2>1, <2>2, <2>3, AnswerFacts DEF TaskOK, Paying
    <3> HIDE DEF Ans
    <3> QED BY <1>0, <1>1, <2>1, <2>3, <3>1, MemoryMoves
  <2>4. CASE Answer(t, "ERROR")
    <3>1. Ans("ERROR") \in Memory /\ TaskOK(Ans("ERROR"), onchain, row, reached)
      BY <1>0, <1>2, <2>1, Reflexive
    <3> HIDE DEF Ans
    <3> QED BY <1>0, <1>1, <2>1, <2>4, <3>1, MemoryMoves
  <2> QED BY <2>1, <2>3, <2>4
<1>4. CASE Broadcast(t)
  <2> DEFINE x == [m EXCEPT !.pc = "receipt"]
  <2>1. m.pc = "send" /\ UNCHANGED <<onchain, pool, row, game, reached>>
        /\ task' = [task EXCEPT ![t] = x]
    BY <1>0, <1>4 DEF Broadcast, Shape
  <2>2. x \in Memory /\ TaskOK(x, onchain, row, reached)
    BY <1>0, <2>1 DEF Memory, Pcs, TaskOK, Paying
  <2> HIDE DEF x
  <2> QED BY <1>0, <2>1, <2>2, MemoryMoves
<1>5. CASE Mined(t)
  <2>1. /\ m.pc = "receipt" /\ Answer(t, "HASH") /\ UNCHANGED <<pool, row, game, reached>>
        /\ onchain' = Settled(m.id, m.outcome) \/ onchain' = onchain
    BY <1>5 DEF Mined
  <2>2. m.id \in Ids /\ m.outcome \in Outcomes /\ (m.outcome = "CASHED_OUT" => m.id \in reached)
    BY <1>0, <2>1 DEF TaskOK, Paying
  <2>3. /\ onchain' \in [Ids -> States] /\ GoesOn(onchain, onchain')
        /\ \A i \in Ids : onchain'[i] = "CASHED_OUT" => i \in reached
    BY <1>0, <2>1, <2>2, SettledFacts, Reflexive DEF Shape, ChainOK, PayoutWasEarned
  <2>4. ChainOK' /\ pool' \subseteq [id: Ids, outcome: Outcomes]
    BY <1>0, <2>1, <2>3 DEF ChainOK, PayoutWasEarned, Shape
  <2>5. Ans("HASH") \in Memory /\ TaskOK(Ans("HASH"), onchain', row, reached)
    BY <1>2, <2>1, <2>3
  <2> HIDE DEF Ans
  <2> QED BY <1>0, <1>1, <2>1, <2>3, <2>4, <2>5, ChainMoves
<1>6. CASE ReceiptTimesOut(t)
  <2>1. /\ m.pc = "receipt" /\ Answer(t, "ERROR") /\ UNCHANGED <<onchain, row, game, reached>>
        /\ pool' = pool \cup {[id |-> m.id, outcome |-> m.outcome]}
    BY <1>6 DEF ReceiptTimesOut
  <2>2. m.id \in Ids /\ m.outcome \in Outcomes /\ (m.outcome = "CASHED_OUT" => m.id \in reached)
    BY <1>0, <2>1 DEF TaskOK, Paying
  <2>3. pool' \subseteq [id: Ids, outcome: Outcomes]
    BY <1>0, <2>1, <2>2 DEF Shape
  <2>4. ChainOK'
    BY <1>0, <2>1, <2>2 DEF ChainOK, PayoutWasEarned
  <2>5. GoesOn(onchain, onchain') /\ onchain' \in [Ids -> States]
    BY <1>0, <2>1, Reflexive DEF Shape
  <2>6. Ans("ERROR") \in Memory /\ TaskOK(Ans("ERROR"), onchain', row, reached)
    BY <1>2, <2>1, <2>5
  <2> HIDE DEF Ans
  <2> QED BY <1>0, <1>1, <2>1, <2>3, <2>4, <2>5, <2>6, ChainMoves
<1> QED BY <1>3, <1>4, <1>5, <1>6 DEF Submission

\* A memory that holds no session.
LEMMA QuietMemory ==
    ASSUME NEW x \in Memory, x.sid = NONE, x.id = NONE, x.outcome = NONE, x.sig = NONE,
           x.result = NONE, x.pc \notin Paying \cup {"insert", "create", "write"}, NEW oc, NEW rw, NEW rc
    PROVE  TaskOK(x, oc, rw, rc)
BY NoneFacts DEF TaskOK, Outcomes, NONE

\* The handler is done.
LEMMA DoneMoves ==
    ASSUME PayInv, NEW t \in Tasks, Done(t), UNCHANGED <<onchain, pool, row, game, reached>>
    PROVE  PayInv'
BY IdleFacts, MemoryMoves DEF Done

\* A row that is there keeps its id; the handler forgets the session or is where it may be.
LEMMA RowRewritten ==
    ASSUME PayInv, UNCHANGED <<onchain, pool, game, reached>>,
           NEW s \in Sids, row[s] # NoRow, NEW r \in Row, r.id = row[s].id,
           row' = [row EXCEPT ![s] = r], RowOK(r, onchain, reached),
           NEW t \in Tasks, NEW x \in Memory, TaskOK(x, onchain, row, reached),
           task' = [task EXCEPT ![t] = x]
    PROVE  PayInv'
<1>0. row'[s] = r /\ \A q \in Sids \ {s} : row'[q] = row[q]
  BY DEF PayInv, Shape
<1>1. \A sid : Kept(sid, row, row')
  BY <1>0 DEF Kept
<1>2. TaskOK(x, onchain, row', reached)
  BY <1>1, TaskStays, Reflexive DEF PayInv
<1> QED BY <1>1, <1>2, RowMoves

\* A row is gone; whoever holds its session id may.
LEMMA RowDeleted ==
    ASSUME PayInv, UNCHANGED <<onchain, pool, game, reached>>,
           NEW s \in Sids, row' = [row EXCEPT ![s] = NoRow],
           NEW t \in Tasks, Done(t)
    PROVE  PayInv'
<1>1. row'[s] = NoRow
  BY DEF PayInv, Shape
<1>2. Kept(s, row, row')
  BY <1>1 DEF Kept
<1>3. RowOK(NoRow, onchain, reached) /\ NoRow \in Row \cup {NoRow}
  BY DEF RowOK
<1> QED BY <1>2, <1>3, IdleFacts, RowMoves DEF Done

\* An update by session id of the row of the session that t holds.
LEMMA UpdateKeeps ==
    ASSUME PayInv, UNCHANGED <<onchain, pool, game, reached>>,
           NEW t \in Tasks, task[t].sid \in Sids, task[t].id \in Ids,
           NEW st \in Outcomes, NEW sig \in Outcomes \cup {NONE},
           NEW tx \in {NONE, "HASH", "SETTLED", "CLEARED"},
           UpdateRow(task[t].sid, st, sig, tx),
           st = "CASHED_OUT" \/ sig = "CASHED_OUT" => task[t].id \in reached,
           tx = "SETTLED" => onchain[task[t].id] # "ACTIVE",
           NEW x \in Memory, TaskOK(x, onchain, row, reached), task' = [task EXCEPT ![t] = x]
    PROVE  PayInv'
<1> DEFINE s == task[t].sid
<1>1. row[s] \in Row \cup {NoRow} /\ TaskOK(task[t], onchain, row, reached)
  BY DEF PayInv, Shape
<1>2. CASE row[s] = NoRow
  BY <1>2, MemoryMoves DEF UpdateRow
<1>3. CASE row[s] # NoRow
  <2> DEFINE r == [row[s] EXCEPT !.status = st, !.sig = sig, !.tx = tx]
  <2>1. r \in Row /\ r.id = row[s].id /\ r.status = st /\ r.sig = sig /\ r.tx = tx
    BY <1>1, <1>3 DEF Row
  <2>2. row' = [row EXCEPT ![s] = r]
    BY <1>3 DEF UpdateRow
  <2>3. r.id = task[t].id /\ onchain[task[t].id] # NONE
    BY <1>1, <1>3, <2>1 DEF TaskOK
  <2> HIDE DEF r
  <2>4. RowOK(r, onchain, reached)
    BY <2>1, <2>3 DEF RowOK
  <2> QED BY <1>3, <2>1, <2>2, <2>4, RowRewritten
<1> QED BY <1>2, <1>3

----------------------------------------------------------------------------
(* handleGameStart                                                         *)

LEMMA StartKeeps ==
    ASSUME PayInv, NEW t \in Requests, Start(t)
    PROVE  PayInv'
<1>0. Shape /\ t \in Tasks /\ task[t] \in Memory /\ TaskOK(task[t], onchain, row, reached)
  BY NoneFacts DEF PayInv, Shape
<1>1. CASE HandleGameStart(t)
  <2> DEFINE x == [Idle EXCEPT !.op = "start", !.pc = "chain", !.sid = NONE, !.id = NONE]
  <2>1. x \in Memory /\ TaskOK(x, onchain, row, reached)
    BY QuietMemory DEF Idle, Memory, Ops, Pcs, Paying
  <2>2. task' = [task EXCEPT ![t] = x] /\ UNCHANGED <<onchain, pool, row, game, reached>>
    BY <1>1 DEF HandleGameStart, Goto
  <2> HIDE DEF x
  <2> QED BY <1>0, <2>1, <2>2, MemoryMoves
<1>2. CASE ReadActiveSession(t)
  <2>1. UNCHANGED <<onchain, pool, row, game, reached>>
        /\ (Done(t) \/ \E id \in ActiveIds : Goto(t, "start", "insert", NONE, id))
    BY <1>2 DEF ReadActiveSession
  <2>2. ASSUME NEW id \in ActiveIds, Goto(t, "start", "insert", NONE, id) PROVE PayInv'
    <3> DEFINE x == [Idle EXCEPT !.op = "start", !.pc = "insert", !.sid = NONE, !.id = id]
    <3>1. id \in Ids /\ onchain[id] # NONE
      BY DEF ActiveIds, NONE
    <3>2. /\ x \in Memory /\ x.op = "start" /\ x.pc = "insert" /\ x.sid = NONE /\ x.id = id
          /\ x.outcome = NONE /\ x.sig = NONE /\ x.result = NONE
      BY <3>1 DEF Idle, Memory, Ops, Pcs
    <3>3. task' = [task EXCEPT ![t] = x]
      BY <2>2 DEF Goto
    <3> HIDE DEF x
    <3>4. TaskOK(x, onchain, row, reached)
      BY <3>1, <3>2, NoneFacts DEF TaskOK, Paying, NONE
    <3> QED BY <1>0, <2>1, <3>2, <3>3, <3>4, MemoryMoves
  <2> QED BY <1>0, <2>1, <2>2, DoneMoves
<1>3. CASE InsertRow(t)
  <2>1. task[t].id \in Ids /\ onchain[task[t].id] # NONE
    BY <1>0, <1>3 DEF InsertRow, At, TaskOK
  <2>2. CASE Done(t) /\ row' = row
    BY <1>0, <1>3, <2>2, DoneMoves DEF InsertRow
  <2>3. ASSUME NEW s \in Fresh,
               row' = [row EXCEPT ![s] = [NoRow EXCEPT !.id = task[t].id, !.status = "ACTIVE"]],
               Goto(t, "start", "create", s, task[t].id)
        PROVE  PayInv'
    <3> DEFINE r == [NoRow EXCEPT !.id = task[t].id, !.status = "ACTIVE"]
               x == [Idle EXCEPT !.op = "start", !.pc = "create", !.sid = s, !.id = task[t].id]
    <3>1. s \in Sids /\ Unused(s)
      BY DEF Fresh
    <3>2. /\ r \in Row /\ r.id = task[t].id /\ r.status = "ACTIVE" /\ r.sig = NONE /\ r.tx = NONE
      BY <2>1 DEF NoRow, Row
    <3>3. /\ x \in Memory /\ x.op = "start" /\ x.pc = "create" /\ x.sid = s /\ x.id = task[t].id
          /\ x.outcome = NONE /\ x.sig = NONE /\ x.result = NONE
      BY <2>1, <3>1 DEF Idle, Memory, Ops, Pcs
    <3>4. row' = [row EXCEPT ![s] = r] /\ task' = [task EXCEPT ![t] = x]
      BY <2>3 DEF Goto
    <3> HIDE DEF r, x
    <3>5. RowOK(r, onchain, reached)
      BY <2>1, <3>2 DEF RowOK, NONE
    <3>6. row'[s] = r
      BY <1>0, <3>1, <3>4 DEF Shape
    <3>7. TaskOK(x, onchain, row', reached)
      BY <2>1, <3>1, <3>2, <3>3, <3>6, NoneFacts DEF TaskOK, Paying, NONE
    <3> QED BY <1>0, <1>3, <3>1, <3>2, <3>3, <3>4, <3>5, <3>7, RowMoves DEF InsertRow
  <2> QED BY <1>3, <2>2, <2>3 DEF InsertRow
<1>4. CASE CreateGameState(t)
  <2> DEFINE g == [sid |-> task[t].sid, id |-> task[t].id, window |-> FALSE]
  <2>1. task[t].id \in Ids /\ task[t].sid \in Sids
    BY <1>0, <1>4 DEF CreateGameState, At, TaskOK
  <2>2. g \in Games /\ g.sid = task[t].sid /\ g.id = task[t].id
    BY <2>1 DEF Games
  <2>3. game' = g /\ UNCHANGED <<onchain, pool, row, reached>> /\ Done(t)
    BY <1>4 DEF CreateGameState
  <2> HIDE DEF g
  <2>4. GameOK(g, onchain, row)
    BY <1>0, <2>1, <2>2 DEF GameOK, TaskOK
  <2> QED BY <1>0, <2>2, <2>3, <2>4, IdleFacts, GameMoves DEF Done
<1> QED BY <1>1, <1>2, <1>3, <1>4 DEF Start

----------------------------------------------------------------------------
(* The run and its ends                                                    *)

\* What is sent for the game in memory or for a row.
LEMMA SendKeeps ==
    ASSUME PayInv, UNCHANGED <<onchain, pool, row, game, reached>>, NEW t \in Tasks,
           NEW op \in Ops, NEW sid \in Sids \cup {NONE}, NEW id \in Ids, NEW outcome \in Outcomes,
           SendOutcome(t, op, sid, id, outcome), onchain[id] # NONE,
           outcome = "CASHED_OUT" => id \in reached,
           op # "recover" => sid \in Sids /\ (row[sid] # NoRow => row[sid].id = id),
           op = "recover" => sid = NONE
    PROVE  PayInv'
<1> DEFINE x == [task[t] EXCEPT !.op = op, !.pc = "send", !.sid = sid, !.id = id,
                    !.outcome = outcome, !.sig = outcome, !.result = NONE]
<1>1. task[t] \in Memory /\ task' = [task EXCEPT ![t] = x]
  BY DEF PayInv, Shape, SendOutcome
<1>2. /\ x \in Memory /\ x.op = op /\ x.pc = "send" /\ x.sid = sid /\ x.id = id
      /\ x.outcome = outcome /\ x.sig = outcome /\ x.result = NONE
  BY <1>1 DEF Memory, Pcs
<1> HIDE DEF x
<1>3. TaskOK(x, onchain, row, reached)
  BY <1>2, NoneFacts DEF TaskOK, Paying, NONE
<1> QED BY <1>1, <1>2, <1>3, MemoryMoves

LEMMA GameFacts ==
    ASSUME PayInv, game # NoGame
    PROVE  /\ game \in Games /\ game.sid \in Sids /\ game.id \in Ids /\ onchain[game.id] # NONE
           /\ row[game.sid] # NoRow => row[game.sid].id = game.id
BY DEF PayInv, Shape, GameOK, Games

LEMMA CashoutKeeps ==
    ASSUME PayInv, NEW t \in Requests, HandleGameCashout(t)
    PROVE  PayInv'
<1>0. /\ t \in Tasks /\ Shape /\ ChainOK /\ game # NoGame /\ reached' = reached \cup {game.id}
      /\ SendOutcome(t, "cashout", game.sid, game.id, "CASHED_OUT")
      /\ UNCHANGED <<onchain, pool, row, game>>
  BY NoneFacts DEF PayInv, HandleGameCashout, CashoutWindow
<1>1. /\ game.sid \in Sids /\ game.id \in Ids /\ onchain[game.id] # NONE
      /\ row[game.sid] # NoRow => row[game.sid].id = game.id
  BY <1>0, GameFacts
<1> DEFINE x == [task[t] EXCEPT !.op = "cashout", !.pc = "send", !.sid = game.sid, !.id = game.id,
                    !.outcome = "CASHED_OUT", !.sig = "CASHED_OUT", !.result = NONE]
<1>2. task[t] \in Memory /\ task' = [task EXCEPT ![t] = x]
  BY <1>0 DEF Shape, SendOutcome
<1>3. /\ x \in Memory /\ x.op = "cashout" /\ x.pc = "send" /\ x.sid = game.sid /\ x.id = game.id
      /\ x.outcome = "CASHED_OUT" /\ x.result = NONE
  BY <1>1, <1>2 DEF Memory, Pcs, Ops, Outcomes
<1> HIDE DEF x
<1>4. TaskOK(x, onchain, row, reached')
  BY <1>0, <1>1, <1>3, NoneFacts DEF TaskOK, Paying, NONE
<1>5. task' \in [Tasks -> Memory] /\ task'[t] = x /\ \A u \in Tasks \ {t} : task'[u] = task[u]
  BY <1>0, <1>2, <1>3 DEF Shape
<1>6. \A u \in Tasks : TaskOK(task'[u], onchain, row, reached')
  BY <1>0, <1>4, <1>5, TaskStays, Reflexive DEF PayInv
<1>7. \A s \in Sids : RowOK(row[s], onchain, reached')
  BY <1>0, RowStays, Reflexive DEF PayInv, Shape
<1>8. ChainOK' /\ Shape'
  BY <1>0, <1>5 DEF ChainOK, PayoutWasEarned, Shape
<1> QED BY <1>0, <1>6, <1>7, <1>8 DEF PayInv

LEMMA EndKeeps ==
    ASSUME PayInv, NEW t \in Requests, End(t)
    PROVE  PayInv'
<1>0. Shape /\ t \in Tasks /\ task[t] \in Memory /\ TaskOK(task[t], onchain, row, reached)
      /\ "crash" \in Ops /\ NoGame \in Games \cup {NoGame} /\ GameOK(NoGame, onchain, row)
  BY NoneFacts DEF PayInv, Shape, Ops, GameOK
<1>1. CASE HandleGameCrash(t)
  <2>1. game # NoGame /\ UNCHANGED <<onchain, pool, row, game, reached>>
    BY <1>1 DEF HandleGameCrash
  <2>2. CASE SendOutcome(t, "crash", game.sid, game.id, "CRASHED")
    BY <1>0, <2>1, <2>2, SendKeeps, GameFacts, NoneFacts
  <2>3. CASE task' = [task EXCEPT ![t] = [Idle EXCEPT !.op = "crash", !.pc = "sent",
                 !.sid = game.sid, !.id = game.id, !.outcome = "CRASHED", !.result = "ERROR"]]
    <3> DEFINE x == [Idle EXCEPT !.op = "crash", !.pc = "sent",
                 !.sid = game.sid, !.id = game.id, !.outcome = "CRASHED", !.result = "ERROR"]
    <3>1. game.sid \in Sids /\ game.id \in Ids /\ onchain[game.id] # NONE
          /\ (row[game.sid] # NoRow => row[game.sid].id = game.id)
      BY <2>1, GameFacts
    <3>2. /\ x \in Memory /\ x.op = "crash" /\ x.pc = "sent" /\ x.sid = game.sid /\ x.id = game.id
          /\ x.outcome = "CRASHED" /\ x.sig = NONE /\ x.result = "ERROR"
      BY <3>1 DEF Idle, Memory, Ops, Pcs, Outcomes
    <3>3. task' = [task EXCEPT ![t] = x]
      BY <2>3
    <3> HIDE DEF x
    <3>4. TaskOK(x, onchain, row, reached)
      BY <3>1, <3>2 DEF TaskOK, Paying, NONE, Outcomes
    <3> QED BY <1>0, <2>1, <3>2, <3>3, <3>4, MemoryMoves
  <2> QED BY <1>1, <2>2, <2>3 DEF HandleGameCrash
<1>2. CASE HandleGameCashout(t)
  BY <1>2, CashoutKeeps
<1>3. CASE PersistEnd(t)
  <2> DEFINE x == [Idle EXCEPT !.op = task[t].op, !.pc = "remove", !.sid = NONE, !.id = NONE]
  <2>1. /\ task[t].op \in {"crash", "cashout"} /\ task[t].pc = "sent"
        /\ UNCHANGED <<onchain, pool, game, reached>> /\ task' = [task EXCEPT ![t] = x]
        /\ \/ UpdateRow(task[t].sid, task[t].outcome, task[t].sig, HashOf(t))
           \/ row' = row
    BY <1>3 DEF PersistEnd, Goto
  <2>2. x \in Memory /\ TaskOK(x, onchain, row, reached)
    BY <2>1, QuietMemory DEF Idle, Memory, Ops, Pcs, Paying
  <2> HIDE DEF x
  <2>3. CASE row' = row
    BY <1>0, <2>1, <2>2, <2>3, MemoryMoves
  <2>4. CASE UpdateRow(task[t].sid, task[t].outcome, task[t].sig, HashOf(t))
    <3>1. task[t].sid \in Sids /\ task[t].id \in Ids /\ task[t].outcome \in Outcomes
          /\ (task[t].outcome = "CASHED_OUT" \/ task[t].sig = "CASHED_OUT" => task[t].id \in reached)
      BY <1>0, <2>1 DEF TaskOK, Paying
    <3>2. HashOf(t) \in {NONE, "HASH", "SETTLED", "CLEARED"} /\ HashOf(t) # "SETTLED"
      BY DEF HashOf, NONE
    <3>3. task[t].sig \in Outcomes \cup {NONE}
      BY <1>0 DEF Memory
    <3> QED BY <1>0, <2>1, <2>2, <2>4, <3>1, <3>2, <3>3, UpdateKeeps
  <2> QED BY <2>1, <2>3, <2>4
<1>4. CASE RemoveGameState(t)
  BY <1>0, <1>4, IdleFacts, GameMoves DEF RemoveGameState, Done
<1>5. CASE HandleAbortStart(t)
  <2> DEFINE x == [Idle EXCEPT !.op = "abort", !.pc = "write", !.sid = game.sid, !.id = game.id]
  <2>1. game # NoGame /\ game' = NoGame /\ UNCHANGED <<onchain, pool, row, reached>>
        /\ task' = [task EXCEPT ![t] = x]
    BY <1>5 DEF HandleAbortStart, Goto
  <2>2. game.sid \in Sids /\ game.id \in Ids /\ onchain[game.id] # NONE
        /\ (row[game.sid] # NoRow => row[game.sid].id = game.id)
    BY <2>1, GameFacts
  <2>3. /\ x \in Memory /\ x.op = "abort" /\ x.pc = "write" /\ x.sid = game.sid /\ x.id = game.id
        /\ x.outcome = NONE /\ x.sig = NONE /\ x.result = NONE
    BY <2>2 DEF Idle, Memory, Ops, Pcs
  <2> HIDE DEF x
  <2>4. TaskOK(x, onchain, row, reached)
    BY <2>2, <2>3 DEF TaskOK, Paying, NONE
  <2> QED BY <1>0, <2>1, <2>3, <2>4, GameMoves
<1>6. CASE DeleteRow(t)
  <2>1. task[t].sid \in Sids
    BY <1>0, <1>6 DEF DeleteRow, At, TaskOK
  <2> QED BY <1>0, <1>6, <2>1, RowDeleted DEF DeleteRow
<1> QED BY <1>1, <1>2, <1>3, <1>4, <1>5, <1>6 DEF End

LEMMA WindowKeeps ==
    ASSUME PayInv, NEW open \in BOOLEAN, Window(open)
    PROVE  PayInv'
<1> DEFINE g == [game EXCEPT !.window = open]
<1>1. game \in Games /\ game' = g /\ UNCHANGED <<onchain, pool, row, task, reached>>
  BY GameFacts DEF Window
<1>2. g \in Games /\ g.id = game.id /\ g.sid = game.sid
  BY <1>1 DEF Games
<1> HIDE DEF g
<1>3. GameOK(g, onchain, row)
  BY <1>1, <1>2, NoneFacts DEF PayInv, GameOK
<1>4. Sweeper \in Tasks /\ task' = [task EXCEPT ![Sweeper] = task[Sweeper]] /\ task[Sweeper] \in Memory
      /\ TaskOK(task[Sweeper], onchain, row, reached)
  BY <1>1, NoneFacts DEF PayInv, Shape
<1> QED BY <1>1, <1>2, <1>3, <1>4, GameMoves

----------------------------------------------------------------------------
(* force-end-active                                                        *)

LEMMA ForceKeeps ==
    ASSUME PayInv, NEW t \in Requests, ForceRequest(t)
    PROVE  PayInv'
<1>0. Shape /\ t \in Tasks /\ task[t] \in Memory /\ TaskOK(task[t], onchain, row, reached)
      /\ NoGame \in Games \cup {NoGame} /\ GameOK(NoGame, onchain, row)
      /\ {"memory", "list", "recover"} \subseteq Ops
  BY NoneFacts DEF PayInv, Shape, Ops, GameOK
<1>1. CASE ForceEnd(t)
  <2>1. UNCHANGED <<onchain, pool, row, game, reached>>
    BY <1>1 DEF ForceEnd
  <2>2. CASE game # NoGame
    <3>1. SendOutcome(t, "memory", game.sid, game.id, "CRASHED")
      BY <1>1, <2>2 DEF ForceEnd
    <3> QED BY <1>0, <2>1, <2>2, <3>1, SendKeeps, GameFacts, NoneFacts
  <2>3. CASE game = NoGame
    <3> DEFINE x == [Idle EXCEPT !.op = "list", !.pc = "chain", !.sid = NONE, !.id = NONE]
    <3>1. task' = [task EXCEPT ![t] = x]
      BY <1>1, <2>3 DEF ForceEnd, Goto
    <3>2. x \in Memory /\ TaskOK(x, onchain, row, reached)
      BY QuietMemory DEF Idle, Memory, Ops, Pcs, Paying
    <3> HIDE DEF x
    <3> QED BY <1>0, <2>1, <3>1, <3>2, MemoryMoves
  <2> QED BY <2>2, <2>3
<1>2. CASE PersistCrash(t)
  <2> DEFINE x == [Idle EXCEPT !.op = "list", !.resolved = TRUE,
                 !.pc = IF task[t].op = "memory" THEN "remove" ELSE "next", !.todo = task[t].todo]
             y == [Idle EXCEPT !.op = "list", !.pc = "next",
                 !.todo = task[t].todo, !.resolved = task[t].resolved]
  <2>1. /\ task[t].op \in {"memory", "list"} /\ task[t].pc = "sent"
        /\ UNCHANGED <<onchain, pool, game, reached>>
        /\ \/ /\ UpdateRow(task[t].sid, "CRASHED", "CRASHED", Marked(task[t].result))
              /\ task' = [task EXCEPT ![t] = x]
           \/ row' = row /\ (Done(t) \/ task' = [task EXCEPT ![t] = y])
    BY <1>2 DEF PersistCrash
  <2>2. x \in Memory /\ y \in Memory
        /\ TaskOK(x, onchain, row, reached) /\ TaskOK(y, onchain, row, reached)
    <3>1. task[t].todo \subseteq Sids /\ task[t].resolved \in BOOLEAN
      BY <1>0 DEF Memory
    <3>2. x \in Memory /\ x.sid = NONE /\ x.id = NONE /\ x.outcome = NONE /\ x.sig = NONE
          /\ x.result = NONE /\ x.pc \in {"remove", "next"}
      BY <3>1 DEF Idle, Memory, Ops, Pcs
    <3>3. y \in Memory /\ y.sid = NONE /\ y.id = NONE /\ y.outcome = NONE /\ y.sig = NONE
          /\ y.result = NONE /\ y.pc = "next"
      BY <3>1 DEF Idle, Memory, Ops, Pcs
    <3> HIDE DEF x, y
    <3> QED BY <3>2, <3>3, QuietMemory DEF Paying
  <2> HIDE DEF x, y
  <2>3. CASE row' = row /\ (Done(t) \/ task' = [task EXCEPT ![t] = y])
    BY <1>0, <2>1, <2>2, <2>3, DoneMoves, MemoryMoves
  <2>4. CASE UpdateRow(task[t].sid, "CRASHED", "CRASHED", Marked(task[t].result))
             /\ task' = [task EXCEPT ![t] = x]
    <3>1. task[t].sid \in Sids /\ task[t].id \in Ids
      BY <1>0, <2>1 DEF TaskOK, Paying
    <3>2. Marked(task[t].result) \in {NONE, "HASH", "SETTLED", "CLEARED"}
          /\ (Marked(task[t].result) = "SETTLED" => onchain[task[t].id] # "ACTIVE")
      BY <1>0 DEF Marked, NONE, TaskOK
    <3>3. "CRASHED" = "CASHED_OUT" \/ "CRASHED" = "CASHED_OUT" => task[t].id \in reached
      OBVIOUS
    <3>4. "CRASHED" \in Outcomes /\ "CRASHED" \in Outcomes \cup {NONE}
      BY NoneFacts
    <3> DEFINE m == Marked(task[t].result)
    <3> HIDE DEF m
    <3>5. m \in {NONE, "HASH", "SETTLED", "CLEARED"} /\ (m = "SETTLED" => onchain[task[t].id] # "ACTIVE")
          /\ UpdateRow(task[t].sid, "CRASHED", "CRASHED", m)
      BY <2>4, <3>2 DEF m
    <3> QED BY <1>0, <2>1, <2>2, <2>4, <3>1, <3>3, <3>4, <3>5, UpdateKeeps
  <2> QED BY <2>1, <2>3, <2>4
<1>3. CASE RemoveForced(t)
  <2> DEFINE x == [task[t] EXCEPT !.pc = "chain"]
  <2>1. game' = NoGame /\ UNCHANGED <<onchain, pool, row, reached>> /\ task' = [task EXCEPT ![t] = x]
    BY <1>0, <1>3 DEF RemoveForced, Shape
  <2>2. x \in Memory /\ TaskOK(x, onchain, row, reached)
    BY <1>0 DEF Memory, Pcs, TaskOK, Paying
  <2> HIDE DEF x
  <2> QED BY <1>0, <2>1, <2>2, GameMoves
<1>4. CASE ListActive(t)
  <2> DEFINE x == [task[t] EXCEPT !.pc = "next", !.todo = ActiveRows]
  <2>1. UNCHANGED <<onchain, pool, row, game, reached>> /\ task' = [task EXCEPT ![t] = x]
    BY <1>0, <1>4 DEF ListActive, Shape
  <2>2. ActiveRows \subseteq Sids
    BY DEF ActiveRows
  <2>3. x \in Memory /\ TaskOK(x, onchain, row, reached)
    <3>1. x \in Memory
      BY <1>0, <2>2 DEF Memory, Pcs
    <3>2. x.sid = task[t].sid /\ x.id = task[t].id /\ x.outcome = task[t].outcome
          /\ x.sig = task[t].sig /\ x.result = task[t].result /\ x.pc = "next"
      BY <1>0 DEF Memory
    <3> HIDE DEF x
    <3> QED BY <1>0, <3>1, <3>2 DEF TaskOK, Paying
  <2> HIDE DEF x
  <2> QED BY <1>0, <2>1, <2>3, MemoryMoves
<1>5. CASE CrashNext(t)
  <2>1. /\ task[t].pc = "next" /\ task[t].op = "list" /\ UNCHANGED <<onchain, pool, row, game, reached>>
        /\ \E s \in task[t].todo :
              IF row[s] = NoRow THEN task' = [task EXCEPT ![t].todo = @ \ {s}] ELSE CrashRow(t, s)
    BY <1>5 DEF CrashNext, At
  <2>2. PICK s \in task[t].todo :
              IF row[s] = NoRow THEN task' = [task EXCEPT ![t].todo = @ \ {s}] ELSE CrashRow(t, s)
    BY <2>1
  <2>3. s \in Sids /\ task[t].todo \subseteq Sids /\ row[s] \in Row \cup {NoRow}
        /\ RowOK(row[s], onchain, reached)
    BY <1>0 DEF Memory, Shape, PayInv
  <2>4. CASE row[s] = NoRow
    <3> DEFINE x == [task[t] EXCEPT !.todo = task[t].todo \ {s}]
    <3>1. task' = [task EXCEPT ![t] = x]
      BY <1>0, <2>2, <2>4 DEF Shape
    <3>2. x \in Memory /\ TaskOK(x, onchain, row, reached)
      BY <1>0, <2>1 DEF Memory, TaskOK
    <3> HIDE DEF x
    <3> QED BY <1>0, <2>1, <3>1, <3>2, MemoryMoves
  <2>5. CASE row[s] # NoRow
    <3> DEFINE x == [task[t] EXCEPT !.pc = "send", !.todo = task[t].todo \ {s}, !.sid = s,
                        !.id = row[s].id, !.outcome = "CRASHED", !.sig = "CRASHED", !.result = NONE]
    <3>1. task' = [task EXCEPT ![t] = x]
      BY <1>0, <2>2, <2>5 DEF CrashRow, Shape
    <3>2. row[s].id \in Ids /\ onchain[row[s].id] # NONE
      BY <2>3, <2>5 DEF Row, RowOK
    <3>3. /\ x \in Memory /\ x.op = "list" /\ x.pc = "send" /\ x.sid = s /\ x.id = row[s].id
          /\ x.outcome = "CRASHED" /\ x.sig = "CRASHED" /\ x.result = NONE
      BY <1>0, <2>1, <2>3, <3>2 DEF Memory, Pcs, Outcomes
    <3> HIDE DEF x
    <3>4. TaskOK(x, onchain, row, reached)
      BY <2>3, <3>2, <3>3, NoneFacts DEF TaskOK, Paying, NONE
    <3> QED BY <1>0, <2>1, <3>1, <3>3, <3>4, MemoryMoves
  <2> QED BY <2>4, <2>5
<1>6. CASE RecoverOnchain(t)
  <2>1. PICK id \in ActiveIds : SendOutcome(t, "recover", NONE, id, "CRASHED")
    BY <1>6 DEF RecoverOnchain
  <2>2. id \in Ids /\ onchain[id] # NONE
    BY DEF ActiveIds, NONE
  <2>3. UNCHANGED <<onchain, pool, row, game, reached>>
    BY <1>6 DEF RecoverOnchain
  <2> QED BY <1>0, <2>1, <2>2, <2>3, SendKeeps, NoneFacts
<1>7. CASE AnswerForced(t)
  <2>1. Done(t) /\ UNCHANGED <<onchain, pool, row, game, reached>>
    BY <1>7 DEF AnswerForced
  <2> QED BY <1>0, <2>1, DoneMoves
<1>8. CASE PersistRecovered(t)
  <2>1. /\ task[t].pc = "sent" /\ UNCHANGED <<onchain, pool, game, reached>> /\ Done(t)
        /\ \/ row' = row
           \/ \E s \in Sids :
                /\ IF HasRow(task[t].id) THEN row[s].id = task[t].id ELSE s \in Fresh
                /\ row' = [row EXCEPT ![s] = [id |-> task[t].id, status |-> "CRASHED",
                                              sig |-> "CRASHED", tx |-> "HASH"]]
    BY <1>8 DEF PersistRecovered, At
  <2>2. task[t].id \in Ids /\ onchain[task[t].id] # NONE
    BY <1>0, <2>1 DEF TaskOK, Paying
  <2>3. ASSUME NEW s \in Sids, row[s].id = task[t].id \/ s \in Fresh,
               row' = [row EXCEPT ![s] = [id |-> task[t].id, status |-> "CRASHED",
                                              sig |-> "CRASHED", tx |-> "HASH"]]
        PROVE  PayInv'
    <3> DEFINE r == [id |-> task[t].id, status |-> "CRASHED", sig |-> "CRASHED", tx |-> "HASH"]
    <3>1. r \in Row /\ RowOK(r, onchain, reached) /\ r.id = task[t].id
      BY <2>2 DEF Row, RowOK, Outcomes
    <3>2. row' = [row EXCEPT ![s] = r]
      BY <2>3
    <3> HIDE DEF r
    <3>3. row'[s] = r
      BY <1>0, <3>2 DEF Shape
    <3>4. Unused(s) \/ Kept(s, row, row')
      BY <2>2, <2>3, <3>1, <3>3, NoneFacts DEF Kept, Fresh
    <3> QED BY <1>0, <2>1, <3>1, <3>2, <3>4, IdleFacts, RowMoves DEF Done
  <2> QED BY <1>0, <2>1, <2>3, DoneMoves
<1> QED BY <1>1, <1>2, <1>3, <1>4, <1>5, <1>6, <1>7, <1>8 DEF ForceRequest

----------------------------------------------------------------------------
(* The other routes                                                        *)

\* A field of the row that t holds: its stored signature or its transaction.
LEMMA FieldKeeps ==
    ASSUME PayInv, UNCHANGED <<onchain, pool, game, reached>>,
           NEW s \in Sids, NEW t \in Tasks, NEW x \in Memory, TaskOK(x, onchain, row, reached),
           task' = [task EXCEPT ![t] = x],
           NEW field \in {"sig", "tx"}, NEW v,
           field = "sig" => v \in Outcomes \cup {NONE},
           field = "tx" => v \in {NONE, "HASH", "SETTLED", "CLEARED"},
           row' = IF row[s] = NoRow THEN row ELSE [row EXCEPT ![s][field] = v],
           row[s] # NoRow /\ field = "sig" /\ v = "CASHED_OUT" => row[s].id \in reached,
           row[s] # NoRow /\ field = "tx" /\ v = "SETTLED" => onchain[row[s].id] # "ACTIVE"
    PROVE  PayInv'
<1>1. row[s] \in Row \cup {NoRow} /\ RowOK(row[s], onchain, reached) /\ Shape
  BY DEF PayInv, Shape
<1>2. CASE row[s] = NoRow
  BY <1>2, MemoryMoves
<1>3. CASE row[s] # NoRow /\ field = "sig"
  <2> DEFINE r == [row[s] EXCEPT !.sig = v]
  <2>1. r \in Row /\ r.id = row[s].id /\ r.sig = v /\ r.status = row[s].status /\ r.tx = row[s].tx
    BY <1>1, <1>3 DEF Row
  <2>2. row' = [row EXCEPT ![s] = r]
    BY <1>1, <1>3 DEF Shape
  <2> HIDE DEF r
  <2>3. RowOK(r, onchain, reached)
    BY <1>1, <1>3, <2>1 DEF RowOK
  <2> QED BY <1>3, <2>1, <2>2, <2>3, RowRewritten
<1>4. CASE row[s] # NoRow /\ field = "tx"
  <2> DEFINE r == [row[s] EXCEPT !.tx = v]
  <2>1. r \in Row /\ r.id = row[s].id /\ r.tx = v /\ r.status = row[s].status /\ r.sig = row[s].sig
    BY <1>1, <1>4 DEF Row
  <2>2. row' = [row EXCEPT ![s] = r]
    BY <1>1, <1>4 DEF Shape
  <2> HIDE DEF r
  <2>3. RowOK(r, onchain, reached)
    BY <1>1, <1>4, <2>1 DEF RowOK
  <2> QED BY <1>4, <2>1, <2>2, <2>3, RowRewritten
<1> QED BY <1>2, <1>3, <1>4

LEMMA RouteKeeps ==
    ASSUME PayInv, NEW t \in Requests, Route(t)
    PROVE  PayInv'
<1>0. Shape /\ t \in Tasks /\ task[t] \in Memory /\ TaskOK(task[t], onchain, row, reached)
  BY NoneFacts DEF PayInv, Shape
<1>1. CASE SubmitSettlement(t)
  <2>1. PICK s \in Sids :
           /\ Ended(s) /\ row[s].tx = NONE
           /\ LET status == row[s].status
                  Send(sig) == task' = [task EXCEPT ![t] = [Idle EXCEPT !.op = "submit",
                      !.pc = "send", !.sid = s, !.id = row[s].id, !.outcome = status, !.sig = sig]]
              IN  \/ row[s].sig # NONE /\ Send(row[s].sig) /\ UNCHANGED row
                  \/ Send(status) /\ row' = [row EXCEPT ![s].sig = status]
    BY <1>1 DEF SubmitSettlement
  <2> DEFINE X(sig) == [Idle EXCEPT !.op = "submit", !.pc = "send", !.sid = s, !.id = row[s].id,
                            !.outcome = row[s].status, !.sig = sig]
  <2>2. /\ row[s] \in Row /\ row[s] # NoRow /\ RowOK(row[s], onchain, reached)
        /\ row[s].status \in Outcomes /\ row[s].id \in Ids /\ row[s].sig \in Outcomes \cup {NONE}
    <3>1. row[s] \in Row \cup {NoRow} /\ row[s].status \in Outcomes /\ RowOK(row[s], onchain, reached)
      BY <1>0, <2>1 DEF Ended, Shape, PayInv
    <3>2. row[s] # NoRow
      BY <3>1, NoneFacts
    <3> QED BY <3>1, <3>2 DEF Row
  <2>3. ASSUME NEW sig \in Outcomes \cup {NONE}, sig \in {row[s].sig, row[s].status}
        PROVE  X(sig) \in Memory /\ TaskOK(X(sig), onchain, row, reached)
    <3>1. /\ X(sig) \in Memory /\ X(sig).op = "submit" /\ X(sig).pc = "send" /\ X(sig).sid = s
          /\ X(sig).id = row[s].id /\ X(sig).outcome = row[s].status /\ X(sig).sig = sig
          /\ X(sig).result = NONE
      BY <2>2 DEF Idle, Memory, Ops, Pcs
    <3> HIDE DEF X
    <3> QED BY <2>2, <2>3, <3>1 DEF TaskOK, Paying, RowOK, NONE
  <2>4. UNCHANGED <<onchain, pool, game, reached>>
    BY <1>1 DEF SubmitSettlement
  <2>5. CASE row' = row /\ task' = [task EXCEPT ![t] = X(row[s].sig)]
    <3> HIDE DEF X
    <3> QED BY <1>0, <2>2, <2>3, <2>4, <2>5, MemoryMoves
  <2>6. CASE row' = [row EXCEPT ![s].sig = row[s].status] /\ task' = [task EXCEPT ![t] = X(row[s].status)]
    <3> HIDE DEF X
    <3>1. row[s].status = "CASHED_OUT" => row[s].id \in reached
      BY <2>2 DEF RowOK
    <3>2. row' = IF row[s] = NoRow THEN row ELSE [row EXCEPT ![s]["sig"] = row[s].status]
      BY <2>2, <2>6
    <3> QED BY <1>0, <2>2, <2>3, <2>4, <2>6, <3>1, <3>2, FieldKeeps
  <2> QED BY <2>1, <2>5, <2>6
<1>2. CASE PersistSubmitted(t)
  <2> DEFINE s == task[t].sid
             x == [task[t] EXCEPT !.pc = "send", !.again = TRUE, !.sig = task[t].outcome, !.result = NONE]
             Set(field, value) ==
               row' = IF row[s] = NoRow THEN row ELSE [row EXCEPT ![s][field] = value]
  <2>1. /\ task[t].op = "submit" /\ task[t].pc = "sent" /\ UNCHANGED <<onchain, pool, game, reached>>
        /\ \/ Set("sig", task[t].outcome) /\ task' = [task EXCEPT ![t] = x]
           \/ Done(t) /\ row' = row
           \/ Done(t) /\ Set("tx", Marked(task[t].result))
    BY <1>0, <1>2 DEF PersistSubmitted, At, Shape
  <2>2. /\ s \in Sids /\ task[t].id \in Ids /\ task[t].outcome \in Outcomes
        /\ task[t].outcome = "CASHED_OUT" => task[t].id \in reached
        /\ row[s] # NoRow => row[s].id = task[t].id
    BY <1>0, <2>1 DEF TaskOK, Paying
  <2>3. CASE Set("sig", task[t].outcome) /\ task' = [task EXCEPT ![t] = x]
    <3>1. /\ x \in Memory /\ x.op = "submit" /\ x.pc = "send" /\ x.sid = s /\ x.id = task[t].id
          /\ x.outcome = task[t].outcome /\ x.sig = task[t].outcome /\ x.result = NONE
      BY <1>0, <2>1, <2>2 DEF Memory, Pcs
    <3> HIDE DEF x
    <3>2. TaskOK(x, onchain, row, reached)
      BY <1>0, <2>2, <3>1 DEF TaskOK, Paying, NONE
    <3> QED BY <1>0, <2>1, <2>2, <2>3, <3>1, <3>2, FieldKeeps
  <2>4. CASE Done(t) /\ row' = row
    BY <1>0, <2>1, <2>4, DoneMoves
  <2>5. CASE Done(t) /\ Set("tx", Marked(task[t].result))
    <3>1. Marked(task[t].result) \in {NONE, "HASH", "SETTLED", "CLEARED"}
          /\ (Marked(task[t].result) = "SETTLED" => onchain[task[t].id] # "ACTIVE")
      BY <1>0 DEF Marked, NONE, TaskOK
    <3> QED BY <1>0, <2>1, <2>2, <2>5, <3>1, IdleFacts, FieldKeeps DEF Done
  <2> QED BY <2>1, <2>3, <2>4, <2>5
<1>3. CASE ReadPending(t)
  <2> DEFINE rows == {s \in Sids : Ended(s) /\ row[s].tx = NONE}
             x == [Idle EXCEPT !.op = "pending", !.pc = "next", !.todo = rows]
  <2>1. task' = [task EXCEPT ![t] = x] /\ UNCHANGED <<onchain, pool, row, game, reached>>
    BY <1>3 DEF ReadPending
  <2>2. rows \subseteq Sids
    OBVIOUS
  <2> HIDE DEF rows
  <2>3. x \in Memory /\ TaskOK(x, onchain, row, reached)
    BY <2>2, QuietMemory DEF Idle, Memory, Ops, Pcs, Paying
  <2> HIDE DEF x
  <2> QED BY <1>0, <2>1, <2>3, MemoryMoves
<1>4. CASE ClearPending(t)
  <2>1. PICK s \in task[t].todo :
           /\ row' = IF row[s] = NoRow \/ IsCurrentOnchainPending(s) THEN row
                     ELSE [row EXCEPT ![s].sig = NONE, ![s].tx = "CLEARED"]
           /\ IF task[t].todo = {s} THEN Done(t)
              ELSE task' = [task EXCEPT ![t].todo = @ \ {s}]
    BY <1>4 DEF ClearPending
  <2> DEFINE x == IF task[t].todo = {s} THEN Idle ELSE [task[t] EXCEPT !.todo = task[t].todo \ {s}]
             r == [row[s] EXCEPT !.sig = NONE, !.tx = "CLEARED"]
  <2>2. s \in Sids /\ UNCHANGED <<onchain, pool, game, reached>> /\ row[s] \in Row \cup {NoRow}
        /\ RowOK(row[s], onchain, reached) /\ task[t].pc = "next"
    BY <1>0, <1>4 DEF ClearPending, At, Memory, Shape, PayInv
  <2>3. task' = [task EXCEPT ![t] = x]
    BY <1>0, <2>1 DEF Done, Shape
  <2>4. x \in Memory /\ TaskOK(x, onchain, row, reached)
    BY <1>0, <2>2, IdleFacts DEF Memory, TaskOK
  <2> HIDE DEF x
  <2>5. CASE row' = row
    BY <1>0, <2>2, <2>3, <2>4, <2>5, MemoryMoves
  <2>6. CASE row[s] # NoRow /\ row' = [row EXCEPT ![s].sig = NONE, ![s].tx = "CLEARED"]
    <3>1. r \in Row /\ r.id = row[s].id /\ r.sig = NONE /\ r.tx = "CLEARED" /\ r.status = row[s].status
      BY <2>2, <2>6 DEF Row
    <3>2. row' = [row EXCEPT ![s] = r]
      BY <1>0, <2>2, <2>6 DEF Shape
    <3> HIDE DEF r
    <3>3. RowOK(r, onchain, reached)
      BY <2>2, <2>6, <3>1 DEF RowOK, NONE
    <3> QED BY <1>0, <2>2, <2>3, <2>4, <2>6, <3>1, <3>2, <3>3, RowRewritten
  <2> QED BY <2>1, <2>5, <2>6
<1>5. CASE ReadToClear(t)
  <2>1. PICK s \in Sids : Goto(t, "clear", "write", s, NONE)
    BY <1>5 DEF ReadToClear
  <2> DEFINE x == [Idle EXCEPT !.op = "clear", !.pc = "write", !.sid = s, !.id = NONE]
  <2>2. task' = [task EXCEPT ![t] = x] /\ UNCHANGED <<onchain, pool, row, game, reached>>
    BY <1>5, <2>1 DEF ReadToClear, Goto
  <2>3. /\ x \in Memory /\ x.pc = "write" /\ x.sid = s /\ x.id = NONE
        /\ x.outcome = NONE /\ x.sig = NONE /\ x.result = NONE
    BY DEF Idle, Memory, Ops, Pcs
  <2> HIDE DEF x
  <2>4. TaskOK(x, onchain, row, reached)
    BY <2>3, NoneFacts DEF TaskOK, Paying, NONE
  <2> QED BY <1>0, <2>2, <2>3, <2>4, MemoryMoves
<1>6. CASE ClearSettlement(t)
  <2>1. /\ task[t].sid \in Sids /\ Done(t) /\ UNCHANGED <<onchain, pool, game, reached>>
        /\ row' = IF row[task[t].sid] = NoRow THEN row ELSE [row EXCEPT ![task[t].sid]["tx"] = "HASH"]
    BY <1>0, <1>6 DEF ClearSettlement, At, TaskOK
  <2> QED BY <1>0, <2>1, IdleFacts, FieldKeeps DEF Done
<1> QED BY <1>1, <1>2, <1>3, <1>4, <1>5, <1>6 DEF Route

----------------------------------------------------------------------------
(* The listener, the recovery worker, and a restart                        *)

\* The listener tells a row of a pay-out only when the chain has made it.
LEMMA ListenerKeeps ==
    ASSUME PayInv, NEW s \in Sids, ObserveSettled(s)
    PROVE  PayInv'
<1> DEFINE told == IF onchain[row[s].id] = "CASHED_OUT" THEN "CASHED_OUT" ELSE "CRASHED"
           r == [row[s] EXCEPT !.tx = "HASH", !.status = told]
<1>0. Shape /\ ChainOK /\ row[s] \in Row /\ row[s] # NoRow /\ RowOK(row[s], onchain, reached)
  BY DEF PayInv, Shape, ObserveSettled
<1>1. row' = [row EXCEPT ![s] = r] /\ UNCHANGED <<onchain, pool, game, task, reached>>
  BY <1>0 DEF ObserveSettled, Shape
<1>2. /\ told \in Outcomes
      /\ told = "CASHED_OUT" => onchain[row[s].id] = "CASHED_OUT"
  BY DEF Outcomes
<1> HIDE DEF told
<1>3. /\ r \in Row /\ r.id = row[s].id /\ r.sig = row[s].sig /\ r.tx = "HASH" /\ r.status = told
      /\ row[s].id \in Ids
  BY <1>0, <1>2 DEF Row
<1> HIDE DEF r
<1>4. RowOK(r, onchain, reached)
  BY <1>0, <1>2, <1>3 DEF RowOK, ChainOK, PayoutWasEarned
<1>5. Sweeper \in Tasks /\ task[Sweeper] \in Memory /\ TaskOK(task[Sweeper], onchain, row, reached)
      /\ task' = [task EXCEPT ![Sweeper] = task[Sweeper]]
  BY <1>0, <1>1, NoneFacts DEF PayInv, Shape
<1> QED BY <1>0, <1>1, <1>3, <1>4, <1>5, RowRewritten

LEMMA SweepKeeps ==
    ASSUME PayInv, SweepClear \/ \E s \in Sids : SweepRead(s)
    PROVE  PayInv'
<1>0. Shape /\ Sweeper \in Tasks /\ task[Sweeper] \in Memory
      /\ TaskOK(task[Sweeper], onchain, row, reached)
  BY NoneFacts DEF PayInv, Shape
<1>1. CASE \E s \in Sids : SweepRead(s)
  <2>1. PICK s \in Sids : SweepRead(s)
    BY <1>1
  <2> DEFINE x == [Idle EXCEPT !.op = "sweep", !.pc = "write", !.sid = s, !.id = NONE]
  <2>2. task' = [task EXCEPT ![Sweeper] = x] /\ UNCHANGED <<onchain, pool, row, game, reached>>
    BY <2>1 DEF SweepRead, Goto
  <2>3. /\ x \in Memory /\ x.pc = "write" /\ x.sid = s /\ x.id = NONE
        /\ x.outcome = NONE /\ x.sig = NONE /\ x.result = NONE
    BY DEF Idle, Memory, Ops, Pcs
  <2> HIDE DEF x
  <2>4. TaskOK(x, onchain, row, reached)
    BY <2>3, NoneFacts DEF TaskOK, Paying, NONE
  <2> QED BY <1>0, <2>2, <2>3, <2>4, MemoryMoves
<1>2. CASE SweepClear
  <2>1. /\ task[Sweeper].sid \in Sids /\ Done(Sweeper) /\ UNCHANGED <<onchain, pool, game, reached>>
        /\ row' = IF row[task[Sweeper].sid] = NoRow THEN row
                  ELSE [row EXCEPT ![task[Sweeper].sid]["tx"] = NONE]
    BY <1>0, <1>2 DEF SweepClear, At, TaskOK
  <2> QED BY <1>0, <2>1, IdleFacts, FieldKeeps DEF Done, NONE
<1> QED BY <1>1, <1>2

LEMMA RestartKeeps ==
    ASSUME PayInv, Restart
    PROVE  PayInv'
<1>0. Shape /\ ChainOK
  BY DEF PayInv
<1> DEFINE given == {u \in Tasks : task[u].pc = "receipt"}
<1>1. /\ game' = NoGame /\ task' = [t \in Tasks |-> Idle] /\ UNCHANGED <<onchain, row, reached>>
      /\ pool' = pool \cup {[id |-> task[t].id, outcome |-> task[t].outcome] : t \in given}
  BY DEF Restart
<1>2. \A t \in given : /\ task[t].id \in Ids /\ task[t].outcome \in Outcomes
                       /\ task[t].outcome = "CASHED_OUT" => task[t].id \in reached
  BY DEF PayInv, TaskOK, Paying
<1>3. pool' \subseteq [id: Ids, outcome: Outcomes] /\ ChainOK'
  BY <1>0, <1>1, <1>2 DEF Shape, ChainOK, PayoutWasEarned
<1>4. task' \in [Tasks -> Memory] /\ \A u \in Tasks : TaskOK(task'[u], onchain, row, reached)
  BY <1>1, IdleFacts
<1> QED BY <1>0, <1>1, <1>3, <1>4 DEF PayInv, Shape, GameOK

LEMMA PayStep == PayInv /\ [Next]_vars => PayInv'
<1> SUFFICES ASSUME PayInv, [Next]_vars PROVE PayInv'
  OBVIOUS
<1>1. CASE UNCHANGED vars \/ OthersEnd
  BY <1>1 DEF vars, flowVars, OthersEnd, PayInv, Shape, ChainOK, PayoutWasEarned
<1>2. ASSUME NEW t \in Requests, Start(t) \/ End(t) \/ Submission(t) \/ ForceRequest(t) \/ Route(t)
      PROVE  PayInv'
  BY <1>2, StartKeeps, EndKeeps, SubmissionKeeps, ForceKeeps, RouteKeeps
<1>3. ASSUME NEW open \in BOOLEAN, Window(open) PROVE PayInv'
  BY <1>3, WindowKeeps
<1> QED BY <1>1, <1>2, <1>3, ChainSteps, ListenerKeeps, SweepKeeps, RestartKeeps DEF Next, Flow

----------------------------------------------------------------------------
\* A stake is paid out only for a run that stood on a checkpoint when its player asked
\* for it: no crash, retry, re-signing or recovery makes a win of another run.
THEOREM PayoutsAreEarned == Spec => []PayoutWasEarned
<1>1. PayInv => PayoutWasEarned
  BY DEF PayInv, ChainOK
<1> QED BY <1>1, PayInit, PayStep, PTL DEF Spec

\* A row marked as settled by somebody else is not still open on the chain.
THEOREM SettledMarksAreTrue == Spec => []SettledMarkIsTrue
<1>1. PayInv => SettledMarkIsTrue
  BY NoneFacts DEF PayInv, RowOK, SettledMarkIsTrue, NONE
<1> QED BY <1>1, PayInit, PayStep, PTL DEF Spec
============================================================================
