--------------------------- MODULE GameSettlement ---------------------------
(***************************************************************************)
(* GameSettlement.sol on top of the vault: on-chain sessions, the backend's *)
(* signed resolutions and the expiry anybody may call.                      *)
(*                                                                         *)
(* The backend may sign more than one resolution of a session: a crash and *)
(* a cash-out that raced, a refreshed deadline, the crash that clears an   *)
(* abandoned session.  Each stays usable until its deadline and may be     *)
(* submitted by anybody, again and again, so `signed' only grows.          *)
(***************************************************************************)
EXTENDS GameVault

CONSTANTS
    SessionIds, NoId,   \* bytes32 ids, bytes32(0)
    NoPlayer,           \* address(0)
    This,               \* the address of this settlement contract
    Signers,            \* keys the backend signs with, before and after a rotation
    FixedStake,         \* FIXED_STAKE_AMOUNT
    Scale,              \* MULTIPLIER_SCALE
    Multipliers,        \* finalMultiplierBp of the runs cashed out
    Ttl,                \* SETTLEMENT_SIGNATURE_TTL_SECONDS
    Delays,             \* sessionExpiryDelay values the owner may set
    MaxTime,            \* bound on block.timestamp
    MaxSigned           \* bound on the signatures given out

ASSUME IdsAreDistinct ==
    NoId \notin SessionIds /\ NoPlayer \notin Players /\ This \in Settlements

ASSUME AmountsAreNatural ==
    /\ FixedStake \in Nat \ {0} /\ Scale \in Nat \ {0} /\ Multipliers \subseteq Nat
    /\ Ttl \in Nat /\ Delays \subseteq Nat \ {0} /\ Delays # {} /\ MaxTime \in Nat

VARIABLES
    session,           \* sessions[id]: player, startedAt, active, settled
    activeSessionOf,
    backendSigner,
    expiryDelay,       \* sessionExpiryDelay
    paused,            \* the settlement contract's own pause
    now,               \* block.timestamp
    signed             \* resolutions a backend key has signed

sessionVars == <<session, activeSessionOf>>
configVars == <<backendSigner, expiryDelay, paused>>
settlementVars == <<sessionVars, configVars, now, signed>>
contractVars == <<vaultVars, settlementVars>>

----------------------------------------------------------------------------
SignedOutcomes == {"CASHED_OUT", "CRASHED"}

Session == [player: Players \cup {NoPlayer}, startedAt: 0..MaxTime,
            active: BOOLEAN, settled: BOOLEAN]

NoSession == [player |-> NoPlayer, startedAt |-> 0, active |-> FALSE, settled |-> FALSE]

PayoutOf(multiplier) == (FixedStake * multiplier) \div Scale

Resolution == [id: SessionIds, player: Players \cup {NoPlayer}, stake: {FixedStake},
               payout: {PayoutOf(m) : m \in Multipliers \cup {0}},
               multiplier: Multipliers \cup {0}, outcome: SignedOutcomes,
               deadline: 0..(MaxTime + Ttl), key: Signers]

SettlementInit ==
    /\ VaultInit
    /\ session = [s \in SessionIds |-> NoSession]
    /\ activeSessionOf = [p \in Players |-> NoId]
    /\ backendSigner \in Signers
    /\ expiryDelay \in Delays
    /\ paused = FALSE
    /\ now = 0
    /\ signed = {}

Exists(s) == session[s].player # NoPlayer

\* Mutant: a session the player still has open does not refuse a new one.
NoCheckOfActive(p) == TRUE

NoActiveSession(p) ==
    activeSessionOf[p] # NoId => ~session[activeSessionOf[p]].active

StartSession(p, s) ==
    /\ ~paused
    /\ NoActiveSession(p)
    /\ ~Exists(s)
    /\ session' = [session EXCEPT ![s] =
           [player |-> p, startedAt |-> now, active |-> TRUE, settled |-> FALSE]]
    /\ activeSessionOf' = [activeSessionOf EXCEPT ![p] = s]
    /\ LockStake(This, p, FixedStake)
    /\ UNCHANGED <<configVars, now, signed>>

\* Mutant: a resolution is accepted for any session that exists.
AnyKnownSession(s) == Exists(s)

Open(s) == Exists(s) /\ ~session[s].settled /\ session[s].active

CloseSession(s, p) ==
    /\ session' = [session EXCEPT ![s].active = FALSE, ![s].settled = TRUE]
    /\ activeSessionOf' = [activeSessionOf EXCEPT ![p] = NoId]

Matches(r) ==
    /\ session[r.id].player = r.player
    /\ r.stake = FixedStake
    /\ r.payout = IF r.outcome = "CASHED_OUT" THEN PayoutOf(r.multiplier) ELSE 0

SettleWithSignature(r) ==
    /\ ~paused
    /\ now <= r.deadline
    /\ Open(r.id)
    /\ Matches(r)
    /\ r.key = backendSigner
    /\ CloseSession(r.id, r.player)
    /\ IF r.outcome = "CASHED_OUT"
       THEN SettleCashout(This, r.player, r.stake, r.payout)
       ELSE SettleCrash(This, r.player, r.stake)
    /\ UNCHANGED <<configVars, now, signed>>

\* Anybody may call it; the stake goes to the treasury.
ExpireSession(s) ==
    /\ ~paused
    /\ Open(s)
    /\ now > session[s].startedAt + expiryDelay
    /\ CloseSession(s, session[s].player)
    /\ SettleCrash(This, session[s].player, FixedStake)
    /\ UNCHANGED <<configVars, now, signed>>

----------------------------------------------------------------------------
(* Owner and environment                                                   *)

SetBackendSigner(key) ==
    /\ backendSigner' = key
    /\ UNCHANGED <<vaultVars, sessionVars, expiryDelay, paused, now, signed>>

SetSessionExpiryDelay(delay) ==
    /\ expiryDelay' = delay
    /\ UNCHANGED <<vaultVars, sessionVars, backendSigner, paused, now, signed>>

PauseSettlement ==
    /\ ~paused /\ paused' = TRUE
    /\ UNCHANGED <<vaultVars, sessionVars, backendSigner, expiryDelay, now, signed>>

UnpauseSettlement ==
    /\ paused /\ paused' = FALSE
    /\ UNCHANGED <<vaultVars, sessionVars, backendSigner, expiryDelay, now, signed>>

Tick ==
    /\ now < MaxTime /\ now' = now + 1
    /\ UNCHANGED <<vaultVars, sessionVars, configVars, signed>>

\* signSettlement: for a session the backend has seen active on chain, with the
\* player and the stake it read there.
SignSettlement(s, key) ==
    /\ Exists(s)
    /\ Cardinality(signed) < MaxSigned
    /\ \E outcome \in SignedOutcomes, m \in Multipliers :
         LET bp == IF outcome = "CASHED_OUT" THEN m ELSE 0 IN
         signed' = signed \cup
            {[id |-> s, player |-> session[s].player, stake |-> FixedStake,
              payout |-> PayoutOf(bp), multiplier |-> bp, outcome |-> outcome,
              deadline |-> now + Ttl, key |-> key]}
    /\ UNCHANGED <<vaultVars, sessionVars, configVars, now>>

VaultOnly ==
    /\ (\E p \in Players : Account(p)) \/ Anyone \/ Owner
    /\ UNCHANGED settlementVars

SettlementNext ==
    \/ VaultOnly
    \/ \E p \in Players, s \in SessionIds : StartSession(p, s)
    \/ \E r \in signed : SettleWithSignature(r)
    \/ \E s \in SessionIds : ExpireSession(s)
    \/ \E key \in Signers : SetBackendSigner(key)
    \/ \E delay \in Delays : SetSessionExpiryDelay(delay)
    \/ PauseSettlement \/ UnpauseSettlement \/ Tick
    \/ \E s \in SessionIds, key \in Signers : SignSettlement(s, key)

SettlementSpec == SettlementInit /\ [][SettlementNext]_contractVars

----------------------------------------------------------------------------
(* Properties                                                              *)

SettlementTypeOK ==
    /\ session \in [SessionIds -> Session]
    /\ activeSessionOf \in [Players -> SessionIds \cup {NoId}]
    /\ backendSigner \in Signers /\ expiryDelay \in Delays /\ paused \in BOOLEAN
    /\ now \in 0..MaxTime
    /\ signed \subseteq Resolution

\* The two contracts agree: a player's active session is the one his slot names.
ActiveIsRegistered ==
    /\ \A s \in SessionIds : session[s].active =>
          Exists(s) /\ ~session[s].settled /\ activeSessionOf[session[s].player] = s
    /\ \A p \in Players : activeSessionOf[p] # NoId =>
          session[activeSessionOf[p]].active /\ session[activeSessionOf[p]].player = p

\* The vault holds exactly one locked stake for a player with an active session
\* and none for another: whichever of a cash-out, a crash and an expiry closes a
\* session, with whichever of its signatures, it releases that stake and no more.
StakeIsLocked ==
    \A p \in Players : locked[p] = IF activeSessionOf[p] = NoId THEN 0 ELSE FixedStake

\* A stake leaves the lock only with the player's own active session, which that
\* step settles: replaying a resolution, using a second one signed for the same
\* run, or expiring it after it was settled takes no other stake.
OneClosePerStake ==
    [][\A p \in Players : locked'[p] < locked[p] =>
          \E s \in SessionIds : /\ session[s].player = p /\ session[s].active
                                /\ session'[s].settled /\ activeSessionOf[p] = s]_contractVars

\* A stake is never stranded in the vault: once its delay is over, anybody's call
\* can close the session, unless a contract is paused or the owner has named
\* another settlement contract (update_v2.md S1).
ExpiryIsPossible ==
    \A s \in SessionIds :
        /\ session[s].active /\ now > session[s].startedAt + expiryDelay
        /\ ~paused /\ ~vaultPaused /\ settlement = This
        => ENABLED ExpireSession(s)
============================================================================
