------------------------------ MODULE Passport ------------------------------
(***************************************************************************)
(* The EggPass of one player: the tier the backend computes from the last  *)
(* runs, the claim it signs, the page that asks for it in several tabs,    *)
(* and TrustPassport.sol, where a claim is mined whenever the chain gets   *)
(* to it, or never.  Nobody waits for the receipt of a claim, so a reverted*)
(* one changes nothing and is a stutter here.  The signer is the backend's *)
(* key and the caller is the player throughout; badges and season history, *)
(* which the backend never writes, are left out.                           *)
(***************************************************************************)
EXTENDS Integers, Sequences, FiniteSets, FiniteSetsExt

CONSTANTS
    Tabs,                      \* the player's open pages
    TIER_RULES,                \* tier -> [checkpoint, requiredCashouts]
    CP_INTERVAL, Window,       \* rows per checkpoint; runs looked at (20)
    Validity,                  \* PASSPORT_VALIDITY_SECONDS
    Hops,                      \* how far a run may get
    MaxRuns, MaxClock, MaxClaims    \* bounds

ASSUME RulesAssumption ==
    TIER_RULES \in Seq([checkpoint : Nat \ {0}, requiredCashouts : Nat \ {0}])
ASSUME NumbersAssumption ==
    /\ {CP_INTERVAL, Window, Validity} \subseteq Nat \ {0}
    /\ Hops \subseteq Nat /\ {MaxRuns, MaxClock, MaxClaims} \subseteq Nat

VARIABLES
    runs,                      \* finished runs of the player, oldest first
    clock,                     \* seconds, the backend's and the chain's
    passport,                  \* TrustPassport's record of the player
    usedNonces, verifiedHuman, paused,
    nonces,                    \* signatures made so far: the next random nonce
    sent,                      \* claims that were sent to the chain
    tabs                       \* tab -> [phase, status, claim]

chainVars == <<passport, usedNonces, verifiedHuman, paused>>
vars == <<runs, clock, chainVars, nonces, sent, tabs>>

-----------------------------------------------------------------------------
(* Tiers: lib/tiers.ts and evaluateEligibility.                            *)

\* Mutant: a crash at a checkpoint counts like a cash-out there.
AnyRun(rows, checkpoint) ==
    Cardinality({i \in DOMAIN rows : rows[i].hops \div CP_INTERVAL >= checkpoint})

countCashoutsAtOrAbove(rows, checkpoint) ==
    Cardinality({i \in DOMAIN rows :
        rows[i].cashedOut /\ rows[i].hops \div CP_INTERVAL >= checkpoint})

\* The last rule that is met, whether or not the ones below it are.
computeTier(rows) ==
    Max({0} \cup {t \in DOMAIN TIER_RULES :
        countCashoutsAtOrAbove(rows, TIER_RULES[t].checkpoint)
            >= TIER_RULES[t].requiredCashouts})

LastRuns(all) == SubSeq(all, Len(all) - Window + 1, Len(all))

Recent(all) == IF Len(all) <= Window THEN all ELSE LastRuns(all)
evaluateEligibility == computeTier(Recent(runs))

-----------------------------------------------------------------------------
(* TrustPassport.sol.                                                      *)

NoPassport == [tier |-> 0, issuedAt |-> 0, expiry |-> 0, revoked |-> FALSE]

SignatureIsGood(claim) ==
    /\ ~paused
    /\ claim.issuedAt > 0 /\ claim.expiry > claim.issuedAt /\ clock <= claim.expiry
    /\ claim.nonce \notin usedNonces

\* Mutant: whichever claim is mined last wins.
AnyAge(claim) == claim.tier > 0 /\ SignatureIsGood(claim)

ClaimAllowed(claim) ==
    /\ claim.tier > 0
    /\ SignatureIsGood(claim)
    /\ claim.issuedAt >= passport.issuedAt

claimWithSignature(claim) ==
    /\ claim.kind = "tier" /\ ClaimAllowed(claim)
    /\ usedNonces' = usedNonces \cup {claim.nonce}
    /\ passport' = [tier |-> claim.tier, issuedAt |-> claim.issuedAt,
                    expiry |-> claim.expiry, revoked |-> FALSE]
    /\ UNCHANGED <<verifiedHuman, paused>>

verifyHuman(claim) ==
    /\ claim.kind = "human" /\ SignatureIsGood(claim) /\ ~verifiedHuman
    /\ usedNonces' = usedNonces \cup {claim.nonce}
    /\ verifiedHuman' = TRUE
    /\ UNCHANGED <<passport, paused>>

revokePassport ==
    /\ ~passport.revoked
    /\ passport' = [passport EXCEPT !.revoked = TRUE]
    /\ UNCHANGED <<usedNonces, verifiedHuman, paused>>

unrevokePassport ==
    /\ passport.revoked
    /\ passport' = [passport EXCEPT !.revoked = FALSE]
    /\ UNCHANGED <<usedNonces, verifiedHuman, paused>>

setPaused ==
    /\ paused' = ~paused
    /\ UNCHANGED <<passport, usedNonces, verifiedHuman>>

\* Mutant: the gate asks for an active credential, as it did before S9.
ActiveOnly ==
    /\ passport.tier > 0 /\ ~passport.revoked /\ verifiedHuman
    /\ passport.expiry >= clock

\* The gate of money-valued rewards does not read the expiry.
canClaimMonetaryReward == passport.tier > 0 /\ ~passport.revoked /\ verifiedHuman

-----------------------------------------------------------------------------
(* The routes: status and issue-signature.                                 *)

\* readEggPass finds nothing where neither tier nor issuedAt was ever set.
Status(read) ==
    [eligible |-> evaluateEligibility > 0,
     valid    |-> ~read.revoked /\ read.expiry > clock /\ read.tier > 0,
     expired  |-> ~read.revoked /\ read.expiry <= clock /\ read.tier > 0,
     revoked  |-> read.revoked /\ (read.tier > 0 \/ read.issuedAt > 0)]

Issue(kind, tier) ==
    [kind |-> kind, tier |-> tier, issuedAt |-> clock,
     expiry |-> clock + Validity, nonce |-> nonces]

\* What a tier opens, the tiers below it opened: buildBenefits and buildTierRewards.
Unlocked(tier) == {t \in DOMAIN TIER_RULES : t <= tier}

\* The status shows the passport's tier while that is valid and no lower.
EffectiveTier(read) ==
    IF Status(read).valid THEN Max({read.tier, evaluateEligibility}) ELSE evaluateEligibility

\* buildProgression: how far the last runs are towards the first tier above.
Progression(rows, tier) ==
    LET locked == DOMAIN TIER_RULES \ Unlocked(tier)
        next == Min(locked)
        rule == TIER_RULES[next]
        qualified == countCashoutsAtOrAbove(rows, rule.checkpoint)
    IN  IF locked = {} THEN [tier |-> 0, current |-> 0, target |-> 0]
        ELSE [tier |-> next, current |-> Min({qualified, rule.requiredCashouts}),
              target |-> rule.requiredCashouts]

-----------------------------------------------------------------------------
(* The page.                                                               *)

\* What a tab holds before it has a status, and while it has no claim.
NoStatus == [eligible |-> FALSE, valid |-> FALSE, expired |-> FALSE, revoked |-> FALSE]
NoClaim == [kind |-> "tier", tier |-> 0, issuedAt |-> 0, expiry |-> 0, nonce |-> 0]

Idle(status) == [phase |-> "idle", status |-> status, claim |-> NoClaim]

\* A failed read of the chain is answered as if there were no passport.
LoadStatus(t) ==
    /\ tabs[t].phase = "idle"
    /\ \E read \in {passport, NoPassport} : tabs' = [tabs EXCEPT ![t] = Idle(Status(read))]
    /\ UNCHANGED <<runs, clock, chainVars, nonces, sent>>

canClaimPassport(status) ==
    /\ status.eligible \/ status.expired
    /\ ~status.valid /\ ~status.revoked

\* onClaimPassportClick goes by the status the tab loaded, however old; a
\* player who is not eligible gets the reason and no request is made.
PressClaim(t) ==
    /\ tabs[t].phase = "idle" /\ canClaimPassport(tabs[t].status)
    /\ tabs[t].status.eligible
    /\ tabs' = [tabs EXCEPT ![t].phase = "asking"]
    /\ UNCHANGED <<runs, clock, chainVars, nonces, sent>>

IssueSignature(t) ==
    /\ tabs[t].phase = "asking" /\ evaluateEligibility > 0
    /\ nonces < MaxClaims
    /\ tabs' = [tabs EXCEPT ![t].phase = "wallet",
                            ![t].claim = Issue("tier", evaluateEligibility)]
    /\ nonces' = nonces + 1
    /\ UNCHANGED <<runs, clock, chainVars, sent>>

NotEligible(t) ==
    /\ tabs[t].phase = "asking" /\ evaluateEligibility = 0
    /\ tabs' = [tabs EXCEPT ![t] = Idle(tabs[t].status)]
    /\ UNCHANGED <<runs, clock, chainVars, nonces, sent>>

\* The page says PASSPORT CLAIMED and keeps the status it had.
Confirm(t) ==
    /\ tabs[t].phase = "wallet"
    /\ sent' = sent \cup {tabs[t].claim}
    /\ tabs' = [tabs EXCEPT ![t] = Idle(tabs[t].status)]
    /\ UNCHANGED <<runs, clock, chainVars, nonces>>

Cancel(t) ==
    /\ tabs[t].phase = "wallet"
    /\ tabs' = [tabs EXCEPT ![t] = Idle(tabs[t].status)]
    /\ UNCHANGED <<runs, clock, chainVars, nonces, sent>>

-----------------------------------------------------------------------------
(* The rest of the world.                                                  *)

FinishRun(hops, cashedOut) ==
    /\ Len(runs) < MaxRuns
    /\ runs' = Append(runs, [hops |-> hops, cashedOut |-> cashedOut])
    /\ UNCHANGED <<clock, chainVars, nonces, sent, tabs>>

Tick ==
    /\ clock < MaxClock
    /\ clock' = clock + 1
    /\ UNCHANGED <<runs, chainVars, nonces, sent, tabs>>

\* The check for a human and its signature are made outside the repository.
SendHumanClaim ==
    /\ ~verifiedHuman /\ nonces < MaxClaims
    /\ sent' = sent \cup {Issue("human", 0)} /\ nonces' = nonces + 1
    /\ UNCHANGED <<runs, clock, chainVars, tabs>>

\* A claim may be mined late, never, or be sent again and tried twice.
Mine(claim) ==
    /\ claimWithSignature(claim) \/ verifyHuman(claim)
    /\ UNCHANGED <<runs, clock, nonces, sent, tabs>>

Owner ==
    /\ revokePassport \/ unrevokePassport \/ setPaused
    /\ UNCHANGED <<runs, clock, nonces, sent, tabs>>

Init ==
    /\ runs = <<>> /\ clock = 1
    /\ passport = NoPassport /\ usedNonces = {} /\ verifiedHuman = FALSE /\ paused = FALSE
    /\ nonces = 0 /\ sent = {}
    /\ tabs = [t \in Tabs |-> Idle(NoStatus)]

Next ==
    \/ \E t \in Tabs :
        \/ LoadStatus(t) \/ PressClaim(t) \/ IssueSignature(t) \/ NotEligible(t)
        \/ Confirm(t) \/ Cancel(t)
    \/ \E hops \in Hops, cashedOut \in BOOLEAN : FinishRun(hops, cashedOut)
    \/ Tick \/ SendHumanClaim
    \/ \E claim \in sent : Mine(claim)
    \/ Owner

Spec == Init /\ [][Next]_vars

-----------------------------------------------------------------------------
Tiers == 0..Len(TIER_RULES)
Claims == [kind : {"tier", "human"}, tier : Tiers, issuedAt : Nat, expiry : Nat,
           nonce : Nat]
Statuses == [eligible : BOOLEAN, valid : BOOLEAN, expired : BOOLEAN, revoked : BOOLEAN]

\* Every variable has its type, a tab holds a claim exactly while the wallet
\* asks, and no claim carries a nonce that was not drawn yet.
TypeOK ==
    /\ runs \in Seq([hops : Hops, cashedOut : BOOLEAN]) /\ clock \in Nat \ {0}
    /\ passport \in [tier : Tiers, issuedAt : Nat, expiry : Nat, revoked : BOOLEAN]
    /\ usedNonces \subseteq 0..(nonces - 1)
    /\ verifiedHuman \in BOOLEAN /\ paused \in BOOLEAN /\ nonces \in Nat
    /\ sent \subseteq Claims /\ \A c \in sent : c.nonce < nonces
    /\ tabs \in [Tabs -> [phase : {"idle", "asking", "wallet"},
                          status : Statuses, claim : Claims]]
    /\ \A t \in Tabs : IF tabs[t].phase = "wallet"
                       THEN tabs[t].claim.tier > 0 /\ tabs[t].claim.nonce < nonces
                       ELSE tabs[t].claim = NoClaim

\* The tier on the chain was earned: at some moment the last Window runs
\* held enough cash-outs at the tier's checkpoint (lib/tiers.ts with
\* evaluateEligibility and the claim issue-signature signs), however many claims of
\* how many tabs were mined since, and in whatever order.
Earned(tier, all) ==
    Cardinality({i \in DOMAIN Recent(all) :
        /\ Recent(all)[i].cashedOut
        /\ Recent(all)[i].hops >= TIER_RULES[tier].checkpoint * CP_INTERVAL})
      >= TIER_RULES[tier].requiredCashouts
TierWasEarned ==
    passport.tier > 0 => \E n \in 0..Len(runs) : Earned(passport.tier, SubSeq(runs, 1, n))

\* The tier a status shows was earned, and the tier it shows as the next one is not
\* met already by the runs it counts towards it (GET /status, buildProgression).
StatusIsFair ==
    \A read \in {passport, NoPassport} :
        LET tier == EffectiveTier(read)
            ahead == Progression(Recent(runs), tier)
        IN  /\ tier > 0 => \E n \in 0..Len(runs) : Earned(tier, SubSeq(runs, 1, n))
            /\ ahead.tier > 0 => tier < ahead.tier /\ ahead.current < ahead.target

\* The chain keeps the newest claim it ever accepted, in whatever order two
\* tabs' claims are mined (claimWithSignature's StalePassportClaim).
NewestClaimStands ==
    \A c \in sent : c.kind = "tier" /\ c.nonce \in usedNonces => c.issuedAt <= passport.issuedAt

\* A revocation ends by the owner's hand or by a signature that was never
\* used: a claim that was mined before cannot be tried again to undo it.
UsedClaimCannotRestore ==
    [][passport.revoked /\ ~passport'.revoked =>
        unrevokePassport \/ usedNonces # usedNonces']_vars

\* Once open, the gate of money-valued rewards closes by a revocation only:
\* no renewal and no expiry closes it (canClaimMonetaryReward, decision S9).
GateClosesByRevocation ==
    [][canClaimMonetaryReward /\ ~canClaimMonetaryReward' => revokePassport]_vars

\* A revocation lasts until the owner undoes it (TrustPassport.sol says of
\* unrevokePassport that without it a revoke erases a player forever).
RevocationLasts ==
    [][passport.revoked /\ ~passport'.revoked => unrevokePassport]_vars
=============================================================================
