---------------------------- MODULE PlayerProofs ----------------------------
(***************************************************************************)
(* What a player keeps beside tickets and stakes: the tier of the passport,*)
(* the division of the season, and the session that says who is asking.    *)
(* The three specifications share no variable; each has its section here.  *)
(***************************************************************************)
EXTENDS Passport, SeasonReset, SignIn, FiniteSetTheorems, SequenceTheorems, WellFoundedInduction,
        TLAPS

----------------------------------------------------------------------------
(***************************************************************************)
(* The passport, for every table of tiers, every spacing of checkpoints,   *)
(* every number of runs looked at and any number of tabs and claims.       *)
(*                                                                         *)
(* A tier that was signed once stays earned: the runs that earned it are a *)
(* prefix of all later ones.  The rest is about the order of claims.       *)
(***************************************************************************)
Run == [hops : Hops, cashedOut : BOOLEAN]
Rules == DOMAIN TIER_RULES

----------------------------------------------------------------------------
(* Least and greatest numbers                                              *)

\* Every set of natural numbers has a least element.
LEMMA LeastExists ==
    ASSUME NEW S, S \subseteq Nat, S # {}
    PROVE  Min(S) \in S /\ \A y \in S : Min(S) <= y
<1>1. PICK m \in S : \A k \in S : ~ (<<k, m>> \in OpToRel(<, Nat))
  BY NatLessThanWellFounded, WFMin
<1>2. \A k \in S : m <= k
  <2>1. ASSUME NEW k \in S PROVE ~ (k < m)
    BY <1>1 DEF OpToRel
  <2>2. m \in Nat /\ \A k \in S : k \in Nat
    OBVIOUS
  <2>3. ASSUME NEW k \in S PROVE m <= k
    BY <2>1, <2>2
  <2> QED BY <2>3
<1> QED BY <1>1, <1>2 DEF Min

\* One with a bound has a greatest element: the bound less the least distance to it.
LEMMA GreatestExists ==
    ASSUME NEW n \in Nat, NEW S, S \subseteq 0..n, S # {}
    PROVE  Max(S) \in S /\ \A y \in S : Max(S) >= y
<1> DEFINE T == {n - x : x \in S}
<1>1. \A x \in S : x \in Nat /\ n - x \in Nat
  <2>1. ASSUME NEW x \in S PROVE x \in Nat /\ n - x \in Nat
    <3>1. x \in 0..n
      OBVIOUS
    <3> QED BY <3>1
  <2> QED BY <2>1
<1>2. T \subseteq Nat /\ T # {}
  BY <1>1
<1>3. Min(T) \in T /\ \A y \in T : Min(T) <= y
  <2> HIDE DEF T
  <2> QED BY <1>2, LeastExists
<1>4. PICK x \in S : Min(T) = n - x
  BY <1>3
<1>5. \A y \in S : x >= y
  <2>1. ASSUME NEW y \in S PROVE x >= y
    <3>1. n - y \in T /\ x \in Nat /\ y \in Nat
      BY <1>1
    <3>2. n - x <= n - y
      <4> HIDE DEF T
      <4> QED BY <1>3, <1>4, <3>1
    <3> QED BY <3>1, <3>2
  <2> QED BY <2>1
<1> QED BY <1>5 DEF Max

----------------------------------------------------------------------------
(* Tiers                                                                   *)

\* A row is at or above a checkpoint exactly from its row on.
LEMMA Checkpoints ==
    ASSUME NEW h \in Nat, NEW c \in Nat, NEW n \in Nat \ {0}
    PROVE  (h \div n >= c) <=> (h >= c * n)
<1> DEFINE q == h \div n
           r == h % n
<1>1. q \in Int /\ r \in 0..(n - 1) /\ h = n * q + r
  OBVIOUS
<1> HIDE DEF q, r
<1>2. q >= c => n * (q - c) >= 0 /\ n * (q - c) = n * q - c * n
  BY <1>1
<1>3. q < c => n * (c - q - 1) >= 0 /\ n * (c - q - 1) = c * n - n * q - n
  BY <1>1
<1>4. n * q \in Int /\ c * n \in Int
  BY <1>1
<1>5. q >= c => h >= c * n
  BY <1>1, <1>2, <1>4
<1>6. q < c => h < c * n
  BY <1>1, <1>3, <1>4
<1>7. (q >= c) <=> (h >= c * n)
  BY <1>1, <1>4, <1>5, <1>6
<1> QED BY <1>7 DEF q

\* What the tables and sequences look like.
LEMMA RuleFacts ==
    /\ Len(TIER_RULES) \in Nat /\ Rules = 1..Len(TIER_RULES)
    /\ \A t \in Rules : /\ TIER_RULES[t].checkpoint \in Nat \ {0}
                        /\ TIER_RULES[t].requiredCashouts \in Nat \ {0}
<1> DEFINE R == [checkpoint : Nat \ {0}, requiredCashouts : Nat \ {0}]
<1>1. TIER_RULES \in Seq(R)
  BY RulesAssumption DEF RulesAssumption
<1>2. \A r \in R : r.checkpoint \in Nat \ {0} /\ r.requiredCashouts \in Nat \ {0}
  OBVIOUS
<1> HIDE DEF R
<1>3. Len(TIER_RULES) \in Nat /\ DOMAIN TIER_RULES = 1..Len(TIER_RULES)
  BY <1>1
<1>4. \A t \in 1..Len(TIER_RULES) : TIER_RULES[t] \in R
  BY <1>1
<1> QED BY <1>2, <1>3, <1>4 DEF Rules

LEMMA RunFacts ==
    ASSUME NEW rows \in Seq(Run)
    PROVE  /\ Len(rows) \in Nat /\ DOMAIN rows = 1..Len(rows)
           /\ \A i \in 1..Len(rows) : /\ rows[i] \in Run /\ rows[i].hops \in Nat
                                      /\ rows[i].cashedOut \in BOOLEAN
<1>1. \A r \in Run : r.hops \in Nat /\ r.cashedOut \in BOOLEAN
  BY NumbersAssumption DEF NumbersAssumption, Run
<1>2. Len(rows) \in Nat /\ DOMAIN rows = 1..Len(rows) /\ \A i \in 1..Len(rows) : rows[i] \in Run
  OBVIOUS
<1> QED BY <1>1, <1>2

LEMMA CountIsNatural ==
    ASSUME NEW rows \in Seq(Run), NEW c \in Nat
    PROVE  countCashoutsAtOrAbove(rows, c) \in Nat
<1>1. IsFiniteSet(1..Len(rows))
  BY RunFacts, FS_Interval
<1> QED BY <1>1, RunFacts, FS_Subset, FS_CardinalityType DEF countCashoutsAtOrAbove

\* The tier is zero or the highest rule that is met.
LEMMA TierFacts ==
    ASSUME NEW rows \in Seq(Run)
    PROVE  /\ computeTier(rows) \in Tiers
           /\ computeTier(rows) > 0 =>
                 /\ computeTier(rows) \in Rules
                 /\ countCashoutsAtOrAbove(rows, TIER_RULES[computeTier(rows)].checkpoint)
                       >= TIER_RULES[computeTier(rows)].requiredCashouts
           /\ \A t \in Rules :
                 countCashoutsAtOrAbove(rows, TIER_RULES[t].checkpoint)
                       >= TIER_RULES[t].requiredCashouts => t <= computeTier(rows)
<1> DEFINE Met == {t \in Rules : countCashoutsAtOrAbove(rows, TIER_RULES[t].checkpoint)
                                     >= TIER_RULES[t].requiredCashouts}
           S == {0} \cup Met
<1>1. S \subseteq 0..Len(TIER_RULES) /\ 0 \in S /\ Len(TIER_RULES) \in Nat /\ 0 \notin Met
  BY RuleFacts
<1>2. computeTier(rows) = Max(S)
  BY DEF computeTier, Rules
<1> HIDE DEF S
<1>3. Max(S) \in S /\ \A y \in S : Max(S) >= y
  BY <1>1, GreatestExists
<1>4. Max(S) \in Tiers
  BY <1>1, <1>3 DEF Tiers
<1>5. Max(S) > 0 => Max(S) \in Met
  BY <1>3 DEF S
<1>6. \A t \in Met : t <= Max(S)
  <2>1. \A t \in Met : t \in S /\ t \in Nat
    BY RuleFacts DEF S
  <2> QED BY <1>1, <1>3, <2>1
<1> QED BY <1>2, <1>4, <1>5, <1>6

\* The last runs are runs, too.
LEMMA RecentFacts == ASSUME NEW all \in Seq(Run) PROVE Recent(all) \in Seq(Run)
<1>1. CASE Len(all) <= Window
  BY <1>1 DEF Recent
<1>2. CASE ~(Len(all) <= Window)
  <2> DEFINE m == Len(all) - Window + 1
  <2>1. m \in Int /\ m..Len(all) \subseteq 1..Len(all) /\ m <= Len(all) /\ \A i \in 1..Len(all) : all[i] \in Run
    BY <1>2, RunFacts, NumbersAssumption DEF NumbersAssumption
  <2>2. LastRuns(all) \in Seq(Run)
    BY <2>1, SubSeqProperties DEF LastRuns
  <2> QED BY <1>2, <2>2 DEF Recent
<1> QED BY <1>1, <1>2

\* A tier that is computed from the last runs is earned by them.
LEMMA ComputedIsEarned ==
    ASSUME NEW all \in Seq(Run), computeTier(Recent(all)) > 0
    PROVE  Earned(computeTier(Recent(all)), all)
<1> DEFINE t == computeTier(Recent(all))
           rows == Recent(all)
<1>1. rows \in Seq(Run)
  BY RecentFacts
<1>2. /\ t \in Rules
      /\ countCashoutsAtOrAbove(rows, TIER_RULES[t].checkpoint) >= TIER_RULES[t].requiredCashouts
  BY <1>1, TierFacts
<1>3. TIER_RULES[t].checkpoint \in Nat /\ CP_INTERVAL \in Nat \ {0}
  BY <1>2, RuleFacts, NumbersAssumption DEF NumbersAssumption
<1>4. \A i \in DOMAIN rows : rows[i].hops \in Nat
  BY <1>1, RunFacts
<1>5. \A i \in DOMAIN rows : (rows[i].hops \div CP_INTERVAL >= TIER_RULES[t].checkpoint)
                                 <=> (rows[i].hops >= TIER_RULES[t].checkpoint * CP_INTERVAL)
  BY <1>3, <1>4, Checkpoints
<1> HIDE DEF t, rows
<1>6. {i \in DOMAIN rows : rows[i].cashedOut /\ rows[i].hops \div CP_INTERVAL >= TIER_RULES[t].checkpoint}
      = {i \in DOMAIN rows : rows[i].cashedOut /\ rows[i].hops >= TIER_RULES[t].checkpoint * CP_INTERVAL}
  BY <1>5
<1> QED BY <1>2, <1>6 DEF Earned, countCashoutsAtOrAbove, t, rows

\* It stays earned when more runs are played.
LEMMA EarnedStays ==
    ASSUME NEW all \in Seq(Run), NEW r \in Run, NEW n \in 0..Len(all)
    PROVE  SubSeq(Append(all, r), 1, n) = SubSeq(all, 1, n)
<1>1. Append(all, r) \in Seq(Run) /\ Len(Append(all, r)) = Len(all) + 1 /\ Len(all) \in Nat
  OBVIOUS
<1>2. \A i \in 1..n : Append(all, r)[i] \in Run /\ all[i] \in Run /\ Append(all, r)[i] = all[i]
  OBVIOUS
<1>3. /\ SubSeq(all, 1, n) \in Seq(Run) /\ Len(SubSeq(all, 1, n)) = n
      /\ \A i \in 1..n : SubSeq(all, 1, n)[i] = all[i]
  BY <1>1, <1>2, SubSeqProperties
<1>4. /\ SubSeq(Append(all, r), 1, n) \in Seq(Run) /\ Len(SubSeq(Append(all, r), 1, n)) = n
      /\ \A i \in 1..n : SubSeq(Append(all, r), 1, n)[i] = Append(all, r)[i]
  BY <1>1, <1>2, SubSeqProperties
<1> DEFINE a == SubSeq(all, 1, n)
           b == SubSeq(Append(all, r), 1, n)
<1>5. a \in Seq(Run) /\ b \in Seq(Run) /\ Len(a) = Len(b) /\ \A i \in 1..Len(a) : a[i] = b[i]
  BY <1>2, <1>3, <1>4
<1> HIDE DEF a, b
<1>6. a = b
  BY <1>5, SeqEqual
<1> QED BY <1>6 DEF a, b

\* What holds of every tier the backend has signed, when these are the runs.
Deserved(tier, all) ==
    tier > 0 => \E n \in 0..Len(all) : Earned(tier, SubSeq(all, 1, n))

LEMMA SignedIsDeserved ==
    ASSUME runs \in Seq(Run)
    PROVE  /\ evaluateEligibility \in Tiers
           /\ Deserved(evaluateEligibility, runs)
<1>1. Recent(runs) \in Seq(Run)
  BY RecentFacts
<1>2. evaluateEligibility \in Tiers
  BY <1>1, TierFacts DEF evaluateEligibility
<1>3. SubSeq(runs, 1, Len(runs)) = runs /\ Len(runs) \in 0..Len(runs)
  BY SubSeqFull
<1>4. evaluateEligibility > 0 => Earned(evaluateEligibility, SubSeq(runs, 1, Len(runs)))
  BY <1>3, ComputedIsEarned DEF evaluateEligibility
<1> QED BY <1>2, <1>3, <1>4 DEF Deserved

LEMMA DeservedStays ==
    ASSUME NEW all \in Seq(Run), NEW r \in Run, NEW tier \in Tiers, Deserved(tier, all)
    PROVE  Deserved(tier, Append(all, r))
<1>1. Len(all) \in Nat /\ Len(Append(all, r)) = Len(all) + 1
  OBVIOUS
<1>2. \A n \in 0..Len(all) : SubSeq(Append(all, r), 1, n) = SubSeq(all, 1, n) /\ n \in 0..Len(Append(all, r))
  BY <1>1, EarnedStays
<1> QED BY <1>2 DEF Deserved

----------------------------------------------------------------------------
(* Types                                                                   *)

Phases == {"idle", "asking", "wallet"}
TabRecords == [phase : Phases, status : Statuses, claim : Claims]

\* A tab as TypeOK wants it when n nonces have been drawn.
TabOK(x, n) ==
    /\ x \in TabRecords
    /\ x.phase = "wallet" => x.claim.tier > 0 /\ x.claim.nonce < n
    /\ x.phase # "wallet" => x.claim = NoClaim

LEMMA TierTypes ==
    /\ 0 \in Tiers /\ Tiers \subseteq Nat /\ NoClaim \in Claims /\ NoStatus \in Statuses
    /\ Validity \in Nat /\ Hops \subseteq Nat
<1>1. 0 \in Tiers /\ Tiers \subseteq Nat
  BY RuleFacts DEF Tiers
<1>2. Validity \in Nat /\ Hops \subseteq Nat
  BY NumbersAssumption DEF NumbersAssumption
<1> QED BY <1>1, <1>2 DEF NoClaim, NoStatus, Claims, Statuses

OtherTypes ==
    /\ runs \in Seq(Run) /\ clock \in Nat \ {0}
    /\ passport \in [tier : Tiers, issuedAt : Nat, expiry : Nat, revoked : BOOLEAN]
    /\ usedNonces \subseteq 0..(nonces - 1)
    /\ verifiedHuman \in BOOLEAN /\ paused \in BOOLEAN /\ nonces \in Nat
    /\ sent \subseteq Claims /\ \A c \in sent : c.nonce < nonces
TabTypes == tabs \in [Tabs -> TabRecords] /\ \A t \in Tabs : TabOK(tabs[t], nonces)

LEMMA TypeByTabs == TypeOK <=> OtherTypes /\ TabTypes
<1>1. tabs \in [Tabs -> TabRecords] =>
        ((\A t \in Tabs : IF tabs[t].phase = "wallet"
                         THEN tabs[t].claim.tier > 0 /\ tabs[t].claim.nonce < nonces
                         ELSE tabs[t].claim = NoClaim)
            <=> (\A t \in Tabs : TabOK(tabs[t], nonces)))
  <2> HIDE DEF TabRecords
  <2> QED BY DEF TabOK
<1>2. TabRecords = [phase : {"idle", "asking", "wallet"}, status : Statuses, claim : Claims]
      /\ Run = [hops : Hops, cashedOut : BOOLEAN]
  BY DEF TabRecords, Phases, Run
<1> HIDE DEF TabRecords, Run
<1> QED BY <1>1, <1>2 DEF TypeOK, OtherTypes, TabTypes

\* A tab's record after it moved, and what the other tabs keep.
LEMMA OneTabMoves ==
    ASSUME TypeOK, NEW t \in Tabs, NEW x, NEW n \in Nat, n >= nonces, TabOK(x, n),
           tabs' = [tabs EXCEPT ![t] = x]
    PROVE  tabs' \in [Tabs -> TabRecords] /\ \A u \in Tabs : TabOK(tabs'[u], n)
<1>1. /\ tabs \in [Tabs -> TabRecords] /\ nonces \in Nat
      /\ \A u \in Tabs : TabOK(tabs[u], nonces)
  BY TypeByTabs DEF OtherTypes, TabTypes
<1>2. x \in TabRecords
  BY DEF TabOK
<1>3. \A y \in TabRecords : y.claim.nonce \in Nat
  BY DEF TabRecords, Claims
<1>4. \A u \in Tabs : TabOK(tabs[u], n)
  <2> HIDE DEF TabRecords
  <2> QED BY <1>1, <1>3 DEF TabOK
<1> HIDE DEF TabRecords, TabOK
<1> QED BY <1>1, <1>2, <1>4

LEMMA IdleIsOK ==
    ASSUME NEW status \in Statuses, NEW n
    PROVE  TabOK(Idle(status), n)
BY TierTypes DEF TabOK, TabRecords, Phases, Idle

LEMMA InitType == Init => TypeOK
<1> SUFFICES ASSUME Init PROVE TypeOK
  OBVIOUS
<1>1. passport \in [tier : Tiers, issuedAt : Nat, expiry : Nat, revoked : BOOLEAN]
  BY TierTypes DEF Init, NoPassport
<1>2. \A t \in Tabs : tabs[t] = Idle(NoStatus) /\ TabOK(tabs[t], nonces)
  BY TierTypes, IdleIsOK DEF Init
<1>3. tabs \in [Tabs -> TabRecords]
  <2>1. Idle(NoStatus) \in TabRecords
    BY TierTypes, IdleIsOK DEF TabOK
  <2> HIDE DEF TabRecords
  <2> QED BY <2>1 DEF Init
<1>4. runs \in Seq(Run) /\ clock \in Nat \ {0} /\ usedNonces \subseteq 0..(nonces - 1)
      /\ verifiedHuman \in BOOLEAN /\ paused \in BOOLEAN /\ nonces \in Nat /\ sent = {}
  <2>1. <<>> \in Seq(Run) /\ 1 \in Nat \ {0} /\ 0 \in Nat
    OBVIOUS
  <2>2. FALSE \in BOOLEAN
    OBVIOUS
  <2> QED BY <2>1, <2>2, Zenon DEF Init
<1> HIDE DEF TabRecords, TabOK
<1> QED BY <1>1, <1>2, <1>3, <1>4, TypeByTabs DEF OtherTypes, TabTypes

LEMMA TypeStep == TypeOK /\ [Next]_vars => TypeOK'
<1> SUFFICES ASSUME TypeOK, [Next]_vars PROVE TypeOK'
  OBVIOUS
<1>0. OtherTypes /\ TabTypes
  BY TypeByTabs
<1>a. OtherTypes' /\ TabTypes' => TypeOK'
  BY TypeByTabs, PTL
<1>b. ASSUME UNCHANGED <<tabs, nonces>> PROVE TabTypes'
  BY <1>0, <1>b DEF TabTypes
<1>c. ASSUME NEW t \in Tabs, NEW x, TabOK(x, nonces'), tabs' = [tabs EXCEPT ![t] = x],
             nonces' \in {nonces, nonces + 1}
      PROVE  TabTypes'
  <2>1. nonces' \in Nat /\ nonces' >= nonces
    BY <1>0, <1>c DEF OtherTypes
  <2> QED BY <1>c, <2>1, OneTabMoves DEF TabTypes
<1>d. \A t \in Tabs : tabs[t].status \in Statuses /\ tabs[t].claim \in Claims
  BY <1>0 DEF TabTypes, TabRecords
<1>e. evaluateEligibility \in Tiers
  BY <1>0, SignedIsDeserved DEF OtherTypes
<1>f. ASSUME UNCHANGED <<runs, clock, chainVars, nonces, sent>> PROVE OtherTypes'
  BY <1>0, <1>f DEF OtherTypes, chainVars
<1>2. ASSUME NEW t \in Tabs, LoadStatus(t) PROVE TypeOK'
  <2>1. ASSUME NEW read \in {passport, NoPassport} PROVE Status(read) \in Statuses
    BY <1>0, TierTypes DEF OtherTypes, Status, Statuses, NoPassport
  <2>2. PICK read \in {passport, NoPassport} : tabs' = [tabs EXCEPT ![t] = Idle(Status(read))]
    BY <1>2 DEF LoadStatus
  <2>3. TabTypes'
    BY <1>2, <1>c, <2>1, <2>2, IdleIsOK DEF LoadStatus
  <2> QED BY <1>2, <1>a, <1>f, <2>3 DEF LoadStatus
<1>3. ASSUME NEW t \in Tabs, PressClaim(t) PROVE TypeOK'
  <2> DEFINE x == [tabs[t] EXCEPT !.phase = "asking"]
  <2>1. tabs' = [tabs EXCEPT ![t] = x] /\ nonces' = nonces
    BY <1>3 DEF PressClaim
  <2>2. tabs[t] \in TabRecords /\ tabs[t].claim = NoClaim
    BY <1>0, <1>3 DEF PressClaim, TabOK, TabTypes
  <2>3. TabOK(x, nonces')
    BY <2>2 DEF TabOK, TabRecords, Phases
  <2> HIDE DEF x
  <2>4. TabTypes'
    BY <1>c, <2>1, <2>3
  <2> QED BY <1>3, <1>a, <1>f, <2>4 DEF PressClaim
<1>4. ASSUME NEW t \in Tabs, IssueSignature(t) PROVE TypeOK'
  <2> DEFINE c == Issue("tier", evaluateEligibility)
             x == [tabs[t] EXCEPT !.phase = "wallet", !.claim = c]
  <2>1. c \in Claims /\ c.tier > 0 /\ c.nonce < nonces + 1
    BY <1>0, <1>4, <1>e, TierTypes DEF OtherTypes, Issue, Claims, IssueSignature
  <2> HIDE DEF c
  <2>2. tabs' = [tabs EXCEPT ![t].phase = "wallet", ![t].claim = c]
        /\ nonces' = nonces + 1 /\ UNCHANGED <<runs, clock, chainVars, sent>>
    BY <1>4 DEF IssueSignature, c
  <2>3. tabs' = [tabs EXCEPT ![t] = x]
    BY <2>2
  <2>4. tabs[t] \in TabRecords
    BY <1>0 DEF TabTypes
  <2>5. TabOK(x, nonces')
    BY <2>1, <2>2, <2>4 DEF TabOK, TabRecords, Phases
  <2> HIDE DEF x
  <2>6. TabTypes'
    BY <1>c, <2>2, <2>3, <2>5
  <2>7. OtherTypes'
    BY <1>0, <2>2 DEF OtherTypes, chainVars, Claims
  <2> QED BY <1>a, <2>6, <2>7
<1>5. ASSUME NEW t \in Tabs, NotEligible(t) PROVE TypeOK'
  <2>1. TabTypes'
    BY <1>5, <1>c, <1>d, IdleIsOK DEF NotEligible
  <2> QED BY <1>5, <1>a, <1>f, <2>1 DEF NotEligible
<1>6. ASSUME NEW t \in Tabs, Confirm(t) PROVE TypeOK'
  <2>1. TabTypes'
    BY <1>6, <1>c, <1>d, IdleIsOK DEF Confirm
  <2>2. tabs[t].claim.nonce < nonces /\ tabs[t].claim \in Claims
    BY <1>0, <1>6, <1>d DEF Confirm, TabOK, TabTypes
  <2>3. OtherTypes'
    BY <1>0, <1>6, <2>2 DEF OtherTypes, Confirm, chainVars
  <2> QED BY <1>a, <2>1, <2>3
<1>7. ASSUME NEW t \in Tabs, Cancel(t) PROVE TypeOK'
  <2>1. TabTypes'
    BY <1>7, <1>c, <1>d, IdleIsOK DEF Cancel
  <2> QED BY <1>7, <1>a, <1>f, <2>1 DEF Cancel
<1>8. ASSUME NEW hops \in Hops, NEW cashedOut \in BOOLEAN, FinishRun(hops, cashedOut) PROVE TypeOK'
  <2>1. [hops |-> hops, cashedOut |-> cashedOut] \in Run
    BY DEF Run
  <2>2. runs' \in Seq(Run)
    BY <1>0, <1>8, <2>1 DEF OtherTypes, FinishRun
  <2> QED BY <1>0, <1>8, <1>a, <1>b, <2>2 DEF OtherTypes, FinishRun, chainVars
<1>9. CASE Tick
  BY <1>0, <1>9, <1>a, <1>b DEF OtherTypes, Tick, chainVars
<1>10. CASE SendHumanClaim
  <2>1. Issue("human", 0) \in Claims /\ Issue("human", 0).nonce < nonces + 1
    BY <1>0, TierTypes DEF OtherTypes, Issue, Claims
  <2>2. \A t \in Tabs : TabOK(tabs[t], nonces + 1)
    <3>1. \A x \in TabRecords : x.claim.nonce \in Nat
      BY DEF TabRecords, Claims
    <3>2. \A x \in TabRecords : TabOK(x, nonces) => TabOK(x, nonces + 1)
      <4> HIDE DEF TabRecords
      <4> QED BY <1>0, <3>1 DEF TabOK, OtherTypes
    <3> QED BY <1>0, <3>2 DEF TabTypes
  <2>3. nonces' = nonces + 1 /\ tabs' = tabs /\ UNCHANGED <<runs, clock, chainVars>>
        /\ sent' = sent \cup {Issue("human", 0)}
    BY <1>10 DEF SendHumanClaim
  <2>4. TabTypes'
    BY <1>0, <2>2, <2>3 DEF TabTypes
  <2>5. \A c \in sent' : c \in Claims /\ c.nonce < nonces'
    BY <1>0, <2>1, <2>3 DEF OtherTypes, Claims
  <2>6. OtherTypes'
    BY <1>0, <2>3, <2>5 DEF OtherTypes, chainVars
  <2> QED BY <1>a, <2>4, <2>6
<1>11. ASSUME NEW mined \in sent, Mine(mined) PROVE TypeOK'
  <2>1. mined \in Claims /\ mined.nonce < nonces /\ mined.nonce \in Nat /\ mined.tier \in Tiers
        /\ mined.issuedAt \in Nat /\ mined.expiry \in Nat
    BY <1>0 DEF OtherTypes, Claims
  <2>2. UNCHANGED <<runs, clock, nonces, sent, tabs>> /\ TabTypes'
    BY <1>11, <1>b DEF Mine
  <2>3. usedNonces' = usedNonces \cup {mined.nonce}
    BY <1>11 DEF Mine, claimWithSignature, verifyHuman
  <2>4. ASSUME passport' \in [tier : Tiers, issuedAt : Nat, expiry : Nat, revoked : BOOLEAN],
               paused' = paused, verifiedHuman' \in BOOLEAN
        PROVE  TypeOK'
    <3>1. usedNonces' \subseteq 0..(nonces' - 1)
      <4>1. mined.nonce \in 0..(nonces - 1)
        BY <1>0, <2>1 DEF OtherTypes
      <4>2. usedNonces \subseteq 0..(nonces - 1)
        BY <1>0 DEF OtherTypes
      <4> QED BY <2>2, <2>3, <4>1, <4>2
    <3>2. OtherTypes'
      BY <1>0, <2>2, <2>4, <3>1, Zenon DEF OtherTypes
    <3> QED BY <1>a, <2>2, <3>2
  <2>5. CASE claimWithSignature(mined)
    <3>1. passport' \in [tier : Tiers, issuedAt : Nat, expiry : Nat, revoked : BOOLEAN]
      BY <2>1, <2>5 DEF claimWithSignature
    <3>2. paused' = paused /\ verifiedHuman' = verifiedHuman
      BY <2>5 DEF claimWithSignature
    <3>3. verifiedHuman' \in BOOLEAN
      BY <1>0, <3>2 DEF OtherTypes
    <3> QED BY <2>4, <3>1, <3>2, <3>3
  <2>6. CASE verifyHuman(mined)
    <3>1. passport' = passport /\ paused' = paused /\ verifiedHuman' = TRUE
      BY <2>6 DEF verifyHuman
    <3>2. verifiedHuman' \in BOOLEAN
      BY <3>1
    <3> QED BY <1>0, <2>4, <3>1, <3>2 DEF OtherTypes
  <2> QED BY <1>11, <2>5, <2>6 DEF Mine
<1>12. CASE Owner
  <2>1. UNCHANGED <<runs, clock, nonces, sent, tabs>> /\ TabTypes'
    BY <1>12, <1>b DEF Owner
  <2> QED BY <1>0, <1>12, <1>a, <2>1 DEF OtherTypes, Owner, revokePassport, unrevokePassport, setPaused
<1>13. CASE UNCHANGED vars
  BY <1>13, <1>a, <1>b, <1>f DEF vars
<1> QED BY <1>2, <1>3, <1>4, <1>5, <1>6, <1>7, <1>8, <1>9, <1>10, <1>11, <1>12, <1>13 DEF Next

\* The passport, the claims and the tabs are well typed, and no claim carries a nonce
\* that was not drawn yet.
THEOREM TypeCorrect == Spec => []TypeOK
BY InitType, TypeStep, PTL DEF Spec

----------------------------------------------------------------------------
(* The tier on the chain was earned                                        *)

EarnedInv ==
    /\ Deserved(passport.tier, runs)
    /\ \A c \in sent : Deserved(c.tier, runs)
    /\ \A t \in Tabs : Deserved(tabs[t].claim.tier, runs)

LEMMA NoTierIsDeserved == \A all : Deserved(0, all)
BY DEF Deserved

LEMMA EarnedInit == Init => EarnedInv
<1> SUFFICES ASSUME Init PROVE EarnedInv
  OBVIOUS
<1>1. passport.tier = 0 /\ sent = {} /\ \A t \in Tabs : tabs[t].claim.tier = 0
  BY DEF Init, NoPassport, Idle, NoClaim
<1> QED BY <1>1, NoTierIsDeserved DEF EarnedInv

\* While the runs stay, it is enough that every tier is an old one, none, or the one
\* that was just computed.
LEMMA EarnedByOldTiers ==
    ASSUME TypeOK, EarnedInv, runs' = runs,
           \/ passport'.tier = passport.tier
           \/ \E c \in sent : passport'.tier = c.tier,
           \A c \in sent' : c \in sent \/ c.tier = 0 \/ \E t \in Tabs : c = tabs[t].claim,
           \A t \in Tabs : \/ tabs'[t].claim = tabs[t].claim
                           \/ tabs'[t].claim.tier \in {0, evaluateEligibility}
    PROVE  EarnedInv'
<1>1. Deserved(evaluateEligibility, runs)
  BY TypeByTabs, SignedIsDeserved DEF OtherTypes
<1>2. Deserved(passport'.tier, runs')
  BY DEF EarnedInv
<1>3. \A c \in sent' : Deserved(c.tier, runs')
  BY NoTierIsDeserved DEF EarnedInv
<1>4. \A t \in Tabs : Deserved(tabs'[t].claim.tier, runs')
  BY <1>1, NoTierIsDeserved DEF EarnedInv
<1> QED BY <1>2, <1>3, <1>4 DEF EarnedInv

LEMMA EarnedStep == TypeOK /\ EarnedInv /\ [Next]_vars => EarnedInv'
<1> SUFFICES ASSUME TypeOK, EarnedInv, [Next]_vars PROVE EarnedInv'
  OBVIOUS
<1>0. tabs \in [Tabs -> TabRecords] /\ runs \in Seq(Run)
  BY TypeByTabs DEF OtherTypes, TabTypes
<1> HIDE DEF TabRecords
<1>1. NoClaim.tier = 0 /\ \A status : Idle(status).claim = NoClaim
  BY DEF NoClaim, Idle
<1>2. ASSUME NEW t \in Tabs, LoadStatus(t) PROVE EarnedInv'
  BY <1>0, <1>1, <1>2, EarnedByOldTiers DEF LoadStatus, chainVars
<1>3. ASSUME NEW t \in Tabs, PressClaim(t) PROVE EarnedInv'
  <2>1. \A u \in Tabs : tabs'[u].claim = tabs[u].claim
    BY <1>0, <1>3 DEF PressClaim, TabRecords
  <2> QED BY <1>3, <2>1, EarnedByOldTiers DEF PressClaim, chainVars
<1>4. ASSUME NEW t \in Tabs, IssueSignature(t) PROVE EarnedInv'
  <2>1. \A u \in Tabs : \/ tabs'[u].claim = tabs[u].claim
                        \/ tabs'[u].claim.tier = evaluateEligibility
    BY <1>0, <1>4 DEF IssueSignature, Issue, TabRecords
  <2> QED BY <1>4, <2>1, EarnedByOldTiers DEF IssueSignature, chainVars
<1>5. ASSUME NEW t \in Tabs, NotEligible(t) PROVE EarnedInv'
  BY <1>0, <1>1, <1>5, EarnedByOldTiers DEF NotEligible, chainVars
<1>6. ASSUME NEW t \in Tabs, Confirm(t) PROVE EarnedInv'
  BY <1>0, <1>1, <1>6, EarnedByOldTiers DEF Confirm, chainVars
<1>7. ASSUME NEW t \in Tabs, Cancel(t) PROVE EarnedInv'
  BY <1>0, <1>1, <1>7, EarnedByOldTiers DEF Cancel, chainVars
<1>8. ASSUME NEW hops \in Hops, NEW cashedOut \in BOOLEAN, FinishRun(hops, cashedOut) PROVE EarnedInv'
  <2> DEFINE r == [hops |-> hops, cashedOut |-> cashedOut]
  <2>1. r \in Run
    BY DEF Run
  <2>2. runs' = Append(runs, r) /\ UNCHANGED <<passport, sent, tabs>>
    BY <1>8 DEF FinishRun, chainVars
  <2> HIDE DEF r
  <2>3. \A tier \in Tiers : Deserved(tier, runs) => Deserved(tier, runs')
    BY <1>0, <2>1, <2>2, DeservedStays
  <2>4. passport.tier \in Tiers /\ (\A c \in sent : c.tier \in Tiers)
        /\ \A t \in Tabs : tabs[t].claim.tier \in Tiers
    BY <1>0, TypeByTabs DEF OtherTypes, TabTypes, Claims, TabRecords
  <2> QED BY <2>2, <2>3, <2>4 DEF EarnedInv
<1>9. CASE Tick
  BY <1>9, EarnedByOldTiers DEF Tick, chainVars
<1>10. CASE SendHumanClaim
  <2>1. Issue("human", 0).tier = 0
    BY DEF Issue
  <2> QED BY <1>10, <2>1, EarnedByOldTiers DEF SendHumanClaim, chainVars
<1>11. ASSUME NEW mined \in sent, Mine(mined) PROVE EarnedInv'
  <2>1. passport'.tier = passport.tier \/ passport'.tier = mined.tier
    BY <1>11 DEF Mine, claimWithSignature, verifyHuman
  <2> QED BY <1>11, <2>1, EarnedByOldTiers DEF Mine
<1>12. CASE Owner
  <2>1. passport'.tier = passport.tier
    BY <1>12, TypeByTabs DEF OtherTypes, Owner, revokePassport, unrevokePassport, setPaused
  <2> QED BY <1>12, <2>1, EarnedByOldTiers DEF Owner
<1>13. CASE UNCHANGED vars
  BY <1>13, EarnedByOldTiers DEF vars, chainVars
<1> QED BY <1>2, <1>3, <1>4, <1>5, <1>6, <1>7, <1>8, <1>9, <1>10, <1>11, <1>12, <1>13 DEF Next

\* The tier on the chain was earned: some moment's last runs held enough cash-outs at
\* its checkpoint, in whatever order the claims of several tabs are mined.
THEOREM TierIsEarned == Spec => []TierWasEarned
<1>1. EarnedInv => TierWasEarned
  BY DEF EarnedInv, Deserved, TierWasEarned
<1> QED BY <1>1, InitType, TypeStep, EarnedInit, EarnedStep, PTL DEF Spec

----------------------------------------------------------------------------
(* What a status shows                                                     *)

\* The smaller and the greater of two numbers.
LEMMA OfTwo ==
    ASSUME NEW a \in Nat, NEW b \in Nat
    PROVE  /\ Min({a, b}) = IF a <= b THEN a ELSE b
           /\ Max({a, b}) = IF a >= b THEN a ELSE b
<1>1. Min({a, b}) \in {a, b} /\ Min({a, b}) <= a /\ Min({a, b}) <= b
  BY LeastExists
<1>2. Max({a, b}) \in {a, b} /\ Max({a, b}) >= a /\ Max({a, b}) >= b
  <2>1. \E n \in Nat : {a, b} \subseteq 0..n
    <3>1. {a, b} \subseteq 0..(a + b) /\ a + b \in Nat
      OBVIOUS
    <3> QED BY <3>1
  <2> QED BY <2>1, GreatestExists
<1> QED BY <1>1, <1>2

\* The runs do not meet the rule they are counted towards when no tier they meet lies
\* above the one that is shown.
LEMMA ProgressIsShort ==
    ASSUME NEW rows \in Seq(Run), NEW tier \in Tiers, computeTier(rows) <= tier,
           Progression(rows, tier).tier > 0
    PROVE  /\ tier < Progression(rows, tier).tier
           /\ Progression(rows, tier).current < Progression(rows, tier).target
<1> DEFINE locked == Rules \ Unlocked(tier)
           next == Min(locked)
           found == countCashoutsAtOrAbove(rows, TIER_RULES[next].checkpoint)
           target == TIER_RULES[next].requiredCashouts
<1>1. locked # {}
  BY DEF Progression, Rules
<1>2. /\ Progression(rows, tier).tier = next
      /\ Progression(rows, tier).current = Min({found, target})
      /\ Progression(rows, tier).target = target
  BY <1>1 DEF Progression, Rules
<1>3. next \in locked /\ next \in Rules
  <2>1. locked \subseteq Nat
    BY RuleFacts
  <2> HIDE DEF locked
  <2>2. next \in locked
    BY <1>1, <2>1, LeastExists
  <2> QED BY <2>2 DEF locked
<1>4. tier < next /\ next \in Nat
  BY <1>3, RuleFacts DEF Unlocked, Tiers
<1> HIDE DEF next
<1>5. TIER_RULES[next].checkpoint \in Nat /\ target \in Nat
  BY <1>3, RuleFacts
<1>6. found \in Nat
  BY <1>5, CountIsNatural
<1>7. ~(found >= target)
  <2>1. found >= target => next <= computeTier(rows)
    BY <1>3, TierFacts
  <2>2. computeTier(rows) \in Nat /\ tier \in Nat
    BY TierFacts, RuleFacts DEF Tiers
  <2> QED BY <1>4, <2>1, <2>2
<1> HIDE DEF found, target
<1>8. Min({found, target}) < target
  BY <1>5, <1>6, <1>7, OfTwo
<1> QED BY <1>2, <1>4, <1>8

\* A status shows a tier that was earned, also when it is the passport's and the last
\* runs alone would show a lower one, and a next tier that these runs do not meet.
THEOREM StatusShowsEarned == Spec => []StatusIsFair
<1>1. TypeOK /\ EarnedInv => StatusIsFair
  <2> SUFFICES ASSUME TypeOK, EarnedInv, NEW read \in {passport, NoPassport}
               PROVE  LET tier == EffectiveTier(read)
                          ahead == Progression(Recent(runs), tier)
                      IN  /\ tier > 0 => \E n \in 0..Len(runs) : Earned(tier, SubSeq(runs, 1, n))
                          /\ ahead.tier > 0 => tier < ahead.tier /\ ahead.current < ahead.target
    BY DEF StatusIsFair
  <2> DEFINE tier == EffectiveTier(read)
  <2>1. runs \in Seq(Run) /\ Recent(runs) \in Seq(Run) /\ passport.tier \in Tiers
    BY TypeByTabs, RecentFacts DEF OtherTypes
  <2>2. evaluateEligibility \in Tiers /\ Deserved(evaluateEligibility, runs)
    BY <2>1, SignedIsDeserved
  <2>3. read.tier \in Tiers /\ Deserved(read.tier, runs)
    BY <2>1, NoTierIsDeserved, TierTypes DEF NoPassport, EarnedInv
  <2>4. read.tier \in Nat /\ evaluateEligibility \in Nat
    BY <2>2, <2>3, TierTypes
  <2>5. tier \in {read.tier, evaluateEligibility} /\ evaluateEligibility <= tier
    <3> DEFINE higher == Max({read.tier, evaluateEligibility})
    <3>1. higher \in {read.tier, evaluateEligibility} /\ evaluateEligibility <= higher
      BY <2>4, OfTwo
    <3>2. tier = higher \/ tier = evaluateEligibility
      BY DEF EffectiveTier
    <3> HIDE DEF higher, tier
    <3> QED BY <2>4, <3>1, <3>2
  <2>6. tier \in Tiers /\ Deserved(tier, runs)
    BY <2>2, <2>3, <2>5
  <2>7. computeTier(Recent(runs)) <= tier
    BY <2>5 DEF evaluateEligibility
  <2> HIDE DEF tier
  <2>8. Progression(Recent(runs), tier).tier > 0 =>
            /\ tier < Progression(Recent(runs), tier).tier
            /\ Progression(Recent(runs), tier).current < Progression(Recent(runs), tier).target
    BY <2>1, <2>6, <2>7, ProgressIsShort
  <2>9. tier > 0 => \E n \in 0..Len(runs) : Earned(tier, SubSeq(runs, 1, n))
    BY <2>6 DEF Deserved
  <2> QED BY <2>8, <2>9 DEF tier
<1> QED BY <1>1, InitType, TypeStep, EarnedInit, EarnedStep, PTL DEF Spec

----------------------------------------------------------------------------
(* The newest claim stands                                                 *)

\* A nonce is drawn once: claims that were sent are told apart by it, and the one a
\* wallet holds was not sent.  What the chain accepted was sent, and none is newer
\* than its record.
NonceInv ==
    /\ \A c, d \in sent : c.nonce = d.nonce => c = d
    /\ \A t \in Tabs : tabs[t].phase = "wallet" =>
          /\ \A c \in sent : c.nonce # tabs[t].claim.nonce
          /\ tabs[t].claim.nonce \notin usedNonces
    /\ \A t, u \in Tabs : tabs[t].phase = "wallet" /\ tabs[u].phase = "wallet"
                             /\ tabs[t].claim.nonce = tabs[u].claim.nonce => t = u
    /\ NewestClaimStands

\* Below, what keeps it: the tabs that hold a claim held it before, or it is new.
LEMMA NonceInit == Init => NonceInv
<1> SUFFICES ASSUME Init PROVE NonceInv
  OBVIOUS
<1>1. sent = {} /\ \A t \in Tabs : tabs[t].phase = "idle"
  BY DEF Init, Idle
<1> QED BY <1>1 DEF NonceInv, NewestClaimStands

\* Nothing was sent or mined, and the tabs that hold a claim held it before.
LEMMA NonceByOldTabs ==
    ASSUME NonceInv, UNCHANGED <<sent, usedNonces, passport>>,
           \A t \in Tabs : tabs'[t].phase = "wallet" =>
                              tabs[t].phase = "wallet" /\ tabs'[t].claim = tabs[t].claim
    PROVE  NonceInv'
BY DEF NonceInv, NewestClaimStands

LEMMA NonceStep == TypeOK /\ NonceInv /\ [Next]_vars => NonceInv'
<1> SUFFICES ASSUME TypeOK, NonceInv, [Next]_vars PROVE NonceInv'
  OBVIOUS
<1>0. /\ tabs \in [Tabs -> TabRecords] /\ nonces \in Nat /\ usedNonces \subseteq 0..(nonces - 1)
      /\ \A c \in sent : c \in Claims /\ c.nonce \in Nat /\ c.nonce < nonces /\ c.issuedAt \in Nat
      /\ passport.issuedAt \in Nat
  BY TypeByTabs DEF OtherTypes, TabTypes, Claims
<1>a. \A t \in Tabs : /\ tabs[t].claim.nonce \in Nat /\ tabs[t].claim.issuedAt \in Nat
                      /\ tabs[t].phase = "wallet" => tabs[t].claim.nonce < nonces
  BY TypeByTabs DEF TabTypes, TabOK, TabRecords, Claims
<1> HIDE DEF TabRecords
<1>1. \A status : Idle(status).phase = "idle"
  BY DEF Idle
<1>2. ASSUME NEW t \in Tabs, LoadStatus(t) PROVE NonceInv'
  BY <1>0, <1>1, <1>2, NonceByOldTabs DEF LoadStatus, chainVars
<1>3. ASSUME NEW t \in Tabs, PressClaim(t) PROVE NonceInv'
  <2>1. \A u \in Tabs : tabs'[u].phase = "wallet" => tabs'[u] = tabs[u]
    BY <1>0, <1>3 DEF PressClaim, TabRecords
  <2> QED BY <1>3, <2>1, NonceByOldTabs DEF PressClaim, chainVars
<1>4. ASSUME NEW t \in Tabs, IssueSignature(t) PROVE NonceInv'
  <2>1. /\ \A u \in Tabs \ {t} : tabs'[u] = tabs[u]
        /\ tabs'[t].claim.nonce = nonces
        /\ UNCHANGED <<sent, usedNonces, passport>>
    BY <1>0, <1>4 DEF IssueSignature, Issue, TabRecords, chainVars
  <2>2. nonces \notin usedNonces /\ \A c \in sent : c.nonce # nonces
    BY <1>0
  <2>3. \A u \in Tabs \ {t} : tabs'[u].phase = "wallet" => tabs'[u].claim.nonce # nonces
    BY <1>0, <1>a, <2>1
  <2> QED BY <2>1, <2>2, <2>3 DEF NonceInv, NewestClaimStands
<1>5. ASSUME NEW t \in Tabs, NotEligible(t) PROVE NonceInv'
  BY <1>0, <1>1, <1>5, NonceByOldTabs DEF NotEligible, chainVars
<1>6. ASSUME NEW t \in Tabs, Confirm(t) PROVE NonceInv'
  <2>1. /\ tabs'[t].phase = "idle" /\ \A u \in Tabs \ {t} : tabs'[u] = tabs[u]
        /\ tabs[t].phase = "wallet" /\ sent' = sent \cup {tabs[t].claim}
        /\ UNCHANGED <<usedNonces, passport>>
    BY <1>0, <1>1, <1>6 DEF Confirm, chainVars
  <2> QED BY <2>1 DEF NonceInv, NewestClaimStands
<1>7. ASSUME NEW t \in Tabs, Cancel(t) PROVE NonceInv'
  BY <1>0, <1>1, <1>7, NonceByOldTabs DEF Cancel, chainVars
<1>8. ASSUME NEW hops \in Hops, NEW cashedOut \in BOOLEAN, FinishRun(hops, cashedOut) PROVE NonceInv'
  BY <1>8, NonceByOldTabs DEF FinishRun, chainVars
<1>9. CASE Tick
  BY <1>9, NonceByOldTabs DEF Tick, chainVars
<1>10. CASE SendHumanClaim
  <2> DEFINE h == Issue("human", 0)
  <2>1. h.nonce = nonces /\ h.kind = "human"
    BY DEF Issue
  <2>2. sent' = sent \cup {h} /\ UNCHANGED <<tabs, usedNonces, passport>>
    BY <1>10 DEF SendHumanClaim, chainVars
  <2> HIDE DEF h
  <2>3. nonces \notin usedNonces /\ \A c \in sent : c.nonce # nonces
    BY <1>0
  <2>4. \A u \in Tabs : tabs[u].phase = "wallet" => tabs[u].claim.nonce # nonces
    BY <1>0, <1>a
  <2> QED BY <2>1, <2>2, <2>3, <2>4 DEF NonceInv, NewestClaimStands
<1>11. ASSUME NEW mined \in sent, Mine(mined) PROVE NonceInv'
  <2>1. UNCHANGED <<sent, tabs>> /\ usedNonces' = usedNonces \cup {mined.nonce}
    BY <1>11 DEF Mine, claimWithSignature, verifyHuman
  <2>2. \A c \in sent : c.nonce = mined.nonce => c = mined
    BY DEF NonceInv
  <2>3. \A c \in sent : c.kind = "tier" /\ c.nonce \in usedNonces => c.issuedAt <= passport.issuedAt
    BY DEF NonceInv, NewestClaimStands
  <2>4. CASE claimWithSignature(mined)
    <3>1. passport'.issuedAt = mined.issuedAt /\ mined.issuedAt >= passport.issuedAt
      BY <2>4 DEF claimWithSignature, ClaimAllowed
    <3>2. \A c \in sent : c.kind = "tier" /\ c.nonce \in usedNonces' => c.issuedAt <= passport'.issuedAt
      BY <1>0, <2>1, <2>2, <2>3, <3>1
    <3> QED BY <2>1, <3>2 DEF NonceInv, NewestClaimStands
  <2>5. CASE verifyHuman(mined)
    <3>1. passport' = passport /\ mined.kind = "human"
      BY <2>5 DEF verifyHuman
    <3> QED BY <2>1, <2>2, <3>1 DEF NonceInv, NewestClaimStands
  <2> QED BY <1>11, <2>4, <2>5 DEF Mine
<1>12. CASE Owner
  <2>1. passport'.issuedAt = passport.issuedAt /\ UNCHANGED <<sent, usedNonces, tabs>>
    BY <1>12, TypeByTabs DEF OtherTypes, Owner, revokePassport, unrevokePassport, setPaused
  <2> QED BY <2>1 DEF NonceInv, NewestClaimStands
<1>13. CASE UNCHANGED vars
  BY <1>13, NonceByOldTabs DEF vars, chainVars
<1> QED BY <1>2, <1>3, <1>4, <1>5, <1>6, <1>7, <1>8, <1>9, <1>10, <1>11, <1>12, <1>13 DEF Next

\* The record on the chain is never older than a claim it once accepted, in whatever
\* order the claims of several tabs are mined.
THEOREM NewestStands == Spec => []NewestClaimStands
<1>1. NonceInv => NewestClaimStands
  BY DEF NonceInv
<1> QED BY <1>1, InitType, TypeStep, NonceInit, NonceStep, PTL DEF Spec

----------------------------------------------------------------------------
(* Revocations and the gate                                                *)

\* Only the owner ends a revocation, or a signature that was never used.
THEOREM UsedClaimsRestoreNothing == Spec => UsedClaimCannotRestore
<1>1. TypeOK /\ [Next]_vars =>
        [passport.revoked /\ ~passport'.revoked =>
            unrevokePassport \/ usedNonces # usedNonces']_vars
  <2> SUFFICES ASSUME Next, passport.revoked, ~passport'.revoked,
                      usedNonces = usedNonces'
               PROVE  unrevokePassport
    OBVIOUS
  <2>1. passport' # passport
    OBVIOUS
  <2>2. ASSUME NEW mined \in sent, Mine(mined) PROVE FALSE
    <3>1. claimWithSignature(mined)
      BY <2>1, <2>2 DEF Mine, verifyHuman
    <3> QED BY <3>1 DEF claimWithSignature, ClaimAllowed, SignatureIsGood
  <2>3. ASSUME NEW t \in Tabs PROVE ~LoadStatus(t) /\ ~PressClaim(t) /\ ~IssueSignature(t)
                                    /\ ~NotEligible(t) /\ ~Confirm(t) /\ ~Cancel(t)
    BY <2>1 DEF LoadStatus, PressClaim, IssueSignature, NotEligible, Confirm, Cancel, chainVars
  <2>4. ~Tick /\ ~SendHumanClaim
    BY <2>1 DEF Tick, SendHumanClaim, chainVars
  <2>5. \A hops \in Hops, cashedOut \in BOOLEAN : ~FinishRun(hops, cashedOut)
    BY <2>1 DEF FinishRun, chainVars
  <2>6. Owner
    BY <2>2, <2>3, <2>4, <2>5 DEF Next
  <2>7. ~setPaused
    BY <2>1 DEF setPaused
  <2>8. ~revokePassport
    BY DEF revokePassport
  <2> QED BY <2>6, <2>7, <2>8 DEF Owner
<1> QED BY <1>1, InitType, TypeStep, PTL DEF Spec, UsedClaimCannotRestore

\* The gate of money-valued rewards, once open, closes by a revocation only.
THEOREM GateStaysOpen == Spec => GateClosesByRevocation
<1>1. TypeOK /\ [Next]_vars =>
        [canClaimMonetaryReward /\ ~canClaimMonetaryReward' => revokePassport]_vars
  <2> SUFFICES ASSUME TypeOK, Next, canClaimMonetaryReward, ~canClaimMonetaryReward'
               PROVE  revokePassport
    OBVIOUS
  <2>1. passport.tier > 0 /\ ~passport.revoked /\ verifiedHuman
    BY DEF canClaimMonetaryReward
  <2>2. ~(passport' = passport /\ verifiedHuman' = verifiedHuman)
    BY <2>1 DEF canClaimMonetaryReward
  <2>3. ASSUME NEW mined \in sent, Mine(mined) PROVE FALSE
    <3>1. claimWithSignature(mined)
      BY <2>1, <2>3 DEF Mine, verifyHuman
    <3>2. passport'.tier > 0 /\ ~passport'.revoked /\ verifiedHuman' = verifiedHuman
      BY <3>1 DEF claimWithSignature, ClaimAllowed
    <3> QED BY <2>1, <3>2 DEF canClaimMonetaryReward
  <2>4. ASSUME NEW t \in Tabs PROVE ~LoadStatus(t) /\ ~PressClaim(t) /\ ~IssueSignature(t)
                                    /\ ~NotEligible(t) /\ ~Confirm(t) /\ ~Cancel(t)
    BY <2>2 DEF LoadStatus, PressClaim, IssueSignature, NotEligible, Confirm, Cancel, chainVars
  <2>5. ~Tick /\ ~SendHumanClaim
    BY <2>2 DEF Tick, SendHumanClaim, chainVars
  <2>6. \A hops \in Hops, cashedOut \in BOOLEAN : ~FinishRun(hops, cashedOut)
    BY <2>2 DEF FinishRun, chainVars
  <2>7. Owner
    BY <2>3, <2>4, <2>5, <2>6 DEF Next
  <2>8. ~setPaused
    BY <2>2 DEF setPaused
  <2>9. ~unrevokePassport
    BY <2>1 DEF unrevokePassport
  <2> QED BY <2>7, <2>8, <2>9 DEF Owner
<1> QED BY <1>1, InitType, TypeStep, PTL DEF Spec, GateClosesByRevocation

----------------------------------------------------------------------------
(***************************************************************************)
(* The season reset, for any wallets, divisions, shares and points, and any*)
(* number of seasons, closes and failed ticks.                             *)
(*                                                                         *)
(* What the worker holds over its awaits fits the stage its season is in:  *)
(* SeasonInv.  While no tick fails and no credit comes late, what it wrote so*)
(* far is the plan of the frozen rows: DecideInv.                          *)
(***************************************************************************)
(* What the worker, the seasons and the rows have to do with each other.   *)

Queueing == {"readRewards", "reward"}
Freezing == {"readRanks", "rank", "readMoves", "move", "divide"}
Closing == {"passport", "open", "settle"}
Working == {"freeze"} \cup Freezing \cup Queueing \cup Closing

\* For a worker k, the seasons, their rows and who moved last.
WorkerFits(k, seasons, rows, moved) ==
    /\ k.pc \in Working => k.n \in Seasons
    /\ k.pc = "freeze" => seasons[k.n].status = "ACTIVE"
    /\ k.pc \in Freezing => seasons[k.n].status = "FREEZING"
    /\ k.pc \in Queueing \cup Closing => seasons[k.n].status = "SETTLING"
    /\ k.pc \in Closing => seasons[k.n].rewards
    /\ k.pc \in {"rank", "move", "divide", "reward"} => \A w \in k.todo : rows[k.n][w].row
    /\ k.pc \in {"move", "divide"} =>
           \A w \in k.todo : rows[k.n][w].movement = "NULL" /\ k.plan[w].movement # "NULL"
    /\ k.pc = "divide" => /\ k.who \in Wallets /\ moved[k.who] # k.n
                          /\ rows[k.n][k.who].row /\ rows[k.n][k.who].movement # "NULL"
    /\ k.pc = "reward" => \A w \in Wallets :
           rows[k.n][w].row /\ rows[k.n][w].movement = "PROMOTED" =>
               rows[k.n][w].pending \/ w \in k.todo

\* One row: a reward that is queued is that of the division.
RowFits(r) == r.row /\ r.pending => r.reward = TicketReward[r.division]

Queued(r) == r.row /\ r.movement = "PROMOTED" => r.pending

SeasonsFit(seasons, rows) ==
    /\ \A n \in Seasons : seasons[n].rewards =>
           /\ seasons[n].status \in {"SETTLING", "SETTLED"}
           /\ \A w \in Wallets : Queued(rows[n][w])
    /\ \A n, m \in Seasons : n < m /\ seasons[m] # NoSeason => seasons[n].rewards

\* A close of wallet w that found no row will insert the first one.
CloseFits(c, w, rows) ==
    /\ c.pc \in {"read", "write"} => c.n \in Seasons
    /\ c.pc = "write" /\ ~c.prev.row => ~rows[c.n][w].row

SeasonInv ==
    /\ SeasonTypeOK
    /\ WorkerFits(worker, season, sp, updatedBy)
    /\ SeasonsFit(season, sp)
    /\ \A n \in Seasons, w \in Wallets : RowFits(sp[n][w])
    /\ \A n \in Seasons, w \in Wallets :
           updatedBy[w] = n => sp[n][w].row /\ sp[n][w].movement # "NULL"
    /\ \A w \in Wallets : CloseFits(close[w], w, sp)

LEMMA CurrentSeasonFits ==
    /\ CurrentSeason \in Seasons \cup {0}
    /\ CurrentSeason # 0 => season[CurrentSeason].status \notin {"NONE", "SETTLED"}
    /\ \A n \in Seasons : season[n].status \notin {"NONE", "SETTLED"} => n <= CurrentSeason
<1> DEFINE open == {n \in Seasons : season[n].status \notin {"NONE", "SETTLED"}}
<1>1. {0} \cup open \in SUBSET (0..MaxSeason) /\ MaxSeason \in Nat
  BY BoundsAreNatural DEF Seasons
<1>2. CurrentSeason \in {0} \cup open /\ \A x \in {0} \cup open : x <= CurrentSeason
  <2> HIDE DEF open
  <2>1. CurrentSeason = Max({0} \cup open)
    BY Zenon DEF CurrentSeason, open
  <2> QED BY <1>1, <2>1, GreatestExists
<1> QED BY <1>2

LEMMA NoPointsArePoints == NoPoints \in Points /\ NoSeason \in Season /\ NoClose \in Close
BY BoundsAreNatural DEF NoPoints, Points, NoSeason, Season, Stage, NoClose, Close, Movement, Divisions

----------------------------------------------------------------------------
(* Ranks and plans                                                         *)

LEMMA RankIsNatural == ASSUME NEW rows, NEW S \in SUBSET Wallets, NEW w PROVE RankAmong(rows, S, w) \in Nat
<1>1. IsFiniteSet({v \in S : Outranks(rows, v, w)})
  BY WalletsAreNumbers, FS_Subset
<1>2. Cardinality({v \in S : Outranks(rows, v, w)}) \in Nat
  BY <1>1, FS_CardinalityType
<1> QED BY <1>2 DEF RankAmong

LEMMA PlanIsPlan == ASSUME NEW rows, NEW S \in SUBSET Wallets PROVE PlanFor(rows, S) \in Plan
<1> DEFINE peers(w) == {v \in S : rows[v].division = rows[w].division}
           this(w) == [rank |-> RankAmong(rows, peers(w), w), movement |-> MovementOf(rows, w, peers(w))]
<1>1. ASSUME NEW w \in Wallets PROVE this(w) \in [rank: Nat, movement: Movement]
  <2>1. RankAmong(rows, peers(w), w) \in Nat
    BY RankIsNatural
  <2>2. MovementOf(rows, w, peers(w)) \in Movement
    BY DEF MovementOf, Movement
  <2> QED BY <2>1, <2>2
<1>2. NoPlan \in Plan
  BY DEF NoPlan, Plan, Movement
<1>3. PlanFor(rows, S) = [w \in Wallets |-> IF w \notin S THEN NoPlan[w] ELSE this(w)]
  BY DEF PlanFor
<1> HIDE DEF this
<1> QED BY <1>1, <1>2, <1>3 DEF Plan

LEMMA PlanOfMember ==
    ASSUME NEW rows, NEW S \in SUBSET Wallets, NEW w \in S
    PROVE  LET peers == {v \in S : rows[v].division = rows[w].division} IN
           /\ PlanFor(rows, S)[w].rank = RankAmong(rows, peers, w)
           /\ PlanFor(rows, S)[w].movement = MovementOf(rows, w, peers)
           /\ PlanFor(rows, S)[w].movement # "NULL"
<1> DEFINE peers(v) == {u \in S : rows[u].division = rows[v].division}
           this(v) == [rank |-> RankAmong(rows, peers(v), v), movement |-> MovementOf(rows, v, peers(v))]
<1>1. PlanFor(rows, S) = [v \in Wallets |-> IF v \notin S THEN NoPlan[v] ELSE this(v)]
  BY DEF PlanFor
<1>2. MovementOf(rows, w, peers(w)) # "NULL"
  BY DEF MovementOf
<1>3. PlanFor(rows, S)[w] = this(w)
  <2> HIDE DEF this
  <2> QED BY <1>1
<1> QED BY <1>2, <1>3

LEMMA DivisionsStay ==
    ASSUME NEW d \in Divisions, NEW m \in Movement
    PROVE  NewDivision(d, m) \in Divisions
<1>1. Top \in Nat
  BY BoundsAreNatural
<1>2. \A a, b \in Int : Min({a, b}) = IF a <= b THEN a ELSE b
  BY DEF Min
<1>3. \A a, b \in Int : Max({a, b}) = IF a >= b THEN a ELSE b
  BY DEF Max
<1>4. Min({d + 1, Top}) \in Divisions
  BY <1>1, <1>2 DEF Divisions
<1>5. Max({d - 1, 0}) \in Divisions
  BY <1>1, <1>3 DEF Divisions
<1> QED BY <1>4, <1>5 DEF NewDivision

----------------------------------------------------------------------------
(* Steps, by what they change                                              *)

LEMMA WorkerMoves ==
    ASSUME SeasonInv, NEW k \in Worker, worker' = k, WorkerFits(k, season, sp, updatedBy),
           UNCHANGED <<season, sp, division, updatedBy>>, Rest
    PROVE  SeasonInv'
<1>1. UNCHANGED <<ended, close, credits, closes, faults, late, cut>>
  BY DEF Rest, closeVars, history
<1>2. SeasonTypeOK'
  BY <1>1 DEF SeasonInv, SeasonTypeOK
<1>3. SeasonsFit(season, sp)'
  BY DEF SeasonInv, SeasonsFit, Queued
<1>4. WorkerFits(worker, season, sp, updatedBy)'
  BY DEF WorkerFits
<1> QED BY <1>1, <1>2, <1>3, <1>4 DEF SeasonInv, RowFits, CloseFits

\* The status or a mark of season n.
LEMMA SeasonMoves ==
    ASSUME SeasonInv, NEW k \in Worker, worker' = k, NEW n \in Seasons, NEW new \in Season,
           season' = [season EXCEPT ![n] = new], WorkerFits(k, season', sp, updatedBy),
           new.rewards => /\ new.status \in {"SETTLING", "SETTLED"}
                          /\ \A w \in Wallets : Queued(sp[n][w]),
           season[n].rewards => new.rewards,
           season[n] = NoSeason => \A m \in Seasons : m < n => season[m].rewards,
           UNCHANGED <<sp, division, updatedBy>>, Rest
    PROVE  SeasonInv'
<1>1. UNCHANGED <<ended, close, credits, closes, faults, late, cut>>
  BY DEF Rest, closeVars, history
<1>2. season \in [Seasons -> Season] /\ season' \in [Seasons -> Season]
  BY DEF SeasonInv, SeasonTypeOK
<1>3. SeasonTypeOK'
  BY <1>1, <1>2 DEF SeasonInv, SeasonTypeOK
<1>4. SeasonsFit(season', sp)
  <2>1. \A m \in Seasons : season'[m] = IF m = n THEN new ELSE season[m]
    BY <1>2
  <2>2. \A m \in Seasons : season'[m].rewards =>
            /\ season'[m].status \in {"SETTLING", "SETTLED"}
            /\ \A w \in Wallets : Queued(sp[m][w])
    BY <2>1 DEF SeasonInv, SeasonsFit
  <2>3. ASSUME NEW m \in Seasons, NEW l \in Seasons, m < l, season'[l] # NoSeason
        PROVE  season'[m].rewards
    <3>1. season[m].rewards
      BY <2>1, <2>3 DEF SeasonInv, SeasonsFit
    <3> QED BY <2>1, <3>1
  <2> QED BY <2>2, <2>3 DEF SeasonsFit
<1>5. SeasonsFit(season, sp)'
  BY <1>4 DEF SeasonsFit, Queued
<1>6. WorkerFits(worker, season, sp, updatedBy)'
  BY DEF WorkerFits
<1> QED BY <1>1, <1>3, <1>5, <1>6 DEF SeasonInv, RowFits, CloseFits

\* What is written to the row of wallet w in season n.
LEMMA RowMoves ==
    ASSUME SeasonInv, NEW k \in Worker, worker' = k, NEW n \in Seasons, NEW w \in Wallets,
           NEW r \in Points, sp' = [sp EXCEPT ![n][w] = r], WorkerFits(k, season, sp', updatedBy),
           sp[n][w].row, r.row, sp[n][w].movement # "NULL" => r.movement # "NULL",
           RowFits(r), season[n].rewards => Queued(r),
           UNCHANGED <<season, division, updatedBy>>, Rest
    PROVE  SeasonInv'
<1>1. UNCHANGED <<ended, close, credits, closes, faults, late, cut>>
  BY DEF Rest, closeVars, history
<1>2. sp \in [Seasons -> [Wallets -> Points]] /\ sp' \in [Seasons -> [Wallets -> Points]]
  BY DEF SeasonInv, SeasonTypeOK
<1>3. SeasonTypeOK'
  BY <1>1, <1>2 DEF SeasonInv, SeasonTypeOK
<1>4. \A m \in Seasons, v \in Wallets : sp'[m][v] = IF m = n /\ v = w THEN r ELSE sp[m][v]
  BY <1>2
<1>5. SeasonsFit(season, sp)'
  <2>1. \A m \in Seasons, v \in Wallets : season[m].rewards => Queued(sp'[m][v])
    BY <1>4 DEF SeasonInv, SeasonsFit
  <2>2. SeasonsFit(season, sp')
    BY <2>1 DEF SeasonInv, SeasonsFit
  <2> QED BY <2>2 DEF SeasonsFit, Queued
<1>6. WorkerFits(worker, season, sp, updatedBy)'
  BY DEF WorkerFits
<1>7. \A m \in Seasons, v \in Wallets : RowFits(sp'[m][v])
  BY <1>4 DEF SeasonInv
<1>8. \A m \in Seasons, v \in Wallets :
          updatedBy[v] = m => sp'[m][v].row /\ sp'[m][v].movement # "NULL"
  BY <1>4 DEF SeasonInv
<1>9. \A v \in Wallets : CloseFits(close[v], v, sp')
  BY <1>4 DEF SeasonInv, CloseFits
<1>10. /\ \A m \in Seasons, v \in Wallets : RowFits(sp[m][v])'
       /\ \A v \in Wallets : CloseFits(close[v], v, sp)'
  BY <1>1, <1>7, <1>9 DEF RowFits, CloseFits
<1> QED BY <1>3, <1>5, <1>6, <1>8, <1>10 DEF SeasonInv

----------------------------------------------------------------------------
(* The scheduler                                                           *)

\* Where Goto, Begin and Written lead.
At(k, pc, todo) ==
    /\ k \in Worker /\ worker' = k
    /\ k.pc = pc /\ k.n = worker.n /\ k.todo = todo

LEMMA TickTypes ==
    ASSUME SeasonTypeOK
    PROVE  /\ worker \in Worker /\ worker.pc \in Pcs /\ worker.todo \in SUBSET Wallets
           /\ worker.n \in Seasons \cup {0} /\ worker.plan \in Plan /\ WorkerIdle \in Worker
           /\ \A pc \in Pcs, n \in Seasons \cup {0} : [WorkerIdle EXCEPT !.pc = pc, !.n = n] \in Worker
<1>1. worker \in Worker
  BY DEF SeasonTypeOK
<1>2. WorkerIdle \in Worker
  <2>1. NoPlan \in Plan
    BY DEF NoPlan, Plan, Movement
  <2> QED BY <2>1 DEF WorkerIdle, Worker, Pcs
<1>3. \A pc \in Pcs, n \in Seasons \cup {0} : [WorkerIdle EXCEPT !.pc = pc, !.n = n] \in Worker
  BY <1>2 DEF Worker
<1> QED BY <1>1, <1>2, <1>3 DEF Worker

LEMMA GotoLeads ==
    ASSUME SeasonTypeOK, NEW pc \in Pcs, Goto(pc)
    PROVE  \E k \in Worker : At(k, pc, worker.todo) /\ k.plan = worker.plan /\ k.who = worker.who
<1> DEFINE k == [worker EXCEPT !.pc = pc]
<1>1. worker \in Worker
  BY DEF SeasonTypeOK
<1>2. /\ k \in Worker /\ k.pc = pc /\ k.n = worker.n /\ k.todo = worker.todo
      /\ k.plan = worker.plan /\ k.who = worker.who
  BY <1>1 DEF Worker
<1>3. worker' = k
  BY DEF Goto
<1> HIDE DEF k
<1> QED BY <1>2, <1>3 DEF At

LEMMA BeginLeads ==
    ASSUME SeasonTypeOK, NEW pc \in Pcs, NEW S \in SUBSET Wallets, BeginWrites(pc, S)
    PROVE  \E k \in Worker : At(k, pc, S) /\ k.plan = PlanFor(sp[worker.n], S)
<1> DEFINE p == PlanFor(sp[worker.n], S)
           k == [worker EXCEPT !.pc = pc, !.todo = S, !.plan = p, !.current = -1]
<1>1. worker \in Worker
  BY DEF SeasonTypeOK
<1>2. p \in Plan
  BY PlanIsPlan
<1>3. worker' = k
  BY DEF BeginWrites
<1> HIDE DEF p
<1>4. /\ k \in Worker /\ k.pc = pc /\ k.n = worker.n /\ k.todo = S /\ k.plan = p
  BY <1>1, <1>2 DEF Worker
<1> HIDE DEF k
<1> QED BY <1>3, <1>4 DEF At, p

LEMMA WrittenLeads ==
    ASSUME SeasonTypeOK, worker.n \in Seasons, NEW pc \in Pcs, NEW w \in Wallets, Written(w, pc)
    PROVE  \E k \in Worker :
               At(k, pc, worker.todo \ {w}) /\ k.plan = worker.plan /\ k.who = w
<1> DEFINE k == [worker EXCEPT !.pc = pc, !.todo = @ \ {w}, !.current = DivisionOf(w), !.who = w]
<1>1. worker \in Worker
  BY DEF SeasonTypeOK
<1>2. sp[worker.n][w] \in Points
  BY DEF SeasonTypeOK
<1>3. DivisionOf(w) \in Divisions
  BY <1>2 DEF DivisionOf, Points
<1>4. /\ k \in Worker /\ k.pc = pc /\ k.n = worker.n /\ k.todo = worker.todo \ {w}
      /\ k.plan = worker.plan /\ k.who = w
  BY <1>1, <1>3 DEF Worker
<1>5. worker' = k
  BY DEF Written
<1> HIDE DEF k
<1> QED BY <1>4, <1>5 DEF At

LEMMA TickKeeps == ASSUME SeasonInv, StartTick PROVE SeasonInv'
<1>1. "look" \in Pcs
  BY DEF Pcs
<1>2. PICK k \in Worker : At(k, "look", worker.todo)
  BY <1>1, GotoLeads DEF SeasonInv, StartTick
<1>3. WorkerFits(k, season, sp, updatedBy)
  BY <1>2 DEF At, WorkerFits, Working, Freezing, Queueing, Closing
<1> QED BY <1>2, <1>3, WorkerMoves DEF StartTick, At

\* Where a look at the seasons leads.
LEMMA LookLeads ==
    ASSUME SeasonInv, Look
    PROVE  \E k \in Worker :
               /\ worker' = k /\ WorkerFits(k, season, sp, updatedBy)
               /\ k.pc \in {"bootstrap", "idle", "freeze", "readMoves", "readRewards", "passport", "open"}
               /\ k.pc \notin {"bootstrap", "idle"} => k.n = CurrentSeason
               /\ CurrentSeason # 0 /\ season[CurrentSeason].status = "FREEZING" => k.pc = "readMoves"
<1>0. PICK n \in Seasons \cup {0} : n = CurrentSeason
  BY CurrentSeasonFits
<1>1. n # 0 => n \in Seasons /\ season[n].status \in {"ACTIVE", "FREEZING", "SETTLING"}
  <2>1. \A m \in Seasons : season[m].status \in Stage
    BY DEF SeasonInv, SeasonTypeOK, Season
  <2> QED BY <1>0, <2>1, CurrentSeasonFits DEF Stage
<1>2. n # 0 =>
        /\ NextStage(n) \in {"freeze", "idle", "readMoves", "readRewards", "passport", "open"}
        /\ NextStage(n) = "freeze" => season[n].status = "ACTIVE"
        /\ NextStage(n) = "readMoves" <=> season[n].status = "FREEZING"
        /\ NextStage(n) \in {"readRewards", "passport", "open"} => season[n].status = "SETTLING"
        /\ NextStage(n) \in {"passport", "open"} => season[n].rewards
  BY <1>1 DEF NextStage
<1>3. CASE n = 0
  <2>1. PICK k \in Worker : k = [WorkerIdle EXCEPT !.pc = "bootstrap"] /\ k.pc = "bootstrap"
    <3>1. WorkerIdle.n = 0 /\ "bootstrap" \in Pcs /\ WorkerIdle \in Worker
      BY TickTypes DEF SeasonInv, WorkerIdle, Pcs
    <3>2. [WorkerIdle EXCEPT !.pc = "bootstrap"] \in Worker /\ [WorkerIdle EXCEPT !.pc = "bootstrap"].pc = "bootstrap"
      BY <3>1 DEF Worker
    <3> QED BY <3>2
  <2>2. WorkerFits(k, season, sp, updatedBy)
    BY <2>1 DEF WorkerFits, Working, Freezing, Queueing, Closing
  <2> QED BY <1>0, <1>3, <2>1, <2>2 DEF Look
<1>4. CASE n # 0 /\ NextStage(n) = "idle"
  <2>1. PICK k \in Worker : k = WorkerIdle /\ k.pc = "idle"
    BY TickTypes DEF SeasonInv, WorkerIdle
  <2>2. WorkerFits(k, season, sp, updatedBy)
    BY <2>1 DEF WorkerFits, Working, Freezing, Queueing, Closing
  <2> QED BY <1>0, <1>2, <1>4, <2>1, <2>2 DEF Look
<1>5. CASE n # 0 /\ NextStage(n) # "idle"
  <2>1. PICK pc \in Pcs : pc = NextStage(n)
    BY <1>2, <1>5 DEF Pcs
  <2>2. PICK k \in Worker : k = [WorkerIdle EXCEPT !.pc = pc, !.n = n] /\ k.pc = pc /\ k.n = n
    BY TickTypes DEF SeasonInv, WorkerIdle
  <2>3. WorkerFits(k, season, sp, updatedBy)
    BY <1>1, <1>2, <1>5, <2>1, <2>2 DEF WorkerFits, Working, Freezing, Queueing, Closing
  <2> QED BY <1>0, <1>2, <1>5, <2>1, <2>2, <2>3 DEF Look
<1> QED BY <1>3, <1>4, <1>5

LEMMA LookKeeps == ASSUME SeasonInv, Look PROVE SeasonInv'
<1>1. PICK k \in Worker : worker' = k /\ WorkerFits(k, season, sp, updatedBy)
  BY LookLeads
<1> QED BY <1>1, WorkerMoves DEF Look

\* A season opens when all before it have queued their rewards.
LEMMA OpenKeeps ==
    ASSUME SeasonInv, NEW k \in Worker, worker' = k, NEW n \in Seasons, season[n] = NoSeason,
           season' = [season EXCEPT ![n] = Opened(n)],
           k.pc \notin Working \/ (k.pc = "settle" /\ k.n # n /\ k.n \in Seasons
                                   /\ season[k.n].status = "SETTLING" /\ season[k.n].rewards),
           \A m \in Seasons : m < n => season[m].rewards,
           UNCHANGED <<sp, division, updatedBy>>, Rest
    PROVE  SeasonInv'
<1>1. Opened(n) \in Season /\ ~Opened(n).rewards
  BY DEF Opened, NoSeason, Season, Stage
<1>2. ~season[n].rewards
  BY DEF NoSeason
<1>3. season \in [Seasons -> Season]
  BY DEF SeasonInv, SeasonTypeOK
<1>4. WorkerFits(k, season', sp, updatedBy)
  BY <1>3 DEF WorkerFits, Working, Freezing, Queueing, Closing
<1> QED BY <1>1, <1>2, <1>4, SeasonMoves

LEMMA BootstrapKeeps == ASSUME SeasonInv, BootstrapFirstSeason PROVE SeasonInv'
<1>1. PICK k \in Worker : worker' = k /\ k.pc = "idle"
  BY TickTypes DEF SeasonInv, WorkerIdle, BootstrapFirstSeason
<1>2. k.pc \notin Working
  BY <1>1 DEF Working, Freezing, Queueing, Closing
<1>3. CASE season' = season
  <2>1. WorkerFits(k, season, sp, updatedBy)
    BY <1>1 DEF WorkerFits, Working, Freezing, Queueing, Closing
  <2> QED BY <1>1, <1>3, <2>1, WorkerMoves DEF BootstrapFirstSeason
<1>4. CASE season[1] = NoSeason /\ season' = [season EXCEPT ![1] = Opened(1)] /\ 1 \in Seasons
  <2>1. \A m \in Seasons : ~(m < 1)
    BY DEF Seasons
  <2> QED BY <1>1, <1>2, <1>4, <2>1, OpenKeeps DEF BootstrapFirstSeason
<1>5. CASE 1 \notin Seasons
  <2>1. [season EXCEPT ![1] = Opened(1)] = season
    BY <1>5 DEF SeasonInv, SeasonTypeOK
  <2> QED BY <1>3, <2>1 DEF BootstrapFirstSeason
<1> QED BY <1>3, <1>4, <1>5 DEF BootstrapFirstSeason

LEMMA FreezeKeeps == ASSUME SeasonInv, FreezeSeason PROVE SeasonInv'
<1>0. PICK n \in Seasons : n = worker.n /\ season[n].status = "ACTIVE" /\ season[n] \in Season
  BY DEF SeasonInv, WorkerFits, FreezeSeason, Working, SeasonTypeOK
<1>1. "readRanks" \in Pcs
  BY DEF Pcs
<1>2. PICK k \in Worker : At(k, "readRanks", worker.todo)
  BY <1>0, <1>1, GotoLeads DEF SeasonInv, FreezeSeason
<1>3. ~season[n].rewards
  BY <1>0 DEF SeasonInv, SeasonsFit, Season
<1>a. PICK r \in BOOLEAN : r = season[n].rewards /\ ~r
  BY <1>0, <1>3 DEF Season
<1>b. [season[n] EXCEPT !.status = "FREEZING"] \in Season
  BY <1>0 DEF Season, Stage
<1>c. /\ [season[n] EXCEPT !.status = "FREEZING"].status = "FREEZING"
      /\ [season[n] EXCEPT !.status = "FREEZING"].rewards = r
  BY <1>0, <1>a DEF Season
<1>4. PICK new \in Season : new = [season[n] EXCEPT !.status = "FREEZING"] /\ new.status = "FREEZING"
                            /\ ~new.rewards
  BY <1>a, <1>b, <1>c
<1>5. season' = [season EXCEPT ![n] = new] /\ season \in [Seasons -> Season]
  BY <1>0, <1>4 DEF FreezeSeason, SeasonInv, SeasonTypeOK
<1>6. WorkerFits(k, season', sp, updatedBy)
  BY <1>0, <1>2, <1>4, <1>5 DEF At, WorkerFits, Working, Freezing, Queueing, Closing
<1>7. season[n] # NoSeason
  BY <1>0 DEF NoSeason
<1> QED BY <1>2, <1>3, <1>4, <1>5, <1>6, <1>7, SeasonMoves DEF At, FreezeSeason

----------------------------------------------------------------------------
(* Ranks and movements                                                     *)

LEMMA ReadsKeep == ASSUME SeasonInv, ReadRanks \/ ReadMoves \/ ReadRewards PROVE SeasonInv'
<1>1. worker.n \in Seasons /\ "rank" \in Pcs /\ "move" \in Pcs /\ "reward" \in Pcs
  BY DEF SeasonInv, WorkerFits, ReadRanks, ReadMoves, ReadRewards, Working, Freezing, Queueing, Pcs
<1>2. CASE ReadRanks
  <2>1. RowsOf(worker.n) \in SUBSET Wallets /\ BeginWrites("rank", RowsOf(worker.n))
    BY <1>2 DEF ReadRanks, RowsOf
  <2>2. PICK k \in Worker : At(k, "rank", RowsOf(worker.n))
    BY <1>1, <2>1, BeginLeads DEF SeasonInv
  <2>3. WorkerFits(k, season, sp, updatedBy)
    BY <1>1, <1>2, <2>2
       DEF At, SeasonInv, WorkerFits, ReadRanks, RowsOf, Working, Freezing, Queueing, Closing
  <2> QED BY <1>2, <2>2, <2>3, WorkerMoves DEF ReadRanks, At
<1>3. CASE ReadMoves
  <2>1. Unmoved(worker.n) \in SUBSET Wallets /\ BeginWrites("move", Unmoved(worker.n))
    BY <1>3 DEF ReadMoves, Unmoved, RowsOf
  <2>2. PICK k \in Worker : /\ At(k, "move", Unmoved(worker.n))
                            /\ k.plan = PlanFor(sp[worker.n], Unmoved(worker.n))
    BY <1>1, <2>1, BeginLeads DEF SeasonInv
  <2>4. ASSUME NEW w \in Unmoved(worker.n) PROVE k.plan[w].movement # "NULL"
    <3>1. PICK S \in SUBSET Wallets : S = Unmoved(worker.n)
      BY <2>1
    <3>2. PlanFor(sp[worker.n], S)[w].movement # "NULL"
      BY <3>1, PlanOfMember
    <3> QED BY <2>2, <3>1, <3>2
  <2>3. WorkerFits(k, season, sp, updatedBy)
    BY <1>1, <1>3, <2>2, <2>4
       DEF At, SeasonInv, WorkerFits, ReadMoves, Unmoved, RowsOf, Working, Freezing, Queueing, Closing
  <2> QED BY <1>3, <2>2, <2>3, WorkerMoves DEF ReadMoves, At
<1>4. CASE ReadRewards
  <2>1. Rewarded(worker.n) \in SUBSET Wallets /\ BeginWrites("reward", Rewarded(worker.n))
    BY <1>4 DEF ReadRewards, Rewarded, RowsOf
  <2>2. PICK k \in Worker : At(k, "reward", Rewarded(worker.n))
    BY <1>1, <2>1, BeginLeads DEF SeasonInv
  <2>3. WorkerFits(k, season, sp, updatedBy)
    BY <1>1, <1>4, <2>2
       DEF At, SeasonInv, WorkerFits, ReadRewards, Rewarded, RowsOf, Working, Freezing, Queueing, Closing
  <2> QED BY <1>4, <2>2, <2>3, WorkerMoves DEF ReadRewards, At
<1> QED BY <1>2, <1>3, <1>4

LEMMA RanksWrittenKeeps == ASSUME SeasonInv, RanksWritten PROVE SeasonInv'
<1>1. "look" \in Pcs
  BY DEF Pcs
<1>2. PICK k \in Worker : At(k, "look", worker.todo)
  BY <1>1, GotoLeads DEF SeasonInv, RanksWritten
<1>3. WorkerFits(k, season, sp, updatedBy)
  BY <1>2 DEF At, WorkerFits, Working, Freezing, Queueing, Closing
<1> QED BY <1>2, <1>3, WorkerMoves DEF RanksWritten, At

LEMMA WriteRankKeeps == ASSUME SeasonInv, NEW w \in Wallets, WriteRank(w) PROVE SeasonInv'
<1>1. PICK n \in Seasons : n = worker.n /\ worker.pc = "rank" /\ w \in worker.todo
  BY DEF SeasonInv, WorkerFits, WriteRank, InTurn, Working, Freezing
<1>2. PICK k \in Worker : At(k, "rank", worker.todo \ {w})
  <2>1. "rank" \in Pcs
    BY DEF Pcs
  <2> QED BY <1>1, <2>1, WrittenLeads DEF SeasonInv, WriteRank
<1>3. PICK rank \in Nat : rank = worker.plan[w].rank
  BY TickTypes DEF SeasonInv, Plan
<1>4. sp[n][w] \in Points /\ sp \in [Seasons -> [Wallets -> Points]] /\ sp[n][w].row
  BY <1>1 DEF SeasonInv, SeasonTypeOK, WorkerFits
<1>5. PICK r \in Points :
          /\ r = [sp[n][w] EXCEPT !.rank = rank]
          /\ r.row = sp[n][w].row /\ r.movement = sp[n][w].movement /\ r.pending = sp[n][w].pending
          /\ r.reward = sp[n][w].reward /\ r.division = sp[n][w].division
  <2> DEFINE r == [sp[n][w] EXCEPT !.rank = rank]
  <2>1. /\ r \in Points /\ r.row = sp[n][w].row /\ r.movement = sp[n][w].movement
        /\ r.pending = sp[n][w].pending /\ r.reward = sp[n][w].reward
        /\ r.division = sp[n][w].division
    BY <1>3, <1>4 DEF Points
  <2>2. r = [sp[n][w] EXCEPT !.rank = rank]
    OBVIOUS
  <2> HIDE DEF r
  <2> QED BY <2>1, <2>2
<1>6. sp' = [sp EXCEPT ![n][w] = r]
  BY <1>1, <1>3, <1>4, <1>5 DEF WriteRank
<1>7. WorkerFits(k, season, sp', updatedBy)
  <2>1. \A m \in Seasons, v \in Wallets : sp'[m][v] = IF m = n /\ v = w THEN r ELSE sp[m][v]
    BY <1>4, <1>6
  <2>2. season[n].status = "FREEZING" /\ \A v \in worker.todo : v \in Wallets /\ sp[n][v].row
    BY <1>1, TickTypes DEF SeasonInv, WorkerFits, Freezing
  <2> QED BY <1>1, <1>2, <1>5, <2>1, <2>2
         DEF At, WorkerFits, Working, Freezing, Queueing, Closing
<1>8. RowFits(r) /\ season[n].rewards => Queued(r)
  BY <1>5 DEF SeasonInv, SeasonsFit, RowFits, Queued
<1>9. RowFits(r) /\ r.row /\ (sp[n][w].movement # "NULL" => r.movement # "NULL")
  BY <1>4, <1>5 DEF SeasonInv, RowFits
<1> QED BY <1>1, <1>2, <1>4, <1>6, <1>7, <1>8, <1>9, RowMoves DEF At, WriteRank

LEMMA WriteMovementKeeps == ASSUME SeasonInv, NEW w \in Wallets, WriteMovement(w) PROVE SeasonInv'
<1>1. PICK n \in Seasons : /\ n = worker.n /\ worker.pc = "move" /\ w \in worker.todo
                           /\ season[n].status = "FREEZING"
  BY DEF SeasonInv, WorkerFits, WriteMovement, InTurn, Working, Freezing
<1>2. PICK k \in Worker : /\ \E pc \in {"move", "divide"} : At(k, pc, worker.todo \ {w})
                          /\ k.who = w /\ k.plan = worker.plan
  <2>1. "move" \in Pcs /\ "divide" \in Pcs
    BY DEF Pcs
  <2> QED BY <1>1, <2>1, WrittenLeads DEF SeasonInv, WriteMovement
<1>3. PICK movement \in Movement : movement = worker.plan[w].movement /\ movement # "NULL"
  BY <1>1, TickTypes DEF SeasonInv, Plan, WorkerFits
<1>4. /\ sp[n][w] \in Points /\ sp \in [Seasons -> [Wallets -> Points]]
      /\ sp[n][w].row /\ sp[n][w].movement = "NULL"
  BY <1>1 DEF SeasonInv, SeasonTypeOK, WorkerFits
<1>5. PICK r \in Points :
          /\ r = [sp[n][w] EXCEPT !.movement = movement]
          /\ r.row = sp[n][w].row /\ r.movement = movement /\ r.pending = sp[n][w].pending
          /\ r.reward = sp[n][w].reward /\ r.division = sp[n][w].division
  <2> DEFINE r == [sp[n][w] EXCEPT !.movement = movement]
  <2>1. /\ r \in Points /\ r.row = sp[n][w].row /\ r.movement = movement
        /\ r.pending = sp[n][w].pending /\ r.reward = sp[n][w].reward
        /\ r.division = sp[n][w].division
    BY <1>3, <1>4 DEF Points
  <2>2. r = [sp[n][w] EXCEPT !.movement = movement]
    OBVIOUS
  <2> HIDE DEF r
  <2> QED BY <2>1, <2>2
<1>6. sp' = [sp EXCEPT ![n][w] = r]
  BY <1>1, <1>3, <1>4, <1>5 DEF WriteMovement
<1>7. WorkerFits(k, season, sp', updatedBy)
  <2>1. \A m \in Seasons, v \in Wallets : sp'[m][v] = IF m = n /\ v = w THEN r ELSE sp[m][v]
    BY <1>4, <1>6
  <2>2. \A v \in worker.todo : /\ v \in Wallets /\ sp[n][v].row /\ sp[n][v].movement = "NULL"
                               /\ worker.plan[v].movement # "NULL"
    BY <1>1, TickTypes DEF SeasonInv, WorkerFits
  <2>3. updatedBy[w] # n
    BY <1>4 DEF SeasonInv
  <2>4. k.n = n /\ k.who = w /\ k.todo = worker.todo \ {w} /\ k.pc \in {"move", "divide"}
    BY <1>1, <1>2 DEF At
  <2>a. r.row = TRUE /\ r.movement # "NULL"
    BY <1>3, <1>4, <1>5
  <2>b. sp'[n][w] = r
    BY <1>1, <2>1
  <2>c. sp'[n][w].row /\ sp'[n][w].movement # "NULL"
    BY <2>a, <2>b
  <2>d. \A v \in k.todo : sp'[n][v].row /\ sp'[n][v].movement = "NULL"
    BY <2>1, <2>2, <2>4
  <2>5. /\ sp'[n][w].row /\ sp'[n][w].movement # "NULL"
        /\ \A v \in k.todo : sp'[n][v].row /\ sp'[n][v].movement = "NULL"
    BY <2>c, <2>d
  <2>6. \A v \in k.todo : k.plan[v].movement # "NULL"
    BY <1>2, <2>2, <2>4
  <2> QED BY <1>1, <2>3, <2>4, <2>5, <2>6
         DEF WorkerFits, Working, Freezing, Queueing, Closing
<1>8. RowFits(r)
  BY <1>4, <1>5 DEF SeasonInv, RowFits
<1>9. ~season[n].rewards
  <2>1. season[n].rewards \in BOOLEAN
    BY DEF SeasonInv, SeasonTypeOK, Season
  <2> QED BY <1>1, <2>1 DEF SeasonInv, SeasonsFit
<1>10. r.row /\ r.movement # "NULL"
  BY <1>3, <1>4, <1>5
<1> QED BY <1>1, <1>2, <1>4, <1>6, <1>7, <1>8, <1>9, <1>10, RowMoves DEF At, WriteMovement

LEMMA WriteDivisionKeeps == ASSUME SeasonInv, WriteDivision PROVE SeasonInv'
<1>1. PICK n \in Seasons, w \in Wallets :
          /\ n = worker.n /\ w = worker.who /\ worker.pc = "divide"
          /\ sp[n][w].row /\ sp[n][w].movement # "NULL" /\ season[n].status = "FREEZING"
  BY DEF SeasonInv, WorkerFits, WriteDivision, Working, Freezing
<1>2. PICK k \in Worker : At(k, "move", worker.todo) /\ k.plan = worker.plan
  <2>1. "move" \in Pcs
    BY DEF Pcs
  <2> QED BY <2>1, GotoLeads DEF SeasonInv, WriteDivision
<1>3. PICK d \in Divisions : d = NewDivision(DivisionOf(w), worker.plan[w].movement)
  <2>1. sp[n][w] \in Points
    BY DEF SeasonInv, SeasonTypeOK
  <2>2. DivisionOf(w) \in Divisions
    BY <1>1, <2>1 DEF DivisionOf, Points
  <2>3. worker.plan[w].movement \in Movement
    <3>1. worker.plan \in Plan
      BY TickTypes, Zenon DEF SeasonInv
    <3> QED BY <3>1 DEF Plan
  <2> QED BY <2>2, <2>3, DivisionsStay
<1>4. /\ \/ UNCHANGED <<division, updatedBy>>
         \/ division' = [division EXCEPT ![w] = d] /\ updatedBy' = [updatedBy EXCEPT ![w] = n]
      /\ UNCHANGED <<season, sp>> /\ Rest
  <2>1. UNCHANGED <<season, sp>> /\ Rest
    BY DEF WriteDivision
  <2>2. CASE division[w] = NoRow
    BY <1>1, <2>2 DEF WriteDivision
  <2>3. CASE division[w] # NoRow
    BY <1>1, <1>3, <2>3 DEF WriteDivision
  <2> QED BY <2>1, <2>2, <2>3
<1>5. UNCHANGED <<ended, close, credits, closes, faults, late, cut>>
  BY <1>4 DEF Rest, closeVars, history
<1>6. updatedBy \in [Wallets -> Seasons \cup {0}] /\ division \in [Wallets -> Divisions \cup {NoRow}]
  BY DEF SeasonInv, SeasonTypeOK
<1>7. updatedBy' \in [Wallets -> Seasons \cup {0}] /\ division' \in [Wallets -> Divisions \cup {NoRow}]
  BY <1>4, <1>6
<1>8. SeasonTypeOK'
  BY <1>2, <1>4, <1>5, <1>7 DEF SeasonInv, SeasonTypeOK, At
<1>9. WorkerFits(k, season, sp, updatedBy')
  <2>1. \A v \in worker.todo : /\ sp[n][v].row /\ sp[n][v].movement = "NULL"
                               /\ worker.plan[v].movement # "NULL"
    BY <1>1 DEF SeasonInv, WorkerFits
  <2> QED BY <1>1, <1>2, <2>1 DEF At, WorkerFits, Working, Freezing, Queueing, Closing
<1>10. WorkerFits(worker, season, sp, updatedBy)'
  BY <1>2, <1>4, <1>9 DEF At, WorkerFits
<1>11. SeasonsFit(season, sp)'
  BY <1>4 DEF SeasonInv, SeasonsFit, Queued
<1>12. \A m \in Seasons, v \in Wallets :
           updatedBy'[v] = m => sp[m][v].row /\ sp[m][v].movement # "NULL"
  BY <1>1, <1>4, <1>6 DEF SeasonInv
<1> QED BY <1>4, <1>5, <1>8, <1>10, <1>11, <1>12 DEF SeasonInv, RowFits, CloseFits

----------------------------------------------------------------------------
(* The stages' ends, and the rewards                                       *)

LEMMA StartSettlingKeeps == ASSUME SeasonInv, StartSettling PROVE SeasonInv'
<1>0. PICK n \in Seasons : n = worker.n /\ season[n].status = "FREEZING" /\ season[n] \in Season
  BY DEF SeasonInv, WorkerFits, StartSettling, Working, Freezing, SeasonTypeOK
<1>1. PICK k \in Worker : At(k, "look", worker.todo)
  <2>1. "look" \in Pcs
    BY DEF Pcs
  <2> QED BY <2>1, GotoLeads DEF SeasonInv, StartSettling
<1>2. PICK r \in BOOLEAN : r = season[n].rewards /\ ~r
  BY <1>0 DEF SeasonInv, SeasonsFit, Season
<1>3. PICK new \in Season : new = [season[n] EXCEPT !.status = "SETTLING"] /\ ~new.rewards
  <2>1. [season[n] EXCEPT !.status = "SETTLING"] \in Season
    BY <1>0 DEF Season, Stage
  <2>2. [season[n] EXCEPT !.status = "SETTLING"].rewards = r
    BY <1>0, <1>2 DEF Season
  <2> QED BY <1>2, <2>1, <2>2
<1>4. season' = [season EXCEPT ![n] = new]
  BY <1>0, <1>3 DEF StartSettling, SeasonInv, SeasonTypeOK
<1>5. WorkerFits(k, season', sp, updatedBy)
  BY <1>1 DEF At, WorkerFits, Working, Freezing, Queueing, Closing
<1>6. ~season[n].rewards /\ season[n] # NoSeason
  BY <1>0, <1>2 DEF NoSeason
<1> QED BY <1>1, <1>3, <1>4, <1>5, <1>6, SeasonMoves DEF At, StartSettling

LEMMA QueueRewardKeeps == ASSUME SeasonInv, NEW w \in Wallets, QueueReward(w) PROVE SeasonInv'
<1>1. PICK n \in Seasons : /\ n = worker.n /\ worker.pc = "reward" /\ w \in worker.todo
                           /\ season[n].status = "SETTLING"
  BY DEF SeasonInv, WorkerFits, QueueReward, Working, Queueing
<1>2. PICK k \in Worker : At(k, "reward", worker.todo \ {w})
  <2>1. "reward" \in Pcs
    BY DEF Pcs
  <2> QED BY <1>1, <2>1, WrittenLeads DEF SeasonInv, QueueReward
<1>4. sp[n][w] \in Points /\ sp \in [Seasons -> [Wallets -> Points]] /\ sp[n][w].row
  BY <1>1 DEF SeasonInv, SeasonTypeOK, WorkerFits
<1>5. PICK r \in Points :
          /\ sp' = [sp EXCEPT ![n][w] = r]
          /\ r.row = sp[n][w].row /\ r.movement = sp[n][w].movement /\ r.division = sp[n][w].division
          /\ r.pending = TRUE /\ RowFits(r)
  <2>1. CASE sp[n][w].pending
    <3>1. sp' = [sp EXCEPT ![n][w] = sp[n][w]]
      BY <1>1, <1>4, <2>1 DEF QueueReward
    <3>2. sp[n][w].pending = TRUE /\ RowFits(sp[n][w])
      BY <1>4, <2>1 DEF SeasonInv, Points
    <3> QED BY <1>4, <3>1, <3>2
  <2>2. CASE ~sp[n][w].pending
    <3> DEFINE r == [sp[n][w] EXCEPT !.reward = TicketReward[DivisionOf(w)], !.pending = TRUE]
    <3>1. DivisionOf(w) = sp[n][w].division /\ sp[n][w].division \in Divisions
      BY <1>1, <1>4 DEF DivisionOf, Points
    <3>2. TicketReward[sp[n][w].division] \in Nat
      BY <3>1, TablesPerDivision
    <3>3. /\ r \in Points /\ r.row = sp[n][w].row /\ r.movement = sp[n][w].movement
          /\ r.division = sp[n][w].division /\ r.pending = TRUE
          /\ r.reward = TicketReward[sp[n][w].division]
      BY <1>4, <3>1, <3>2 DEF Points
    <3>4. sp' = [sp EXCEPT ![n][w] = r]
      BY <1>1, <1>4, <2>2 DEF QueueReward
    <3> HIDE DEF r
    <3> QED BY <3>3, <3>4 DEF RowFits
  <2> QED BY <2>1, <2>2
<1>7. WorkerFits(k, season, sp', updatedBy)
  <2>1. \A m \in Seasons, v \in Wallets : sp'[m][v] = IF m = n /\ v = w THEN r ELSE sp[m][v]
    BY <1>4, <1>5
  <2>2. /\ \A v \in worker.todo : v \in Wallets /\ sp[n][v].row
        /\ \A v \in Wallets : sp[n][v].row /\ sp[n][v].movement = "PROMOTED" =>
               sp[n][v].pending \/ v \in worker.todo
    BY <1>1, TickTypes DEF SeasonInv, WorkerFits
  <2> QED BY <1>1, <1>2, <1>4, <1>5, <2>1, <2>2
         DEF At, WorkerFits, Working, Freezing, Queueing, Closing
<1>8. Queued(r) /\ r.row /\ (sp[n][w].movement # "NULL" => r.movement # "NULL")
  BY <1>4, <1>5 DEF Queued
<1> QED BY <1>1, <1>2, <1>4, <1>5, <1>7, <1>8, RowMoves DEF At, QueueReward

\* A mark of a settling season: the rewards are queued, the badges are updated.
LEMMA MarkKeeps == ASSUME SeasonInv, RewardsQueued \/ UpdatePassportBadges PROVE SeasonInv'
<1>0. PICK n \in Seasons : n = worker.n /\ season[n].status = "SETTLING" /\ season[n] \in Season
  BY DEF SeasonInv, WorkerFits, RewardsQueued, UpdatePassportBadges, Working, Queueing, Closing, SeasonTypeOK
<1>1. PICK k \in Worker : At(k, "look", worker.todo)
  <2>1. "look" \in Pcs
    BY DEF Pcs
  <2> QED BY <2>1, GotoLeads DEF SeasonInv, RewardsQueued, UpdatePassportBadges
<1>2. \A w \in Wallets : Queued(sp[n][w])
  <2>1. CASE RewardsQueued
    BY <1>0, <2>1 DEF SeasonInv, WorkerFits, RewardsQueued, Queued
  <2>2. CASE UpdatePassportBadges
    BY <1>0, <2>2 DEF SeasonInv, WorkerFits, SeasonsFit, UpdatePassportBadges, Closing
  <2> QED BY <2>1, <2>2
<1>3. PICK new \in Season : /\ season' = [season EXCEPT ![n] = new] /\ new.status = "SETTLING"
                            /\ season[n].rewards => new.rewards
  <2>1. /\ [season[n] EXCEPT !.rewards = TRUE] \in Season
        /\ [season[n] EXCEPT !.rewards = TRUE].status = "SETTLING"
        /\ [season[n] EXCEPT !.rewards = TRUE].rewards
    BY <1>0 DEF Season
  <2>2. /\ [season[n] EXCEPT !.passport = TRUE] \in Season
        /\ [season[n] EXCEPT !.passport = TRUE].status = "SETTLING"
        /\ [season[n] EXCEPT !.passport = TRUE].rewards = season[n].rewards
    BY <1>0 DEF Season
  <2>3. CASE RewardsQueued
    BY <1>0, <2>1, <2>3 DEF RewardsQueued, SeasonInv, SeasonTypeOK
  <2>4. CASE UpdatePassportBadges
    BY <1>0, <2>2, <2>4 DEF UpdatePassportBadges, SeasonInv, SeasonTypeOK
  <2> QED BY <2>3, <2>4
<1>5. WorkerFits(k, season', sp, updatedBy)
  BY <1>1 DEF At, WorkerFits, Working, Freezing, Queueing, Closing
<1>6. season[n] # NoSeason
  BY <1>0 DEF NoSeason
<1>7. UNCHANGED <<sp, division, updatedBy>> /\ Rest
  BY DEF RewardsQueued, UpdatePassportBadges
<1> QED BY <1>1, <1>2, <1>3, <1>5, <1>6, <1>7, SeasonMoves DEF At

LEMMA OpenNextKeeps == ASSUME SeasonInv, OpenNextSeason PROVE SeasonInv'
<1>0. PICK n \in Seasons : n = worker.n /\ season[n].status = "SETTLING" /\ season[n].rewards
  BY DEF SeasonInv, WorkerFits, OpenNextSeason, Working, Closing
<1>1. PICK k \in Worker : At(k, "settle", worker.todo)
  <2>1. "settle" \in Pcs
    BY DEF Pcs
  <2> QED BY <2>1, GotoLeads DEF SeasonInv, OpenNextSeason
<1>2. season \in [Seasons -> Season]
  BY DEF SeasonInv, SeasonTypeOK
<1>3. CASE season' = season
  <2>1. WorkerFits(k, season, sp, updatedBy)
    BY <1>0, <1>1 DEF At, WorkerFits, Working, Freezing, Queueing, Closing
  <2> QED BY <1>1, <1>3, <2>1, WorkerMoves DEF OpenNextSeason, At
<1>4. CASE n + 1 \in Seasons /\ season[n + 1] = NoSeason
  <2>1. \A m \in Seasons : m < n + 1 => season[m].rewards
    <3>1. \A m \in Seasons : m \in Int /\ n \in Int
      BY DEF Seasons
    <3>2. season[n] # NoSeason
      BY <1>0 DEF NoSeason
    <3> QED BY <1>0, <3>1, <3>2 DEF SeasonInv, SeasonsFit
  <2>2. k.pc = "settle" /\ k.n # n + 1 /\ k.n \in Seasons /\ worker' = k /\ k.n = n
    BY <1>0, <1>1 DEF At, Seasons
  <2>3. season' = [season EXCEPT ![n + 1] = Opened(n + 1)]
    BY <1>0, <1>4 DEF OpenNextSeason
  <2>4. UNCHANGED <<sp, division, updatedBy>> /\ Rest
    BY DEF OpenNextSeason
  <2> QED BY <1>0, <1>4, <2>1, <2>2, <2>3, <2>4, OpenKeeps
<1>5. CASE n + 1 \notin Seasons
  <2>1. [season EXCEPT ![n + 1] = Opened(n + 1)] = season
    BY <1>2, <1>5
  <2> QED BY <1>0, <1>3, <2>1 DEF OpenNextSeason
<1> QED BY <1>0, <1>3, <1>4, <1>5 DEF OpenNextSeason

LEMMA SettleKeeps == ASSUME SeasonInv, SettleSeason PROVE SeasonInv'
<1>0. PICK n \in Seasons : n = worker.n /\ season[n].status = "SETTLING" /\ season[n] \in Season
                           /\ season[n].rewards
  BY DEF SeasonInv, WorkerFits, SettleSeason, Working, Closing, SeasonTypeOK
<1>1. PICK k \in Worker : worker' = k /\ k.pc = "idle"
  BY TickTypes DEF SeasonInv, WorkerIdle, SettleSeason
<1>3. PICK new \in Season : /\ new = [season[n] EXCEPT !.status = "SETTLED"]
                            /\ new.status = "SETTLED" /\ new.rewards
  <2>1. [season[n] EXCEPT !.status = "SETTLED"] \in Season
    BY <1>0 DEF Season, Stage
  <2>2. /\ [season[n] EXCEPT !.status = "SETTLED"].rewards = season[n].rewards
        /\ [season[n] EXCEPT !.status = "SETTLED"].status = "SETTLED"
    BY <1>0 DEF Season
  <2> QED BY <1>0, <2>1, <2>2
<1>4. season' = [season EXCEPT ![n] = new]
  BY <1>0, <1>3 DEF SettleSeason
<1>5. WorkerFits(k, season', sp, updatedBy)
  BY <1>1 DEF WorkerFits, Working, Freezing, Queueing, Closing
<1>6. season[n] # NoSeason /\ \A w \in Wallets : Queued(sp[n][w])
  BY <1>0 DEF NoSeason, SeasonInv, SeasonsFit
<1>7. UNCHANGED <<sp, division, updatedBy>> /\ Rest
  BY DEF SettleSeason
<1> QED BY <1>1, <1>3, <1>4, <1>5, <1>6, <1>7, SeasonMoves

----------------------------------------------------------------------------
(* What is not the scheduler's                                             *)

LEMMA TickFailsKeeps == ASSUME SeasonInv, TickFails PROVE SeasonInv'
<1>1. PICK k \in Worker : worker' = k /\ k.pc = "idle"
  BY TickTypes DEF SeasonInv, WorkerIdle, TickFails
<1>2. UNCHANGED <<season, ended, sp, division, updatedBy, close, credits, closes, late>>
  BY DEF TickFails, seasonVars, closeVars
<1>3. faults' \in 0..MaxFaults
  BY BoundsAreNatural DEF TickFails, SeasonInv, SeasonTypeOK
<1>4. cut' \subseteq Seasons
  BY TickTypes DEF TickFails, SeasonInv, SeasonTypeOK
<1>5. SeasonTypeOK'
  BY <1>1, <1>2, <1>3, <1>4 DEF SeasonInv, SeasonTypeOK
<1>6. WorkerFits(k, season, sp, updatedBy)
  BY <1>1 DEF WorkerFits, Working, Freezing, Queueing, Closing
<1>7. WorkerFits(worker, season, sp, updatedBy)' /\ SeasonsFit(season, sp)'
  BY <1>1, <1>2, <1>6 DEF SeasonInv, WorkerFits, SeasonsFit, Queued
<1> QED BY <1>2, <1>5, <1>7 DEF SeasonInv, RowFits, CloseFits

LEMMA SeasonEndsKeeps == ASSUME SeasonInv, NEW n \in Seasons, SeasonEnds(n) PROVE SeasonInv'
<1>1. /\ ended' \subseteq Seasons
      /\ UNCHANGED <<season, sp, division, updatedBy, worker, close, credits, closes, faults, late, cut>>
  BY DEF SeasonEnds, SeasonInv, SeasonTypeOK, closeVars, history
<1>2. SeasonTypeOK'
  BY <1>1 DEF SeasonInv, SeasonTypeOK
<1>3. WorkerFits(worker, season, sp, updatedBy)' /\ SeasonsFit(season, sp)'
  BY <1>1 DEF SeasonInv, WorkerFits, SeasonsFit, Queued
<1> QED BY <1>1, <1>2, <1>3 DEF SeasonInv, RowFits, CloseFits

LEMMA CloseMoves ==
    ASSUME SeasonInv, NEW w \in Wallets, NEW c \in Close, close' = [close EXCEPT ![w] = c],
           CloseFits(c, w, sp), closes' \in 0..MaxCloses, faults' \in 0..MaxFaults,
           UNCHANGED <<season, ended, sp, division, updatedBy, worker, credits, late, cut>>
    PROVE  SeasonInv'
<1>1. close \in [Wallets -> Close]
  BY DEF SeasonInv, SeasonTypeOK
<1>2. close' \in [Wallets -> Close] /\ \A v \in Wallets : close'[v] = IF v = w THEN c ELSE close[v]
  BY <1>1
<1>3. SeasonTypeOK'
  BY <1>2 DEF SeasonInv, SeasonTypeOK
<1>4. \A v \in Wallets : CloseFits(close'[v], v, sp)
  BY <1>2 DEF SeasonInv
<1>5. WorkerFits(worker, season, sp, updatedBy)' /\ SeasonsFit(season, sp)'
  BY DEF SeasonInv, WorkerFits, SeasonsFit, Queued
<1>6. \A v \in Wallets : CloseFits(close[v], v, sp)'
  BY <1>4 DEF CloseFits
<1> QED BY <1>3, <1>5, <1>6 DEF SeasonInv, RowFits

LEMMA ReadsOfCloseKeep ==
    ASSUME SeasonInv, NEW w \in Wallets, GetPlayerDivision(w) \/ GetSeason(w) \/ ReadPoints(w)
    PROVE  SeasonInv'
<1>1. close[w] \in Close /\ close \in [Wallets -> Close]
  BY DEF SeasonInv, SeasonTypeOK
<1>2. CASE GetPlayerDivision(w)
  <2>1. PICK d \in Divisions : close' = [close EXCEPT ![w] =
                                       [NoClose EXCEPT !.pc = "season", !.division = d]]
    <3>0. division[w] \in Divisions \cup {NoRow} /\ 0 \in Divisions
      BY BoundsAreNatural DEF Divisions, SeasonInv, SeasonTypeOK
    <3>1. DivisionNow(w) \in Divisions /\ 0 \in Divisions
      BY <3>0 DEF DivisionNow
    <3>2. PlacedIn(w, DivisionNow(w)) \/ PlacedIn(w, 0)
      BY <1>2, Zenon DEF GetPlayerDivision
    <3> QED BY <3>1, <3>2, Zenon DEF PlacedIn
  <2> DEFINE c == [NoClose EXCEPT !.pc = "season", !.division = d]
  <2>2. c \in Close /\ c.pc = "season"
    BY <2>1, NoPointsArePoints DEF Close
  <2>3. CloseFits(c, w, sp)
    <3> HIDE DEF c
    <3> QED BY <2>2 DEF CloseFits
  <2>4. closes' \in 0..MaxCloses /\ faults' \in 0..MaxFaults
    <3>1. closes' = closes + 1 /\ closes < MaxCloses
      BY <1>2, Zenon DEF GetPlayerDivision
    <3>2. faults' = faults \/ (faults' = faults + 1 /\ faults < MaxFaults)
      BY <1>2, Zenon DEF GetPlayerDivision
    <3>3. closes \in 0..MaxCloses /\ faults \in 0..MaxFaults
      BY DEF SeasonInv, SeasonTypeOK
    <3> QED BY <3>1, <3>2, <3>3, BoundsAreNatural
  <2>5. close' = [close EXCEPT ![w] = c]
    BY <2>1
  <2> HIDE DEF c
  <2> QED BY <1>2, <2>2, <2>3, <2>4, <2>5, CloseMoves DEF GetPlayerDivision, seasonVars, history
<1>3. CASE GetSeason(w)
  <2>1. PICK delta \in 0..MaxPoints :
            close' = [close EXCEPT ![w] =
                IF CurrentSeason # 0 /\ season[CurrentSeason].status = "ACTIVE"
                THEN [@ EXCEPT !.pc = "read", !.n = CurrentSeason, !.delta = delta]
                ELSE NoClose]
    BY <1>3, Zenon DEF GetSeason
  <2>2. PICK n \in Seasons \cup {0} : n = CurrentSeason
    BY CurrentSeasonFits
  <2>3. PICK c \in Close : close' = [close EXCEPT ![w] = c] /\ CloseFits(c, w, sp)
    <3>1. CASE n # 0 /\ season[n].status = "ACTIVE"
      <4> DEFINE c == [close[w] EXCEPT !.pc = "read", !.n = n, !.delta = delta]
      <4>a. delta \in Nat /\ n \in Seasons
        BY <3>1, BoundsAreNatural
      <4>1. c \in Close /\ c.pc = "read" /\ c.n = n /\ n \in Seasons
        BY <1>1, <4>a DEF Close
      <4>2. close' = [close EXCEPT ![w] = c]
        BY <1>1, <2>1, <2>2, <3>1
      <4> HIDE DEF c
      <4> QED BY <4>1, <4>2 DEF CloseFits
    <3>2. CASE ~(n # 0 /\ season[n].status = "ACTIVE")
      <4>1. close' = [close EXCEPT ![w] = NoClose]
        BY <2>1, <2>2, <3>2
      <4>2. CloseFits(NoClose, w, sp)
        BY DEF CloseFits, NoClose
      <4> QED BY <4>1, <4>2, NoPointsArePoints
    <3> QED BY <3>1, <3>2
  <2>4. closes' \in 0..MaxCloses /\ faults' \in 0..MaxFaults
    <3>1. UNCHANGED <<closes, faults>>
      BY <1>3, Zenon DEF GetSeason, seasonVars, history
    <3> QED BY <3>1 DEF SeasonInv, SeasonTypeOK
  <2>5. UNCHANGED <<season, ended, sp, division, updatedBy, worker, credits, late, cut>>
    BY <1>3, Zenon DEF GetSeason, seasonVars, history
  <2> QED BY <2>3, <2>4, <2>5, CloseMoves
<1>4. CASE ReadPoints(w)
  <2>1. close[w].n \in Seasons /\ close[w].pc = "read"
    BY <1>4 DEF ReadPoints, SeasonInv, CloseFits
  <2>2. sp[close[w].n][w] \in Points
    BY <2>1 DEF SeasonInv, SeasonTypeOK
  <2> DEFINE c == [close[w] EXCEPT !.pc = "write", !.prev = sp[close[w].n][w]]
  <2>3. c \in Close /\ c.pc = "write" /\ c.n = close[w].n /\ c.prev = sp[close[w].n][w]
    BY <1>1, <2>2 DEF Close
  <2>4. close' = [close EXCEPT ![w] = c]
    BY <1>1, <1>4 DEF ReadPoints
  <2>5. closes' \in 0..MaxCloses /\ faults' \in 0..MaxFaults
    BY <1>4 DEF ReadPoints, SeasonInv, SeasonTypeOK
  <2> HIDE DEF c
  <2>6. CloseFits(c, w, sp)
    BY <2>1, <2>3 DEF CloseFits
  <2> QED BY <1>4, <2>3, <2>4, <2>5, <2>6, CloseMoves DEF ReadPoints, seasonVars, history
<1> QED BY <1>2, <1>3, <1>4

\* What a credit does to a row: it inserts it, or adds to the points.
Credited(r, old) ==
    \/ ~old.row /\ r.row /\ r.movement = "NULL" /\ r.pending = FALSE /\ r.rank = 0
    \/ /\ r.row = old.row /\ r.movement = old.movement /\ r.pending = old.pending
       /\ r.reward = old.reward /\ r.division = old.division /\ r.rank = old.rank

LEMMA CreditWrites ==
    ASSUME SeasonInv, NEW w \in Wallets, CreditSeasonPoints(w)
    PROVE  /\ close[w].n \in Seasons /\ credits' \in Nat
           /\ \E r \in Points : /\ sp' = [sp EXCEPT ![close[w].n][w] = r]
                                /\ Credited(r, sp[close[w].n][w])
<1>0. PICK c \in Close :
          /\ c = close[w] /\ c.pc = "write" /\ c.n \in Seasons
          /\ (~c.prev.row => ~sp[c.n][w].row)
  BY DEF SeasonInv, SeasonTypeOK, CreditSeasonPoints, CloseFits
<1>1. c.delta \in Nat /\ c.prev \in Points /\ c.division \in Divisions /\ c.prev.points \in Nat
  BY DEF Close, Points
<1>2. PICK stamp \in Nat : stamp = IF c.delta > 0 THEN credits + 1 ELSE 0
  BY <1>1 DEF SeasonInv, SeasonTypeOK
<1>3. PICK n \in Seasons : n = c.n
  BY <1>0
<1>4. sp \in [Seasons -> [Wallets -> Points]] /\ sp[n][w] \in Points /\ credits \in Nat
  BY DEF SeasonInv, SeasonTypeOK
<1>5. sp' = IF ~c.prev.row
            THEN [sp EXCEPT ![n][w] = [NoPoints EXCEPT !.row = TRUE, !.division = c.division,
                                           !.points = c.delta, !.at = stamp]]
            ELSE IF c.delta > 0
            THEN [sp EXCEPT ![n][w].points = c.prev.points + c.delta, ![n][w].at = stamp]
            ELSE sp
  BY <1>0, <1>2, <1>3 DEF CreditSeasonPoints
<1>a. close[w].n \in Seasons /\ credits' \in Nat
  BY <1>0, <1>1, <1>4 DEF CreditSeasonPoints
<1>b. n = close[w].n
  BY <1>0, <1>3
<1>6. CASE ~c.prev.row
  <2> DEFINE r == [NoPoints EXCEPT !.row = TRUE, !.division = c.division, !.points = c.delta, !.at = stamp]
  <2>1. r \in Points /\ r.row = TRUE /\ r.movement = "NULL" /\ r.pending = FALSE /\ r.rank = 0
    BY <1>1, NoPointsArePoints DEF Points, NoPoints
  <2>2. sp' = [sp EXCEPT ![n][w] = r]
    BY <1>5, <1>6
  <2> HIDE DEF r
  <2>3. Credited(r, sp[n][w])
    BY <1>0, <1>3, <1>6, <2>1 DEF Credited
  <2> QED BY <1>a, <1>b, <2>1, <2>2, <2>3
<1>7. CASE c.prev.row /\ c.delta > 0
  <2> DEFINE r == [sp[n][w] EXCEPT !.points = c.prev.points + c.delta, !.at = stamp]
  <2>1. /\ r \in Points /\ r.row = sp[n][w].row /\ r.movement = sp[n][w].movement
        /\ r.pending = sp[n][w].pending /\ r.reward = sp[n][w].reward
        /\ r.division = sp[n][w].division /\ r.rank = sp[n][w].rank
    <3>1. PICK p \in Nat : p = c.prev.points + c.delta
      BY <1>1
    <3>2. PICK old \in Points : old = sp[n][w]
      BY <1>4
    <3>3. r = [old EXCEPT !.points = p, !.at = stamp]
      BY <3>1, <3>2
    <3> HIDE DEF r
    <3>4. r \in Points
      BY <3>3 DEF Points
    <3>5. /\ r.row = old.row /\ r.movement = old.movement /\ r.pending = old.pending
          /\ r.reward = old.reward /\ r.division = old.division /\ r.rank = old.rank
      BY <3>3 DEF Points
    <3> QED BY <3>2, <3>4, <3>5
  <2>2. sp' = [sp EXCEPT ![n][w] = r]
    BY <1>4, <1>5, <1>7
  <2> HIDE DEF r
  <2>3. Credited(r, sp[n][w])
    BY <2>1 DEF Credited
  <2> QED BY <1>a, <1>b, <2>1, <2>2, <2>3
<1>8. CASE c.prev.row /\ ~(c.delta > 0)
  <2>1. sp' = [sp EXCEPT ![n][w] = sp[n][w]]
    BY <1>4, <1>5, <1>8
  <2>2. Credited(sp[n][w], sp[n][w])
    BY DEF Credited
  <2> QED BY <1>a, <1>b, <1>4, <2>1, <2>2
<1> QED BY <1>6, <1>7, <1>8

LEMMA CreditKeeps == ASSUME SeasonInv, NEW w \in Wallets, CreditSeasonPoints(w) PROVE SeasonInv'
<1>1. /\ UNCHANGED <<season, ended, division, updatedBy, worker, closes, faults, cut>>
      /\ close' = [close EXCEPT ![w] = NoClose]
  BY DEF CreditSeasonPoints, seasonVars
<1>2. PICK n \in Seasons, r \in Points :
          n = close[w].n /\ sp' = [sp EXCEPT ![n][w] = r] /\ Credited(r, sp[n][w]) /\ credits' \in Nat
  BY CreditWrites
<1>3. /\ sp \in [Seasons -> [Wallets -> Points]] /\ sp' \in [Seasons -> [Wallets -> Points]]
      /\ \A m \in Seasons, v \in Wallets : sp'[m][v] = IF m = n /\ v = w THEN r ELSE sp[m][v]
  BY <1>2 DEF SeasonInv, SeasonTypeOK
<1>4. /\ close \in [Wallets -> Close] /\ close' \in [Wallets -> Close]
      /\ \A v \in Wallets : close'[v] = IF v = w THEN NoClose ELSE close[v]
  BY <1>1, NoPointsArePoints DEF SeasonInv, SeasonTypeOK
<1>5. late' \subseteq Seasons
  BY <1>2 DEF CreditSeasonPoints, SeasonInv, SeasonTypeOK
<1>6. SeasonTypeOK'
  BY <1>1, <1>2, <1>3, <1>4, <1>5 DEF SeasonInv, SeasonTypeOK
<1>7. \A m \in Seasons, v \in Wallets : Credited(sp'[m][v], sp[m][v])
  BY <1>2, <1>3 DEF Credited
<1>8. WorkerFits(worker, season, sp, updatedBy)'
  <2>1. \A m \in Seasons, v \in Wallets :
            /\ sp[m][v].row => /\ sp'[m][v].row /\ sp'[m][v].movement = sp[m][v].movement
                               /\ sp'[m][v].pending = sp[m][v].pending
            /\ sp'[m][v].row /\ sp'[m][v].movement = "PROMOTED" =>
                   sp[m][v].row /\ sp[m][v].movement = "PROMOTED"
    BY <1>7 DEF Credited
  <2>2. worker.pc \in Working => worker.n \in Seasons
    BY DEF SeasonInv, WorkerFits
  <2>3. worker.todo \subseteq Wallets
    BY TickTypes DEF SeasonInv
  <2>4. WorkerFits(worker, season, sp', updatedBy)
    BY <2>1, <2>2, <2>3 DEF SeasonInv, WorkerFits, Working, Freezing, Queueing, Closing
  <2> QED BY <1>1, <2>4 DEF WorkerFits
<1>9. SeasonsFit(season, sp)'
  <2>1. \A m \in Seasons, v \in Wallets : Queued(sp[m][v]) => Queued(sp'[m][v])
    BY <1>7 DEF Queued, Credited
  <2>2. SeasonsFit(season, sp')
    BY <2>1 DEF SeasonInv, SeasonsFit
  <2> QED BY <1>1, <2>2 DEF SeasonsFit, Queued
<1>10. \A m \in Seasons, v \in Wallets : RowFits(sp'[m][v])
  BY <1>7 DEF SeasonInv, RowFits, Credited
<1>11. \A m \in Seasons, v \in Wallets :
           updatedBy[v] = m => sp'[m][v].row /\ sp'[m][v].movement # "NULL"
  BY <1>7 DEF SeasonInv, Credited
<1>12. \A v \in Wallets : CloseFits(close'[v], v, sp')
  <2>1. ASSUME NEW v \in Wallets PROVE CloseFits(close'[v], v, sp')
    <3>1. CASE v = w
      BY <1>4, <3>1 DEF CloseFits, NoClose
    <3>2. CASE v # w
      BY <1>3, <1>4, <3>2 DEF SeasonInv, CloseFits
    <3> QED BY <3>1, <3>2
  <2> QED BY <2>1
<1>13. /\ \A m \in Seasons, v \in Wallets : RowFits(sp[m][v])'
       /\ \A v \in Wallets : CloseFits(close[v], v, sp)'
  BY <1>10, <1>12 DEF RowFits, CloseFits
<1> QED BY <1>1, <1>6, <1>8, <1>9, <1>11, <1>13 DEF SeasonInv

----------------------------------------------------------------------------
LEMMA SeasonInvInit == SeasonInit => SeasonInv
<1> SUFFICES ASSUME SeasonInit PROVE SeasonInv
  OBVIOUS
<1>1. SeasonTypeOK
  <2>1. WorkerIdle \in Worker
    <3>1. NoPlan \in Plan
      BY DEF NoPlan, Plan, Movement
    <3> QED BY <3>1 DEF WorkerIdle, Worker, Pcs
  <2>2. division \in [Wallets -> Divisions \cup {NoRow}]
    BY TablesPerDivision DEF SeasonInit
  <2> QED BY <2>1, <2>2, NoPointsArePoints, BoundsAreNatural DEF SeasonInit, SeasonTypeOK
<1>2. WorkerFits(worker, season, sp, updatedBy)
  BY DEF SeasonInit, WorkerIdle, WorkerFits, Working, Freezing, Queueing, Closing
<1>3. \A n \in Seasons : season[n] = NoSeason /\ \A w \in Wallets : sp[n][w] = NoPoints
  BY DEF SeasonInit
<1>4. SeasonsFit(season, sp)
  <2>1. NoSeason.rewards = FALSE
    BY DEF NoSeason
  <2> QED BY <1>3, <2>1 DEF SeasonsFit
<1>5. \A n \in Seasons, w \in Wallets : RowFits(sp[n][w]) /\ updatedBy[w] # n
  BY <1>3 DEF SeasonInit, RowFits, NoPoints, Seasons
<1>6. \A w \in Wallets : CloseFits(close[w], w, sp)
  BY DEF SeasonInit, CloseFits, NoClose
<1> QED BY <1>1, <1>2, <1>4, <1>5, <1>6 DEF SeasonInv

LEMMA SeasonInvStep == SeasonInv /\ [SeasonNext]_resetVars => SeasonInv'
<1> SUFFICES ASSUME SeasonInv, [SeasonNext]_resetVars PROVE SeasonInv'
  OBVIOUS
<1>1. CASE Scheduler
  BY <1>1, TickKeeps, LookKeeps, BootstrapKeeps, FreezeKeeps, ReadsKeep, RanksWrittenKeeps,
     WriteDivisionKeeps, StartSettlingKeeps, MarkKeeps, OpenNextKeeps, SettleKeeps,
     WriteRankKeeps, WriteMovementKeeps, QueueRewardKeeps DEF Scheduler
<1>2. CASE TickFails \/ \E n \in Seasons : SeasonEnds(n)
  BY <1>2, TickFailsKeeps, SeasonEndsKeeps
<1>3. CASE \E w \in Wallets : CloseStep(w)
  BY <1>3, ReadsOfCloseKeep, CreditKeeps DEF CloseStep
<1>4. CASE UNCHANGED resetVars
  <2>1. UNCHANGED <<season, ended, sp, division, updatedBy, worker, close, credits, closes, faults,
                    late, cut>>
    BY <1>4 DEF resetVars, seasonVars, closeVars, history
  <2>2. SeasonTypeOK'
    BY <2>1 DEF SeasonInv, SeasonTypeOK
  <2>3. WorkerFits(worker, season, sp, updatedBy)' /\ SeasonsFit(season, sp)'
    BY <2>1 DEF SeasonInv, WorkerFits, SeasonsFit, Queued
  <2> QED BY <2>1, <2>2, <2>3 DEF SeasonInv, RowFits, CloseFits
<1> QED BY <1>1, <1>2, <1>3, <1>4 DEF SeasonNext

LEMMA SeasonInvariant == SeasonSpec => []SeasonInv
BY SeasonInvInit, SeasonInvStep, PTL DEF SeasonSpec

(***************************************************************************)
(* The variables of the season reset keep their types.                     *)
(***************************************************************************)
THEOREM SeasonTypes == SeasonSpec => []SeasonTypeOK
<1>1. SeasonInv => SeasonTypeOK
  BY DEF SeasonInv
<1> QED BY <1>1, SeasonInvariant, PTL

(***************************************************************************)
(* A season opens after every reward of the last one was queued.           *)
(***************************************************************************)
THEOREM RewardsBeforeNextSeason == SeasonSpec => []PromotedIsQueued
<1>1. SeasonInv => PromotedIsQueued
  <2> SUFFICES ASSUME SeasonInv, NEW n \in Seasons \ {MaxSeason}, season[n + 1] # NoSeason,
                      NEW w \in RowsOf(n), sp[n][w].movement = "PROMOTED"
               PROVE  sp[n][w].pending /\ sp[n][w].reward = TicketReward[sp[n][w].division]
    BY DEF PromotedIsQueued
  <2>1. n \in Seasons /\ n + 1 \in Seasons /\ n < n + 1
    BY BoundsAreNatural DEF Seasons
  <2>2. season[n].rewards
    BY <2>1 DEF SeasonInv, SeasonsFit
  <2>3. w \in Wallets /\ sp[n][w].row
    BY DEF RowsOf
  <2> QED BY <2>1, <2>2, <2>3 DEF SeasonInv, SeasonsFit, Queued, RowFits
<1> QED BY <1>1, SeasonInvariant, PTL

----------------------------------------------------------------------------
(* The two writes of a movement                                            *)

\* Who was moved by season n, by its rows.
MovedBy(n, w) == sp[n][w].row /\ sp[n][w].movement \in {"PROMOTED", "RELEGATED"}

\* The division of w is about to be written, for season n.
BeingMoved(n, w) == worker.pc = "divide" /\ worker.n = n /\ worker.who = w

Unplaced(n, w) == sp[n][w].row /\ sp[n][w].movement = "NULL"

CarriedInv ==
    /\ \A n \in Seasons, w \in Wallets :
           updatedBy[w] = n => MovedBy(n, w) /\ division[w] = Moved(n, w)
    /\ \A n \in Seasons, w \in Wallets :
           MovedBy(n, w) => season[n].status \in {"FREEZING", "SETTLING", "SETTLED"}
    /\ worker.pc \in {"move", "divide"} => \A w \in Wallets :
           Unplaced(worker.n, w) => w \in worker.todo \/ worker.n \in late
    /\ worker.pc = "divide" =>
           /\ MovedBy(worker.n, worker.who)
           /\ worker.plan[worker.who].movement = sp[worker.n][worker.who].movement
    /\ \A n \in Seasons, w \in Wallets :
           season[n].status \in {"SETTLING", "SETTLED"} /\ Unplaced(n, w) => n \in late
    /\ \A n \in Seasons, w \in Wallets :
           MovedBy(n, w) /\ division[w] # NoRow =>
               updatedBy[w] >= n \/ n \in cut \/ BeingMoved(n, w)

\* A row that keeps its movement, or is inserted without one.
SameMovement(new, old, open) ==
    /\ new.movement = old.movement \/ (~old.row /\ new.movement = "NULL")
    /\ old.row => new.row /\ new.division = old.division
    /\ new.row => old.row \/ (new.movement = "NULL" /\ open)

\* A step that writes no movement and no division.
LEMMA CarriedKeeps ==
    ASSUME SeasonInv, CarriedInv, UNCHANGED <<division, updatedBy>>,
           cut \subseteq cut', late \subseteq late',
           \A n \in Seasons, w \in Wallets :
               SameMovement(sp'[n][w], sp[n][w],
                            season[n].status \in {"FREEZING", "SETTLING", "SETTLED"} => n \in late'),
           \A n \in Seasons :
               /\ season[n].status \in {"FREEZING", "SETTLING", "SETTLED"}
                      => season'[n].status \in {"FREEZING", "SETTLING", "SETTLED"}
               /\ season'[n].status \in {"SETTLING", "SETTLED"}
                      => season[n].status \in {"SETTLING", "SETTLED"},
           \/ worker' = worker
           \/ /\ worker'.pc \notin {"move", "divide"}
              /\ worker.pc = "divide" => worker.n \in cut'
    PROVE  CarriedInv'
<1>1. /\ \A n \in Seasons, w \in Wallets : MovedBy(n, w) => MovedBy(n, w)' /\ Moved(n, w)' = Moved(n, w)
      /\ \A n \in Seasons, w \in Wallets : MovedBy(n, w)' => MovedBy(n, w)
      /\ \A n \in Seasons, w \in Wallets : Unplaced(n, w)' =>
             \/ Unplaced(n, w)
             \/ season[n].status \in {"FREEZING", "SETTLING", "SETTLED"} => n \in late'
  BY DEF MovedBy, Moved, Unplaced, SameMovement
<1>2. worker.pc \in {"move", "divide"} => worker.n \in Seasons /\ season[worker.n].status = "FREEZING"
  BY DEF SeasonInv, WorkerFits, Working, Freezing
<1>3. worker.pc = "divide" => worker.who \in Wallets
  BY DEF SeasonInv, WorkerFits
<1>4. \A n \in Seasons, w \in Wallets :
          updatedBy'[w] = n => MovedBy(n, w)' /\ division'[w] = Moved(n, w)'
  BY <1>1 DEF CarriedInv
<1>5. \A n \in Seasons, w \in Wallets :
          MovedBy(n, w)' => season'[n].status \in {"FREEZING", "SETTLING", "SETTLED"}
  BY <1>1 DEF CarriedInv
<1>6. worker'.pc \in {"move", "divide"} => \A w \in Wallets :
          Unplaced(worker.n, w)' => w \in worker.todo \/ worker.n \in late'
  BY <1>1, <1>2 DEF CarriedInv
<1>7. worker'.pc = "divide" =>
          /\ MovedBy(worker.n, worker.who)'
          /\ worker.plan[worker.who].movement = sp'[worker.n][worker.who].movement
  <2> SUFFICES ASSUME worker'.pc = "divide"
               PROVE  /\ MovedBy(worker.n, worker.who)'
                      /\ worker.plan[worker.who].movement = sp'[worker.n][worker.who].movement
    OBVIOUS
  <2>1. worker' = worker /\ worker.n \in Seasons /\ worker.who \in Wallets
    BY <1>2, <1>3
  <2>2. MovedBy(worker.n, worker.who)
    BY <2>1 DEF CarriedInv
  <2>3. sp'[worker.n][worker.who].movement = sp[worker.n][worker.who].movement
    BY <2>1, <2>2 DEF MovedBy, SameMovement
  <2> QED BY <1>1, <2>1, <2>2, <2>3 DEF CarriedInv, MovedBy
<1>8. \A n \in Seasons, w \in Wallets :
          season'[n].status \in {"SETTLING", "SETTLED"} /\ Unplaced(n, w)' => n \in late'
  BY <1>1 DEF CarriedInv
<1>9. \A n \in Seasons, w \in Wallets :
          MovedBy(n, w)' /\ division'[w] # NoRow =>
              updatedBy'[w] >= n \/ n \in cut' \/ BeingMoved(n, w)'
  BY <1>1 DEF CarriedInv, BeingMoved
<1>10. worker'.pc \in {"move", "divide"} => worker' = worker
  OBVIOUS
<1> QED BY <1>4, <1>5, <1>6, <1>7, <1>8, <1>9, <1>10 DEF CarriedInv, MovedBy, Unplaced

\* A step that writes no row either.
LEMMA CarriedStays ==
    ASSUME SeasonInv, CarriedInv, UNCHANGED <<sp, division, updatedBy>>,
           cut \subseteq cut', late \subseteq late',
           \A n \in Seasons :
               /\ season[n].status \in {"FREEZING", "SETTLING", "SETTLED"}
                      => season'[n].status \in {"FREEZING", "SETTLING", "SETTLED"}
               /\ season'[n].status \in {"SETTLING", "SETTLED"}
                      => season[n].status \in {"SETTLING", "SETTLED"},
           \/ worker' = worker
           \/ /\ worker'.pc \notin {"move", "divide"}
              /\ worker.pc = "divide" => worker.n \in cut'
    PROVE  CarriedInv'
<1>1. \A n \in Seasons, w \in Wallets :
          SameMovement(sp'[n][w], sp[n][w],
                       season[n].status \in {"FREEZING", "SETTLING", "SETTLED"} => n \in late')
  BY DEF SameMovement
<1> QED BY <1>1, CarriedKeeps

LEMMA ReadsCarried ==
    ASSUME SeasonInv, CarriedInv, StartTick \/ Look \/ ReadRanks \/ RanksWritten \/ ReadRewards
    PROVE  CarriedInv'
<1>1. UNCHANGED <<season, sp, division, updatedBy>> /\ UNCHANGED <<late, cut>> /\ worker.pc # "divide"
  BY DEF StartTick, Look, ReadRanks, RanksWritten, ReadRewards, Rest, history
<1>2. worker \in Worker
  BY DEF SeasonInv, SeasonTypeOK
<1>3. worker'.pc \notin {"move", "divide"}
  <2>1. CASE Look
    BY <2>1, LookLeads
  <2>2. CASE ~Look
    BY <1>2, <2>2 DEF StartTick, ReadRanks, RanksWritten, ReadRewards, Goto, BeginWrites, Worker
  <2> QED BY <2>1, <2>2
<1> QED BY <1>1, <1>3, CarriedStays

\* A step of the scheduler from one stage to the next.
LEMMA StagesCarried ==
    ASSUME SeasonInv, CarriedInv,
           \/ BootstrapFirstSeason \/ FreezeSeason \/ RewardsQueued \/ UpdatePassportBadges
           \/ OpenNextSeason \/ SettleSeason
    PROVE  CarriedInv'
<1>1. UNCHANGED <<sp, division, updatedBy>> /\ UNCHANGED <<late, cut>> /\ worker.pc # "divide"
  BY DEF BootstrapFirstSeason, FreezeSeason, RewardsQueued, UpdatePassportBadges, OpenNextSeason,
         SettleSeason, Rest, history
<1>2. worker \in Worker /\ season \in [Seasons -> Season]
  BY DEF SeasonInv, SeasonTypeOK
<1>3. worker'.pc \notin {"move", "divide"}
  BY <1>2 DEF BootstrapFirstSeason, FreezeSeason, RewardsQueued, UpdatePassportBadges, OpenNextSeason,
              SettleSeason, Goto, Worker, WorkerIdle
<1>4. \A n \in Seasons :
          /\ season[n].status \in {"FREEZING", "SETTLING", "SETTLED"}
                 => season'[n].status \in {"FREEZING", "SETTLING", "SETTLED"}
          /\ season'[n].status \in {"SETTLING", "SETTLED"}
                 => season[n].status \in {"SETTLING", "SETTLED"}
  <2>1. CASE BootstrapFirstSeason \/ OpenNextSeason
    <3>1. PICK m : \/ season' = season
                   \/ season[m] = NoSeason /\ season' = [season EXCEPT ![m] = Opened(m)]
      BY <2>1 DEF BootstrapFirstSeason, OpenNextSeason
    <3> QED BY <1>2, <3>1 DEF NoSeason, Opened
  <2>2. CASE FreezeSeason
    <3>1. worker.n \in Seasons /\ season[worker.n].status = "ACTIVE"
      BY <2>2 DEF FreezeSeason, SeasonInv, WorkerFits, Working
    <3>2. season' = [season EXCEPT ![worker.n].status = "FREEZING"]
      BY <2>2, <3>1 DEF FreezeSeason
    <3>3. \A n \in Seasons : n # worker.n => season'[n] = season[n]
      BY <1>2, <3>1, <3>2
    <3>4. season'[worker.n].status = "FREEZING"
      BY <1>2, <3>1, <3>2 DEF Season
    <3> QED BY <3>1, <3>3, <3>4
  <2>3. CASE RewardsQueued \/ UpdatePassportBadges
    <3>1. \A n \in Seasons : season'[n].status = season[n].status
      BY <1>2, <2>3 DEF RewardsQueued, UpdatePassportBadges, Season
    <3> QED BY <3>1
  <2>4. CASE SettleSeason
    <3>1. worker.n \in Seasons /\ season[worker.n].status = "SETTLING"
      BY <2>4 DEF SettleSeason, SeasonInv, WorkerFits, Working, Closing
    <3>2. season' = [season EXCEPT ![worker.n].status = "SETTLED"]
      BY <2>4, <3>1 DEF SettleSeason
    <3>3. \A n \in Seasons : n # worker.n => season'[n] = season[n]
      BY <1>2, <3>1, <3>2
    <3>4. season'[worker.n].status = "SETTLED"
      BY <1>2, <3>1, <3>2 DEF Season
    <3> QED BY <3>1, <3>3, <3>4
  <2> QED BY <2>1, <2>2, <2>3, <2>4
<1> QED BY <1>1, <1>3, <1>4, CarriedStays

LEMMA ReadMovesCarried == ASSUME SeasonInv, CarriedInv, ReadMoves PROVE CarriedInv'
<1>1. /\ UNCHANGED <<season, sp, division, updatedBy>> /\ UNCHANGED <<late, cut>>
      /\ worker.pc = "readMoves" /\ BeginWrites("move", Unmoved(worker.n))
  BY DEF ReadMoves, Rest, history
<1>2. PICK k \in Worker : At(k, "move", Unmoved(worker.n))
  <2>1. "move" \in Pcs /\ Unmoved(worker.n) \in SUBSET Wallets
    BY DEF Pcs, Unmoved, RowsOf
  <2> QED BY <1>1, <2>1, BeginLeads DEF SeasonInv
<1>3. worker'.pc = "move" /\ worker'.n = worker.n /\ worker'.todo = Unmoved(worker.n)
  BY <1>2 DEF At
<1>4. \A w \in Wallets : Unplaced(worker.n, w)' => w \in worker'.todo
  BY <1>1, <1>3 DEF Unplaced, Unmoved, RowsOf
<1>5. \A n \in Seasons, w \in Wallets :
          /\ updatedBy'[w] = n => MovedBy(n, w)' /\ division'[w] = Moved(n, w)'
          /\ MovedBy(n, w)' => season'[n].status \in {"FREEZING", "SETTLING", "SETTLED"}
          /\ season'[n].status \in {"SETTLING", "SETTLED"} /\ Unplaced(n, w)' => n \in late'
          /\ MovedBy(n, w)' /\ division'[w] # NoRow => updatedBy'[w] >= n \/ n \in cut'
  <2> SUFFICES ASSUME NEW n \in Seasons, NEW w \in Wallets
               PROVE  /\ updatedBy'[w] = n => MovedBy(n, w)' /\ division'[w] = Moved(n, w)'
                      /\ MovedBy(n, w)' => season'[n].status \in {"FREEZING", "SETTLING", "SETTLED"}
                      /\ season'[n].status \in {"SETTLING", "SETTLED"} /\ Unplaced(n, w)' => n \in late'
                      /\ MovedBy(n, w)' /\ division'[w] # NoRow => updatedBy'[w] >= n \/ n \in cut'
    OBVIOUS
  <2>1. /\ MovedBy(n, w)' <=> MovedBy(n, w)
        /\ Unplaced(n, w)' <=> Unplaced(n, w)
        /\ Moved(n, w)' = Moved(n, w) /\ ~BeingMoved(n, w)
    BY <1>1 DEF MovedBy, Moved, Unplaced, BeingMoved
  <2>2. updatedBy[w] = n => MovedBy(n, w) /\ division[w] = Moved(n, w)
    BY DEF CarriedInv
  <2>3. MovedBy(n, w) => season[n].status \in {"FREEZING", "SETTLING", "SETTLED"}
    BY DEF CarriedInv
  <2>4. season[n].status \in {"SETTLING", "SETTLED"} /\ Unplaced(n, w) => n \in late
    BY DEF CarriedInv
  <2>5. MovedBy(n, w) /\ division[w] # NoRow => updatedBy[w] >= n \/ n \in cut
    BY <2>1 DEF CarriedInv
  <2> QED BY <1>1, <2>1, <2>2, <2>3, <2>4, <2>5
<1> QED BY <1>3, <1>4, <1>5 DEF CarriedInv, MovedBy, Unplaced

LEMMA WriteMovementCarried ==
    ASSUME SeasonInv, CarriedInv, NEW w \in Wallets, WriteMovement(w)
    PROVE  CarriedInv'
<1>1. PICK n \in Seasons : /\ n = worker.n /\ worker.pc = "move" /\ w \in worker.todo
                           /\ season[n].status = "FREEZING" /\ sp[n][w].row /\ sp[n][w].movement = "NULL"
  BY DEF SeasonInv, WorkerFits, WriteMovement, InTurn, Working, Freezing
<1>2. PICK m \in Movement : m = worker.plan[w].movement /\ m # "NULL"
  <2>1. worker.plan \in Plan
    BY TickTypes, Zenon DEF SeasonInv
  <2>2. worker.plan[w].movement # "NULL"
    BY <1>1 DEF SeasonInv, WorkerFits
  <2> QED BY <2>1, <2>2 DEF Plan
<1>3. PICK k \in Worker : /\ At(k, IF m = "STAYED" THEN "move" ELSE "divide", worker.todo \ {w})
                          /\ k.who = w /\ k.plan = worker.plan
  <2>1. (IF m = "STAYED" THEN "move" ELSE "divide") \in Pcs
    BY DEF Pcs
  <2>2. Written(w, IF m = "STAYED" THEN "move" ELSE "divide")
    BY <1>2 DEF WriteMovement
  <2> QED BY <1>1, <2>1, <2>2, WrittenLeads DEF SeasonInv
<1>4. /\ worker'.pc = IF m = "STAYED" THEN "move" ELSE "divide"
      /\ worker'.n = n /\ worker'.who = w /\ worker'.todo = worker.todo \ {w}
      /\ worker'.plan = worker.plan
  BY <1>1, <1>3 DEF At
<1>5. UNCHANGED <<season, division, updatedBy>> /\ UNCHANGED <<late, cut>>
  BY DEF WriteMovement, Rest, history
<1>6. /\ \A i \in Seasons, v \in Wallets : i # n \/ v # w => sp'[i][v] = sp[i][v]
      /\ sp'[n][w].row /\ sp'[n][w].movement = m /\ sp'[n][w].division = sp[n][w].division
  <2>1. sp' = [sp EXCEPT ![n][w].movement = m]
    BY <1>1, <1>2 DEF WriteMovement
  <2>2. sp \in [Seasons -> [Wallets -> Points]] /\ sp[n][w] \in Points
    BY DEF SeasonInv, SeasonTypeOK
  <2>3. \A i \in Seasons, v \in Wallets : i # n \/ v # w => sp'[i][v] = sp[i][v]
    BY <2>1, <2>2
  <2>4. sp'[n][w] = [sp[n][w] EXCEPT !.movement = m]
    BY <2>1, <2>2
  <2> QED BY <1>1, <2>2, <2>3, <2>4 DEF Points
<1>7. \A i \in Seasons, v \in Wallets : i # n \/ v # w =>
          /\ MovedBy(i, v)' <=> MovedBy(i, v)
          /\ Unplaced(i, v)' <=> Unplaced(i, v)
          /\ Moved(i, v)' = Moved(i, v)
  BY <1>6 DEF MovedBy, Unplaced, Moved
<1>8. ~Unplaced(n, w)' /\ (MovedBy(n, w)' => m \in {"PROMOTED", "RELEGATED"})
  BY <1>2, <1>6 DEF MovedBy, Unplaced
<1>9. \A i \in Seasons, v \in Wallets :
          updatedBy'[v] = i => MovedBy(i, v)' /\ division'[v] = Moved(i, v)'
  <2>1. updatedBy[w] # n
    BY <1>1 DEF SeasonInv
  <2> QED BY <1>5, <1>7, <2>1 DEF CarriedInv
<1>10. \A i \in Seasons, v \in Wallets :
          MovedBy(i, v)' => season'[i].status \in {"FREEZING", "SETTLING", "SETTLED"}
  BY <1>1, <1>5, <1>7 DEF CarriedInv
<1>11. \A v \in Wallets : Unplaced(n, v)' => v \in worker'.todo \/ n \in late'
  BY <1>1, <1>4, <1>5, <1>7, <1>8 DEF CarriedInv
<1>12. worker'.pc = "divide" => MovedBy(n, w)' /\ worker'.plan[w].movement = sp'[n][w].movement
  BY <1>2, <1>4, <1>6 DEF MovedBy, Movement
<1>13. \A i \in Seasons, v \in Wallets :
          season'[i].status \in {"SETTLING", "SETTLED"} /\ Unplaced(i, v)' => i \in late'
  BY <1>1, <1>5, <1>7 DEF CarriedInv
<1>14. \A i \in Seasons, v \in Wallets :
          MovedBy(i, v)' /\ division'[v] # NoRow =>
              updatedBy'[v] >= i \/ i \in cut' \/ BeingMoved(i, v)'
  <2>1. ASSUME NEW i \in Seasons, NEW v \in Wallets, MovedBy(i, v)', division'[v] # NoRow, i # n \/ v # w
        PROVE  updatedBy'[v] >= i \/ i \in cut'
    BY <1>1, <1>5, <1>7, <2>1 DEF CarriedInv, BeingMoved
  <2>2. MovedBy(n, w)' => BeingMoved(n, w)'
    BY <1>4, <1>8 DEF BeingMoved
  <2> QED BY <2>1, <2>2
<1> QED BY <1>4, <1>9, <1>10, <1>11, <1>12, <1>13, <1>14 DEF CarriedInv, MovedBy, Unplaced

\* The division is written where the movement says, and no later season has
\* written it yet.
LEMMA WriteDivisionCarried == ASSUME SeasonInv, CarriedInv, WriteDivision PROVE CarriedInv'
<1>1. PICK n \in Seasons, w \in Wallets :
          /\ n = worker.n /\ w = worker.who /\ worker.pc = "divide" /\ season[n].status = "FREEZING"
  BY DEF SeasonInv, WorkerFits, WriteDivision, Working, Freezing
<1>2. MovedBy(n, w) /\ worker.plan[w].movement = sp[n][w].movement
  BY <1>1 DEF CarriedInv
<1>3. worker'.pc = "move" /\ worker'.n = n /\ worker'.todo = worker.todo
  <2>1. "move" \in Pcs
    BY DEF Pcs
  <2>2. PICK k \in Worker : At(k, "move", worker.todo)
    BY <2>1, GotoLeads DEF SeasonInv, WriteDivision
  <2> QED BY <1>1, <2>2 DEF At
<1>4. UNCHANGED <<season, sp>> /\ UNCHANGED <<late, cut>>
  BY DEF WriteDivision, Rest, history
<1>5. \/ division[w] = NoRow /\ UNCHANGED <<division, updatedBy>>
      \/ division' = [division EXCEPT ![w] = Moved(n, w)] /\ updatedBy' = [updatedBy EXCEPT ![w] = n]
  BY <1>1, <1>2 DEF WriteDivision, Moved, DivisionOf
<1>6. updatedBy \in [Wallets -> Seasons \cup {0}] /\ division \in [Wallets -> Divisions \cup {NoRow}]
  BY DEF SeasonInv, SeasonTypeOK
<1>7. \A i \in Seasons : n < i => season[i] = NoSeason
  BY <1>1 DEF SeasonInv, SeasonsFit
<1>8. ASSUME NEW i \in Seasons, NEW v \in Wallets
      PROVE  /\ updatedBy'[v] = i => MovedBy(i, v)' /\ division'[v] = Moved(i, v)'
             /\ MovedBy(i, v)' => season'[i].status \in {"FREEZING", "SETTLING", "SETTLED"}
             /\ season'[i].status \in {"SETTLING", "SETTLED"} /\ Unplaced(i, v)' => i \in late'
             /\ MovedBy(i, v)' /\ division'[v] # NoRow => updatedBy'[v] >= i \/ i \in cut'
  <2>1. /\ MovedBy(i, v)' <=> MovedBy(i, v)
        /\ Unplaced(i, v)' <=> Unplaced(i, v)
        /\ Moved(i, v)' = Moved(i, v)
    BY <1>4 DEF MovedBy, Moved, Unplaced
  <2>2. /\ updatedBy[v] = i => MovedBy(i, v) /\ division[v] = Moved(i, v)
        /\ MovedBy(i, v) => season[i].status \in {"FREEZING", "SETTLING", "SETTLED"}
        /\ season[i].status \in {"SETTLING", "SETTLED"} /\ Unplaced(i, v) => i \in late
    BY DEF CarriedInv
  <2>3. MovedBy(i, v) /\ division[v] # NoRow => updatedBy[v] >= i \/ i \in cut \/ (i = n /\ v = w)
    BY <1>1 DEF CarriedInv, BeingMoved
  <2>4. CASE v # w
    <3>1. division'[v] = division[v] /\ updatedBy'[v] = updatedBy[v]
      BY <1>5, <1>6, <2>4
    <3> QED BY <1>4, <2>1, <2>2, <2>3, <2>4, <3>1
  <2>5. CASE v = w /\ division[w] = NoRow /\ UNCHANGED <<division, updatedBy>>
    BY <1>4, <2>1, <2>2, <2>5
  <2>6. CASE v = w /\ division'[w] = Moved(n, w) /\ updatedBy'[w] = n
    <3>1. MovedBy(i, v) => i <= n
      <4>1. i \in Int /\ n \in Int
        BY DEF Seasons
      <4> QED BY <1>7, <2>2, <4>1 DEF NoSeason
    <3>2. i \in Int /\ n \in Int
      BY DEF Seasons
    <3> QED BY <1>2, <1>4, <2>1, <2>2, <2>6, <3>1, <3>2
  <2>7. \/ division[w] = NoRow /\ UNCHANGED <<division, updatedBy>>
        \/ division'[w] = Moved(n, w) /\ updatedBy'[w] = n
    BY <1>5, <1>6
  <2> QED BY <2>4, <2>5, <2>6, <2>7
<1>9. \A v \in Wallets : Unplaced(n, v)' => v \in worker'.todo \/ n \in late'
  BY <1>1, <1>3, <1>4 DEF CarriedInv, Unplaced
<1> QED BY <1>3, <1>8, <1>9 DEF CarriedInv, MovedBy, Unplaced

LEMMA StartSettlingCarried == ASSUME SeasonInv, CarriedInv, StartSettling PROVE CarriedInv'
<1>1. PICK n \in Seasons : /\ n = worker.n /\ season[n].status = "FREEZING"
                           /\ worker.pc = "move" /\ worker.todo = {}
  BY DEF SeasonInv, WorkerFits, StartSettling, Working, Freezing
<1>2. /\ \A i \in Seasons : i # n => season'[i] = season[i]
      /\ season'[n].status = "SETTLING"
  <2>1. season \in [Seasons -> Season]
    BY DEF SeasonInv, SeasonTypeOK
  <2>2. season' = [season EXCEPT ![n].status = "SETTLING"]
    BY <1>1 DEF StartSettling
  <2>3. season'[n] = [season[n] EXCEPT !.status = "SETTLING"]
    BY <2>1, <2>2
  <2> QED BY <2>1, <2>2, <2>3 DEF Season
<1>3. worker'.pc = "look"
  <2>1. worker \in Worker
    BY DEF SeasonInv, SeasonTypeOK
  <2> QED BY <2>1 DEF StartSettling, Goto, Worker
<1>4. UNCHANGED <<sp, division, updatedBy>> /\ UNCHANGED <<late, cut>>
  BY DEF StartSettling, Rest, history
<1>5. ASSUME NEW i \in Seasons, NEW v \in Wallets
      PROVE  /\ updatedBy'[v] = i => MovedBy(i, v)' /\ division'[v] = Moved(i, v)'
             /\ MovedBy(i, v)' => season'[i].status \in {"FREEZING", "SETTLING", "SETTLED"}
             /\ season'[i].status \in {"SETTLING", "SETTLED"} /\ Unplaced(i, v)' => i \in late'
             /\ MovedBy(i, v)' /\ division'[v] # NoRow => updatedBy'[v] >= i \/ i \in cut'
  <2>1. /\ MovedBy(i, v)' <=> MovedBy(i, v)
        /\ Unplaced(i, v)' <=> Unplaced(i, v)
        /\ Moved(i, v)' = Moved(i, v)
    BY <1>4 DEF MovedBy, Moved, Unplaced
  <2>2. /\ updatedBy[v] = i => MovedBy(i, v) /\ division[v] = Moved(i, v)
        /\ MovedBy(i, v) => season[i].status \in {"FREEZING", "SETTLING", "SETTLED"}
        /\ season[i].status \in {"SETTLING", "SETTLED"} /\ Unplaced(i, v) => i \in late
    BY DEF CarriedInv
  <2>3. MovedBy(i, v) /\ division[v] # NoRow => updatedBy[v] >= i \/ i \in cut
    BY <1>1 DEF CarriedInv, BeingMoved
  <2>4. i = n /\ Unplaced(i, v) => i \in late
    BY <1>1 DEF CarriedInv
  <2> QED BY <1>2, <1>4, <2>1, <2>2, <2>3, <2>4
<1> QED BY <1>3, <1>5 DEF CarriedInv

\* Ranks and rewards leave the movements alone.
LEMMA RowsCarried ==
    ASSUME SeasonInv, CarriedInv, NEW w \in Wallets, WriteRank(w) \/ QueueReward(w)
    PROVE  CarriedInv'
<1>1. worker.n \in Seasons /\ worker.pc \in {"rank", "reward"}
  BY DEF SeasonInv, WorkerFits, WriteRank, QueueReward, Working, Freezing, Queueing
<1>2. PICK r : /\ sp' = [sp EXCEPT ![worker.n][w] = r]
               /\ r.row = sp[worker.n][w].row /\ r.movement = sp[worker.n][w].movement
               /\ r.division = sp[worker.n][w].division
  <2>1. sp[worker.n][w] \in Points /\ sp \in [Seasons -> [Wallets -> Points]]
    BY <1>1 DEF SeasonInv, SeasonTypeOK
  <2>2. CASE WriteRank(w)
    <3> DEFINE r == [sp[worker.n][w] EXCEPT !.rank = worker.plan[w].rank]
    <3>1. sp' = [sp EXCEPT ![worker.n][w] = r]
      BY <2>1, <2>2 DEF WriteRank
    <3>2. r.row = sp[worker.n][w].row /\ r.movement = sp[worker.n][w].movement
          /\ r.division = sp[worker.n][w].division
      BY <2>1 DEF Points
    <3> HIDE DEF r
    <3> QED BY <3>1, <3>2
  <2>3. CASE QueueReward(w) /\ sp[worker.n][w].pending
    <3>1. sp' = [sp EXCEPT ![worker.n][w] = sp[worker.n][w]]
      BY <1>1, <2>1, <2>3 DEF QueueReward
    <3> QED BY <3>1
  <2>4. CASE QueueReward(w) /\ ~sp[worker.n][w].pending
    <3> DEFINE r == [sp[worker.n][w] EXCEPT !.reward = TicketReward[DivisionOf(w)], !.pending = TRUE]
    <3>1. sp' = [sp EXCEPT ![worker.n][w] = r]
      BY <1>1, <2>1, <2>4 DEF QueueReward
    <3>2. r.row = sp[worker.n][w].row /\ r.movement = sp[worker.n][w].movement
          /\ r.division = sp[worker.n][w].division
      BY <2>1 DEF Points
    <3> HIDE DEF r
    <3> QED BY <3>1, <3>2
  <2> QED BY <2>2, <2>3, <2>4
<1>3. UNCHANGED <<season, division, updatedBy>> /\ UNCHANGED <<late, cut>>
  BY DEF WriteRank, QueueReward, Rest, history
<1>4. \A n \in Seasons, v \in Wallets :
          SameMovement(sp'[n][v], sp[n][v],
                       season[n].status \in {"FREEZING", "SETTLING", "SETTLED"} => n \in late')
  <2>1. sp \in [Seasons -> [Wallets -> Points]]
    BY DEF SeasonInv, SeasonTypeOK
  <2>2. \A n \in Seasons, v \in Wallets :
            sp'[n][v] = IF n = worker.n /\ v = w THEN r ELSE sp[n][v]
    BY <1>1, <1>2, <2>1
  <2> QED BY <1>1, <1>2, <2>2 DEF SameMovement
<1>5. worker'.pc \notin {"move", "divide"}
  <2>1. worker \in Worker
    BY DEF SeasonInv, SeasonTypeOK
  <2> QED BY <2>1 DEF WriteRank, QueueReward, Written, Worker
<1> QED BY <1>1, <1>3, <1>4, <1>5, CarriedKeeps

\* A close that inserts a row after the freeze is a late one.
LEMMA CreditCarried ==
    ASSUME SeasonInv, CarriedInv, NEW w \in Wallets, CreditSeasonPoints(w)
    PROVE  CarriedInv'
<1>1. PICK n \in Seasons : n = close[w].n
  BY CreditWrites
<1>2. PICK r \in Points : sp' = [sp EXCEPT ![n][w] = r] /\ Credited(r, sp[n][w])
  BY <1>1, CreditWrites
<1>3. /\ UNCHANGED <<season, division, updatedBy, worker, cut>>
      /\ late' = IF season[n].status = "ACTIVE" THEN late ELSE late \cup {n}
  BY <1>1 DEF CreditSeasonPoints, seasonVars
<1>4. \A i \in Seasons, v \in Wallets :
          SameMovement(sp'[i][v], sp[i][v],
                       season[i].status \in {"FREEZING", "SETTLING", "SETTLED"} => i \in late')
  <2>1. sp \in [Seasons -> [Wallets -> Points]]
    BY DEF SeasonInv, SeasonTypeOK
  <2>2. \A i \in Seasons, v \in Wallets : sp'[i][v] = IF i = n /\ v = w THEN r ELSE sp[i][v]
    BY <1>2, <2>1
  <2>3. SameMovement(r, sp[n][w], season[n].status \in {"FREEZING", "SETTLING", "SETTLED"} => n \in late')
    BY <1>2, <1>3 DEF SameMovement, Credited
  <2> QED BY <2>2, <2>3 DEF SameMovement
<1> QED BY <1>3, <1>4, CarriedKeeps

LEMMA OutsideCarried ==
    ASSUME SeasonInv, CarriedInv,
           \/ TickFails \/ \E n \in Seasons : SeasonEnds(n)
           \/ \E w \in Wallets : GetPlayerDivision(w) \/ GetSeason(w) \/ ReadPoints(w)
    PROVE  CarriedInv'
<1>1. CASE TickFails
  <2>1. worker'.pc = "idle" /\ UNCHANGED <<season, sp, division, updatedBy, late>>
    BY <1>1 DEF TickFails, WorkerIdle, seasonVars
  <2>2. worker.pc = "divide" => worker.n \in Seasons
    BY DEF SeasonInv, WorkerFits, Working, Freezing
  <2>3. cut \subseteq cut' /\ (worker.pc = "divide" => worker.n \in cut')
    BY <1>1, <2>2 DEF TickFails, SeasonInv, SeasonTypeOK, Seasons
  <2> QED BY <2>1, <2>3, CarriedStays
<1>2. CASE ~TickFails
  <2>1. UNCHANGED <<season, sp, division, updatedBy, worker>> /\ UNCHANGED <<late, cut>>
    BY <1>2 DEF SeasonEnds, GetPlayerDivision, GetSeason, ReadPoints, seasonVars, history
  <2> QED BY <2>1, CarriedStays
<1> QED BY <1>1, <1>2

LEMMA CarriedStep == SeasonInv /\ CarriedInv /\ [SeasonNext]_resetVars => CarriedInv'
<1> SUFFICES ASSUME SeasonInv, CarriedInv, [SeasonNext]_resetVars PROVE CarriedInv'
  OBVIOUS
<1>1. CASE UNCHANGED resetVars
  <2>1. UNCHANGED <<season, sp, division, updatedBy, worker>> /\ UNCHANGED <<late, cut>>
    BY <1>1 DEF resetVars, seasonVars, history
  <2> QED BY <2>1, CarriedStays
<1>2. CASE Scheduler
  <2>1. CASE \E w \in Wallets : WriteRank(w) \/ WriteMovement(w) \/ QueueReward(w)
    BY <2>1, RowsCarried, WriteMovementCarried
  <2>2. CASE ~\E w \in Wallets : WriteRank(w) \/ WriteMovement(w) \/ QueueReward(w)
    BY <1>2, <2>2, ReadsCarried, StagesCarried, ReadMovesCarried, WriteDivisionCarried,
       StartSettlingCarried DEF Scheduler
  <2> QED BY <2>1, <2>2
<1>3. CASE TickFails \/ \E n \in Seasons : SeasonEnds(n)
  BY <1>3, OutsideCarried
<1>4. CASE \E w \in Wallets : CloseStep(w)
  BY <1>4, OutsideCarried, CreditCarried DEF CloseStep
<1> QED BY <1>1, <1>2, <1>3, <1>4 DEF SeasonNext

LEMMA CarriedInit == SeasonInit => CarriedInv
<1> SUFFICES ASSUME SeasonInit PROVE CarriedInv
  OBVIOUS
<1>1. /\ \A n \in Seasons, w \in Wallets : ~MovedBy(n, w) /\ ~Unplaced(n, w) /\ updatedBy[w] # n
      /\ worker.pc = "idle"
  BY DEF SeasonInit, MovedBy, Unplaced, NoPoints, Seasons, WorkerIdle
<1> QED BY <1>1 DEF CarriedInv

\* The divisions table stands where the movements say, and where a season has
\* settled nothing is left to do but what a broken tick or a late credit left.
THEOREM MovesCarriedOut == SeasonSpec => []MovesAreCarriedOut
<1>1. SeasonInv /\ CarriedInv => MovesAreCarriedOut
  <2> SUFFICES ASSUME SeasonInv, CarriedInv, NEW n \in Seasons, NEW w \in Wallets
               PROVE  /\ updatedBy[w] = n => w \in Movers(n) /\ division[w] = Moved(n, w)
                      /\ season[n].status \in {"SETTLING", "SETTLED"} =>
                            /\ w \in RowsOf(n) /\ sp[n][w].movement = "NULL" => n \in late
                            /\ w \in Movers(n) /\ division[w] # NoRow => updatedBy[w] >= n \/ n \in cut
    BY DEF MovesAreCarriedOut
  <2>1. w \in Movers(n) <=> MovedBy(n, w)
    BY DEF Movers, RowsOf, MovedBy
  <2>2. w \in RowsOf(n) /\ sp[n][w].movement = "NULL" <=> Unplaced(n, w)
    BY DEF RowsOf, Unplaced
  <2>3. season[n].status \in {"SETTLING", "SETTLED"} => ~BeingMoved(n, w)
    BY DEF BeingMoved, SeasonInv, WorkerFits, Freezing
  <2>4. /\ updatedBy[w] = n => MovedBy(n, w) /\ division[w] = Moved(n, w)
        /\ season[n].status \in {"SETTLING", "SETTLED"} /\ Unplaced(n, w) => n \in late
        /\ MovedBy(n, w) /\ division[w] # NoRow => updatedBy[w] >= n \/ n \in cut \/ BeingMoved(n, w)
    BY DEF CarriedInv
  <2> QED BY <2>1, <2>2, <2>3, <2>4
<1> QED BY <1>1, SeasonInvariant, CarriedInit, CarriedStep, PTL DEF SeasonSpec

----------------------------------------------------------------------------
(* Standings                                                               *)

Counted(rows, S) == S \in SUBSET Wallets /\ \A w \in S : rows[w].points \in Nat /\ rows[w].at \in Nat

LEMMA OutranksIsOrder ==
    ASSUME NEW rows, NEW S, Counted(rows, S)
    PROVE  /\ \A w \in S : ~Outranks(rows, w, w)
           /\ \A u, v, w \in S : Outranks(rows, u, v) /\ Outranks(rows, v, w) => Outranks(rows, u, w)
           /\ \A v, w \in S : v # w => Outranks(rows, v, w) \/ Outranks(rows, w, v)
<1>1. \A w \in S : w \in Int /\ rows[w].points \in Nat /\ rows[w].at \in Nat
  BY WalletsAreNumbers DEF Counted
<1> QED BY <1>1 DEF Outranks

LEMMA AboveIsFinite ==
    ASSUME NEW rows, NEW S, Counted(rows, S), NEW w
    PROVE  /\ IsFiniteSet({v \in S : Outranks(rows, v, w)})
           /\ Cardinality({v \in S : Outranks(rows, v, w)}) \in Nat
<1>1. IsFiniteSet({v \in S : Outranks(rows, v, w)})
  BY WalletsAreNumbers, FS_Subset DEF Counted
<1> QED BY <1>1, FS_CardinalityType

LEMMA RankOrders ==
    ASSUME NEW rows, NEW S, Counted(rows, S), NEW v \in S, NEW w \in S, Outranks(rows, v, w)
    PROVE  RankAmong(rows, S, v) < RankAmong(rows, S, w)
<1> DEFINE above(u) == {x \in S : Outranks(rows, x, u)}
<1>1. above(v) \in SUBSET above(w)
  BY OutranksIsOrder
<1>2. v \in above(w) /\ v \notin above(v)
  BY OutranksIsOrder
<1>3. /\ IsFiniteSet(above(v)) /\ IsFiniteSet(above(w))
      /\ Cardinality(above(v)) \in Nat /\ Cardinality(above(w)) \in Nat
  BY AboveIsFinite
<1>4. RankAmong(rows, S, v) = Cardinality(above(v)) + 1 /\ RankAmong(rows, S, w) = Cardinality(above(w)) + 1
  BY DEF RankAmong
<1> HIDE DEF above
<1>5. Cardinality(above(v)) <= Cardinality(above(w)) /\ Cardinality(above(v)) # Cardinality(above(w))
  BY <1>1, <1>2, <1>3, FS_Subset
<1> QED BY <1>3, <1>4, <1>5

LEMMA RanksDiffer ==
    ASSUME NEW rows, NEW S, Counted(rows, S)
    PROVE  /\ \A w \in S : RankAmong(rows, S, w) \in Nat /\ RankAmong(rows, S, w) >= 1
           /\ \A v, w \in S : v # w => RankAmong(rows, S, v) # RankAmong(rows, S, w)
           /\ \A v, w \in S : RankAmong(rows, S, v) < RankAmong(rows, S, w) <=> Outranks(rows, v, w)
<1>1. \A w \in S : RankAmong(rows, S, w) \in Nat /\ RankAmong(rows, S, w) >= 1
  BY AboveIsFinite DEF RankAmong
<1>2. \A v, w \in S : Outranks(rows, v, w) => RankAmong(rows, S, v) < RankAmong(rows, S, w)
  BY RankOrders
<1>3. \A v, w \in S : v = w \/ Outranks(rows, v, w) \/ Outranks(rows, w, v)
  BY OutranksIsOrder
<1> QED BY <1>1, <1>2, <1>3

\* Among some there is a first.
LEMMA SomebodyIsFirst ==
    ASSUME NEW rows, NEW S, Counted(rows, S), S # {}
    PROVE  \E v \in S : RankAmong(rows, S, v) = 1
<1> DEFINE rank(w) == RankAmong(rows, S, w)
           ranks == {rank(w) : w \in S}
<1>1. \A w \in S : rank(w) \in Nat
  BY RanksDiffer
<1>2. ranks \subseteq Nat /\ ranks # {}
  BY <1>1
<1>3. Min(ranks) \in ranks /\ \A k \in ranks : Min(ranks) <= k
  <2> HIDE DEF ranks
  <2> QED BY <1>2, LeastExists
<1>4. PICK v \in S : Min(ranks) = rank(v)
  BY <1>3
<1>5. \A w \in S : ~(rank(w) < rank(v))
  <2>1. ASSUME NEW w \in S PROVE ~(rank(w) < rank(v))
    <3>1. rank(w) \in ranks /\ rank(w) \in Nat /\ rank(v) \in Nat
      BY <1>1
    <3> HIDE DEF ranks, rank
    <3> QED BY <1>3, <1>4, <3>1
  <2> QED BY <2>1
<1>6. {w \in S : Outranks(rows, w, v)} = {}
  BY <1>5, RanksDiffer
<1>7. Cardinality({w \in S : Outranks(rows, w, v)}) = 0
  BY <1>6, FS_EmptySet
<1>8. RankAmong(rows, S, v) = 0 + 1
  BY <1>7 DEF RankAmong
<1> HIDE DEF rank, ranks
<1> QED BY <1>8

\* The first k are no more than k.
LEMMA FewAreFirst ==
    ASSUME NEW rows, NEW S, Counted(rows, S), NEW k \in Nat,
           NEW T \in SUBSET S, \A w \in T : RankAmong(rows, S, w) <= k
    PROVE  Cardinality(T) <= k
<1> DEFINE f == [w \in T |-> RankAmong(rows, S, w)]
<1>1. f \in [T -> 1..k]
  BY RanksDiffer
<1>2. \A v, w \in T : f[v] = f[w] => v = w
  BY RanksDiffer
<1>3. f \in Injection(T, 1..k)
  <2> HIDE DEF f
  <2> QED BY <1>1, <1>2 DEF Injection, IsInjective
<1>4. IsFiniteSet(1..k) /\ Cardinality(1..k) = k
  <2>1. Cardinality(1..k) = IF 1 > k THEN 0 ELSE k - 1 + 1
    BY FS_Interval
  <2> QED BY <2>1, FS_Interval
<1> HIDE DEF f
<1> QED BY <1>3, <1>4, FS_Injection

----------------------------------------------------------------------------
(* Quotas                                                                  *)

LEMMA SmallerAndGreater ==
    /\ \A a, b \in Int : Min({a, b}) = IF a <= b THEN a ELSE b
    /\ \A a, b \in Int : Max({a, b}) = IF a >= b THEN a ELSE b
BY DEF Min, Max

LEMMA ShareIsNatural == ASSUME NEW a \in Nat, NEW p \in Nat PROVE (a * p) \div 100 \in Nat
<1>1. a * p \in Nat
  OBVIOUS
<1>2. \A x \in Nat : x \div 100 \in Nat
  OBVIOUS
<1> QED BY <1>1, <1>2

LEMMA QuotaFits ==
    ASSUME NEW d \in Divisions, NEW size \in Nat
    PROVE  /\ PromoteCount(d, size) \in Nat
           /\ size > 0 => PromoteCount(d, size) >= 1
           /\ PromoteCount(d, size) <=
                 IF size < SmallDivision THEN TopCount ELSE Max({1, (size * PromotionPct[d]) \div 100})
<1>1. PromotionPct[d] \in Nat /\ TopCount \in Nat /\ SmallDivision \in Nat /\ TopCount > 0
  BY TablesPerDivision, BoundsAreNatural, SomebodyGoesUp
<1>2. PICK share \in Nat : share = (size * PromotionPct[d]) \div 100
  BY <1>1, ShareIsNatural
<1>3. Max({1, share}) = (IF 1 >= share THEN 1 ELSE share)
  BY SmallerAndGreater
<1>4. Min({TopCount, size}) = (IF TopCount <= size THEN TopCount ELSE size)
  BY <1>1, SmallerAndGreater
<1>5. PromoteCount(d, size) = IF size < SmallDivision THEN Min({TopCount, size}) ELSE Max({1, share})
  BY <1>2 DEF PromoteCount
<1> QED BY <1>1, <1>2, <1>3, <1>4, <1>5

Playing(rows, S) == {v \in S : rows[v].points > 0}
GoingUp(rows, S) == {w \in S : MovementOf(rows, w, S) = "PROMOTED"}

LEMMA MovementIs ==
    ASSUME NEW rows, NEW S, Counted(rows, S), NEW w \in S
    PROVE  /\ MovementOf(rows, w, S) = "PROMOTED" <=>
                  /\ w \in Playing(rows, S) /\ rows[w].division # Top
                  /\ RankAmong(rows, Playing(rows, S), w)
                         <= PromoteCount(rows[w].division, Cardinality(Playing(rows, S)))
           /\ rows[w].points = 0 /\ rows[w].division # 0 => MovementOf(rows, w, S) = "RELEGATED"
           /\ MovementOf(rows, w, S) # "NULL"
<1>1. PICK A, d : A = Playing(rows, S) /\ A = {v \in S : rows[v].points > 0} /\ d = rows[w].division
  BY DEF Playing
<1>2. w \in A => rows[w].points > 0
  BY <1>1
<1>3. rows[w].points \in Nat
  BY DEF Counted
<1>4. /\ MovementOf(rows, w, S) = "PROMOTED" <=>
             w \in A /\ d # Top /\ RankAmong(rows, A, w) <= PromoteCount(d, Cardinality(A))
      /\ rows[w].points = 0 /\ d # 0 => MovementOf(rows, w, S) = "RELEGATED"
      /\ MovementOf(rows, w, S) # "NULL"
  BY <1>1, <1>2, <1>3 DEF MovementOf
<1> QED BY <1>1, <1>4

\* The movements of a division, by the ranks.
LEMMA BestGoUp ==
    ASSUME NEW rows, NEW S, Counted(rows, S), NEW d \in Divisions,
           \A w \in S : rows[w].division = d
    PROVE  /\ GoingUp(rows, S) \subseteq Playing(rows, S)
           /\ d < Top /\ Playing(rows, S) # {} => GoingUp(rows, S) # {}
           /\ Cardinality(GoingUp(rows, S)) <=
                  IF Cardinality(Playing(rows, S)) < SmallDivision THEN TopCount
                  ELSE Max({1, (Cardinality(Playing(rows, S)) * PromotionPct[d]) \div 100})
           /\ \A v \in GoingUp(rows, S), w \in S \ GoingUp(rows, S) :
                  RankAmong(rows, S, v) < RankAmong(rows, S, w)
<1>a. PICK A : A = Playing(rows, S) /\ A = {v \in S : rows[v].points > 0}
  BY DEF Playing
<1>b. PICK up : up = GoingUp(rows, S) /\ up = {w \in S : MovementOf(rows, w, S) = "PROMOTED"}
  BY DEF GoingUp
<1>1. \A w \in S : /\ w \in up <=> w \in A /\ d # Top /\ RankAmong(rows, A, w) <= PromoteCount(d, Cardinality(A))
                   /\ rows[w].points \in Nat
  BY <1>a, <1>b, MovementIs DEF Counted
<1>2. Counted(rows, A) /\ A \in SUBSET S /\ up \subseteq A /\ up \subseteq S
  BY <1>a, <1>b, <1>1 DEF Counted
<1>3. PICK size \in Nat : size = Cardinality(A) /\ IsFiniteSet(A) /\ (A # {} => size > 0)
  <2>1. IsFiniteSet(A)
    BY <1>2, WalletsAreNumbers, FS_Subset DEF Counted
  <2>2. Cardinality(A) \in Nat /\ (A # {} => Cardinality(A) # 0)
    BY <2>1, FS_CardinalityType, FS_EmptySet, Zenon
  <2>3. A # {} => Cardinality(A) > 0
    BY <2>2
  <2> QED BY <2>1, <2>2, <2>3, Zenon
<1>4. PICK k \in Nat : /\ k = PromoteCount(d, Cardinality(A)) /\ (size > 0 => k >= 1)
                       /\ k <= IF size < SmallDivision THEN TopCount
                               ELSE Max({1, (size * PromotionPct[d]) \div 100})
  BY <1>3, QuotaFits
<1>5. d < Top /\ A # {} => up # {}
  <2> SUFFICES ASSUME d < Top, A # {} PROVE up # {}
    OBVIOUS
  <2>1. PICK v \in A : RankAmong(rows, A, v) = 1
    BY <1>2, SomebodyIsFirst
  <2>2. d # Top /\ v \in S
    BY <1>2, BoundsAreNatural DEF Divisions
  <2> QED BY <1>1, <1>3, <1>4, <2>1, <2>2
<1>6. Cardinality(up) <= k
  <2>1. up \in SUBSET A /\ \A w \in up : RankAmong(rows, A, w) <= k
    BY <1>1, <1>2, <1>4
  <2> QED BY <1>2, <2>1, FewAreFirst
<1>7. ASSUME NEW v \in S, NEW w \in S, v \in up, w \notin up
      PROVE  RankAmong(rows, S, v) < RankAmong(rows, S, w)
  <2>1. v \in A /\ d # Top /\ RankAmong(rows, A, v) <= k /\ v # w
    BY <1>1, <1>4, <1>7
  <2>2. CASE w \in A
    <3>1. ~(RankAmong(rows, A, w) <= k)
      BY <1>1, <1>4, <1>7, <2>1, <2>2
    <3>2. RankAmong(rows, A, v) < RankAmong(rows, A, w)
      BY <1>2, <2>1, <2>2, <3>1, RanksDiffer
    <3>3. Outranks(rows, v, w)
      BY <1>2, <2>1, <2>2, <3>2, RanksDiffer
    <3> QED BY <3>3, RankOrders
  <2>3. CASE w \notin A
    <3>1. rows[v].points > 0 /\ ~(rows[w].points > 0) /\ rows[v].points \in Nat /\ rows[w].points \in Nat
      BY <1>a, <1>1, <2>1, <2>3
    <3>2. Outranks(rows, v, w)
      BY <3>1 DEF Outranks
    <3> QED BY <3>2, RankOrders
  <2> QED BY <2>2, <2>3
<1>8. Cardinality(up) \in Nat
  <2>1. IsFiniteSet(up)
    BY <1>2, <1>3, FS_Subset
  <2> QED BY <2>1, FS_CardinalityType
<1>9. Cardinality(up) <= IF size < SmallDivision THEN TopCount
                         ELSE Max({1, (size * PromotionPct[d]) \div 100})
  <2>1. PICK q \in Nat : q = IF size < SmallDivision THEN TopCount
                             ELSE Max({1, (size * PromotionPct[d]) \div 100})
    <3>1. PromotionPct[d] \in Nat /\ TopCount \in Nat
      BY TablesPerDivision, BoundsAreNatural
    <3>2. PICK share \in Nat : share = (size * PromotionPct[d]) \div 100
      BY <3>1, ShareIsNatural
    <3>3. Max({1, share}) = (IF 1 >= share THEN 1 ELSE share)
      BY SmallerAndGreater
    <3> QED BY <3>1, <3>2, <3>3
  <2> QED BY <1>4, <1>6, <1>8, <2>1
<1> QED BY <1>a, <1>b, <1>2, <1>3, <1>5, <1>7, <1>9

----------------------------------------------------------------------------
(* A plan is a matter of divisions, points and times.                      *)

LEMMA PlanStays ==
    ASSUME NEW old, NEW new, NEW S \in SUBSET Wallets,
           \A v \in S : /\ new[v].division = old[v].division /\ new[v].points = old[v].points
                        /\ new[v].at = old[v].at
    PROVE  PlanFor(new, S) = PlanFor(old, S)
<1>1. \A v, w \in S : Outranks(new, v, w) <=> Outranks(old, v, w)
  BY DEF Outranks
<1>2. ASSUME NEW T \in SUBSET S, NEW w \in S PROVE RankAmong(new, T, w) = RankAmong(old, T, w)
  <2>1. {v \in T : Outranks(new, v, w)} = {v \in T : Outranks(old, v, w)}
    BY <1>1
  <2> QED BY <2>1 DEF RankAmong
<1>3. ASSUME NEW w \in S, NEW T \in SUBSET S PROVE MovementOf(new, w, T) = MovementOf(old, w, T)
  <2>1. PICK A \in SUBSET S : A = {v \in T : new[v].points > 0} /\ A = {v \in T : old[v].points > 0}
    OBVIOUS
  <2>2. RankAmong(new, A, w) = RankAmong(old, A, w) /\ new[w].division = old[w].division
    BY <1>2
  <2> QED BY <2>1, <2>2 DEF MovementOf
<1>4. ASSUME NEW w \in S
      PROVE  LET T == {v \in S : new[v].division = new[w].division}
                 U == {v \in S : old[v].division = old[w].division}
             IN  [rank |-> RankAmong(new, T, w), movement |-> MovementOf(new, w, T)]
                 = [rank |-> RankAmong(old, U, w), movement |-> MovementOf(old, w, U)]
  <2>1. {v \in S : new[v].division = new[w].division} = {v \in S : old[v].division = old[w].division}
    OBVIOUS
  <2> QED BY <1>2, <1>3, <2>1
<1> QED BY <1>4 DEF PlanFor

----------------------------------------------------------------------------
(* Ranks and movements are those of the frozen standings.                  *)

\* For season n with this status and these rows and a worker k.
DecidedFits(n, status, rows, k, exempt) ==
    LET played == {w \in Wallets : rows[w].row}
        final == PlanFor(rows, played)
    IN  /\ status \in {"NONE", "ACTIVE"} => \A w \in played : rows[w].movement = "NULL"
        /\ n \notin exempt /\ status = "FREEZING" =>
               /\ k.n = n /\ k.pc \in Freezing \cup {"look"}
               /\ k.pc \in {"readRanks", "rank", "look", "readMoves"} =>
                      \A w \in played : rows[w].movement = "NULL"
               /\ k.pc \in {"rank", "move", "divide"} => k.plan = final
               /\ k.pc # "readRanks" =>
                      \A w \in played : rows[w].rank = final[w].rank \/ (k.pc = "rank" /\ w \in k.todo)
               /\ k.pc \in {"move", "divide"} =>
                      \A w \in played \ k.todo : rows[w].movement = final[w].movement
        /\ n \notin exempt /\ status \in {"SETTLING", "SETTLED"} =>
               \A w \in played : rows[w].rank = final[w].rank /\ rows[w].movement = final[w].movement

DecideInv == \A n \in Seasons : DecidedFits(n, season[n].status, sp[n], worker, late \cup cut)

LEMMA DecidedDecide ==
    ASSUME SeasonInv, NEW n \in Seasons,
           \A w \in RowsOf(n) : /\ sp[n][w].rank = PlanFor(sp[n], RowsOf(n))[w].rank
                                /\ sp[n][w].movement = PlanFor(sp[n], RowsOf(n))[w].movement,
           NEW w \in RowsOf(n)
    PROVE  LET mine == sp[n][w] IN
           /\ mine.movement # "NULL"
           /\ \A v \in Peers(n, w) \ {w} :
                 LET other == sp[n][v] IN
                 /\ mine.rank # other.rank
                 /\ mine.rank < other.rank => mine.points >= other.points
                 /\ mine.points = other.points /\ 0 < mine.at /\ mine.at < other.at => mine.rank < other.rank
                 /\ mine.movement # "PROMOTED" /\ other.movement = "PROMOTED" => other.rank < mine.rank
           /\ (mine.points = 0 /\ mine.division > 0) => mine.movement = "RELEGATED"
           /\ mine.division < Top /\ Active(n, w) # {} => Promoted(n, w) # {}
           /\ Promoted(n, w) \subseteq Active(n, w) /\ Cardinality(Promoted(n, w)) <= Quota(n, w)
           /\ Standing(n, w) = [rank |-> mine.rank, zone |-> ShownAs(mine)]
<1>1. PICK rows, S : rows = sp[n] /\ S = Peers(n, w)
  OBVIOUS
<1>2. PICK R \in SUBSET Wallets : R = RowsOf(n)
  BY DEF RowsOf
<1>3. \A v \in Wallets : /\ rows[v].points \in Nat /\ rows[v].at \in Nat /\ rows[v].division \in Divisions
  <2>1. \A v \in Wallets : rows[v] \in Points
    BY <1>1 DEF SeasonInv, SeasonTypeOK
  <2> QED BY <2>1 DEF Points
<1>4. PICK d \in Divisions : d = rows[w].division
  BY <1>2, <1>3
<1>5. S = {v \in R : rows[v].division = d} /\ w \in S
  BY <1>1, <1>2, <1>4 DEF Peers
<1>6. Counted(rows, S)
  BY <1>3, <1>5 DEF Counted
<1>7. ASSUME NEW v \in S
      PROVE  rows[v].rank = RankAmong(rows, S, v) /\ rows[v].movement = MovementOf(rows, v, S)
  <2>1. v \in R /\ {u \in R : rows[u].division = rows[v].division} = S
    BY <1>5
  <2>2. /\ PlanFor(rows, R)[v].rank = RankAmong(rows, S, v)
        /\ PlanFor(rows, R)[v].movement = MovementOf(rows, v, S)
    BY <2>1, PlanOfMember
  <2> QED BY <1>1, <1>2, <2>1, <2>2
<1>8. PICK A, up : A = Playing(rows, S) /\ up = GoingUp(rows, S)
  OBVIOUS
<1>9. up = {v \in S : MovementOf(rows, v, S) = "PROMOTED"}
  BY <1>8 DEF GoingUp
<1>10. A = Active(n, w) /\ up = Promoted(n, w)
  BY <1>1, <1>7, <1>8, <1>9 DEF Active, Promoted, Playing
<1>11. /\ up \subseteq A
       /\ d < Top /\ A # {} => up # {}
       /\ Cardinality(up) <= IF Cardinality(A) < SmallDivision THEN TopCount
                             ELSE Max({1, (Cardinality(A) * PromotionPct[d]) \div 100})
       /\ \A u \in up, v \in S \ up : RankAmong(rows, S, u) < RankAmong(rows, S, v)
  <2>1. \A v \in S : rows[v].division = d
    BY <1>5
  <2> QED BY <1>6, <1>8, <2>1, BestGoUp
<1>12. Cardinality(Promoted(n, w)) <= Quota(n, w)
  BY <1>1, <1>4, <1>10, <1>11 DEF Quota
<1>13. rows[w].movement # "NULL" /\ (rows[w].points = 0 /\ d > 0 => rows[w].movement = "RELEGATED")
  <2>1. d > 0 => d # 0
    BY DEF Divisions
  <2> QED BY <1>4, <1>5, <1>6, <1>7, <2>1, MovementIs
<1>14. ASSUME NEW v \in S, v # w
       PROVE  /\ rows[w].rank # rows[v].rank
              /\ rows[w].rank < rows[v].rank => rows[w].points >= rows[v].points
              /\ rows[w].points = rows[v].points /\ 0 < rows[w].at /\ rows[w].at < rows[v].at =>
                     rows[w].rank < rows[v].rank
              /\ rows[w].movement # "PROMOTED" /\ rows[v].movement = "PROMOTED" => rows[v].rank < rows[w].rank
  <2>1. /\ rows[w].rank = RankAmong(rows, S, w) /\ rows[v].rank = RankAmong(rows, S, v)
        /\ rows[w].points \in Nat /\ rows[v].points \in Nat /\ rows[w].at \in Nat /\ rows[v].at \in Nat
    BY <1>3, <1>5, <1>7
  <2>2. rows[w].rank # rows[v].rank
    BY <1>5, <1>6, <1>14, <2>1, RanksDiffer
  <2>3. rows[w].rank < rows[v].rank <=> Outranks(rows, w, v)
    BY <1>5, <1>6, <2>1, RanksDiffer
  <2>4. rows[w].movement # "PROMOTED" /\ rows[v].movement = "PROMOTED" => rows[v].rank < rows[w].rank
    BY <1>5, <1>7, <1>9, <1>11, <2>1
  <2>5. Outranks(rows, w, v) => rows[w].points >= rows[v].points
    BY <2>1 DEF Outranks
  <2>6. rows[w].points = rows[v].points /\ 0 < rows[w].at /\ rows[w].at < rows[v].at => Outranks(rows, w, v)
    BY <2>1 DEF Outranks
  <2> QED BY <2>2, <2>3, <2>4, <2>5, <2>6
<1>15. Standing(n, w) = [rank |-> rows[w].rank, zone |-> ShownAs(rows[w])]
  <2>1. S \in SUBSET Wallets /\ {v \in S : rows[v].division = rows[w].division} = S
    BY <1>4, <1>5
  <2>2. /\ PlanFor(rows, S)[w].rank = RankAmong(rows, S, w)
        /\ PlanFor(rows, S)[w].movement = MovementOf(rows, w, S)
    BY <1>5, <2>1, PlanOfMember
  <2>3. PlanFor(rows, S)[w].rank = rows[w].rank /\ PlanFor(rows, S)[w].movement = rows[w].movement
    BY <1>5, <1>7, <2>2
  <2> QED BY <1>1, <2>3 DEF Standing, ShownAs
<1> QED BY <1>1, <1>4, <1>10, <1>11, <1>12, <1>13, <1>14, <1>15

----------------------------------------------------------------------------
(* The steps, once more                                                    *)

\* A season that is not being frozen, or that is exempt, is no matter of the worker.
LEMMA NotFreezing ==
    ASSUME NEW n, NEW st, NEW rows, NEW k, NEW l, NEW ex, NEW ex2, ex \subseteq ex2,
           DecidedFits(n, st, rows, k, ex), st = "FREEZING" => n \in ex2
    PROVE  DecidedFits(n, st, rows, l, ex2)
<1>1. n \notin ex2 => n \notin ex
  OBVIOUS
<1> QED BY <1>1 DEF DecidedFits

LEMMA FrozenIsCurrent ==
    ASSUME SeasonInv, NEW n \in Seasons, season[n].status = "FREEZING"
    PROVE  CurrentSeason = n
<1>1. PICK m \in Seasons \cup {0} : m = CurrentSeason
  BY CurrentSeasonFits
<1>2. n <= m /\ n \in Int /\ m \in Int /\ m # 0
  BY <1>1, CurrentSeasonFits DEF Seasons
<1>3. m \in Seasons /\ season[m] # NoSeason
  BY <1>1, <1>2, CurrentSeasonFits DEF NoSeason
<1>4. ~(n < m)
  BY <1>3 DEF SeasonInv, SeasonsFit
<1> QED BY <1>1, <1>2, <1>4

\* The worker goes on; nothing else.
LEMMA WorkerDecides ==
    ASSUME SeasonInv, DecideInv, NEW n \in Seasons, NEW k \in Worker, worker' = k,
           UNCHANGED <<season, sp>>, NEW ex, ex = late \cup cut,
           \/ StartTick \/ Look \/ ReadRanks \/ RanksWritten \/ ReadMoves \/ WriteDivision \/ ReadRewards
    PROVE  DecidedFits(n, season[n].status, sp[n], k, ex)
<1>1. DecidedFits(n, season[n].status, sp[n], worker, ex)
  BY DEF DecideInv
<1>2. CASE season[n].status = "FREEZING" => n \in ex
  BY <1>1, <1>2, NotFreezing
<1>3. CASE season[n].status = "FREEZING" /\ n \notin ex
  <2> DEFINE R == {w \in Wallets : sp[n][w].row}
             final == PlanFor(sp[n], R)
  <2>1. /\ worker.n = n /\ worker.pc \in Freezing \cup {"look"}
        /\ worker.pc \in {"readRanks", "rank", "look", "readMoves"} => \A w \in R : sp[n][w].movement = "NULL"
        /\ worker.pc \in {"rank", "move", "divide"} => worker.plan = final
        /\ worker.pc # "readRanks" =>
               \A w \in R : sp[n][w].rank = final[w].rank \/ (worker.pc = "rank" /\ w \in worker.todo)
        /\ worker.pc \in {"move", "divide"} =>
               \A w \in R \ worker.todo : sp[n][w].movement = final[w].movement
    BY <1>1, <1>3 DEF DecidedFits
  <2>2. R = RowsOf(n) /\ R \in SUBSET Wallets
    BY DEF RowsOf
  <2>3. SUFFICES /\ k.n = n /\ k.pc \in Freezing \cup {"look"}
                 /\ k.pc \in {"readRanks", "rank", "look", "readMoves"} => \A w \in R : sp[n][w].movement = "NULL"
                 /\ k.pc \in {"rank", "move", "divide"} => k.plan = final
                 /\ k.pc # "readRanks" =>
                        \A w \in R : sp[n][w].rank = final[w].rank \/ (k.pc = "rank" /\ w \in k.todo)
                 /\ k.pc \in {"move", "divide"} =>
                        \A w \in R \ k.todo : sp[n][w].movement = final[w].movement
    BY <1>3 DEF DecidedFits
  <2> HIDE DEF final, R
  <2>4. CASE StartTick \/ ReadRewards
    BY <2>1, <2>4 DEF StartTick, ReadRewards, Freezing
  <2>5. CASE Look
    <3>1. k.pc = "readMoves" /\ k.n = n
      BY <1>3, <2>5, LookLeads, FrozenIsCurrent DEF Seasons
    <3> QED BY <2>1, <2>5, <3>1 DEF Look, Freezing
  <2>6. CASE ReadRanks
    <3>1. k.pc = "rank" /\ k.n = n /\ k.todo = R /\ k.plan = final
      <4>1. "rank" \in Pcs /\ BeginWrites("rank", R)
        BY <2>1, <2>2, <2>6 DEF ReadRanks, Pcs
      <4> QED BY <2>1, <2>2, <4>1, BeginLeads DEF SeasonInv, At, final
    <3> QED BY <2>1, <2>6, <3>1 DEF ReadRanks, Freezing
  <2>7. CASE RanksWritten
    <3>1. k.pc = "look" /\ k.n = n /\ worker.todo = {} /\ worker.pc = "rank"
      <4>1. "look" \in Pcs
        BY DEF Pcs
      <4> QED BY <2>1, <2>7, <4>1, GotoLeads DEF RanksWritten, SeasonInv, At
    <3> QED BY <2>1, <3>1
  <2>8. CASE ReadMoves
    <3>1. Unmoved(n) = R
      BY <2>1, <2>2, <2>8 DEF Unmoved, ReadMoves
    <3>2. k.pc = "move" /\ k.n = n /\ k.todo = R /\ k.plan = final
      <4>1. "move" \in Pcs /\ BeginWrites("move", R)
        BY <2>1, <2>8, <3>1 DEF ReadMoves, Pcs
      <4> QED BY <2>1, <2>2, <4>1, BeginLeads DEF SeasonInv, At, final
    <3> QED BY <2>1, <2>8, <3>2 DEF ReadMoves, Freezing
  <2>9. CASE WriteDivision
    <3>1. k.pc = "move" /\ k.n = n /\ k.todo = worker.todo /\ worker.pc = "divide" /\ k.plan = worker.plan
      <4>1. "move" \in Pcs
        BY DEF Pcs
      <4> QED BY <2>1, <2>9, <4>1, GotoLeads DEF WriteDivision, SeasonInv, At
    <3> QED BY <2>1, <3>1 DEF Freezing
  <2> QED BY <2>4, <2>5, <2>6, <2>7, <2>8, <2>9
<1> QED BY <1>2, <1>3

\* The status of a season changes.
LEMMA StatusDecides ==
    ASSUME SeasonInv, DecideInv, NEW n \in Seasons, NEW k \in Worker, worker' = k,
           NEW st, st = season'[n].status, UNCHANGED sp, NEW ex, ex = late \cup cut,
           \/ BootstrapFirstSeason \/ FreezeSeason \/ StartSettling \/ RewardsQueued
           \/ UpdatePassportBadges \/ OpenNextSeason \/ SettleSeason
    PROVE  DecidedFits(n, st, sp[n], k, ex)
<1>1. DecidedFits(n, season[n].status, sp[n], worker, ex)
  BY DEF DecideInv
<1>2. season \in [Seasons -> Season]
  BY DEF SeasonInv, SeasonTypeOK
<1>3. CASE BootstrapFirstSeason \/ OpenNextSeason
  <2>1. worker.pc \notin Freezing \cup {"look"}
    BY <1>3 DEF BootstrapFirstSeason, OpenNextSeason, Freezing
  <2>2. st = season[n].status \/ (season[n].status = "NONE" /\ st = "ACTIVE")
    BY <1>2, <1>3 DEF BootstrapFirstSeason, OpenNextSeason, Opened, NoSeason
  <2> QED BY <1>1, <2>1, <2>2 DEF DecidedFits
<1>4. CASE FreezeSeason
  <2>1. PICK m \in Seasons : m = worker.n /\ season[m].status = "ACTIVE" /\ worker.pc = "freeze"
    BY <1>4 DEF SeasonInv, WorkerFits, FreezeSeason, Working
  <2>2. k.pc = "readRanks" /\ k.n = m
    <3>1. "readRanks" \in Pcs
      BY DEF Pcs
    <3> QED BY <1>4, <2>1, <3>1, GotoLeads DEF FreezeSeason, SeasonInv, At
  <2>3. /\ season' = [season EXCEPT ![m].status = "FREEZING"]
        /\ season[m] \in Season
    BY <1>2, <1>4, <2>1 DEF FreezeSeason
  <2>4. n = m => season'[n].status = "FREEZING"
    BY <1>2, <2>3 DEF Season
  <2>5. n # m => season'[n] = season[n]
    BY <1>2, <2>3
  <2>6. CASE n = m
    <3>1. season[n].status = "ACTIVE" /\ st = "FREEZING"
      BY <2>1, <2>4, <2>6
    <3> QED BY <1>1, <2>1, <2>2, <2>6, <3>1 DEF DecidedFits, Freezing
  <2>7. CASE n # m
    <3>1. st = season[n].status
      BY <2>5, <2>7
    <3> QED BY <1>1, <2>1, <2>7, <3>1 DEF DecidedFits, Freezing
  <2> QED BY <2>6, <2>7
<1>5. CASE StartSettling
  <2>1. PICK m \in Seasons : m = worker.n /\ season[m].status = "FREEZING" /\ worker.pc = "move"
    BY <1>5 DEF SeasonInv, WorkerFits, StartSettling, Working, Freezing
  <2>2. worker.todo = {}
    BY <1>5 DEF StartSettling
  <2>4. /\ season' = [season EXCEPT ![m].status = "SETTLING"]
        /\ season[m] \in Season /\ season[n] \in Season
    BY <1>2, <1>5, <2>1 DEF StartSettling
  <2>5. n = m => season'[n].status = "SETTLING"
    BY <1>2, <2>4 DEF Season
  <2>6. n # m => season'[n] = season[n]
    BY <1>2, <2>4
  <2>3. CASE n = m
    <3>1. season[n].status = "FREEZING" /\ st = "SETTLING"
      BY <2>1, <2>3, <2>5
    <3> QED BY <1>1, <2>1, <2>2, <2>3, <3>1 DEF DecidedFits, Freezing
  <2>7. CASE n # m
    <3>1. st = season[n].status
      BY <2>6, <2>7
    <3> QED BY <1>1, <2>1, <2>7, <3>1 DEF DecidedFits
  <2> QED BY <2>3, <2>7
<1>6. CASE RewardsQueued \/ UpdatePassportBadges
  <2>1. worker.pc \notin Freezing \cup {"look"}
    BY <1>6 DEF RewardsQueued, UpdatePassportBadges, Freezing
  <2>3. PICK m : m = worker.n
    OBVIOUS
  <2>4. \/ season' = [season EXCEPT ![m].rewards = TRUE]
        \/ season' = [season EXCEPT ![m].passport = TRUE]
    BY <1>6, <2>3 DEF RewardsQueued, UpdatePassportBadges
  <2>5. season[n] \in Season
    BY <1>2
  <2>2. st = season[n].status
    BY <1>2, <2>4, <2>5 DEF Season
  <2> QED BY <1>1, <2>1, <2>2 DEF DecidedFits
<1>7. CASE SettleSeason
  <2>1. worker.pc \notin Freezing \cup {"look"}
    BY <1>7 DEF SettleSeason, Freezing
  <2>2. st = season[n].status \/ (season[n].status = "SETTLING" /\ st = "SETTLED")
    BY <1>2, <1>7 DEF SettleSeason
  <2> QED BY <1>1, <2>1, <2>2 DEF DecidedFits
<1> QED BY <1>3, <1>4, <1>5, <1>6, <1>7

\* A row that is written keeps what the plan is made from.
SamePlayed(new, old) ==
    /\ new.row = old.row /\ new.division = old.division /\ new.points = old.points /\ new.at = old.at

Agree(new, old) == \A w \in Wallets : SamePlayed(new[w], old[w])
SharePlan(R, final, new, old) ==
    /\ R = {w \in Wallets : old[w].row} /\ final = PlanFor(old, R)
    /\ R = {w \in Wallets : new[w].row} /\ final = PlanFor(new, R)

LEMMA FinalStays ==
    ASSUME NEW old, NEW new, Agree(new, old)
    PROVE  \E R, final : SharePlan(R, final, new, old)
<1>1. PICK R \in SUBSET Wallets : R = {w \in Wallets : old[w].row}
  OBVIOUS
<1>2. {w \in Wallets : new[w].row} = R
  BY <1>1 DEF Agree, SamePlayed
<1>3. PlanFor(new, R) = PlanFor(old, R)
  BY PlanStays DEF Agree, SamePlayed
<1>4. PICK final : final = PlanFor(old, R)
  OBVIOUS
<1> WITNESS R, final
<1> QED BY <1>1, <1>2, <1>3, <1>4 DEF SharePlan

\* The worker writes rank, movement or reward of one row.
LEMMA RowDecides ==
    ASSUME SeasonInv, DecideInv, NEW n \in Seasons, NEW k \in Worker, worker' = k,
           NEW rows, rows = sp'[n], UNCHANGED season, NEW ex, ex = late \cup cut,
           NEW w \in Wallets, WriteRank(w) \/ WriteMovement(w) \/ QueueReward(w)
    PROVE  DecidedFits(n, season[n].status, rows, k, ex)
<1>1. DecidedFits(n, season[n].status, sp[n], worker, ex)
  BY DEF DecideInv
<1>2. PICK m \in Seasons : m = worker.n /\ w \in worker.todo
  BY DEF SeasonInv, WorkerFits, WriteRank, WriteMovement, QueueReward, InTurn, Working, Freezing, Queueing
<1>3. sp \in [Seasons -> [Wallets -> Points]] /\ sp[m][w] \in Points /\ sp[n] \in [Wallets -> Points]
  BY DEF SeasonInv, SeasonTypeOK
<1>4. CASE n # m
  <2>1. rows = sp[n]
    BY <1>2, <1>3, <1>4 DEF WriteRank, WriteMovement, QueueReward
  <2> QED BY <1>1, <1>2, <1>4, <2>1 DEF DecidedFits
<1>5. CASE n = m /\ WriteRank(w)
  <2>1. PICK rank \in Nat : rank = worker.plan[w].rank
    BY TickTypes DEF SeasonInv, Plan
  <2>2. rows = [sp[n] EXCEPT ![w].rank = rank]
    BY <1>2, <1>3, <1>5, <2>1 DEF WriteRank
  <2>3. \A v \in Wallets : sp[n][v] \in Points
    BY <1>3
  <2>4. \A v \in Wallets : /\ SamePlayed(rows[v], sp[n][v]) /\ rows[v].movement = sp[n][v].movement
                           /\ v # w => rows[v].rank = sp[n][v].rank
                           /\ v = w => rows[v].rank = rank
    BY <1>3, <2>2, <2>3 DEF SamePlayed, Points
  <2>5. k.pc = "rank" /\ k.n = n /\ k.todo = worker.todo \ {w} /\ k.plan = worker.plan
    <3>1. "rank" \in Pcs
      BY DEF Pcs
    <3> QED BY <1>2, <1>5, <3>1, WrittenLeads DEF SeasonInv, At, WriteRank
  <2>6. worker.pc = "rank" /\ season[n].status = "FREEZING"
    BY <1>5, <1>2 DEF WriteRank, SeasonInv, WorkerFits, Freezing
  <2>7. PICK R, final : /\ R = {v \in Wallets : sp[n][v].row} /\ final = PlanFor(sp[n], R)
                        /\ R = {v \in Wallets : rows[v].row} /\ final = PlanFor(rows, R)
    <3>1. Agree(rows, sp[n])
      BY <2>4 DEF Agree
    <3>2. PICK R, final : SharePlan(R, final, rows, sp[n])
      BY <3>1, FinalStays
    <3> QED BY <3>2 DEF SharePlan
  <2>8. n \notin ex => /\ \A v \in R : sp[n][v].movement = "NULL"
                       /\ worker.plan = final
                       /\ \A v \in R : sp[n][v].rank = final[v].rank \/ v \in worker.todo
    BY <1>1, <2>6, <2>7 DEF DecidedFits
  <2>9. n \notin ex => /\ \A v \in R : rows[v].movement = "NULL"
                       /\ k.plan = final
                       /\ \A v \in R : rows[v].rank = final[v].rank \/ v \in k.todo
    BY <2>1, <2>4, <2>5, <2>7, <2>8
  <2> QED BY <2>5, <2>6, <2>7, <2>9 DEF DecidedFits, Freezing
<1>6. CASE n = m /\ WriteMovement(w)
  <2>1. PICK movement \in Movement : movement = worker.plan[w].movement
    BY TickTypes DEF SeasonInv, Plan
  <2>a. sp[n][w].movement = "NULL"
    BY <1>2, <1>6 DEF SeasonInv, WorkerFits, WriteMovement
  <2>2. rows = [sp[n] EXCEPT ![w].movement = movement]
    BY <1>2, <1>3, <1>6, <2>1, <2>a DEF WriteMovement
  <2>3. \A v \in Wallets : sp[n][v] \in Points
    BY <1>3
  <2>4. \A v \in Wallets : /\ SamePlayed(rows[v], sp[n][v]) /\ rows[v].rank = sp[n][v].rank
                           /\ v # w => rows[v].movement = sp[n][v].movement
                           /\ v = w => rows[v].movement = movement
    BY <1>3, <2>2, <2>3 DEF SamePlayed, Points
  <2>5. k.pc \in {"move", "divide"} /\ k.n = n /\ k.todo = worker.todo \ {w} /\ k.plan = worker.plan
    <3>1. "move" \in Pcs /\ "divide" \in Pcs
      BY DEF Pcs
    <3> QED BY <1>2, <1>6, <3>1, WrittenLeads DEF SeasonInv, At, WriteMovement
  <2>6. worker.pc = "move" /\ season[n].status = "FREEZING"
    BY <1>6, <1>2 DEF WriteMovement, SeasonInv, WorkerFits, Freezing
  <2>7. PICK R, final : /\ R = {v \in Wallets : sp[n][v].row} /\ final = PlanFor(sp[n], R)
                        /\ R = {v \in Wallets : rows[v].row} /\ final = PlanFor(rows, R)
    <3>1. Agree(rows, sp[n])
      BY <2>4 DEF Agree
    <3>2. PICK R, final : SharePlan(R, final, rows, sp[n])
      BY <3>1, FinalStays
    <3> QED BY <3>2 DEF SharePlan
  <2>8. n \notin ex => /\ worker.plan = final
                       /\ \A v \in R : sp[n][v].rank = final[v].rank
                       /\ \A v \in R \ worker.todo : sp[n][v].movement = final[v].movement
    BY <1>1, <2>6, <2>7 DEF DecidedFits
  <2>9. n \notin ex => /\ k.plan = final
                       /\ \A v \in R : rows[v].rank = final[v].rank
                       /\ \A v \in R \ k.todo : rows[v].movement = final[v].movement
    BY <2>1, <2>4, <2>5, <2>7, <2>8
  <2> QED BY <2>5, <2>6, <2>7, <2>9 DEF DecidedFits, Freezing
<1>7. CASE n = m /\ QueueReward(w)
  <2>1. \A v \in Wallets : sp[n][v] \in Points
    BY <1>3
  <2>2. PICK t : \/ rows = sp[n]
                 \/ rows = [sp[n] EXCEPT ![w].reward = t, ![w].pending = TRUE]
    BY <1>2, <1>3, <1>7 DEF QueueReward
  <2>4. \A v \in Wallets : /\ SamePlayed(rows[v], sp[n][v]) /\ rows[v].rank = sp[n][v].rank
                           /\ rows[v].movement = sp[n][v].movement
    <3>1. CASE rows = sp[n]
      BY <3>1 DEF SamePlayed
    <3>2. CASE rows = [sp[n] EXCEPT ![w].reward = t, ![w].pending = TRUE]
      <4>1. rows = [sp[n] EXCEPT ![w] = [sp[n][w] EXCEPT !.reward = t, !.pending = TRUE]]
        BY <1>3, <2>1, <3>2
      <4>2. ASSUME NEW v \in Wallets, v # w PROVE rows[v] = sp[n][v]
        BY <1>3, <4>1, <4>2
      <4>3. rows[w] = [sp[n][w] EXCEPT !.reward = t, !.pending = TRUE]
        BY <1>3, <4>1
      <4>4. /\ SamePlayed(rows[w], sp[n][w]) /\ rows[w].rank = sp[n][w].rank
            /\ rows[w].movement = sp[n][w].movement
        BY <2>1, <4>3 DEF SamePlayed, Points
      <4> QED BY <4>2, <4>4 DEF SamePlayed
    <3> QED BY <2>2, <3>1, <3>2
  <2>6. season[n].status = "SETTLING"
    BY <1>7, <1>2 DEF QueueReward, SeasonInv, WorkerFits, Queueing
  <2>7. PICK R, final : /\ R = {v \in Wallets : sp[n][v].row} /\ final = PlanFor(sp[n], R)
                        /\ R = {v \in Wallets : rows[v].row} /\ final = PlanFor(rows, R)
    <3>1. Agree(rows, sp[n])
      BY <2>4 DEF Agree
    <3>2. PICK R, final : SharePlan(R, final, rows, sp[n])
      BY <3>1, FinalStays
    <3> QED BY <3>2 DEF SharePlan
  <2>8. n \notin ex => \A v \in R : rows[v].rank = final[v].rank /\ rows[v].movement = final[v].movement
    BY <1>1, <2>4, <2>6, <2>7 DEF DecidedFits
  <2> QED BY <2>6, <2>7, <2>8 DEF DecidedFits
<1> QED BY <1>4, <1>5, <1>6, <1>7

\* A credit: the rows of an active season are not moved, any other season is late.
LEMMA CreditDecides ==
    ASSUME SeasonInv, DecideInv, NEW w \in Wallets, CreditSeasonPoints(w), NEW n \in Seasons,
           NEW rows, rows = sp'[n], NEW ex, ex = late' \cup cut'
    PROVE  DecidedFits(n, season[n].status, rows, worker, ex)
<1>1. DecidedFits(n, season[n].status, sp[n], worker, late \cup cut)
  BY DEF DecideInv
<1>2. PICK m \in Seasons, r \in Points :
          m = close[w].n /\ sp' = [sp EXCEPT ![m][w] = r] /\ Credited(r, sp[m][w])
  BY CreditWrites
<1>3. /\ late' = (IF season[m].status = "ACTIVE" THEN late ELSE late \cup {m}) /\ cut' = cut
      /\ sp \in [Seasons -> [Wallets -> Points]]
  BY <1>2 DEF CreditSeasonPoints, SeasonInv, SeasonTypeOK
<1>4. late \cup cut \subseteq ex
  BY <1>3
<1>5. CASE n # m
  <2>1. rows = sp[n]
    BY <1>2, <1>3, <1>5
  <2>2. n \in ex => n \in late \cup cut
    BY <1>3, <1>5
  <2> QED BY <1>1, <1>4, <2>1, <2>2 DEF DecidedFits
<1>6. CASE n = m
  <2>1. rows = [sp[n] EXCEPT ![w] = r]
    BY <1>2, <1>3, <1>6
  <2>2. \A v \in Wallets : rows[v].row /\ rows[v].movement # "NULL" => sp[n][v].row /\ sp[n][v].movement # "NULL"
    BY <1>2, <1>3, <1>6, <2>1 DEF Credited
  <2>3. season[n].status \in {"FREEZING", "SETTLING", "SETTLED"} => n \in ex
    BY <1>3, <1>6
  <2> QED BY <1>1, <2>2, <2>3 DEF DecidedFits
<1> QED BY <1>5, <1>6

LEMMA DecideInit == SeasonInit => DecideInv
BY DEF SeasonInit, DecideInv, DecidedFits, NoSeason, NoPoints

LEMMA DecideStep == SeasonInv /\ DecideInv /\ [SeasonNext]_resetVars => DecideInv'
<1> SUFFICES ASSUME SeasonInv, DecideInv, [SeasonNext]_resetVars, NEW n \in Seasons
             PROVE  DecidedFits(n, season'[n].status, sp'[n], worker', late' \cup cut')
  BY DEF DecideInv, DecidedFits
<1>1. PICK st, rows, k, ex : /\ st = season'[n].status /\ rows = sp'[n] /\ k = worker' /\ ex = late' \cup cut'
  OBVIOUS
<1>2. k \in Worker
  BY <1>1, SeasonInvStep DEF SeasonInv, SeasonTypeOK
<1>3. DecidedFits(n, season[n].status, sp[n], worker, late \cup cut)
  BY DEF DecideInv
<1>4. CASE StartTick \/ Look \/ ReadRanks \/ RanksWritten \/ ReadMoves \/ WriteDivision \/ ReadRewards
  <2>1. UNCHANGED <<season, sp, late, cut>>
    BY <1>4 DEF StartTick, Look, ReadRanks, RanksWritten, ReadMoves, WriteDivision, ReadRewards, Rest, history
  <2>2. st = season[n].status /\ rows = sp[n] /\ ex = late \cup cut
    BY <1>1, <2>1
  <2>3. DecidedFits(n, season[n].status, sp[n], k, ex)
    BY <1>1, <1>2, <1>4, <2>1, <2>2, WorkerDecides
  <2> QED BY <1>1, <2>2, <2>3
<1>5. CASE \/ BootstrapFirstSeason \/ FreezeSeason \/ StartSettling \/ RewardsQueued
           \/ UpdatePassportBadges \/ OpenNextSeason \/ SettleSeason
  <2>1. UNCHANGED <<sp, late, cut>>
    BY <1>5 DEF BootstrapFirstSeason, FreezeSeason, StartSettling, RewardsQueued,
       UpdatePassportBadges, OpenNextSeason, SettleSeason, Rest, history
  <2>2. rows = sp[n] /\ ex = late \cup cut
    BY <1>1, <2>1
  <2>3. DecidedFits(n, st, sp[n], k, ex)
    BY <1>1, <1>2, <1>5, <2>1, <2>2, StatusDecides
  <2> QED BY <1>1, <2>2, <2>3
<1>6. CASE \E w \in Wallets : WriteRank(w) \/ WriteMovement(w) \/ QueueReward(w)
  <2>1. UNCHANGED <<season, late, cut>>
    BY <1>6 DEF WriteRank, WriteMovement, QueueReward, Rest, history
  <2>2. st = season[n].status /\ ex = late \cup cut
    BY <1>1, <2>1
  <2>3. DecidedFits(n, season[n].status, rows, k, ex)
    BY <1>1, <1>2, <1>6, <2>1, <2>2, RowDecides
  <2> QED BY <1>1, <2>2, <2>3
<1>7. CASE TickFails
  <2>1. st = season[n].status /\ rows = sp[n] /\ ex = late \cup ((cut \cup {worker.n}) \ {0})
        /\ late \cup cut \subseteq ex
    BY <1>1, <1>7 DEF TickFails, seasonVars, SeasonInv, SeasonTypeOK, Seasons
  <2>2. st = "FREEZING" => n \in ex
    BY <1>3, <2>1 DEF DecidedFits, Seasons
  <2>3. DecidedFits(n, st, rows, k, ex)
    BY <1>3, <2>1, <2>2, NotFreezing
  <2> QED BY <1>1, <2>3
<1>8. CASE \E w \in Wallets : CreditSeasonPoints(w)
  <2>1. st = season[n].status /\ k = worker
    BY <1>1, <1>8 DEF CreditSeasonPoints, seasonVars
  <2>2. DecidedFits(n, season[n].status, rows, worker, ex)
    BY <1>1, <1>8, CreditDecides
  <2> QED BY <1>1, <2>1, <2>2
<1>9. CASE UNCHANGED <<season, sp, worker, late, cut>>
  BY <1>3, <1>9
<1>10. CASE \/ \E m \in Seasons : SeasonEnds(m) 
            \/ \E w \in Wallets : GetPlayerDivision(w) \/ GetSeason(w) \/ ReadPoints(w)
  BY <1>9, <1>10 DEF SeasonEnds, GetPlayerDivision, GetSeason, ReadPoints, seasonVars, history
<1>11. CASE UNCHANGED resetVars
  BY <1>9, <1>11 DEF resetVars, seasonVars, history
<1> QED BY <1>4, <1>5, <1>6, <1>7, <1>8, <1>10, <1>11 DEF SeasonNext, Scheduler, CloseStep

LEMMA DecideInvariant == SeasonSpec => []DecideInv
BY DecideInit, DecideStep, SeasonInvariant, PTL DEF SeasonSpec

(***************************************************************************)
(* Where no tick failed and no credit came late, ranks and movements are   *)
(* those of the final standings, and the leaderboard shows them.           *)
(***************************************************************************)
THEOREM StandingsAreFinal == SeasonSpec => []StandingsDecide
<1>1. SeasonInv /\ DecideInv => StandingsDecide
  <2>1. ASSUME SeasonInv, DecideInv, NEW n \in Seasons \ (late \cup cut),
               season[n].status \in {"SETTLING", "SETTLED"}
        PROVE  \A w \in RowsOf(n) : /\ sp[n][w].rank = PlanFor(sp[n], RowsOf(n))[w].rank
                                    /\ sp[n][w].movement = PlanFor(sp[n], RowsOf(n))[w].movement
    BY <2>1 DEF DecideInv, DecidedFits, RowsOf
  <2> QED BY <2>1, DecidedDecide DEF StandingsDecide
<1> QED BY <1>1, SeasonInvariant, DecideInvariant, PTL

----------------------------------------------------------------------------
(***************************************************************************)
(* Sign-in, for any accounts, pages, sessions, switches and restarts.      *)
(*                                                                         *)
(* A claim that waits has a flight to wait for, and what is signed is signed*)
(* for the account it was asked for.                                       *)
(***************************************************************************)
Busy == Callers \cup {NONE}
Call == [flight: Flight, me: [Callers -> Me], check: Check, busy: Busy, ready: BOOLEAN]

\* Tokens are good for a session or for none.
LEMMA WhoseIsOwner ==
    ASSUME SignInTypeOK
    PROVE  Whose(Credential) \in AccountOrNone
<1>1. Credential \in 0..MaxSessions
  BY DEF SignInTypeOK, Credential
<1>2. PICK t \in 0..MaxSessions : t = Credential
  BY <1>1
<1>3. t = 0 \/ t \in 1..MaxSessions
  BY SignInBounds
<1>4. \A n \in 1..MaxSessions : sessions[n] \in AccountOrNone
  BY DEF SignInTypeOK
<1> QED BY <1>2, <1>3, <1>4 DEF Whose, AccountOrNone

LEMMA AuthenticateIsFlight ==
    ASSUME NEW a \in AccountOrNone
    PROVE  Authenticate(a) \in Flight /\ Authenticate(a).step \in {"nonce", "post"}
BY DEF Authenticate, Flight, Callers

\* What a call of ensureBackendSession leaves: a caller without an answer waits for a flight.
LEMMA EnsureIsCall ==
    ASSUME SignInTypeOK, NEW p \in Pages, NEW a \in Accounts, NEW check \in Check, NEW busy1 \in Busy
    PROVE  LET call == Ensure(p, a, check, busy1) IN
           /\ call \in Call
           /\ flight[p].step # "idle" => call.flight = flight[p]
           /\ ~call.ready => call.flight.step # "idle"
<1> DEFINE same == [flight |-> flight[p], me |-> me[p], check |-> check, busy |-> busy1, ready |-> FALSE]
<1>1. flight[p] \in Flight /\ me[p] \in [Callers -> Me] /\ a \in AccountOrNone /\ backend[p] \in AccountOrNone
  BY DEF SignInTypeOK, AccountOrNone
<1>2. same \in Call
  BY <1>1 DEF Call
<1>3. PICK r : r = Ensure(p, a, check, busy1)
  OBVIOUS
<1>4. CASE flight[p].step # "idle"
  <2>1. r = same
    BY <1>3, <1>4 DEF Ensure
  <2> QED BY <1>2, <1>3, <1>4, <2>1
<1>5. CASE flight[p].step = "idle" /\ backend[p] = a
  <2>1. r = [same EXCEPT !.ready = TRUE]
    BY <1>3, <1>5 DEF Ensure
  <2>2. r \in Call /\ r.ready
    BY <1>1, <2>1 DEF Call
  <2> QED BY <1>3, <1>5, <2>2
<1>6. CASE flight[p].step = "idle" /\ backend[p] # a /\ busy1 # NONE
  <2>1. r = [same EXCEPT !.flight = [step |-> "me", as |-> a, on |-> busy1]]
    BY <1>3, <1>6 DEF Ensure
  <2>2. [step |-> "me", as |-> a, on |-> busy1] \in Flight
    BY <1>1 DEF Flight, Busy
  <2>3. r \in Call /\ r.flight.step = "me"
    BY <1>1, <2>1, <2>2 DEF Call
  <2> QED BY <1>3, <1>6, <2>3
<1>7. CASE flight[p].step = "idle" /\ backend[p] # a /\ busy1 = NONE /\ CheckIsRecent(check, a)
  <2>1. CASE check.result
    <3>1. r = [same EXCEPT !.ready = TRUE]
      BY <1>3, <1>7, <2>1 DEF Ensure
    <3>2. r \in Call /\ r.ready
      BY <1>1, <3>1 DEF Call
    <3> QED BY <1>3, <1>7, <3>2
  <2>2. CASE ~check.result
    <3>1. r = [same EXCEPT !.flight = Authenticate(a)]
      BY <1>3, <1>7, <2>2 DEF Ensure
    <3>2. r \in Call /\ r.flight.step \in {"nonce", "post"}
      BY <1>1, <3>1, AuthenticateIsFlight DEF Call
    <3> QED BY <1>3, <1>7, <3>2
  <2> QED BY <2>1, <2>2
<1>8. CASE flight[p].step = "idle" /\ backend[p] # a /\ busy1 = NONE /\ ~CheckIsRecent(check, a)
  <2>1. PICK f \in Flight : f = [step |-> "me", as |-> a, on |-> "flight"] /\ f.step = "me"
    <3>1. [step |-> "me", as |-> a, on |-> "flight"] \in Flight
      BY <1>1 DEF Flight, Callers
    <3> QED BY <3>1
  <2>2. PICK m \in [Callers -> Me] :
            m = [me[p] EXCEPT !["flight"] = [sent |-> TRUE, as |-> a, answer |-> Whose(Credential)]]
    BY <1>1, WhoseIsOwner DEF Me
  <2>3. PICK c \in Check : c = [check EXCEPT !.account = a]
    BY <1>1 DEF Check
  <2>4. r = [same EXCEPT !.flight = f, !.me = m, !.check = c, !.busy = "flight"]
    BY <1>1, <1>3, <1>8, <2>1, <2>2, <2>3 DEF Ensure
  <2>5. r \in Call /\ r.flight = f
    BY <2>4 DEF Call, Busy, Callers
  <2> QED BY <1>3, <1>8, <2>1, <2>5
<1> QED BY <1>4, <1>5, <1>6, <1>7, <1>8

\* A page's account is one of the wallet's.
LEMMA AskingAccount == ASSUME SignInTypeOK, NEW p \in Pages, account[p] # NONE PROVE account[p] \in Accounts
BY DEF SignInTypeOK, AccountOrNone

SignInInv == SignInTypeOK /\ StaleTabIsRefused

\* A claim that waits has a flight to wait for.
Accompanied(c, f) == c.step = "wait" => f.step # "idle"

\* The parts of the type invariant.
ServerType == sessions \in [1..MaxSessions -> AccountOrNone] /\ loginNonces \subseteq Pages
BrowserType == token \in 0..MaxSessions /\ cookie \in 0..MaxSessions /\ wallet \in Accounts
ShownType == account \in [Pages -> AccountOrNone] /\ backend \in [Pages -> AccountOrNone] /\ error \in [Pages -> BOOLEAN]
CheckType ==
    /\ cache \in [Pages -> Check] /\ busy \in [Pages -> Busy]
    /\ me \in [Pages -> [Callers -> Me]]
TaskType ==
    /\ flight \in [Pages -> Flight] /\ claim \in [Pages -> Claim]
    /\ \A p \in Pages : Accompanied(claim[p], flight[p])

LEMMA TypeParts == SignInTypeOK <=> ServerType /\ BrowserType /\ ShownType /\ CheckType /\ TaskType
BY DEF SignInTypeOK, ServerType, BrowserType, ShownType, CheckType, TaskType, Accompanied, Busy

LEMMA TypePartsPrimed == SignInTypeOK' <=> (ServerType /\ BrowserType /\ ShownType /\ CheckType /\ TaskType)'
BY DEF SignInTypeOK, ServerType, BrowserType, ShownType, CheckType, TaskType, Accompanied, Busy

LEMMA BeginTypes ==
    ASSUME CheckType, flight \in [Pages -> Flight], NEW p \in Pages, NEW call \in Call, Begin(p, call)
    PROVE  /\ CheckType' /\ flight' \in [Pages -> Flight]
           /\ flight'[p] = call.flight /\ \A q \in Pages : q # p => flight'[q] = flight[q]
<1>1. /\ call.flight \in Flight /\ call.me \in [Callers -> Me] /\ call.check \in Check /\ call.busy \in Busy
  BY DEF Call
<1> QED BY <1>1 DEF CheckType, Begin

LEMMA ErrorTypes ==
    ASSUME error \in [Pages -> BOOLEAN], NEW p \in Pages, NEW b, error' = [error EXCEPT ![p] = b],
           b \in BOOLEAN
    PROVE  error' \in [Pages -> BOOLEAN]
OBVIOUS

LEMMA PressKeeps == ASSUME SignInInv, NEW p \in Pages, Press(p) PROVE SignInInv'
<1>1. ServerType /\ BrowserType /\ ShownType /\ CheckType /\ TaskType /\ account[p] \in Accounts
  BY TypeParts, AskingAccount DEF SignInInv, Press
<1>2. PICK call \in Call : call = Ensure(p, account[p], cache[p], busy[p]) /\ Begin(p, call)
  BY <1>1, EnsureIsCall DEF SignInInv, Press, CheckType
<1>3. CheckType' /\ flight' \in [Pages -> Flight] /\ \A q \in Pages : q # p => flight'[q] = flight[q]
  BY <1>1, <1>2, BeginTypes DEF TaskType
<1>4. UNCHANGED <<sessions, loginNonces, token, cookie, wallet, account, backend, claim, signed>>
  BY DEF Press, serverVars, browserVars
<1>5. claim[p].step # "wait"
  BY <1>1 DEF TaskType, Accompanied, Press
<1>6. TaskType'
  BY <1>1, <1>3, <1>4, <1>5 DEF TaskType, Accompanied
<1>7. error' \in [Pages -> BOOLEAN]
  <2>1. PICK b \in BOOLEAN : error' = [error EXCEPT ![p] = b]
    BY <1>1, <1>2 DEF Press, ShownType
  <2> QED BY <1>1, <2>1 DEF ShownType
<1>8. (ServerType /\ BrowserType /\ ShownType)'
  BY <1>1, <1>4, <1>7 DEF ServerType, BrowserType, ShownType
<1> QED BY <1>3, <1>4, <1>6, <1>8, TypePartsPrimed DEF SignInInv, StaleTabIsRefused

LEMMA AskClaimKeeps == ASSUME SignInInv, NEW p \in Pages, AskClaim(p) PROVE SignInInv'
<1>1. ServerType /\ BrowserType /\ ShownType /\ CheckType /\ TaskType /\ account[p] \in Accounts
  BY TypeParts, AskingAccount DEF SignInInv, AskClaim
<1>2. PICK call \in Call :
          /\ call = Ensure(p, account[p], cache[p], busy[p]) /\ Begin(p, call)
          /\ ~call.ready => call.flight.step # "idle"
  BY <1>1, EnsureIsCall DEF SignInInv, AskClaim, CheckType
<1>3. /\ CheckType' /\ flight' \in [Pages -> Flight]
      /\ flight'[p] = call.flight /\ \A q \in Pages : q # p => flight'[q] = flight[q]
  BY <1>1, <1>2, BeginTypes DEF TaskType
<1>4. UNCHANGED <<sessions, loginNonces, token, cookie, wallet, account, backend, signed>>
  BY DEF AskClaim, serverVars, browserVars
<1>5. PICK c \in Claim : claim' = [claim EXCEPT ![p] = c] /\ Accompanied(c, call.flight)
  <2> DEFINE c == [step |-> IF call.ready THEN "send" ELSE "wait", scope |-> account[p]]
  <2>1. c \in Claim /\ Accompanied(c, call.flight)
    BY <1>1, <1>2 DEF Claim, AccountOrNone, Accompanied
  <2>2. claim' = [claim EXCEPT ![p] = c]
    BY <1>2 DEF AskClaim
  <2> HIDE DEF c
  <2> QED BY <2>1, <2>2
<1>6. TaskType'
  BY <1>1, <1>3, <1>5 DEF TaskType, Accompanied
<1>7. error' \in [Pages -> BOOLEAN]
  <2>1. PICK b \in BOOLEAN : error' = [error EXCEPT ![p] = b]
    BY <1>1, <1>2 DEF AskClaim, ShownType
  <2> QED BY <1>1, <2>1 DEF ShownType
<1>8. (ServerType /\ BrowserType /\ ShownType)'
  BY <1>1, <1>4, <1>7 DEF ServerType, BrowserType, ShownType
<1> QED BY <1>3, <1>4, <1>6, <1>8, TypePartsPrimed DEF SignInInv, StaleTabIsRefused

LEMMA NewAccountKeeps == ASSUME SignInInv, NEW p \in Pages, NewAccount(p) PROVE SignInInv'
<1>1. ServerType /\ BrowserType /\ ShownType /\ CheckType /\ TaskType
  BY TypeParts DEF SignInInv
<1>a. Forget(p).check \in Check /\ Forget(p).busy \in Busy
  <2>1. NoCheck \in Check /\ wallet \in AccountOrNone
    BY <1>1 DEF NoCheck, Check, AccountOrNone, BrowserType
  <2>2. [NoCheck EXCEPT !.account = wallet] \in Check
    BY <2>1 DEF Check
  <2> QED BY <1>1, <2>2 DEF Forget, CheckType, Busy
<1>2. PICK call \in Call : /\ Begin(p, call)
                           /\ flight[p].step # "idle" => call.flight = flight[p]
  BY <1>1, <1>a, EnsureIsCall DEF SignInInv, NewAccount, BrowserType
<1>3. /\ CheckType' /\ flight' \in [Pages -> Flight]
      /\ flight'[p] = call.flight /\ \A q \in Pages : q # p => flight'[q] = flight[q]
  BY <1>1, <1>2, BeginTypes DEF TaskType
<1>4. UNCHANGED <<sessions, loginNonces, token, cookie, wallet, claim, signed>>
  BY DEF NewAccount, serverVars, browserVars
<1>6. TaskType'
  BY <1>1, <1>2, <1>3, <1>4 DEF TaskType, Accompanied
<1>7. ShownType'
  BY <1>1 DEF NewAccount, ShownType, BrowserType, AccountOrNone
<1>8. (ServerType /\ BrowserType)'
  BY <1>1, <1>4 DEF ServerType, BrowserType
<1> QED BY <1>3, <1>4, <1>6, <1>7, <1>8, TypePartsPrimed DEF SignInInv, StaleTabIsRefused

LEMMA BridgeKeeps == ASSUME SignInInv, NEW p \in Pages, Bridge(p) \/ CacheExpires(p) PROVE SignInInv'
<1>1. ServerType /\ BrowserType /\ ShownType /\ CheckType /\ TaskType
  BY TypeParts DEF SignInInv
<1>2. CheckType'
  <2>1. CASE Bridge(p)
    <3>1. PICK m \in Me : me' = [me EXCEPT ![p]["bridge"] = m]
      <4>1. Whose(Credential) \in AccountOrNone /\ account[p] \in AccountOrNone
        BY <1>1, WhoseIsOwner DEF SignInInv, ShownType
      <4>2. [sent |-> TRUE, as |-> account[p], answer |-> Whose(Credential)] \in Me
        BY <4>1 DEF Me
      <4> QED BY <2>1, <4>2 DEF Bridge
    <3>2. me' \in [Pages -> [Callers -> Me]]
      BY <1>1, <3>1 DEF CheckType
    <3>3. busy' \in [Pages -> Busy]
      BY <1>1, <2>1 DEF CheckType, Bridge, Busy, Callers
    <3>4. cache' \in [Pages -> Check]
      BY <1>1, <2>1 DEF CheckType, Bridge, Check, ShownType
    <3> QED BY <3>2, <3>3, <3>4 DEF CheckType
  <2>2. CASE CacheExpires(p)
    BY <1>1, <2>2 DEF CheckType, CacheExpires, Check
  <2> QED BY <2>1, <2>2
<1>3. UNCHANGED <<sessions, loginNonces, token, cookie, wallet, account, backend, error, flight, claim, signed>>
  BY DEF Bridge, CacheExpires, serverVars, browserVars
<1>4. (ServerType /\ BrowserType /\ ShownType /\ TaskType)'
  BY <1>1, <1>3 DEF ServerType, BrowserType, ShownType, TaskType
<1> QED BY <1>2, <1>3, <1>4, TypePartsPrimed DEF SignInInv, StaleTabIsRefused

\* What a task that ends leaves: no flight, and no claim that waits.
LEMMA AnswerEnds ==
    ASSUME TaskType, NEW p \in Pages, NEW ok, AnswerCallers(p, ok), EndFlight(p)
    PROVE  TaskType'
<1>1. NoFlight \in Flight /\ NothingAsked \in Claim
  BY DEF NoFlight, Flight, NothingAsked, Claim, AccountOrNone
<1>2. flight' \in [Pages -> Flight] /\ \A q \in Pages : q # p => flight'[q] = flight[q]
  BY <1>1 DEF TaskType, EndFlight
<1>3. claim' \in [Pages -> Claim] /\ claim'[p].step # "wait" /\ \A q \in Pages : q # p => claim'[q] = claim[q]
  <2>1. [claim[p] EXCEPT !.step = "send"] \in Claim /\ [claim[p] EXCEPT !.step = "send"].step = "send"
    BY DEF TaskType, Claim
  <2>2. NothingAsked.step = "idle"
    BY DEF NothingAsked
  <2>3. CASE claim[p].step # "wait"
    BY <2>3 DEF AnswerCallers, TaskType
  <2>4. CASE claim[p].step = "wait"
    <3>1. PICK c \in Claim : c.step # "wait" /\ claim' = [claim EXCEPT ![p] = c]
      BY <1>1, <2>1, <2>2, <2>4 DEF AnswerCallers, TaskType
    <3> QED BY <3>1 DEF TaskType
  <2> QED BY <2>3, <2>4
<1> QED BY <1>2, <1>3 DEF TaskType, Accompanied

LEMMA CheckedTypes ==
    ASSUME CheckType, NEW p \in Pages, NEW a \in AccountOrNone, NEW ok \in BOOLEAN, Checked(p, a, ok),
           me' \in [Pages -> [Callers -> Me]]
    PROVE  CheckType'
<1>1. [account |-> a, result |-> ok, recent |-> TRUE] \in Check
  BY DEF Check
<1> QED BY <1>1 DEF CheckType, Checked, Busy

LEMMA DeliverKeeps == ASSUME SignInInv, NEW p \in Pages, NEW c \in Callers, Deliver(p, c) PROVE SignInInv'
<1>1. ServerType /\ BrowserType /\ ShownType /\ CheckType /\ TaskType
  BY TypeParts DEF SignInInv
<1>2. PICK a \in AccountOrNone : a = me[p][c].as
  BY <1>1 DEF CheckType, Me
<1>3. PICK answer \in AccountOrNone, ok \in BOOLEAN, mine \in BOOLEAN, b \in BOOLEAN :
          /\ ok = SameAddress(answer, a) /\ mine = (flight[p].step = "me" /\ flight[p].on = c)
          /\ backend' = [backend EXCEPT ![p] = IF ok THEN a ELSE NONE]
          /\ token' = IF ~ok /\ answer # NONE THEN 0 ELSE token
          /\ error' = [error EXCEPT ![p] = b]
          /\ Checked(p, a, ok)
          /\ flight' = IF ~mine THEN flight
                       ELSE [flight EXCEPT ![p] = IF ok THEN NoFlight ELSE Authenticate(flight[p].as)]
          /\ IF mine /\ ok THEN AnswerCallers(p, TRUE) ELSE UNCHANGED claim
  <2>1. me[p][c] \in Me /\ error[p] \in BOOLEAN
    BY <1>1 DEF CheckType, ShownType
  <2>2. me[p][c].answer \in AccountOrNone /\ NONE \in AccountOrNone
    BY <2>1 DEF Me, AccountOrNone
  <2>3. PICK answer \in AccountOrNone :
          LET ok == SameAddress(answer, a)
              mine == flight[p].step = "me" /\ flight[p].on = c
          IN  /\ backend' = [backend EXCEPT ![p] = IF ok THEN a ELSE NONE]
              /\ token' = IF ~ok /\ answer # NONE THEN 0 ELSE token
              /\ error' = [error EXCEPT ![p] = @ /\ ~ok /\ ~mine]
              /\ Checked(p, a, ok)
              /\ flight' = IF ~mine THEN flight
                           ELSE [flight EXCEPT ![p] = IF ok THEN NoFlight
                                                      ELSE Authenticate(flight[p].as)]
              /\ IF mine /\ ok THEN AnswerCallers(p, TRUE) ELSE UNCHANGED claim
    BY <1>2, <2>2 DEF Deliver
  <2>4. PICK ok \in BOOLEAN : ok = SameAddress(answer, a)
    BY DEF SameAddress
  <2>5. PICK mine \in BOOLEAN : mine = (flight[p].step = "me" /\ flight[p].on = c)
    OBVIOUS
  <2>6. PICK b \in BOOLEAN : b = (error[p] /\ ~ok /\ ~mine)
    OBVIOUS
  <2>7. error' = [error EXCEPT ![p] = b]
    BY <1>1, <2>3, <2>4, <2>5, <2>6 DEF ShownType
  <2> QED BY <2>3, <2>4, <2>5, <2>7
<1>4. me' \in [Pages -> [Callers -> Me]]
  <2>1. NoMe \in Me
    BY DEF NoMe, Me, AccountOrNone
  <2> QED BY <1>1, <2>1 DEF Deliver, CheckType
<1>5. CheckType'
  BY <1>1, <1>3, <1>4, CheckedTypes
<1>6. UNCHANGED <<sessions, loginNonces, cookie, wallet, account, signed>>
  BY DEF Deliver, serverVars
<1>7. (ServerType /\ BrowserType /\ ShownType)'
  <2>1. 0 \in 0..MaxSessions
    BY SignInBounds
  <2> QED BY <1>1, <1>3, <1>6, <2>1 DEF ServerType, BrowserType, ShownType, AccountOrNone
<1>8. TaskType'
  <2>1. CASE ~mine
    BY <1>1, <1>3, <2>1 DEF TaskType
  <2>2. CASE mine /\ ok
    BY <1>1, <1>3, <2>2, AnswerEnds DEF EndFlight
  <2>3. CASE mine /\ ~ok
    <3>1. flight[p].as \in AccountOrNone
      BY <1>1 DEF TaskType, Flight
    <3>2. Authenticate(flight[p].as) \in Flight /\ Authenticate(flight[p].as).step \in {"nonce", "post"}
      BY <3>1, AuthenticateIsFlight
    <3>3. flight' = [flight EXCEPT ![p] = Authenticate(flight[p].as)] /\ UNCHANGED claim
      BY <1>3, <2>3
    <3> QED BY <1>1, <3>2, <3>3 DEF TaskType, Accompanied
  <2> QED BY <2>1, <2>2, <2>3
<1> QED BY <1>5, <1>6, <1>7, <1>8, TypePartsPrimed DEF SignInInv, StaleTabIsRefused

LEMMA ProgressKeeps == ASSUME SignInInv, NEW p \in Pages, Progress(p) PROVE SignInInv'
<1>1. ServerType /\ BrowserType /\ ShownType /\ CheckType /\ TaskType
  BY TypeParts DEF SignInInv
<1>2. CASE GetNonce(p)
  <2>1. UNCHANGED <<sessions, token, cookie, wallet, account, backend, error, cache, busy, me, claim, signed>>
    BY <1>2 DEF GetNonce, browserVars
  <2>2. loginNonces' \subseteq Pages
    BY <1>1, <1>2 DEF GetNonce, ServerType
  <2>3. TaskType'
    <3>1. [flight[p] EXCEPT !.step = "verify"] \in Flight /\ [flight[p] EXCEPT !.step = "verify"].step = "verify"
      BY <1>1 DEF TaskType, Flight
    <3>2. flight' = [flight EXCEPT ![p] = [flight[p] EXCEPT !.step = "verify"]]
      BY <1>1, <1>2 DEF GetNonce, TaskType
    <3> QED BY <1>1, <2>1, <3>1, <3>2 DEF TaskType, Accompanied
  <2>4. (ServerType /\ BrowserType /\ ShownType /\ CheckType)'
    BY <1>1, <2>1, <2>2 DEF ServerType, BrowserType, ShownType, CheckType
  <2> QED BY <2>1, <2>3, <2>4, TypePartsPrimed DEF SignInInv, StaleTabIsRefused
<1>3. PICK a \in AccountOrNone : a = flight[p].as
  BY <1>1 DEF TaskType, Flight
<1>4. ASSUME CreateSession(p), loginNonces' \subseteq Pages PROVE SignInInv'
  <2>1. /\ UNCHANGED <<wallet, account, error, me, signed>>
        /\ backend' = [backend EXCEPT ![p] = a] /\ Checked(p, a, TRUE)
    BY <1>3, <1>4 DEF CreateSession
  <2>2. TaskType'
    BY <1>1, <1>4, AnswerEnds DEF CreateSession
  <2>3. CheckType'
    BY <1>1, <2>1, CheckedTypes DEF CheckType
  <2>4. PICK n \in 1..MaxSessions : sessions' = [sessions EXCEPT ![n] = a] /\ token' = n /\ cookie' = n
    BY <1>3, <1>4 DEF CreateSession, Fresh
  <2>5. n \in 0..MaxSessions
    BY SignInBounds
  <2>6. (ServerType /\ BrowserType /\ ShownType)'
    BY <1>1, <1>4, <2>1, <2>4, <2>5 DEF ServerType, BrowserType, ShownType
  <2> QED BY <2>1, <2>2, <2>3, <2>6, TypePartsPrimed DEF SignInInv, StaleTabIsRefused
<1>5. CASE Verify(p) \/ Post(p)
  BY <1>1, <1>4, <1>5 DEF Verify, Post, ServerType
<1>6. CASE AuthenticateFails(p)
  <2>1. /\ UNCHANGED <<sessions, cookie, wallet, account, me, signed>> /\ loginNonces' \in {loginNonces, loginNonces \ {p}}
        /\ backend' = [backend EXCEPT ![p] = NONE] /\ token' = 0 /\ error' = [error EXCEPT ![p] = TRUE]
        /\ Checked(p, a, FALSE)
    BY <1>3, <1>6 DEF AuthenticateFails
  <2>2. TaskType'
    BY <1>1, <1>6, AnswerEnds DEF AuthenticateFails
  <2>3. CheckType'
    BY <1>1, <2>1, CheckedTypes DEF CheckType
  <2>4. 0 \in 0..MaxSessions /\ loginNonces' \subseteq Pages
    BY <1>1, <2>1, SignInBounds DEF ServerType
  <2>5. (ServerType /\ BrowserType /\ ShownType)'
    BY <1>1, <2>1, <2>4 DEF ServerType, BrowserType, ShownType, AccountOrNone
  <2> QED BY <2>1, <2>2, <2>3, <2>5, TypePartsPrimed DEF SignInInv, StaleTabIsRefused
<1> QED BY <1>2, <1>5, <1>6 DEF Progress

LEMMA LeaveKeeps == ASSUME SignInInv, NEW p \in Pages, Disconnect(p) \/ Reload(p) PROVE SignInInv'
<1>1. ServerType /\ BrowserType /\ ShownType /\ CheckType /\ TaskType
  BY TypeParts DEF SignInInv
<1>2. CASE Disconnect(p)
  <2>1. UNCHANGED <<loginNonces, wallet, cache, busy, me, flight, claim, signed>> /\ token' = 0 /\ cookie' = 0
    BY <1>2 DEF Disconnect
  <2>2. sessions' \in [1..MaxSessions -> AccountOrNone]
    BY <1>1, <1>2 DEF Disconnect, ServerType, AccountOrNone
  <2>3. ShownType'
    BY <1>1, <1>2 DEF Disconnect, ShownType, AccountOrNone
  <2>4. 0 \in 0..MaxSessions
    BY SignInBounds
  <2>5. (ServerType /\ BrowserType /\ CheckType /\ TaskType)'
    BY <1>1, <2>1, <2>2, <2>4 DEF ServerType, BrowserType, CheckType, TaskType
  <2> QED BY <2>1, <2>3, <2>5, TypePartsPrimed DEF SignInInv, StaleTabIsRefused
<1>3. CASE Reload(p)
  <2>1. UNCHANGED <<sessions, loginNonces, token, cookie, wallet, signed>>
    BY <1>3 DEF Reload, serverVars, browserVars
  <2>2. NoCheck \in Check /\ NoMe \in Me /\ NoFlight \in Flight /\ NothingAsked \in Claim /\ NothingAsked.step = "idle"
    BY DEF NoCheck, Check, NoMe, Me, NoFlight, Flight, NothingAsked, Claim, AccountOrNone
  <2>3. ShownType'
    BY <1>1, <1>3 DEF Reload, ShownType, AccountOrNone
  <2>4. CheckType'
    BY <1>1, <1>3, <2>2 DEF Reload, CheckType, Busy
  <2>5. TaskType'
    BY <1>1, <1>3, <2>2 DEF Reload, TaskType, Accompanied
  <2>6. (ServerType /\ BrowserType)'
    BY <1>1, <2>1 DEF ServerType, BrowserType
  <2> QED BY <2>1, <2>3, <2>4, <2>5, <2>6, TypePartsPrimed DEF SignInInv, StaleTabIsRefused
<1> QED BY <1>2, <1>3

\* What is signed is signed for the wallet that the claim was asked for.
LEMMA SendClaimKeeps == ASSUME SignInInv, NEW p \in Pages, SendClaim(p) PROVE SignInInv'
<1>1. ServerType /\ BrowserType /\ ShownType /\ CheckType /\ TaskType
  BY TypeParts DEF SignInInv
<1>2. UNCHANGED <<sessions, loginNonces, token, cookie, wallet, account, backend, error, cache, busy, me, flight>>
  BY DEF SendClaim, serverVars, browserVars
<1>3. TaskType'
  <2>1. NothingAsked \in Claim /\ NothingAsked.step = "idle"
    BY DEF NothingAsked, Claim, AccountOrNone
  <2>2. claim' = [claim EXCEPT ![p] = NothingAsked]
    BY DEF SendClaim
  <2> QED BY <1>1, <1>2, <2>1, <2>2 DEF TaskType, Accompanied
<1>4. StaleTabIsRefused'
  BY DEF SignInInv, StaleTabIsRefused, SendClaim, InScope, requireAuth
<1>5. (ServerType /\ BrowserType /\ ShownType /\ CheckType)'
  BY <1>1, <1>2 DEF ServerType, BrowserType, ShownType, CheckType
<1> QED BY <1>3, <1>4, <1>5, TypePartsPrimed DEF SignInInv

LEMMA SwitchKeeps == ASSUME SignInInv, Restart \/ \E a \in Accounts : Switch(a) PROVE SignInInv'
<1>1. ServerType /\ BrowserType /\ ShownType /\ CheckType /\ TaskType
  BY TypeParts DEF SignInInv
<1>2. UNCHANGED <<token, cookie, account, backend, error, cache, busy, me, flight, claim, signed>>
  BY DEF Restart, Switch, browserVars, pageVars
<1>3. (ServerType /\ BrowserType)'
  BY <1>1 DEF Restart, Switch, ServerType, BrowserType, serverVars, browserVars, AccountOrNone
<1>4. (ShownType /\ CheckType /\ TaskType)'
  BY <1>1, <1>2 DEF ShownType, CheckType, TaskType
<1> QED BY <1>2, <1>3, <1>4, TypePartsPrimed DEF SignInInv, StaleTabIsRefused

LEMMA SignInInvInit == SignInInit => SignInInv
<1> SUFFICES ASSUME SignInInit PROVE SignInInv
  OBVIOUS
<1>1. NoCheck \in Check /\ NoMe \in Me /\ NoFlight \in Flight /\ NothingAsked \in Claim /\ NothingAsked.step = "idle"
  BY DEF NoCheck, Check, NoMe, Me, NoFlight, Flight, NothingAsked, Claim, AccountOrNone
<1>2. ServerType /\ BrowserType
  BY SignInBounds DEF SignInInit, ServerType, BrowserType, AccountOrNone
<1>3. ShownType /\ CheckType
  BY <1>1 DEF SignInInit, ShownType, CheckType, Busy, AccountOrNone
<1>4. TaskType
  BY <1>1 DEF SignInInit, TaskType, Accompanied
<1> QED BY <1>2, <1>3, <1>4, TypeParts DEF SignInInit, SignInInv, StaleTabIsRefused

LEMMA SignInInvStep == SignInInv /\ [SignInNext]_signInVars => SignInInv'
<1> SUFFICES ASSUME SignInInv, [SignInNext]_signInVars PROVE SignInInv'
  OBVIOUS
<1>1. CASE SignInNext
  BY <1>1, PressKeeps, BridgeKeeps, ProgressKeeps, NewAccountKeeps, LeaveKeeps, AskClaimKeeps,
     SendClaimKeeps, DeliverKeeps, SwitchKeeps DEF SignInNext, Connect, AccountsChanged
<1>2. CASE UNCHANGED signInVars
  BY <1>2, TypeParts, TypePartsPrimed DEF SignInInv, StaleTabIsRefused, signInVars, serverVars, browserVars,
     pageVars, ServerType, BrowserType, ShownType, CheckType, TaskType
<1> QED BY <1>1, <1>2

LEMMA SignInInvariant == SignInSpec => []SignInInv
BY SignInInvInit, SignInInvStep, PTL DEF SignInSpec

(***************************************************************************)
(* The variables keep their types, and no claim waits for a flight that    *)
(* has ended.                                                              *)
(***************************************************************************)
THEOREM SignInTypes == SignInSpec => []SignInTypeOK
<1>1. SignInInv => SignInTypeOK
  BY DEF SignInInv
<1> QED BY <1>1, SignInInvariant, PTL

(***************************************************************************)
(* No claim is signed for another wallet than the one it was asked for.    *)
(***************************************************************************)
THEOREM ScopeIsKept == SignInSpec => []StaleTabIsRefused
<1>1. SignInInv => StaleTabIsRefused
  BY DEF SignInInv
<1> QED BY <1>1, SignInInvariant, PTL

\* The stored token, when there is one, is the cookie's: a sign-in sets both, and what takes
\* the cookie away takes the token, too.
TokenIsTheCookie == token # 0 => token = cookie

LEMMA TokenStep ==
    ASSUME TokenIsTheCookie, [SignInNext]_signInVars PROVE TokenIsTheCookie'
<1> USE DEF TokenIsTheCookie, browserVars
<1>1. ASSUME NEW p \in Pages, Progress(p) \/ Disconnect(p) PROVE TokenIsTheCookie'
  BY <1>1 DEF Progress, GetNonce, Verify, Post, CreateSession, AuthenticateFails, Disconnect
<1>2. ASSUME NEW p \in Pages, NEW c \in Callers, Deliver(p, c) PROVE TokenIsTheCookie'
  BY <1>2 DEF Deliver
<1>3. ASSUME NEW p \in Pages,
             \/ Press(p) \/ Bridge(p) \/ CacheExpires(p) \/ Connect(p) \/ AccountsChanged(p)
             \/ Reload(p) \/ AskClaim(p) \/ SendClaim(p)
      PROVE  TokenIsTheCookie'
  BY <1>3 DEF Press, Bridge, CacheExpires, Connect, AccountsChanged, NewAccount, Reload, AskClaim,
     SendClaim
<1>4. ASSUME Restart \/ \E a \in Accounts : Switch(a) PROVE TokenIsTheCookie'
  BY <1>4 DEF Restart, Switch
<1>5. CASE UNCHANGED signInVars
  BY <1>5 DEF signInVars
<1> QED BY <1>1, <1>2, <1>3, <1>4, <1>5 DEF SignInNext

(***************************************************************************)
(* The socket's handshake looks at the cookie before the token, the routes *)
(* at the token before the cookie; both find the same wallet.              *)
(***************************************************************************)
THEOREM SocketAgrees == SignInSpec => []SocketIsTheSession
<1>1. SignInInit => TokenIsTheCookie
  BY DEF SignInInit, TokenIsTheCookie
<1>2. TokenIsTheCookie => SocketIsTheSession
  BY DEF TokenIsTheCookie, SocketIsTheSession, Handshake, requireAuth,
        getWalletFromSocketCookies, Credential, Whose
<1> QED BY <1>1, <1>2, TokenStep, PTL DEF SignInSpec
=============================================================================
