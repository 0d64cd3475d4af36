----------------------------- MODULE MCPassport -----------------------------
\* Two tiers: one cash-out at checkpoint 1, two at checkpoint 2.
EXTENDS Passport

CONSTANTS t1, t2

TwoTiers == <<[checkpoint |-> 1, requiredCashouts |-> 1],
              [checkpoint |-> 2, requiredCashouts |-> 2]>>
=============================================================================
