------------------------------ MODULE MCSignIn ------------------------------
\* An external wallet's account, and MiniPay's, which it spells in small letters.
EXTENDS SignIn, TLC

CONSTANTS a1, a2, p1, p2

Methods == (a1 :> "siwe") @@ (a2 :> "post")
=============================================================================
