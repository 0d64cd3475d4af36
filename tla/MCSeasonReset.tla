--------------------------- MODULE MCSeasonReset ---------------------------
EXTENDS SeasonReset, TLC

\* Three divisions: the shares of the code would promote and relegate nobody
\* among three players, so they are larger here.
HalfUp == (0 :> 50) @@ (1 :> 50) @@ (2 :> 0)
HalfDown == (0 :> 0) @@ (1 :> 50) @@ (2 :> 50)
Prizes == (0 :> 5) @@ (1 :> 15) @@ (2 :> 0)
\* Nobody has a row, which is what the program leaves, or two were put in by hand.
TwoRunners == {[w \in Wallets |-> NoRow], (1 :> 1) @@ (2 :> 1) @@ (3 :> NoRow)}
ThreeRunners == {[w \in Wallets |-> 1]}
============================================================================
