---------------------------- MODULE TicketVault ----------------------------
(***************************************************************************)
(* TicketVault.sol, the accounts: ticket balances, the two running totals  *)
(* and the operators that may move balances in batches.  A batch is the    *)
(* amount per wallet; the backend lists a wallet once and drops zeros, so  *)
(* the length and zero checks of the contract cannot fail.  Daily claims   *)
(* and the shop are in TicketShop.                                         *)
(***************************************************************************)
EXTENDS Integers, FiniteSets, FiniteSetsExt

CONSTANTS Wallets, Tickets    \* holders, and what each holds at the start

ASSUME WalletsAreFinite == IsFiniteSet(Wallets)
ASSUME TicketsAreNatural == Tickets \in [Wallets -> Nat]

VARIABLES
    ticketBalance, totalTicketsIssued, totalTicketsSpent,
    operator      \* is the backend's key an operator?

ticketVars == <<ticketBalance, totalTicketsIssued, totalTicketsSpent>>
vaultVars == <<ticketVars, operator>>

Batch == [Wallets -> Nat]
Total(batch) == MapThenSumSet(LAMBDA w : batch[w], Wallets)

VaultInit ==
    /\ ticketBalance = Tickets
    /\ totalTicketsIssued = Total(Tickets) /\ totalTicketsSpent = 0
    /\ operator = TRUE

\* _credit, for every wallet of the batch.
Credit(batch) ==
    /\ ticketBalance' = [w \in Wallets |-> ticketBalance[w] + batch[w]]
    /\ totalTicketsIssued' = totalTicketsIssued + Total(batch)
    /\ UNCHANGED totalTicketsSpent

CreditAllowed(batch) == operator
SpendAllowed(batch) == operator /\ \A w \in Wallets : batch[w] <= ticketBalance[w]

\* Neither batch looks at the pause.
CreditBatch(batch) ==
    /\ CreditAllowed(batch)
    /\ Credit(batch)
    /\ UNCHANGED operator

SpendBatch(batch) ==
    /\ SpendAllowed(batch)
    /\ ticketBalance' = [w \in Wallets |-> ticketBalance[w] - batch[w]]
    /\ totalTicketsSpent' = totalTicketsSpent + Total(batch)
    /\ UNCHANGED <<totalTicketsIssued, operator>>

SetOperator(allowed) ==
    /\ operator' = allowed
    /\ UNCHANGED ticketVars
============================================================================
