------------------------------- MODULE SignIn -------------------------------
(***************************************************************************)
(* Sessions of the backend and the pages that sign in to it: auth.ts,      *)
(* sessionStore.ts and middleware/auth.ts; WalletProvider.tsx,             *)
(* authDomain.ts, lib/backend/api.ts and session.ts; and the scope check   *)
(* of the ticket routes.  The pages of one browser share the wallet, the   *)
(* cookie and the stored token; each hears of a switched account on its    *)
(* own.  A session is known by its token, a number.                        *)
(***************************************************************************)
EXTENDS Integers, FiniteSets

CONSTANTS
    Accounts, Pages, NONE,
    Method,       \* selectBackendAuthRoute of an account's wallet: "siwe" or "post"
    Checksummed,  \* those whose wallet spells them as normalizeEvmAddress does
    MaxSessions, MaxSwitches, MaxRestarts    \* bounds

ASSUME NoneIsNothing == NONE \notin Accounts
ASSUME MethodOfEach == Method \in [Accounts -> {"siwe", "post"}]
ASSUME SomeAreChecksummed == Checksummed \subseteq Accounts
ASSUME SignInBounds == {MaxSessions, MaxSwitches, MaxRestarts} \subseteq Nat

VARIABLES
    sessions, loginNonces, \* in the backend's memory; a nonce is named by its page
    token, cookie,       \* in the browser: localStorage and the session cookie
    wallet,              \* the account the wallet is on
    account,             \* the account a page shows
    backend,             \* backendAddress: who it believes to be signed in
    error,               \* is backendAuthError set?
    cache, busy,         \* backendSessionRef: the last check, and the one in flight
    me,                  \* requests to /auth/me, by who made them
    flight,              \* the single flight of ensureBackendSession
    claim,               \* a daily claim that waits for it
    switches, restarts,
    signed               \* history: claims asked for an account, and signed for one

serverVars == <<sessions, loginNonces>>
browserVars == <<token, cookie, wallet>>
pageVars == <<account, backend, error, cache, busy, me, flight, claim>>
bounds == <<switches, restarts>>
signInVars == <<serverVars, browserVars, pageVars, bounds, signed>>

AccountOrNone == Accounts \cup {NONE}
Callers == {"flight", "bridge"}
Check == [account: AccountOrNone, result: BOOLEAN, recent: BOOLEAN]
NoCheck == [account |-> NONE, result |-> FALSE, recent |-> FALSE]
Me == [sent: BOOLEAN, as: AccountOrNone, answer: AccountOrNone]
NoMe == [sent |-> FALSE, as |-> NONE, answer |-> NONE]
\* on: whose /auth/me it awaits.
Flight == [step: {"idle", "me", "nonce", "verify", "post"}, as: AccountOrNone, on: Callers \cup {NONE}]
NoFlight == [step |-> "idle", as |-> NONE, on |-> NONE]
Claim == [step: {"idle", "wait", "send"}, scope: AccountOrNone]
NothingAsked == [step |-> "idle", scope |-> NONE]

SignInInit ==
    /\ sessions = [n \in 1..MaxSessions |-> NONE] /\ loginNonces = {}
    /\ token = 0 /\ cookie = 0
    /\ wallet \in Accounts
    /\ account = [p \in Pages |-> NONE] /\ backend = [p \in Pages |-> NONE]
    /\ error = [p \in Pages |-> FALSE]
    /\ cache = [p \in Pages |-> NoCheck] /\ busy = [p \in Pages |-> NONE]
    /\ me = [p \in Pages |-> [c \in Callers |-> NoMe]]
    /\ flight = [p \in Pages |-> NoFlight] /\ claim = [p \in Pages |-> NothingAsked]
    /\ switches = 0 /\ restarts = 0 /\ signed = {}

----------------------------------------------------------------------------
(* The backend                                                             *)

Whose(t) == IF t = 0 THEN NONE ELSE sessions[t]

\* readSessionToken: the Bearer token goes before the cookie.
Credential == IF token # 0 THEN token ELSE cookie

\* The wallet a route answers for, if the session is good.
requireAuth == Whose(Credential)

getWalletFromSocketCookies == Whose(cookie)

\* getWalletFromSocketHandshake: the game's socket puts the cookie first.
Handshake ==
    IF getWalletFromSocketCookies # NONE THEN getWalletFromSocketCookies ELSE Whose(token)

Fresh == {n \in 1..MaxSessions : n # token /\ n # cookie /\ sessions[n] = NONE}

\* Everything is in memory; sessions and nonces also run out.
Restart ==
    /\ restarts < MaxRestarts /\ restarts' = restarts + 1
    /\ sessions' = [n \in 1..MaxSessions |-> NONE] /\ loginNonces' = {}
    /\ UNCHANGED <<browserVars, pageVars, switches, signed>>

----------------------------------------------------------------------------
(* ensureBackendSession                                                    *)

Authenticated(p) == account[p] # NONE /\ backend[p] = account[p]

Authenticate(a) ==
    [step |-> IF Method[a] = "siwe" THEN "nonce" ELSE "post", as |-> a, on |-> NONE]

\* refreshBackendSession answers from memory for a few seconds.
CheckIsRecent(check, a) == check.recent /\ check.account = a

\* The flight, request and answer of a call for account a on a page whose last check
\* and check in flight are these.
Ensure(p, a, check, inFlight) ==
    LET same == [flight |-> flight[p], me |-> me[p], check |-> check, busy |-> inFlight,
                 ready |-> FALSE]
    IN  IF flight[p].step # "idle" THEN same
        ELSE IF backend[p] = a THEN [same EXCEPT !.ready = TRUE]
        ELSE IF inFlight # NONE
        THEN [same EXCEPT !.flight = [step |-> "me", as |-> a, on |-> inFlight]]
        ELSE IF CheckIsRecent(check, a)
        THEN IF check.result THEN [same EXCEPT !.ready = TRUE]
             ELSE [same EXCEPT !.flight = Authenticate(a)]
        ELSE [same EXCEPT !.flight = [step |-> "me", as |-> a, on |-> "flight"],
                          !.me["flight"] = [sent |-> TRUE, as |-> a, answer |-> Whose(Credential)],
                          !.check.account = a, !.busy = "flight"]

\* A new attempt takes the error away.
Begin(p, call) ==
    /\ flight' = [flight EXCEPT ![p] = call.flight] /\ me' = [me EXCEPT ![p] = call.me]
    /\ cache' = [cache EXCEPT ![p] = call.check] /\ busy' = [busy EXCEPT ![p] = call.busy]

Starts(call) == call.flight.step \in {"nonce", "post"}

\* PlayTopNav's status line, and what else needs a session.
Press(p) ==
    /\ account[p] # NONE /\ ~Authenticated(p) /\ flight[p].step = "idle"
    /\ LET call == Ensure(p, account[p], cache[p], busy[p])
       IN  /\ Begin(p, call)
           /\ error' = [error EXCEPT ![p] = @ /\ ~Starts(call)]
    /\ UNCHANGED <<serverVars, browserVars, account, backend, claim, bounds, signed>>

\* getPlayBlocker checks on its own.
Bridge(p) ==
    /\ account[p] # NONE /\ ~me[p]["bridge"].sent /\ busy[p] = NONE
    /\ ~CheckIsRecent(cache[p], account[p])
    /\ me' = [me EXCEPT ![p]["bridge"] =
                  [sent |-> TRUE, as |-> account[p], answer |-> Whose(Credential)]]
    /\ busy' = [busy EXCEPT ![p] = "bridge"]
    /\ cache' = [cache EXCEPT ![p].account = account[p]]
    /\ UNCHANGED <<serverVars, browserVars, account, backend, error, flight, claim, bounds,
                   signed>>

\* The flight's callers have their answer.
AnswerCallers(p, ok) ==
    claim' = IF claim[p].step # "wait" THEN claim
             ELSE [claim EXCEPT ![p] = IF ok THEN [@ EXCEPT !.step = "send"] ELSE NothingAsked]

Checked(p, a, result) ==
    /\ cache' = [cache EXCEPT ![p] = [account |-> a, result |-> result, recent |-> TRUE]]
    /\ busy' = [busy EXCEPT ![p] = NONE]

\* The page compares text with text: an account that its wallet spells in small letters
\* never matches the backend's answer.
SameAddress(answer, a) == answer = a /\ a \in Checksummed

\* /auth/me has answered, or failed.  An answer that does not match drops the token.
Deliver(p, c) ==
    /\ me[p][c].sent /\ me' = [me EXCEPT ![p][c] = NoMe]
    /\ \E answer \in {me[p][c].answer, NONE} :
           LET a == me[p][c].as
               ok == SameAddress(answer, a)
               mine == flight[p].step = "me" /\ flight[p].on = c
           IN  /\ backend' = [backend EXCEPT ![p] = IF ok THEN a ELSE NONE]
               /\ token' = IF ~ok /\ answer # NONE THEN 0 ELSE token
               /\ error' = [error EXCEPT ![p] = @ /\ ~ok /\ ~mine]
               /\ Checked(p, a, ok)
               /\ flight' = IF ~mine THEN flight
                            ELSE [flight EXCEPT ![p] = IF ok THEN NoFlight
                                                       ELSE Authenticate(flight[p].as)]
               /\ IF mine /\ ok THEN AnswerCallers(p, TRUE) ELSE UNCHANGED claim
    /\ UNCHANGED <<serverVars, cookie, wallet, account, bounds, signed>>

CacheExpires(p) ==
    /\ cache[p].recent /\ cache' = [cache EXCEPT ![p].recent = FALSE]
    /\ UNCHANGED <<serverVars, browserVars, account, backend, error, busy, me, flight, claim,
                   bounds, signed>>

----------------------------------------------------------------------------
(* authenticateBackend                                                     *)

GetNonce(p) ==
    /\ flight[p].step = "nonce"
    /\ loginNonces' = loginNonces \cup {p}
    /\ flight' = [flight EXCEPT ![p].step = "verify"]
    /\ UNCHANGED <<sessions, browserVars, account, backend, error, cache, busy, me, claim,
                   bounds, signed>>

\* Mutant: the flight stays taken.
KeepFlight(p) == flight' = [flight EXCEPT ![p].step = "me"]

\* The single flight is free when its task has ended.
EndFlight(p) == flight' = [flight EXCEPT ![p] = NoFlight]

\* The session is stored and sent back as cookie and token.
CreateSession(p) ==
    /\ \E n \in Fresh :
           /\ sessions' = [sessions EXCEPT ![n] = flight[p].as]
           /\ token' = n /\ cookie' = n
    /\ backend' = [backend EXCEPT ![p] = flight[p].as]
    /\ Checked(p, flight[p].as, TRUE)
    /\ EndFlight(p)
    /\ AnswerCallers(p, TRUE)
    /\ UNCHANGED <<wallet, account, error, me, bounds, signed>>

\* The wallet has signed; the nonce is good once.
Verify(p) ==
    /\ flight[p].step = "verify" /\ p \in loginNonces
    /\ loginNonces' = loginNonces \ {p}
    /\ CreateSession(p)

Post(p) ==
    /\ flight[p].step = "post"
    /\ CreateSession(p)
    /\ UNCHANGED loginNonces

\* The player refuses, the nonce has gone, or a request fails.
AuthenticateFails(p) ==
    /\ flight[p].step \in {"nonce", "verify", "post"}
    /\ loginNonces' \in {loginNonces, loginNonces \ {p}}
    /\ backend' = [backend EXCEPT ![p] = NONE] /\ token' = 0
    /\ error' = [error EXCEPT ![p] = TRUE]
    /\ Checked(p, flight[p].as, FALSE)
    /\ EndFlight(p)
    /\ AnswerCallers(p, FALSE)
    /\ UNCHANGED <<sessions, cookie, wallet, account, me, bounds, signed>>

----------------------------------------------------------------------------
(* Accounts                                                                *)

Switch(a) ==
    /\ switches < MaxSwitches /\ switches' = switches + 1
    /\ a # wallet /\ wallet' = a
    /\ UNCHANGED <<serverVars, token, cookie, pageVars, restarts, signed>>

\* The effects of a new account: forget what was known, unless there was none before.
Forget(p) ==
    IF account[p] = NONE THEN [check |-> cache[p], busy |-> busy[p]]
    ELSE [check |-> [NoCheck EXCEPT !.account = wallet], busy |-> NONE]

\* The account a page shows is new: it signs in.
NewAccount(p) ==
    /\ account' = [account EXCEPT ![p] = wallet]
    /\ LET call == Ensure(p, wallet, Forget(p).check, Forget(p).busy)
       IN  Begin(p, call)
    /\ backend' = [backend EXCEPT ![p] = NONE] /\ error' = [error EXCEPT ![p] = FALSE]
    /\ UNCHANGED <<serverVars, browserVars, claim, bounds, signed>>

\* The player connects, or the page finds the wallet connected.
Connect(p) == account[p] = NONE /\ NewAccount(p)

\* The page is told of the wallet's other account.
AccountsChanged(p) == account[p] \notin {NONE, wallet} /\ NewAccount(p)

\* The logout knows the cookie's session only; a flight goes on.
Disconnect(p) ==
    /\ account[p] # NONE /\ account' = [account EXCEPT ![p] = NONE]
    /\ sessions' = [n \in 1..MaxSessions |-> IF n = cookie THEN NONE ELSE sessions[n]]
    /\ token' = 0 /\ cookie' = 0
    /\ backend' = [backend EXCEPT ![p] = NONE] /\ error' = [error EXCEPT ![p] = FALSE]
    /\ UNCHANGED <<loginNonces, wallet, cache, busy, me, flight, claim, bounds, signed>>

\* The page is loaded anew; the token is what stays.
Reload(p) ==
    /\ account[p] # NONE /\ account' = [account EXCEPT ![p] = NONE]
    /\ backend' = [backend EXCEPT ![p] = NONE] /\ error' = [error EXCEPT ![p] = FALSE]
    /\ cache' = [cache EXCEPT ![p] = NoCheck] /\ busy' = [busy EXCEPT ![p] = NONE]
    /\ me' = [me EXCEPT ![p] = [c \in Callers |-> NoMe]]
    /\ flight' = [flight EXCEPT ![p] = NoFlight] /\ claim' = [claim EXCEPT ![p] = NothingAsked]
    /\ UNCHANGED <<serverVars, browserVars, bounds, signed>>

----------------------------------------------------------------------------
(* A request with a scope                                                  *)

\* useDailyRewardClaim: the account is the page's when the button was pressed.
AskClaim(p) ==
    /\ account[p] # NONE /\ claim[p].step = "idle"
    /\ LET call == Ensure(p, account[p], cache[p], busy[p])
       IN  /\ Begin(p, call)
           /\ claim' = [claim EXCEPT ![p] = [step |-> IF call.ready THEN "send" ELSE "wait",
                                             scope |-> account[p]]]
           /\ error' = [error EXCEPT ![p] = @ /\ ~Starts(call)]
    /\ UNCHANGED <<serverVars, browserVars, account, backend, bounds, signed>>

\* Mutant: the session alone decides.
SessionOnly(scope) == requireAuth # NONE

\* validateTicketScope.
InScope(scope) == requireAuth # NONE /\ requireAuth = scope

\* The claim is signed for the wallet of the session.
SendClaim(p) ==
    /\ claim[p].step = "send" /\ claim' = [claim EXCEPT ![p] = NothingAsked]
    /\ signed' = IF InScope(claim[p].scope)
                 THEN signed \cup {<<claim[p].scope, requireAuth>>} ELSE signed
    /\ UNCHANGED <<serverVars, browserVars, account, backend, error, cache, busy, me, flight,
                   bounds>>

Progress(p) == GetNonce(p) \/ Verify(p) \/ Post(p) \/ AuthenticateFails(p)

SignInNext ==
    \/ \E p \in Pages :
           \/ Press(p) \/ Bridge(p) \/ Progress(p) \/ CacheExpires(p)
           \/ Connect(p) \/ AccountsChanged(p) \/ Disconnect(p) \/ Reload(p) \/ AskClaim(p) \/ SendClaim(p)
           \/ \E c \in Callers : Deliver(p, c)
    \/ \E a \in Accounts : Switch(a)
    \/ Restart

SignInSpec == SignInInit /\ [][SignInNext]_signInVars

\* Requests are answered or fail, time passes, and a player who is not signed in
\* presses the status line.
FairSignInSpec ==
    /\ SignInSpec
    /\ \A p \in Pages :
           /\ WF_signInVars(Press(p)) /\ WF_signInVars(Progress(p)) /\ WF_signInVars(CacheExpires(p))
           /\ \A c \in Callers : WF_signInVars(Deliver(p, c))

----------------------------------------------------------------------------
(* Properties                                                              *)

SignInTypeOK ==
    /\ sessions \in [1..MaxSessions -> AccountOrNone] /\ loginNonces \subseteq Pages
    /\ {token, cookie} \subseteq 0..MaxSessions /\ wallet \in Accounts
    /\ account \in [Pages -> AccountOrNone] /\ backend \in [Pages -> AccountOrNone]
    /\ error \in [Pages -> BOOLEAN] /\ cache \in [Pages -> Check]
    /\ busy \in [Pages -> Callers \cup {NONE}]
    /\ me \in [Pages -> [Callers -> Me]] /\ flight \in [Pages -> Flight]
    /\ claim \in [Pages -> Claim]
    \* No claim waits for a flight that has ended.
    /\ \A p \in Pages : claim[p].step = "wait" => flight[p].step # "idle"

\* A claim pressed before the account was switched, or on a page that has not heard of
\* it (the browser then holds the other account's session), is not signed for the
\* wrong wallet.
StaleTabIsRefused == \A c \in signed : c[1] = c[2]

\* The game's socket opens for the wallet that the routes see: runs are not played, and
\* tickets not spent, for another account than claims are signed for.
SocketIsTheSession == Handshake = requireAuth

\* A page whose player keeps trying is signed in as the account it shows, or says that
\* it cannot be, whatever was in flight when the account changed.
TryingSignsIn ==
    \A p \in Pages, a \in Accounts :
        (account[p] = a) ~> (Authenticated(p) \/ error[p] \/ account[p] # a)
=============================================================================
