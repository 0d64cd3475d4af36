----------------------------- MODULE RunEngine -----------------------------
(***************************************************************************)
(* A ticket run as its two ends see it: the engine in the page (script.js) *)
(* behind its bridge (GameBridgeClient.tsx, socket.ts), and the gateway's  *)
(* game of the same wallet (gameGateway.ts), over a link that delays, and  *)
(* loses what is in flight when it breaks.                                 *)
(*                                                                         *)
(* Both ends count rows and checkpoints and time the stay at a checkpoint  *)
(* for themselves; only moves and answers cross.  A gateway handler is one *)
(* step here (TicketSession cuts the same handlers at their awaits).  Rows *)
(* are walked forward and backward: sideways hops change nothing counted.  *)
(***************************************************************************)
EXTENDS Checkpoints, Sequences

CONSTANTS
    Stay,         \* CP_MAX_STAY_MS, in ticks
    MaxRow,       \* the last row walked to
    MaxIntents,   \* clientSessionIds generated
    MaxSockets,   \* connections made
    MaxInFlight   \* messages in the link, each way

ASSUME BoundsAreNatural ==
    {Stay, MaxRow, MaxIntents, MaxSockets, MaxInFlight} \subseteq Nat

VARIABLES
    bet,       \* the engine's run: script.js's bet and position.currentRow (and as a
               \* history, faithful: all hops of this run, and no others, were sent)
    over,      \* gameOver: a result is on the screen
    panel,     \* the panel with START RUN is open
    settling,  \* settlementPending
    call,      \* the bridge call being awaited, and whether it was emitted
    intent,    \* gameClientSessionIdRef; 0 is null
    used,      \* ids generated so far
    refused,   \* history: ids the page was told are consumed
    conn,      \* the page's connection; 0 while there is none
    handlers,  \* by connection: which listeners the gateway put on it
    up, down,  \* the link
    game,      \* activeGames.get(wallet)
    session,   \* game_sessions.status, by clientSessionId
    last       \* the session that ended last

page == <<over, panel, settling, call, intent, used, refused>>
link == <<conn, handlers, up, down>>
server == <<game, session, last>>
vars == <<bet, page, link, server>>

----------------------------------------------------------------------------
Intents == 1..MaxIntents
Sockets == 1..MaxSockets
Directions == {"forward", "backward"}
Ended == {"COMPLETED", "CRASHED"}

\* left: ticks of the stay that remain.  The page stops at 0, the gateway at -1: one
\* tests remaining > 0, the other elapsed > CP_MAX_STAY_MS.
Track == [row: 0..MaxRow, maxRow: 0..MaxRow, cp: 0..MaxRow, window: BOOLEAN,
          cpRow: 0..MaxRow, left: -1..Stay]
StartOfTrack == [row |-> 0, maxRow |-> 0, cp |-> 0, window |-> FALSE, cpRow |-> 0, left |-> 0]
Unpaid == [active |-> FALSE, faithful |-> FALSE,
           row |-> 0, maxRow |-> 0, cp |-> 0, window |-> FALSE, cpRow |-> 0, left |-> 0]

\* What a bet that is not active keeps is not read before activateBet resets it, and a
\* stay is not read while its window is closed: both are put back at once.
Timed(t) == IF t.window THEN t ELSE [t EXCEPT !.left = 0]

NoGame == [id |-> 0]
NoCall == [kind |-> "none", sent |-> FALSE]

\* Mutant: every arrival at a checkpoint's row counts, not only the first.
EveryArrivalCounts(t, d) ==
    LET r == IF d = "forward" THEN t.row + 1 ELSE IF t.row = 0 THEN 0 ELSE t.row - 1
        reach == d = "forward" /\ IsCheckpointRow(r)
    IN [t EXCEPT !.row = r, !.maxRow = IF r > @ THEN r ELSE @,
                 !.cp = IF reach THEN @ + 1 ELSE @, !.cpRow = IF reach THEN r ELSE @,
                 !.left = IF reach THEN Stay ELSE 0, !.window = reach]

\* handleGameMove: a new furthest row may be a checkpoint, which opens the window; any
\* hop off the checkpoint's row closes it.
ServerHop(t, d) ==
    LET r == IF d = "forward" THEN t.row + 1 ELSE IF t.row = 0 THEN 0 ELSE t.row - 1
        further == d = "forward" /\ r > t.maxRow
        reach == further /\ IsCheckpointRow(r)
        leave == IF d = "forward" THEN r > t.cpRow ELSE r # t.cpRow
    IN Timed([t EXCEPT !.row = r,
                       !.maxRow = IF further THEN r ELSE @,
                       !.cp = IF reach THEN @ + 1 ELSE @,
                       !.cpRow = IF reach THEN r ELSE @,
                       !.left = IF reach THEN Stay ELSE @,
                       !.window = reach \/ (@ /\ ~leave)])

\* Mutant: stepping back off the checkpoint leaves the window open.
StepsBackInWindow(b, d) ==
    LET r == IF d = "forward" THEN b.row + 1 ELSE b.row - 1
        reach == d = "forward" /\ r > b.maxRow /\ IsCheckpointRow(r)
    IN IF ~b.active THEN b
       ELSE [b EXCEPT !.row = r, !.maxRow = IF r > @ THEN r ELSE @,
                      !.cp = IF reach THEN @ + 1 ELSE @, !.cpRow = IF reach THEN r ELSE @,
                      !.left = IF reach THEN Stay ELSE @,
                      !.window = reach \/ (@ /\ r <= b.cpRow)]

\* stepCompleted, onPlayerAdvance, reachCheckpoint, closeCashoutWindow: the engine's
\* own version, where only a hop to a new furthest row asks for a checkpoint.
ClientHop(b, d) ==
    LET r == IF d = "forward" THEN b.row + 1 ELSE b.row - 1
        moved == [b EXCEPT !.row = r]
    IN IF ~b.active THEN b
       ELSE IF d = "backward" THEN Timed([moved EXCEPT !.window = @ /\ r = b.cpRow])
       ELSE IF r <= b.maxRow THEN Timed([moved EXCEPT !.window = @ /\ r <= b.cpRow])
       ELSE IF IsCheckpointRow(r)
            THEN [moved EXCEPT !.maxRow = r, !.cp = @ + 1, !.cpRow = r, !.window = TRUE,
                               !.left = Stay]
            ELSE Timed([moved EXCEPT !.maxRow = r, !.window = @ /\ r <= b.cpRow])

----------------------------------------------------------------------------
(* The page                                                                *)

Init ==
    /\ bet = Unpaid /\ over = FALSE /\ panel = TRUE /\ settling = FALSE /\ call = NoCall
    /\ intent = 0 /\ used = 0 /\ refused = {}
    /\ conn = 1 /\ up = <<>> /\ down = <<>>
    /\ handlers = [k \in Sockets |-> IF k = 1 THEN "full" ELSE "none"]
    /\ game = NoGame /\ session = [i \in Intents |-> "none"] /\ last = 0

Send(type, id, dir) == up' = Append(up, [type |-> type, id |-> id, dir |-> dir, sock |-> conn])
Room == Len(up) < MaxInFlight
MovesInFlight == \E n \in DOMAIN up : up[n].type = "move"

\* START RUN: the id of the last start is used again until a run of it has ended.
PressStart ==
    /\ panel /\ call = NoCall
    /\ intent # 0 \/ used < MaxIntents
    /\ IF intent # 0 THEN UNCHANGED <<intent, used>> ELSE intent' = used + 1 /\ used' = used + 1
    /\ call' = [kind |-> "start", sent |-> FALSE]
    /\ UNCHANGED <<bet, over, panel, settling, refused, link, server>>

CanCashOut == bet.active /\ bet.window /\ bet.left > 0

\* renderBetHud: END RUN is on the screen during a run while it may be ended, and only then.
EndRunOffered == bet.active /\ CanCashOut

PressEndRun ==
    /\ CanCashOut /\ ~settling
    /\ settling' = TRUE
    /\ call' = [kind |-> "end_run", sent |-> FALSE]
    /\ UNCHANGED <<bet, over, panel, intent, used, refused, link, server>>

\* hitTest, and evaluateBoatRide with onDrown: any row may have traffic or water except
\* the first and the checkpoints; once a crash is being settled they look no more.
HitTest == ~settling /\ bet.row > 0 /\ ~IsCheckpointRow(bet.row)
OnDrown == ~settling /\ bet.row > 0 /\ ~IsCheckpointRow(bet.row)

\* crashBet, for a collision or in the water.
Crash ==
    /\ bet.active /\ (HitTest \/ OnDrown)
    /\ settling' = TRUE
    /\ bet' = Unpaid
    /\ call' = [kind |-> "crash", sent |-> FALSE]
    /\ UNCHANGED <<over, panel, intent, used, refused, link, server>>

\* A bound: hops the gateway counts for a run the page is not in go no further either.
GatewayBelow(r) == game # NoGame => game.row + Len(up) < r

\* A hop is taken whether or not a run is on or being settled, and its move is sent
\* whenever there is a connection.  Where a practice run walks is not followed.
Hop(d) ==
    /\ ~over /\ ~panel
    /\ d = "forward" => bet.row < MaxRow /\ GatewayBelow(MaxRow)
    /\ d = "backward" => bet.row > 0 \/ ~bet.active
    /\ bet' = [ClientHop(bet, d) EXCEPT !.faithful = @ /\ conn # 0]
    /\ IF conn = 0 THEN up' = up ELSE Room /\ Send("move", 0, d)
    /\ UNCHANGED <<page, conn, handlers, down, server>>

\* tickBet
StayEnds ==
    /\ bet.active /\ bet.window /\ bet.left = 0
    /\ bet' = Timed([bet EXCEPT !.window = FALSE])
    /\ UNCHANGED <<page, link, server>>

\* setBetButtonState: PLAY is disabled as SETTLING..., and while RECONNECTING..., which
\* nothing in the page ever says.
PlayEnabled == ~settling

\* The PLAY button.
TogglePanel ==
    /\ PlayEnabled /\ ~bet.active /\ call = NoCall
    /\ panel' = ~panel
    /\ UNCHANGED <<bet, over, settling, call, intent, used, refused, link, server>>

\* initializeGame, with or without the panel.
Restart(toPanel) ==
    /\ over' = FALSE /\ panel' = toPanel
    /\ bet' = Unpaid
    /\ UNCHANGED <<settling, call, intent, used, refused, link, server>>

Retry == over /\ Restart(TRUE)

\* startFreePracticeRun: FREE PLAY in the panel, or the result closed.
FreePractice == (over \/ panel) /\ Restart(FALSE)

----------------------------------------------------------------------------
(* The bridge                                                              *)

Emit ==
    /\ call # NoCall /\ ~call.sent /\ conn # 0 /\ Room
    /\ Send(call.kind, intent, "none")
    /\ call' = [call EXCEPT !.sent = TRUE]
    /\ UNCHANGED <<bet, over, panel, settling, intent, used, refused, conn, handlers, down,
                   server>>

\* Mutant: only a refused END RUN takes the page out of SETTLING.
StillSettling ==
    /\ call' = NoCall
    /\ settling' = (settling /\ call.kind # "end_run")
    /\ IF call.kind = "end_run" THEN bet' = Unpaid /\ panel' = TRUE ELSE UNCHANGED <<bet, panel>>
    /\ UNCHANGED <<over, intent, used>>

\* startBet shows the message, no more.
StartRejected == call.kind = "start" /\ UNCHANGED <<bet, panel, settling>>

\* cashOut gives the run up, whatever the gateway still holds of it.
EndRunRejected ==
    call.kind = "end_run" /\ bet' = Unpaid /\ panel' = TRUE /\ settling' = FALSE

\* crashBet had given it up before it asked.
CrashRejected == call.kind = "crash" /\ settling' = FALSE /\ UNCHANGED <<bet, panel>>

\* The bridge's promise is rejected.
Reject ==
    /\ StartRejected \/ EndRunRejected \/ CrashRejected
    /\ call' = NoCall
    /\ UNCHANGED <<over, intent, used>>

\* game:started with the id that was asked for: activateBet.
Activate ==
    /\ bet' = [Unpaid EXCEPT !.active = TRUE,
                             !.faithful = game # NoGame /\ ~game.moved /\ ~MovesInFlight]
    /\ over' = FALSE /\ panel' = FALSE /\ settling' = FALSE /\ call' = NoCall
    /\ UNCHANGED <<intent, used, refused>>

\* The result covers the game, and lies over the panel if that is open.
ShowResult == over' = TRUE /\ UNCHANGED panel

\* game:ended, of whichever run.
RunEnded ==
    /\ bet' = Unpaid
    /\ ShowResult /\ settling' = FALSE /\ call' = NoCall /\ intent' = 0
    /\ UNCHANGED <<used, refused>>

\* chicken:cp-expired.  Its listener is only there when ensureGameSocket made this
\* socket, so a listener may or may not be.
CpExpired == bet' \in {bet, Timed([bet EXCEPT !.window = FALSE])} /\ UNCHANGED page

\* The listeners onGameEvent has put up, for the call that is being awaited.
Listens(kinds) == call.sent /\ call.kind \in kinds

\* A message no listener waits for is dropped.
Receive ==
    /\ down # <<>>
    /\ down' = Tail(down)
    /\ LET m == Head(down) IN
       CASE m.type = "started" /\ Listens({"start"}) /\ m.id = intent -> Activate
         [] m.type = "ended" /\ Listens({"end_run", "crash"}) -> RunEnded
         [] m.type \in {"error", "consumed"} /\ Listens({"start", "end_run", "crash"}) ->
                /\ Reject
                /\ refused' = IF m.type = "consumed" /\ call.kind = "start"
                              THEN refused \cup {m.id} ELSE refused
         [] m.type = "cp_expired" -> CpExpired
         [] OTHER -> UNCHANGED <<bet, page>>
    /\ UNCHANGED <<conn, handlers, up, server>>

\* The bridge's 12 s timer, or a connection that cannot be made.
BridgeFails ==
    /\ call # NoCall /\ (call.sent \/ conn = 0)
    /\ Reject
    /\ UNCHANGED <<refused, link, server>>

----------------------------------------------------------------------------
(* The link                                                                *)

\* The messages that were not delivered are gone; the gateway learns of the loss later.
Drop ==
    /\ conn # 0
    /\ conn' = 0 /\ down' = <<>>
    /\ \E n \in 0..Len(up) :
           /\ up' = SubSeq(up, 1, n)
           /\ bet' = [bet EXCEPT !.faithful =
                          @ /\ \A j \in n + 1 .. Len(up) : up[j].type # "move"]
    /\ UNCHANGED <<page, handlers, server>>

\* io.on("connection"): only a game that is already paused is resumed, and a resumed
\* socket gets no listener for start or end_run.
Connect ==
    /\ conn = 0
    /\ \E k \in Sockets :
           /\ handlers[k] = "none" /\ \A j \in 1..k-1 : handlers[j] # "none"
           /\ conn' = k
           /\ IF game # NoGame /\ game.paused
              THEN /\ handlers' = [handlers EXCEPT ![k] = "resumed"]
                   /\ game' = [game EXCEPT !.paused = FALSE, !.sock = k]
              ELSE handlers' = [handlers EXCEPT ![k] = "full"] /\ UNCHANGED game
    /\ UNCHANGED <<bet, page, up, down, session, last>>

----------------------------------------------------------------------------
(* The gateway                                                             *)

\* closeV2FromState: a run nobody moved in is voided when its player is gone.
Close(status, present) ==
    /\ session' = [session EXCEPT ![game.id] =
                       IF ~present /\ ~game.moved THEN "VOIDED" ELSE status]
    /\ last' = IF session'[game.id] \in Ended THEN game.id ELSE last
    /\ game' = NoGame

HandleDisconnect ==
    IF game = NoGame THEN UNCHANGED server
    ELSE IF game.window
         \* handleAutoCashout cannot sign for a run without an on-chain id, so it crashes.
         THEN Close("CRASHED", FALSE)
         ELSE game' = [game EXCEPT !.paused = TRUE] /\ UNCHANGED <<session, last>>

\* The ping timeout of a connection the page has left, maybe for another one.
LossNoticed(k) ==
    /\ handlers[k] \in {"full", "resumed"} /\ k # conn
    /\ \A n \in DOMAIN up : up[n].sock # k
    /\ handlers' = [handlers EXCEPT ![k] = "closed"]
    /\ HandleDisconnect
    /\ UNCHANGED <<bet, page, conn, up, down>>

\* Mutant: the grace period only ends runs nobody moved in.
GraceForUnmoved ==
    /\ game # NoGame /\ game.paused /\ ~game.moved
    /\ Close("CRASHED", FALSE)
    /\ UNCHANGED <<bet, page, link>>

GraceExpires ==
    /\ game # NoGame /\ game.paused
    /\ Close("CRASHED", FALSE)
    /\ UNCHANGED <<bet, page, link>>

\* checkCpStayTimeouts
CpStayExpires ==
    /\ game # NoGame /\ game.window /\ ~game.paused /\ game.left < 0
    /\ Len(down) < MaxInFlight
    /\ game' = Timed([game EXCEPT !.window = FALSE])
    /\ down' = IF game.sock = conn THEN Append(down, [type |-> "cp_expired", id |-> 0]) ELSE down
    /\ UNCHANGED <<bet, page, conn, handlers, up, session, last>>

Answer(m, types, id) ==
    down' = IF m.sock # conn THEN down
            ELSE down \o [n \in DOMAIN types |-> [type |-> types[n], id |-> id]]

\* handleGameStartV2: the same id again is answered from the game it started.
StartRun(m) ==
    IF session[m.id] = "none"
    THEN IF game # NoGame
         THEN Answer(m, <<"error">>, m.id) /\ UNCHANGED server
         ELSE /\ game' = [id |-> m.id, sock |-> m.sock, paused |-> FALSE, moved |-> FALSE,
                          row |-> 0, maxRow |-> 0, cp |-> 0, window |-> FALSE, cpRow |-> 0,
                          left |-> 0]
              /\ session' = [session EXCEPT ![m.id] = "ACTIVE"]
              /\ Answer(m, <<"started">>, m.id) /\ UNCHANGED last
    ELSE IF session[m.id] = "ACTIVE"
         THEN /\ game' = [game EXCEPT !.sock = m.sock]
              /\ Answer(m, <<"started">>, m.id) /\ UNCHANGED <<session, last>>
         ELSE Answer(m, <<"consumed">>, m.id) /\ UNCHANGED server

MoveRun(m) ==
    IF game = NoGame
    THEN Answer(m, <<"error">>, 0) /\ UNCHANGED server
    ELSE /\ game' = [ServerHop(game, m.dir) EXCEPT !.moved = TRUE]
         /\ UNCHANGED <<down, session, last>>

\* readLastEndedV2Session: of the wallet's rows, the one that ended last.
LastEnded == {last} \ {0}

\* replayRecentV2End, within 60 s of the end; silent is what a crash gets afterwards.
ReplayEnd(m, otherwise) ==
    /\ \/ \E id \in LastEnded : Answer(m, <<"ended">>, id)
       \/ Answer(m, otherwise, 0)
    /\ UNCHANGED server

EndRun(m) ==
    IF game = NoGame THEN ReplayEnd(m, <<"error">>)
    ELSE IF ~game.window THEN Answer(m, <<"error">>, 0) /\ UNCHANGED server
    ELSE IF game.left < 0
         THEN /\ game' = Timed([game EXCEPT !.window = FALSE])
              /\ Answer(m, <<"cp_expired", "error">>, 0)
              /\ UNCHANGED <<session, last>>
         ELSE Close("COMPLETED", TRUE) /\ Answer(m, <<"ended">>, game.id)

CrashRun(m) ==
    IF game = NoGame THEN ReplayEnd(m, <<>>)
    ELSE Close("CRASHED", TRUE) /\ Answer(m, <<"ended">>, game.id)

Handle ==
    /\ up # <<>> /\ Len(down) < MaxInFlight
    /\ up' = Tail(up)
    /\ LET m == Head(up) IN
       CASE m.type = "move" -> MoveRun(m)
         [] m.type = "crash" -> CrashRun(m)
         [] m.type = "start" /\ handlers[m.sock] = "full" -> StartRun(m)
         [] m.type = "end_run" /\ handlers[m.sock] = "full" -> EndRun(m)
         [] OTHER -> UNCHANGED <<down, server>>
    /\ UNCHANGED <<bet, page, conn, handlers>>

\* Time passes for both stays at once.
Tick ==
    /\ CanCashOut \/ (game # NoGame /\ game.window /\ game.left >= 0)
    /\ bet' = [bet EXCEPT !.left = IF CanCashOut THEN @ - 1 ELSE @]
    /\ game' = IF game # NoGame /\ game.window /\ game.left >= 0
               THEN [game EXCEPT !.left = @ - 1] ELSE game
    /\ UNCHANGED <<page, link, session, last>>

----------------------------------------------------------------------------
Next ==
    \/ PressStart \/ PressEndRun \/ Crash \/ StayEnds \/ TogglePanel \/ Retry \/ FreePractice
    \/ \E d \in Directions : Hop(d)
    \/ Emit \/ Receive \/ BridgeFails
    \/ Drop \/ Connect
    \/ \E k \in Sockets : LossNoticed(k)
    \/ GraceExpires \/ CpStayExpires \/ Handle \/ Tick

Spec == Init /\ [][Next]_vars

\* A call is emitted once there is room for it, what arrives is handled, the timers run and
\* the ping timeout notices a loss.  Nothing
\* is assumed of the player or of the link.
FairSpec ==
    /\ Spec
    /\ WF_vars(Handle) /\ WF_vars(Receive) /\ SF_vars(Emit) /\ WF_vars(BridgeFails)
    /\ WF_vars(GraceExpires)
    /\ \A k \in Sockets : WF_vars(LossNoticed(k))

----------------------------------------------------------------------------
(* Properties                                                              *)

TypeOK ==
    /\ DOMAIN bet = DOMAIN Unpaid
    /\ bet.active \in BOOLEAN /\ (bet.faithful => bet.active)
    /\ [f \in DOMAIN StartOfTrack |-> bet[f]] \in Track
    /\ intent \in 0..used /\ used \in 0..MaxIntents /\ refused \subseteq 1..used
    /\ conn \in 0..MaxSockets
    /\ game # NoGame => /\ [f \in DOMAIN StartOfTrack |-> game[f]] \in Track
                        /\ session[game.id] = "ACTIVE"
    /\ session \in [Intents -> {"none", "ACTIVE", "VOIDED"} \cup Ended]
    /\ last # 0 => session[last] \in Ended
    \* One run per wallet: a row is ACTIVE exactly while its game is in memory.
    /\ \A i \in Intents : session[i] = "ACTIVE" => game # NoGame /\ game.id = i

SameRun == bet.active /\ bet.faithful /\ game # NoGame /\ game.id = intent

\* Page and gateway count the same run alike: the gateway is behind by the moves in
\* flight, and never credits a row or a checkpoint the player was not shown.
TracksAgree ==
    SameRun =>
        /\ game.maxRow <= bet.maxRow /\ game.cp <= bet.cp
        /\ ~MovesInFlight =>
               /\ game.row = bet.row /\ game.maxRow = bet.maxRow
               /\ game.cp = bet.cp /\ game.cpRow = bet.cpRow

\* END RUN is only offered while the gateway would grant it, once it has the moves.
OfferedEndIsGranted ==
    SameRun /\ EndRunOffered /\ ~MovesInFlight => game.window /\ game.left >= 0

\* A page that shows a run being ended gets an answer or gives up.
SettlingEnds == settling ~> ~settling

\* A run whose player was lost is resumed or closed; it does not stay paused.
PausedRunIsResolved ==
    (game # NoGame /\ game.paused) ~> (game = NoGame \/ ~game.paused)

\* docs/be07-game-session-contract.md, SESSION_CONSUMED: generate a new clientSessionId,
\* then start again.
ConsumedIntentIsReplaced ==
    [][call.kind # "start" /\ call'.kind = "start" => intent' \notin refused]_vars
=============================================================================
