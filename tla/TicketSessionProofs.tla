------------------------ MODULE TicketSessionProofs ------------------------
EXTENDS TicketSession, SumTheorems, FiniteSetTheorems, TLAPS

LEMMA Naturals == Tickets \in Nat /\ Threshold \in Nat /\ MaxCp \in Nat /\ MaxLeaked \in Nat /\ MaxFaults \in Nat
BY NumbersAreNatural

LEMMA IdleIsTask == Idle \in Task
BY NamesAreDistinct, Naturals DEF Idle, Task, Pcs, NoPoints, Ended, StartPcs, ClosePcs

LEMMA NoGameIsGame == NoGame \in Game
BY Naturals DEF NoGame, Game

\* The three ways a handler record changes keep it a handler record.
LEMMA FinishTyped ==
    ASSUME task \in [Slots -> Task], NEW t, Finish(t)
    PROVE  task' \in [Slots -> Task]
BY IdleIsTask DEF Finish

LEMMA GotoTyped ==
    ASSUME task \in [Slots -> Task], NEW t \in Slots, NEW pc \in Pcs, Goto(t, pc)
    PROVE  task' \in [Slots -> Task]
BY DEF Goto, Task

LEMMA BecomeTyped ==
    ASSUME task \in [Slots -> Task], NEW t, NEW pc \in Pcs,
           NEW s \in Sessions \cup {NoSession}, Become(t, pc, s)
    PROVE  task' \in [Slots -> Task]
<1>1. [Idle EXCEPT !.pc = pc, !.sid = s] \in Task
  BY IdleIsTask DEF Task
<1> QED BY <1>1 DEF Become

LEMMA TypeStart ==
    ASSUME TypeOK, NEW t \in Tasks, StartStep(t)
    PROVE  TypeOK'
<1> USE NamesAreDistinct, Naturals, IdleIsTask
<1> USE DEF TypeOK, Slots
<1> DEFINE TT == /\ task' \in [Slots -> Task]
<1>t. t \in Slots /\ task[t] \in Task /\ Idle \in Task
  OBVIOUS
<1>1. CASE LookupIntent(t)
  <2>1. task' \in [Slots -> Task]
    <3>1. CASE Finish(t)
      BY <3>1 DEF Finish
    <3>2. CASE RowOf(task[t].intent) = {} /\ ~Finish(t)
      BY <3>2, <1>1, <1>t DEF LookupIntent, Task, Pcs, StartPcs
    <3>3. CASE RowOf(task[t].intent) # {} /\ ~Finish(t)
      <4>1. PICK s \in Sessions : task' = [task EXCEPT
                        ![t].pc = "resolve", ![t].sid = s,
                        ![t].seen = IF status[s] = "ACTIVE" THEN "ACTIVE" ELSE "ENDED"]
         BY <1>1, <3>3 DEF LookupIntent, RowOf
      <4> DEFINE a == IF status[s] = "ACTIVE" THEN "ACTIVE" ELSE "ENDED"
      <4>2. a \in {"NONE", "ACTIVE", "ENDED"}
        OBVIOUS
      <4>3. task' = [task EXCEPT ![t].pc = "resolve", ![t].sid = s, ![t].seen = a]
        BY <4>1
      <4> HIDE DEF a
      <4> QED BY <4>2, <4>3, <1>t DEF Task, Pcs, StartPcs
    <3> QED BY <3>1, <3>2, <3>3
  <2>2. UNCHANGED <<dbVars, procVars>>
    BY <1>1 DEF LookupIntent
  <2>3. CallFails \/ UNCHANGED envVars
    BY <1>1 DEF LookupIntent
  <2> QED BY <2>1, <2>2, <2>3 DEF CallFails, dbVars, procVars, envVars
<1>2. CASE ResolveExisting(t)
  <2>1. task' \in [Slots -> Task]
    <3>1. "void" \in Pcs /\ "stale" \in Pcs
      BY DEF Pcs, StartPcs
    <3>2. task[t].sid \in Sessions \cup {NoSession}
      BY <1>t DEF Task
    <3>3. Finish(t) \/ Become(t, "void", task[t].sid) \/ Goto(t, "stale")
      BY <1>2 DEF ResolveExisting
    <3> QED BY <1>t, <3>1, <3>2, <3>3, FinishTyped, GotoTyped, BecomeTyped
  <2> QED BY <1>2, <2>1 DEF ResolveExisting, dbVars, procVars, envVars
<1>3. CASE CheckStaleActive(t)
  BY <1>3, <1>t DEF CheckStaleActive, CallFails, Finish, Become, Goto, Task, Pcs, StartPcs, dbVars, procVars, envVars
<1>4. CASE CheckSeason(t)
  BY <1>4, <1>t DEF CheckSeason, CallFails, Finish, Become, Goto, Task, Pcs, StartPcs, dbVars, procVars, envVars
<1>5. CASE InsertSession(t)
  BY <1>5, <1>t DEF InsertSession, NewRow, CallFails, Finish, Become, Goto, Task, Pcs, StartPcs, RowStatus, ledgerVars, rowVars, procVars, envVars
<1>6. CASE DebitTicket(t)
  BY <1>6, <1>t DEF DebitTicket, DebitAllowed, RowExists, TakeTicket, GiveUpStart, CallFails, Goto, Task, Pcs, StartPcs, ledgerVars, rowVars, procVars, envVars
<1>7. CASE DeleteSession(t)
  BY <1>7, <1>t DEF DeleteSession, DropRow, CallFails, Finish, RowStatus, ledgerVars, rowVars, procVars, envVars
<1>8. CASE CreateGameState(t)
  <2>1. task' \in [Slots -> Task]
    BY <1>8 DEF CreateGameState, Finish
  <2>2. mem' \in Game
    <3>1. task[t].sid \in Sessions \cup {NoSession}
      BY <1>t DEF Task
    <3> QED BY <1>8, <3>1, NoGameIsGame DEF CreateGameState, Game
  <2>3. leaked' \in 0..MaxLeaked
    BY <1>8 DEF CreateGameState
  <2> QED BY <1>8, <2>1, <2>2, <2>3 DEF CreateGameState, dbVars, envVars
<1> QED BY <1>1, <1>2, <1>3, <1>4, <1>5, <1>6, <1>7, <1>8 DEF StartStep

LEMMA TypeEnd ==
    ASSUME TypeOK, NEW t \in Slots, EndStep(t)
    PROVE  TypeOK'
<1> USE NamesAreDistinct, Naturals, IdleIsTask DEF TypeOK
<1>a. /\ task[t] \in Task
      /\ task[t].sid \in Sessions \cup {NoSession}
      /\ task[t].outcome \in Ended /\ task[t].cp \in 0..MaxCp
      /\ task[t].open \in BOOLEAN /\ task[t].prev \in Int
  BY DEF Task
<1>b. ComputeMatchPoints(task[t].cp) \in Nat
  BY <1>a DEF ComputeMatchPoints
<1>c. {"closeUpdate", "readPoints", "creditPoints", "remove", "refund"} \subseteq Pcs
  BY DEF Pcs, ClosePcs
<1>d. AfterVoid(t) => task' \in [Slots -> Task]
  BY <1>a, <1>c, FinishTyped, BecomeTyped DEF AfterVoid
<1>1. CASE CloseReadSeason(t)
  <2>1. task' \in [Slots -> Task]
    BY <1>1, <1>a, <1>c DEF CloseReadSeason, Task
  <2> QED BY <1>1, <2>1 DEF CloseReadSeason, CallFails, dbVars, procVars, envVars
<1>2. CASE CloseUpdate(t)
  <2>1. task' \in [Slots -> Task]
    BY <1>2, <1>a, <1>c, GotoTyped, BecomeTyped DEF CloseUpdate
  <2>2. status' \in [Sessions -> RowStatus]
    BY <1>2, <1>a DEF CloseUpdate, RowStatus
  <2>3. awarded' \in [Sessions -> Nat]
    BY <1>2, <1>b DEF CloseUpdate
  <2>4. (CallFails \/ UNCHANGED envVars) /\ UNCHANGED <<intent, ledgerVars, points, procVars>>
    BY <1>2 DEF CloseUpdate
  <2> QED BY <2>1, <2>2, <2>3, <2>4 DEF CallFails, ledgerVars, procVars, envVars
<1>3. CASE ReadPoints(t)
  <2>1. task' \in [Slots -> Task]
    <3>1. CASE Goto(t, "creditPoints")
      BY <3>1, <1>c, GotoTyped
    <3>2. CASE task' = [task EXCEPT ![t].pc = "creditPoints", ![t].prev = points]
      BY <3>2, <1>a, <1>c DEF Task
    <3> QED BY <1>3, <3>1, <3>2 DEF ReadPoints
  <2> QED BY <1>3, <2>1 DEF ReadPoints, CallFails, dbVars, procVars, envVars
<1>4. CASE CreditPoints(t)
  <2>1. task' \in [Slots -> Task]
    BY <1>4, <1>a, <1>c, BecomeTyped DEF CreditPoints
  <2>2. points' \in Int
    BY <1>4, <1>a, <1>b DEF CreditPoints
  <2> QED BY <1>4, <2>1, <2>2 DEF CreditPoints, CallFails, rowVars, ledgerVars, procVars, envVars
<1>5. CASE RemoveGameState(t)
  BY <1>5, NoGameIsGame, FinishTyped DEF RemoveGameState, dbVars, envVars
<1>6. CASE VoidSession(t)
  <2>1. task' \in [Slots -> Task]
    BY <1>6, <1>c, <1>d, GotoTyped DEF VoidSession
  <2>2. status' \in [Sessions -> RowStatus]
    BY <1>6 DEF VoidSession, RowStatus
  <2> QED BY <1>6, <2>1, <2>2 DEF VoidSession, CallFails, ledgerVars, procVars, envVars
<1>7. CASE RefundTicket(t)
  <2>1. task' \in [Slots -> Task]
    BY <1>7, <1>d DEF RefundTicket
  <2> QED BY <1>7, <2>1 DEF RefundTicket, GiveBack, CallFails, rowVars, ledgerVars, procVars, envVars
<1> QED BY <1>1, <1>2, <1>3, <1>4, <1>5, <1>6, <1>7 DEF EndStep

\* What the handlers that end a run leave behind.
LEMMA BeginCloseTyped ==
    ASSUME TypeOK, NEW t \in Slots, NEW outcome \in Ended, NEW fromClient \in BOOLEAN,
           BeginClose(t, outcome, fromClient)
    PROVE  task' \in [Slots -> Task]
<1>1. mem.sid \in Sessions \cup {NoSession} /\ mem.cp \in 0..MaxCp
  BY DEF TypeOK, Game
<1>2. {"void", "closeSeason"} \subseteq Pcs
  BY DEF Pcs, ClosePcs
<1>3. [Idle EXCEPT !.pc = "void", !.sid = mem.sid, !.rm = TRUE] \in Task
  BY <1>1, <1>2, IdleIsTask DEF Task
<1>4. [Idle EXCEPT !.pc = "closeSeason", !.sid = mem.sid, !.outcome = outcome, !.cp = mem.cp] \in Task
  BY <1>1, <1>2, IdleIsTask DEF Task
<1> QED BY <1>3, <1>4 DEF TypeOK, BeginClose

LEMMA TypeClient ==
    ASSUME TypeOK, NEW t \in Tasks, Client(t) \/ GraceExpired(t)
    PROVE  TypeOK'
<1> USE NamesAreDistinct, Naturals DEF TypeOK
<1>a. t \in Slots /\ task[t] \in Task /\ mem \in Game
  BY DEF Slots
<1>b. "CRASHED" \in Ended /\ "COMPLETED" \in Ended /\ TRUE \in BOOLEAN /\ FALSE \in BOOLEAN
  BY DEF Ended
<1>c. HasActiveGame => mem.sid \in Sessions
  BY DEF HasActiveGame, Game
<1>1. ASSUME NEW i \in Intents, HandleGameStartV2(t, i)
      PROVE  TypeOK'
  <2>1. [Idle EXCEPT !.pc = "lookup", !.intent = i] \in Task
    BY IdleIsTask DEF Task, Pcs, StartPcs
  <2>2. task' \in [Slots -> Task]
    BY <1>1, <2>1 DEF HandleGameStartV2
  <2> QED BY <1>1, <2>2 DEF HandleGameStartV2, dbVars, procVars, envVars
<1>2. CASE SpeedHack(t)
  <2>1. task' \in [Slots -> Task]
    BY <1>2, <1>a, <1>b, BeginCloseTyped DEF SpeedHack
  <2> QED BY <1>2, <1>c, <2>1 DEF SpeedHack, dbVars, envVars
<1>3. CASE HandleGameCrash(t)
  <2>1. task' \in [Slots -> Task]
    BY <1>3, <1>a, <1>b, BeginCloseTyped DEF HandleGameCrash
  <2> QED BY <1>3, <2>1 DEF HandleGameCrash, dbVars, procVars, envVars
<1>4. CASE HandleGameCashout(t)
  <2>1. task' \in [Slots -> Task]
    BY <1>4, <1>a, <1>b, BeginCloseTyped DEF HandleGameCashout
  <2>2. mem' \in Game
    BY <1>4, <1>a DEF HandleGameCashout, Game
  <2> QED BY <1>4, <2>1, <2>2 DEF HandleGameCashout, dbVars, envVars
<1>5. CASE HandleDisconnect(t)
  <2>1. task' \in [Slots -> Task]
    BY <1>5, <1>a, <1>b, BeginCloseTyped DEF HandleDisconnect
  <2>2. mem' \in Game
    <3>1. mem' = mem \/ mem' = [mem EXCEPT !.paused = TRUE, !.timer = TRUE]
      BY <1>5 DEF HandleDisconnect
    <3> QED BY <3>1, <1>a DEF Game
  <2>3. \/ leaked' = leaked
        \/ /\ mem.timer => leaked < MaxLeaked
           /\ leaked' = IF mem.timer THEN leaked + 1 ELSE leaked
    BY <1>5 DEF HandleDisconnect
  <2>4. leaked' \in 0..MaxLeaked
    BY <2>3
  <2> QED BY <1>5, <2>1, <2>2, <2>4 DEF HandleDisconnect, dbVars, envVars
<1>6. CASE HandleAbortStart(t)
  <2>1. task' \in [Slots -> Task]
    BY <1>6, <1>a, <1>c, BecomeTyped DEF HandleAbortStart, Pcs
  <2> QED BY <1>6, <2>1, NoGameIsGame DEF HandleAbortStart, dbVars, envVars
<1>7. CASE GraceExpired(t)
  <2>1. task' \in [Slots -> Task]
    BY <1>7, <1>a, <1>b, BeginCloseTyped DEF GraceExpired
  <2>2. mem' \in Game
    BY <1>7, <1>a DEF GraceExpired, Game
  <2>3. leaked' \in 0..MaxLeaked
    BY <1>7 DEF GraceExpired
  <2> QED BY <1>7, <2>1, <2>2, <2>3 DEF GraceExpired, dbVars, envVars
<1> QED BY <1>1, <1>2, <1>3, <1>4, <1>5, <1>6, <1>7 DEF Client

LEMMA TypeStep == TypeOK /\ [Next]_vars => TypeOK'
<1> SUFFICES ASSUME TypeOK, [Next]_vars PROVE TypeOK'
    OBVIOUS
<1> USE Naturals DEF TypeOK
<1>a. Sweeper \in Slots
  BY DEF Slots
<1>1. ASSUME NEW t \in Tasks, Client(t) \/ GraceExpired(t) \/ StartStep(t)
      PROVE  TypeOK'
  BY <1>1, TypeClient, TypeStart
<1>2. ASSUME NEW t \in Slots, EndStep(t)
      PROVE  TypeOK'
  BY <1>2, TypeEnd
<1>3. ASSUME NEW s \in Sessions, SweepFind(s)
      PROVE  TypeOK'
  <2>1. task' \in [Slots -> Task]
    BY <1>3, BecomeTyped DEF SweepFind, Pcs
  <2> QED BY <1>3, <2>1 DEF SweepFind, dbVars, procVars, envVars
<1>4. CASE SweepCheck
  <2>1. task[Sweeper].sid \in Sessions \cup {NoSession} /\ "void" \in Pcs
    BY <1>a DEF Task, Pcs
  <2>2. task' \in [Slots -> Task]
    BY <1>4, <2>1, FinishTyped, BecomeTyped DEF SweepCheck
  <2> QED BY <1>4, <2>2 DEF SweepCheck, dbVars, procVars, envVars
<1>5. CASE HandleGameMove
  <2>1. moved' \subseteq Sessions
    BY <1>5 DEF HandleGameMove, HasActiveGame, Game
  <2>2. mem' \in Game
    <3>1. \/ UNCHANGED mem
          \/ mem.cp < MaxCp /\ mem' = [mem EXCEPT !.cp = @ + 1, !.window = TRUE]
          \/ mem' = [mem EXCEPT !.window = FALSE]
      BY <1>5 DEF HandleGameMove
    <3>2. CASE mem.cp < MaxCp /\ mem' = [mem EXCEPT !.cp = @ + 1, !.window = TRUE]
      <4>1. mem.cp + 1 \in 0..MaxCp
        BY <3>2 DEF Game
      <4> QED BY <3>2, <4>1 DEF Game
    <3> QED BY <3>1, <3>2 DEF Game
  <2> QED BY <1>5, <2>1, <2>2 DEF HandleGameMove, dbVars, envVars
<1>6. CASE CheckCpStayTimeouts
  BY <1>6 DEF CheckCpStayTimeouts, Game, dbVars, envVars
<1>7. CASE HandleReconnect
  BY <1>7 DEF HandleReconnect, Game, dbVars, envVars
<1>8. CASE FreezeSeason
  BY <1>8 DEF FreezeSeason, dbVars, procVars
<1>9. CASE Restart
  <2>1. task' \in [Slots -> Task]
    BY <1>9, IdleIsTask DEF Restart
  <2> QED BY <1>9, <2>1, NoGameIsGame DEF Restart, dbVars
<1>10. CASE UNCHANGED vars
  BY <1>10 DEF vars
<1> QED BY <1>1, <1>2, <1>3, <1>4, <1>5, <1>6, <1>7, <1>8, <1>9, <1>10 DEF Next
(***************************************************************************)
(* Every record of the model keeps its type.                               *)
(***************************************************************************)
THEOREM TypeCorrect == Spec => []TypeOK
<1>1. Init => TypeOK
  BY IdleIsTask, NoGameIsGame, Naturals DEF Init, TypeOK, RowStatus, NoPoints
<1> QED BY <1>1, TypeStep, PTL DEF Spec

----------------------------------------------------------------------------
\* A step of handler t that takes no ticket away from anybody and leaves the rows
\* other refunds wait for voided or deleted keeps every handler paid.
LEMMA PaidStep ==
    ASSUME SessionInv, TypeOK', NEW t \in Slots,
           \A u \in Slots \ {t} : task'[u] = task[u],
           PaidTask(t)', HasActiveGame' => mem'.sid \in spent', spent \subseteq spent',
           \A u \in Slots \ {t} : task[u].sid \in Sessions /\ status[task[u].sid] \in Unplayed
                => status'[task[u].sid] \in Unplayed
    PROVE  PaidInFlight'
<1>1. ASSUME NEW u \in Slots PROVE PaidTask(u)'
  BY DEF SessionInv, PaidInFlight, PaidTask
<1> QED BY <1>1 DEF PaidInFlight, HasActiveGame

\* Rows and tickets as they were: only the handlers need a look.
LEMMA QuietStep ==
    ASSUME SessionInv, TypeOK', PaidInFlight', UNCHANGED <<status, spent, refunded>>
    PROVE  SessionInv'
BY DEF SessionInv, SpentRowExists, OneChargedRun, Charged, RefundExcludesOutcome, OutcomeWasPaid

\* Handlers that end their work, or go on where no ticket is needed.
Harmless(pc) == pc \notin ClosePcs \cup {"create", "refund"}

LEMMA HarmlessStep ==
    ASSUME SessionInv, TypeOK', NEW t \in Slots,
           Harmless(task'[t].pc) \/ task'[t] = task[t],
           \A u \in Slots \ {t} : task'[u] = task[u],
           mem' = mem \/ ~HasActiveGame' \/ mem'.sid = mem.sid,
           UNCHANGED <<status, spent, refunded>>
    PROVE  SessionInv'
<1>1. PaidTask(t)'
  BY DEF PaidTask, Harmless, SessionInv, PaidInFlight
<1>2. HasActiveGame' => mem'.sid \in spent'
  BY DEF SessionInv, PaidInFlight, HasActiveGame
<1>3. PaidInFlight'
  BY <1>1, <1>2, PaidStep
<1> QED BY <1>3, QuietStep

\* What Finish, Goto, Become and BeginClose do to the handlers.
LEMMA FinishTask ==
    ASSUME TypeOK, NEW t \in Slots, Finish(t)
    PROVE  Harmless(task'[t].pc) /\ \A u \in Slots \ {t} : task'[u] = task[u]
BY DEF TypeOK, Finish, Idle, Harmless, ClosePcs

LEMMA GotoTask ==
    ASSUME TypeOK, NEW t \in Slots, NEW pc, Goto(t, pc)
    PROVE  /\ task'[t].pc = pc /\ task'[t].sid = task[t].sid
           /\ \A u \in Slots \ {t} : task'[u] = task[u]
BY DEF TypeOK, Goto, Task

LEMMA BecomeTask ==
    ASSUME TypeOK, NEW t \in Slots, NEW pc, NEW s, Become(t, pc, s)
    PROVE  /\ task'[t].pc = pc /\ task'[t].sid = s
           /\ \A u \in Slots \ {t} : task'[u] = task[u]
BY DEF TypeOK, Become, Idle

LEMMA BeginCloseTask ==
    ASSUME TypeOK, NEW t \in Slots, NEW outcome, NEW fromClient, BeginClose(t, outcome, fromClient)
    PROVE  /\ task'[t].pc \in {"void", "closeSeason"} /\ task'[t].sid = mem.sid
           /\ \A u \in Slots \ {t} : task'[u] = task[u]
BY DEF TypeOK, BeginClose, Idle

\* A run that is being ended was paid for, because it is the game in memory.
LEMMA BeginCloseStep ==
    ASSUME SessionInv, TypeOK', NEW t \in Slots, NEW outcome, NEW fromClient,
           HasActiveGame, BeginClose(t, outcome, fromClient), mem'.sid = mem.sid,
           UNCHANGED <<status, spent, refunded>>
    PROVE  SessionInv'
<1>1. TypeOK
  BY DEF SessionInv
<1>2. mem.sid \in spent
  BY DEF SessionInv, PaidInFlight
<1>3. /\ task'[t].pc \in {"void", "closeSeason"} /\ task'[t].sid = mem.sid
      /\ \A u \in Slots \ {t} : task'[u] = task[u]
  BY <1>1, BeginCloseTask
<1>4. PaidTask(t)'
  BY <1>2, <1>3 DEF PaidTask
<1>5. PaidInFlight'
  BY <1>2, <1>3, <1>4, PaidStep
<1> QED BY <1>5, QuietStep

\* A row that leaves ACTIVE leaves every charged run but itself as it was.
LEMMA StartKeeps ==
    ASSUME SessionInv, TypeOK', NEW t \in Tasks, StartStep(t)
    PROVE  SessionInv'
<1>a. t \in Slots /\ TypeOK
  BY DEF Slots, SessionInv
<1>b. \A pc \in {"lookup", "resolve", "stale", "season", "insert", "debit", "delete", "void"} : Harmless(pc)
  BY DEF Harmless, ClosePcs
<1>1. CASE LookupIntent(t)
  <2>1. Finish(t) \/ (task'[t].pc = "resolve" /\ \A u \in Slots \ {t} : task'[u] = task[u])
    <3>1. CASE RowOf(task[t].intent) = {} /\ ~Finish(t)
      BY <1>1, <1>a, <3>1 DEF LookupIntent, TypeOK, Task
    <3>2. CASE RowOf(task[t].intent) # {} /\ ~Finish(t)
      <4>1. PICK s \in Sessions : task' = [task EXCEPT
                        ![t].pc = "resolve", ![t].sid = s,
                        ![t].seen = IF status[s] = "ACTIVE" THEN "ACTIVE" ELSE "ENDED"]
         BY <1>1, <3>2 DEF LookupIntent, RowOf
      <4> QED BY <1>a, <4>1 DEF TypeOK, Task
    <3> QED BY <3>1, <3>2
  <2>2. UNCHANGED <<status, spent, refunded, mem>>
    BY <1>1 DEF LookupIntent, dbVars, procVars
  <2> QED BY <1>a, <1>b, <2>1, <2>2, FinishTask, HarmlessStep
<1>2. CASE ResolveExisting(t)
  <2>1. Finish(t) \/ Become(t, "void", task[t].sid) \/ Goto(t, "stale")
    BY <1>2 DEF ResolveExisting
  <2>2. UNCHANGED <<status, spent, refunded, mem>>
    BY <1>2 DEF ResolveExisting, dbVars, procVars
  <2> QED BY <1>a, <1>b, <2>1, <2>2, FinishTask, BecomeTask, GotoTask, HarmlessStep
<1>3. CASE CheckStaleActive(t)
  <2>1. Finish(t) \/ Goto(t, "season")
    BY <1>3 DEF CheckStaleActive
  <2>2. UNCHANGED <<status, spent, refunded, mem>>
    BY <1>3 DEF CheckStaleActive, dbVars, procVars
  <2> QED BY <1>a, <1>b, <2>1, <2>2, FinishTask, GotoTask, HarmlessStep
<1>4. CASE CheckSeason(t)
  <2>1. Finish(t) \/ Goto(t, "insert")
    BY <1>4 DEF CheckSeason
  <2>2. UNCHANGED <<status, spent, refunded, mem>>
    BY <1>4 DEF CheckSeason, dbVars, procVars
  <2> QED BY <1>a, <1>b, <2>1, <2>2, FinishTask, GotoTask, HarmlessStep
<1>5. CASE InsertSession(t)
  <2>0. UNCHANGED <<spent, refunded, mem>>
    BY <1>5 DEF InsertSession, ledgerVars, procVars
  <2>1. Harmless(task'[t].pc) /\ \A u \in Slots \ {t} : task'[u] = task[u]
    <3>1. CASE Finish(t)
      BY <1>a, <3>1, FinishTask
    <3>2. CASE ~Finish(t)
      BY <1>5, <1>a, <1>b, <3>2 DEF InsertSession, TypeOK, Task
    <3> QED BY <3>1, <3>2
  <2>2. CASE UNCHANGED status
    BY <1>a, <2>0, <2>1, <2>2, HarmlessStep
  <2>3. ASSUME NEW s \in Sessions, FreshSession(s), NewRow(t, s)
        PROVE  SessionInv'
    <3>1. /\ status[s] = "FREE" /\ s \notin spent /\ \A u \in Slots : task[u].sid # s
          /\ status' = [status EXCEPT ![s] = "ACTIVE"]
      BY <2>3 DEF FreshSession, NewRow
    <3>2. PaidTask(t)'
      BY <2>1 DEF PaidTask, Harmless
    <3>3. HasActiveGame' => mem'.sid \in spent'
      BY <2>0 DEF HasActiveGame, SessionInv, PaidInFlight
    <3>4. PaidInFlight'
      BY <1>a, <2>0, <2>1, <3>1, <3>2, <3>3, PaidStep DEF TypeOK
    <3>5. Charged' = Charged
      BY <1>a, <2>0, <3>1 DEF Charged, TypeOK
    <3> QED BY <1>a, <2>0, <3>1, <3>4, <3>5
         DEF SessionInv, SpentRowExists, OneChargedRun, RefundExcludesOutcome, OutcomeWasPaid, Ended, TypeOK
  <2> QED BY <1>5, <2>2, <2>3 DEF InsertSession, rowVars
<1>6. CASE DebitTicket(t)
  <2> DEFINE s == task[t].sid
  <2>0. UNCHANGED <<status, refunded, mem>>
    BY <1>6 DEF DebitTicket, TakeTicket, ledgerVars, rowVars, procVars
  <2>1. CASE UNCHANGED spent
    <3>1. Goto(t, "delete")
      <4>1. (DebitAllowed(s) /\ TakeTicket(s)) \/ Goto(t, "delete")
        BY <1>6 DEF DebitTicket, GiveUpStart
      <4> QED BY <2>1, <4>1 DEF TakeTicket, DebitAllowed
    <3> QED BY <1>a, <1>b, <2>0, <2>1, <3>1, GotoTask, HarmlessStep
  <2>2. CASE DebitAllowed(s) /\ TakeTicket(s)
    <3>1. /\ s \notin spent /\ Charged \ {s} = {} /\ s \in Sessions /\ status[s] # "FREE"
          /\ spent' = spent \cup {s}
      BY <2>2 DEF DebitAllowed, TakeTicket, RowExists
    <3>2. Goto(t, "create") \/ Goto(t, "delete")
      BY <1>6, <3>1 DEF DebitTicket, GiveUpStart, ledgerVars
    <3>3. /\ task'[t].pc \in {"create", "delete"} /\ task'[t].sid = s
          /\ \A u \in Slots \ {t} : task'[u] = task[u]
      BY <1>a, <3>2, GotoTask
    <3>4. PaidTask(t)'
      BY <3>1, <3>3 DEF PaidTask
    <3>5. HasActiveGame' => mem'.sid \in spent'
      BY <2>0, <3>1 DEF HasActiveGame, SessionInv, PaidInFlight
    <3>6. PaidInFlight'
      BY <1>a, <2>0, <3>1, <3>3, <3>4, <3>5, PaidStep
    <3>7. Charged' \subseteq {s}
      BY <2>0, <3>1 DEF Charged
    <3>8. s \notin refunded
      BY <3>1 DEF SessionInv, RefundExcludesOutcome
    <3> QED BY <1>a, <2>0, <3>1, <3>6, <3>7, <3>8
         DEF SessionInv, SpentRowExists, OneChargedRun, RefundExcludesOutcome, OutcomeWasPaid
  <2> QED BY <1>6, <2>1, <2>2 DEF DebitTicket, ledgerVars
<1>7. CASE DeleteSession(t)
  <2>0. UNCHANGED <<spent, refunded, mem>> /\ Finish(t)
    BY <1>7 DEF DeleteSession, ledgerVars, procVars
  <2>1. Harmless(task'[t].pc) /\ \A u \in Slots \ {t} : task'[u] = task[u]
    BY <1>a, <2>0, FinishTask
  <2>2. CASE UNCHANGED status
    BY <1>a, <2>0, <2>1, <2>2, HarmlessStep
  <2>3. CASE task[t].sid \in Sessions \ spent /\ status' = [status EXCEPT ![task[t].sid] = "FREE"]
    <3>2. PaidTask(t)'
      BY <2>1 DEF PaidTask, Harmless
    <3>3. HasActiveGame' => mem'.sid \in spent'
      BY <2>0 DEF HasActiveGame, SessionInv, PaidInFlight
    <3>4. PaidInFlight'
      BY <1>a, <2>0, <2>1, <2>3, <3>2, <3>3, PaidStep DEF TypeOK, Unplayed
    <3>5. Charged' = Charged
      BY <1>a, <2>0, <2>3 DEF Charged, TypeOK
    <3> QED BY <1>a, <2>0, <2>3, <3>4, <3>5
         DEF SessionInv, SpentRowExists, OneChargedRun, RefundExcludesOutcome, OutcomeWasPaid, Ended, TypeOK
  <2> QED BY <1>7, <2>2, <2>3 DEF DeleteSession, DropRow, rowVars
<1>8. CASE CreateGameState(t)
  <2>0. UNCHANGED <<status, spent, refunded>> /\ Finish(t) /\ task[t].pc = "create"
        /\ mem'.sid = task[t].sid
    BY <1>8 DEF CreateGameState, dbVars, NoGame
  <2>1. Harmless(task'[t].pc) /\ \A u \in Slots \ {t} : task'[u] = task[u]
    BY <1>a, <2>0, FinishTask
  <2>2. PaidTask(t)'
    BY <2>1 DEF PaidTask, Harmless
  <2>3. mem'.sid \in spent'
    BY <1>a, <2>0 DEF SessionInv, PaidInFlight, PaidTask
  <2>4. PaidInFlight'
    BY <1>a, <2>0, <2>1, <2>2, <2>3, PaidStep
  <2> QED BY <2>0, <2>4, QuietStep
<1> QED BY <1>1, <1>2, <1>3, <1>4, <1>5, <1>6, <1>7, <1>8 DEF StartStep

\* A row that leaves ACTIVE for a result: nobody refunds it, and it was paid for.
LEMMA CloseKeeps ==
    ASSUME SessionInv, TypeOK', NEW t \in Slots, CloseUpdate(t)
    PROVE  SessionInv'
<1> DEFINE s == task[t].sid
<1>a. TypeOK
  BY DEF SessionInv
<1>b. task[t].pc = "closeUpdate" /\ UNCHANGED <<spent, refunded, mem>>
  BY DEF CloseUpdate, ledgerVars, procVars
<1>c. s \in spent
  BY <1>b DEF SessionInv, PaidInFlight, PaidTask, ClosePcs
<1>1. /\ task'[t].pc \in {"readPoints", "remove"} /\ task'[t].sid = s
      /\ \A u \in Slots \ {t} : task'[u] = task[u]
  <2>1. Goto(t, "readPoints") \/ Become(t, "remove", s)
    BY DEF CloseUpdate
  <2> QED BY <1>a, <2>1, GotoTask, BecomeTask
<1>2. PaidTask(t)'
  BY <1>b, <1>c, <1>1 DEF PaidTask
<1>3. HasActiveGame' => mem'.sid \in spent'
  BY <1>b DEF HasActiveGame, SessionInv, PaidInFlight
<1>4. CASE UNCHANGED status
  <2>1. PaidInFlight'
    BY <1>b, <1>1, <1>2, <1>3, <1>4, PaidStep
  <2> QED BY <1>b, <1>4, <2>1, QuietStep
<1>5. CASE status[s] = "ACTIVE" /\ status' = [status EXCEPT ![s] = task[t].outcome]
  <2>1. task[t].outcome \in Ended /\ s \in Sessions
    BY <1>a, <1>c DEF TypeOK, Task
  <2>2. PaidInFlight'
    BY <1>a, <1>b, <1>1, <1>2, <1>3, <1>5, PaidStep DEF TypeOK, Unplayed
  <2>3. s \notin refunded
    BY <1>5 DEF SessionInv, RefundExcludesOutcome
  <2>4. Charged' = Charged \ {s}
    BY <1>a, <1>b, <1>5, <2>1 DEF Charged, TypeOK, Ended
  <2> QED BY <1>a, <1>b, <1>c, <1>5, <2>1, <2>2, <2>3, <2>4
       DEF SessionInv, SpentRowExists, OneChargedRun, RefundExcludesOutcome, OutcomeWasPaid, Ended, TypeOK
<1> QED BY <1>4, <1>5 DEF CloseUpdate, CloseGate

\* A row that leaves ACTIVE for VOIDED may from then on be refunded.
LEMMA VoidKeeps ==
    ASSUME SessionInv, TypeOK', NEW t \in Slots, VoidSession(t)
    PROVE  SessionInv'
<1> DEFINE s == task[t].sid
<1>a. TypeOK
  BY DEF SessionInv
<1>b. task[t].pc = "void" /\ UNCHANGED <<spent, refunded, mem>>
  BY DEF VoidSession, ledgerVars, procVars
<1>c. Harmless("remove")
  BY DEF Harmless, ClosePcs
<1>d. AfterVoid(t) \/ Goto(t, "refund")
  BY DEF VoidSession
<1>1. /\ Harmless(task'[t].pc) \/ (task'[t].pc = "refund" /\ task'[t].sid = s)
      /\ \A u \in Slots \ {t} : task'[u] = task[u]
  BY <1>a, <1>c, <1>d, FinishTask, BecomeTask, GotoTask DEF AfterVoid
<1>3. HasActiveGame' => mem'.sid \in spent'
  BY <1>b DEF HasActiveGame, SessionInv, PaidInFlight
<1>4. CASE UNCHANGED status /\ AfterVoid(t)
  <2>1. Harmless(task'[t].pc)
    BY <1>a, <1>c, <1>4, FinishTask, BecomeTask DEF AfterVoid
  <2> QED BY <1>a, <1>b, <1>1, <1>4, <2>1, HarmlessStep
<1>5. CASE status[s] = "ACTIVE" /\ status' = [status EXCEPT ![s] = "VOIDED"]
  <2>1. PaidTask(t)'
    BY <1>a, <1>1, <1>5 DEF PaidTask, Harmless, TypeOK, Unplayed, ClosePcs
  <2>2. PaidInFlight'
    BY <1>a, <1>b, <1>1, <1>3, <1>5, <2>1, PaidStep DEF TypeOK, Unplayed
  <2>4. Charged' = Charged \ {s}
    BY <1>a, <1>b, <1>5 DEF Charged, TypeOK
  <2> QED BY <1>a, <1>b, <1>5, <2>2, <2>4
       DEF SessionInv, SpentRowExists, OneChargedRun, RefundExcludesOutcome, OutcomeWasPaid, Ended, TypeOK
<1> QED BY <1>4, <1>5 DEF VoidSession, VoidGate

\* The row a refund works on is voided, so what it gives back earned nothing.
LEMMA RefundKeeps ==
    ASSUME SessionInv, TypeOK', NEW t \in Slots, RefundTicket(t)
    PROVE  SessionInv'
<1> DEFINE s == task[t].sid
<1>a. TypeOK
  BY DEF SessionInv
<1>b. task[t].pc = "refund" /\ UNCHANGED <<status, mem>> /\ AfterVoid(t) /\ UNCHANGED spent
  BY DEF RefundTicket, GiveBack, rowVars, procVars, ledgerVars
<1>1. Harmless(task'[t].pc) /\ \A u \in Slots \ {t} : task'[u] = task[u]
  <2>1. Harmless("remove")
    BY DEF Harmless, ClosePcs
  <2> QED BY <1>a, <1>b, <2>1, FinishTask, BecomeTask DEF AfterVoid
<1>2. CASE UNCHANGED refunded
  BY <1>a, <1>b, <1>1, <1>2, HarmlessStep
<1>3. CASE s \in spent \ refunded /\ refunded' = refunded \cup {s}
  <2>1. s \in Sessions /\ status[s] = "VOIDED"
    BY <1>a, <1>b, <1>3 DEF SessionInv, PaidInFlight, PaidTask, SpentRowExists, Unplayed, TypeOK
  <2>2. PaidTask(t)'
    BY <1>1 DEF PaidTask, Harmless
  <2>3. HasActiveGame' => mem'.sid \in spent'
    BY <1>b DEF HasActiveGame, SessionInv, PaidInFlight
  <2>4. PaidInFlight'
    BY <1>b, <1>1, <2>2, <2>3, PaidStep
  <2>5. Charged' \subseteq Charged
    BY <1>b, <1>3 DEF Charged
  <2> QED BY <1>b, <1>3, <2>1, <2>4, <2>5
       DEF SessionInv, SpentRowExists, OneChargedRun, RefundExcludesOutcome, OutcomeWasPaid, Ended
<1> QED BY <1>2, <1>3 DEF RefundTicket, GiveBack, ledgerVars

LEMMA EndKeeps ==
    ASSUME SessionInv, TypeOK', NEW t \in Slots, EndStep(t)
    PROVE  SessionInv'
<1>a. TypeOK
  BY DEF SessionInv
<1>b. {"closeSeason", "closeUpdate", "readPoints", "creditPoints"} = ClosePcs /\ Harmless("remove")
  BY DEF Harmless, ClosePcs
\* Going on from one close step to the next keeps the session it closes.
<1>c. ASSUME task[t].pc \in ClosePcs, task'[t].pc \in ClosePcs, task'[t].sid = task[t].sid,
             \A u \in Slots \ {t} : task'[u] = task[u],
             UNCHANGED <<status, spent, refunded, mem>>
      PROVE  SessionInv'
  <2>1. PaidTask(t)'
    BY <1>b, <1>c DEF PaidTask, SessionInv, PaidInFlight
  <2>2. HasActiveGame' => mem'.sid \in spent'
    BY <1>c DEF HasActiveGame, SessionInv, PaidInFlight
  <2>3. PaidInFlight'
    BY <1>c, <2>1, <2>2, PaidStep
  <2> QED BY <1>c, <2>3, QuietStep
<1>1. CASE CloseReadSeason(t)
  <2>1. /\ task'[t].pc = "closeUpdate" /\ task'[t].sid = task[t].sid
        /\ \A u \in Slots \ {t} : task'[u] = task[u]
    BY <1>1, <1>a DEF CloseReadSeason, TypeOK, Task
  <2> QED BY <1>1, <1>b, <1>c, <2>1 DEF CloseReadSeason, dbVars, procVars
<1>2. CASE ReadPoints(t)
  <2>1. /\ task'[t].pc = "creditPoints" /\ task'[t].sid = task[t].sid
        /\ \A u \in Slots \ {t} : task'[u] = task[u]
    <3>1. CASE Goto(t, "creditPoints")
      BY <1>a, <3>1, GotoTask
    <3>2. CASE task' = [task EXCEPT ![t].pc = "creditPoints", ![t].prev = points]
      BY <1>a, <3>2 DEF TypeOK, Task
    <3> QED BY <1>2, <3>1, <3>2 DEF ReadPoints
  <2> QED BY <1>2, <1>b, <1>c, <2>1 DEF ReadPoints, dbVars, procVars
<1>3. CASE CreditPoints(t)
  <2>1. Become(t, "remove", task[t].sid) /\ UNCHANGED <<status, spent, refunded, mem>>
    BY <1>3 DEF CreditPoints, rowVars, ledgerVars, procVars
  <2> QED BY <1>a, <1>b, <2>1, BecomeTask, HarmlessStep
<1>4. CASE RemoveGameState(t)
  <2>1. Finish(t) /\ UNCHANGED <<status, spent, refunded>> /\ ~HasActiveGame'
    BY <1>4 DEF RemoveGameState, dbVars, NoGame, HasActiveGame
  <2> QED BY <1>a, <2>1, FinishTask, HarmlessStep
<1> QED BY <1>1, <1>2, <1>3, <1>4, CloseKeeps, VoidKeeps, RefundKeeps DEF EndStep

LEMMA ClientKeeps ==
    ASSUME SessionInv, TypeOK', NEW t \in Tasks, Client(t) \/ GraceExpired(t)
    PROVE  SessionInv'
<1>a. t \in Slots /\ TypeOK
  BY DEF Slots, SessionInv
<1>b. Harmless("lookup") /\ Harmless("abortDelete")
  BY DEF Harmless, ClosePcs
<1>1. ASSUME NEW i \in Intents, HandleGameStartV2(t, i)
      PROVE  SessionInv'
  <2>1. task'[t].pc = "lookup" /\ \A u \in Slots \ {t} : task'[u] = task[u]
    BY <1>1, <1>a DEF HandleGameStartV2, TypeOK, Idle
  <2>2. UNCHANGED <<status, spent, refunded, mem>>
    BY <1>1 DEF HandleGameStartV2, dbVars, procVars
  <2> QED BY <1>a, <1>b, <2>1, <2>2, HarmlessStep
<1>2. CASE SpeedHack(t)
  BY <1>2, <1>a, BeginCloseStep DEF SpeedHack, dbVars
<1>3. CASE HandleGameCrash(t)
  BY <1>3, <1>a, BeginCloseStep DEF HandleGameCrash, dbVars, procVars
<1>4. CASE HandleGameCashout(t)
  <2>1. UNCHANGED <<status, spent, refunded>> /\ HasActiveGame /\ mem'.sid = mem.sid
    BY <1>4, <1>a DEF HandleGameCashout, dbVars, TypeOK, Game
  <2>2. BeginClose(t, "COMPLETED", TRUE) \/ UNCHANGED task
    BY <1>4 DEF HandleGameCashout
  <2> QED BY <1>a, <2>1, <2>2, BeginCloseStep, HarmlessStep
<1>5. CASE HandleDisconnect(t)
  <2>1. UNCHANGED <<status, spent, refunded>> /\ HasActiveGame /\ mem'.sid = mem.sid
    BY <1>5, <1>a DEF HandleDisconnect, dbVars, TypeOK, Game
  <2>2. BeginClose(t, "CRASHED", FALSE) \/ UNCHANGED task
    BY <1>5 DEF HandleDisconnect
  <2> QED BY <1>a, <2>1, <2>2, BeginCloseStep, HarmlessStep
<1>6. CASE HandleAbortStart(t)
  <2>1. UNCHANGED <<status, spent, refunded>> /\ ~HasActiveGame' /\ Become(t, "abortDelete", mem.sid)
    BY <1>6 DEF HandleAbortStart, dbVars, NoGame, HasActiveGame
  <2> QED BY <1>a, <1>b, <2>1, BecomeTask, HarmlessStep
<1>7. CASE GraceExpired(t)
  <2>1. UNCHANGED <<status, spent, refunded>> /\ mem'.sid = mem.sid
    BY <1>7, <1>a DEF GraceExpired, dbVars, TypeOK, Game
  <2>2. (HasActiveGame /\ BeginClose(t, "CRASHED", FALSE)) \/ UNCHANGED task
    BY <1>7 DEF GraceExpired
  <2> QED BY <1>a, <2>1, <2>2, BeginCloseStep, HarmlessStep
<1> QED BY <1>1, <1>2, <1>3, <1>4, <1>5, <1>6, <1>7 DEF Client

LEMMA InvStep == SessionInv /\ [Next]_vars => SessionInv'
<1> SUFFICES ASSUME SessionInv, [Next]_vars PROVE SessionInv'
    OBVIOUS
<1>a. TypeOK /\ TypeOK' /\ Sweeper \in Slots
  BY TypeStep DEF SessionInv, Slots
<1>b. Harmless("sweepCheck") /\ Harmless("void")
  BY DEF Harmless, ClosePcs
<1>1. ASSUME NEW t \in Tasks, Client(t) \/ GraceExpired(t) \/ StartStep(t)
      PROVE  SessionInv'
  BY <1>1, <1>a, ClientKeeps, StartKeeps
<1>2. ASSUME NEW t \in Slots, EndStep(t)
      PROVE  SessionInv'
  BY <1>2, <1>a, EndKeeps
<1>3. ASSUME NEW s \in Sessions, SweepFind(s)
      PROVE  SessionInv'
  BY <1>3, <1>a, <1>b, BecomeTask, HarmlessStep DEF SweepFind, dbVars, procVars
<1>4. CASE SweepCheck
  BY <1>4, <1>a, <1>b, BecomeTask, FinishTask, HarmlessStep DEF SweepCheck, dbVars, procVars
<1>5. CASE HandleGameMove \/ CheckCpStayTimeouts \/ HandleReconnect
  <2>1. UNCHANGED <<status, spent, refunded, task>> /\ mem'.sid = mem.sid
    BY <1>5, <1>a DEF HandleGameMove, CheckCpStayTimeouts, HandleReconnect, dbVars, TypeOK, Game
  <2> QED BY <1>a, <2>1, HarmlessStep
<1>6. CASE FreezeSeason \/ UNCHANGED vars
  <2>1. UNCHANGED <<status, spent, refunded, task, mem>>
    BY <1>6 DEF FreezeSeason, dbVars, procVars, vars
  <2> QED BY <1>a, <2>1, HarmlessStep
<1>7. CASE Restart
  <2>1. UNCHANGED <<status, spent, refunded>> /\ ~HasActiveGame'
    BY <1>7 DEF Restart, dbVars, NoGame, HasActiveGame
  <2>2. \A u \in Slots : task'[u] = Idle
    BY <1>7 DEF Restart
  <2>3. PaidInFlight'
    BY <2>1, <2>2 DEF PaidInFlight, PaidTask, Idle, ClosePcs
  <2> QED BY <1>a, <2>1, <2>3, QuietStep
<1> QED BY <1>1, <1>2, <1>3, <1>4, <1>5, <1>6, <1>7 DEF Next

----------------------------------------------------------------------------
LEMMA InitInv == Init => SessionInv
<1> SUFFICES ASSUME Init PROVE SessionInv
    OBVIOUS
<1>1. TypeOK
  BY IdleIsTask, NoGameIsGame, Naturals DEF Init, TypeOK, RowStatus, NoPoints
<1>2. SpentRowExists /\ PaidInFlight
  BY DEF Init, SpentRowExists, PaidInFlight, PaidTask, Idle, NoGame, HasActiveGame, ClosePcs
<1>3. OneChargedRun /\ RefundExcludesOutcome /\ OutcomeWasPaid
  BY DEF Init, OneChargedRun, RefundExcludesOutcome, OutcomeWasPaid, Charged, Ended
<1> QED BY <1>1, <1>2, <1>3 DEF SessionInv

(***************************************************************************)
(* A game in memory and a close under way belong to a paid session, and a  *)
(* refund under way to a voided one; with that, what holds of the rows     *)
(* before a step holds after it.                                           *)
(***************************************************************************)
THEOREM InvariantCorrect == Spec => []SessionInv
BY InitInv, InvStep, PTL DEF Spec

(***************************************************************************)
(* However starts, debits and voids interleave, fail or are retried, the   *)
(* wallet has at most one open run that holds a ticket.                    *)
(***************************************************************************)
THEOREM OneTicketAtATime == Spec => []OneChargedRun
<1>1. SessionInv => OneChargedRun
  BY DEF SessionInv
<1> QED BY <1>1, InvariantCorrect, PTL

(***************************************************************************)
(* No session is both refunded and scored, whichever of the sweeper, a     *)
(* repeated start, a crash and a cash-out reaches its row first.           *)
(***************************************************************************)
THEOREM RefundOrOutcome == Spec => []RefundExcludesOutcome
<1>1. SessionInv => RefundExcludesOutcome
  BY DEF SessionInv
<1> QED BY <1>1, InvariantCorrect, PTL

(***************************************************************************)
(* Every session that reached an outcome holds its own ticket.             *)
(***************************************************************************)
THEOREM OutcomesArePaid == Spec => []OutcomeWasPaid
<1>1. SessionInv => OutcomeWasPaid
  BY DEF SessionInv
<1> QED BY <1>1, InvariantCorrect, PTL

----------------------------------------------------------------------------
\* Both ledger sets grow by one session at a time, so they are finite and their
\* sizes count the debits and the refunds.
CountInv ==
    /\ IsFiniteSet(spent) /\ IsFiniteSet(refunded)
    /\ balance >= 0
    /\ balance = Tickets - Cardinality(spent) + Cardinality(refunded)

LEMMA BalanceSteps ==
    ASSUME Next
    PROVE  \/ UNCHANGED ledgerVars
           \/ \E s : /\ s \notin spent /\ spent' = spent \cup {s} /\ UNCHANGED refunded
                     /\ balance >= 1 /\ balance' = balance - 1
           \/ \E s : /\ s \in spent \ refunded /\ refunded' = refunded \cup {s} /\ UNCHANGED spent
                     /\ balance' = balance + 1
<1> USE DEF ledgerVars
<1>1. ASSUME NEW t \in Slots, EndStep(t) PROVE UNCHANGED ledgerVars \/ GiveBack(task[t].sid)
  BY <1>1 DEF EndStep, CloseReadSeason, CloseUpdate, ReadPoints, CreditPoints, RemoveGameState,
       VoidSession, RefundTicket, dbVars
<1>2. ASSUME NEW t \in Tasks, StartStep(t)
      PROVE  UNCHANGED ledgerVars \/ (DebitAllowed(task[t].sid) /\ TakeTicket(task[t].sid))
  <2>1. ASSUME LookupIntent(t) \/ ResolveExisting(t) \/ CheckStaleActive(t) \/ CheckSeason(t)
        PROVE  UNCHANGED ledgerVars
    BY <2>1 DEF LookupIntent, ResolveExisting, CheckStaleActive, CheckSeason, dbVars
  <2>2. ASSUME InsertSession(t) \/ DeleteSession(t) \/ CreateGameState(t)
        PROVE  UNCHANGED ledgerVars
    BY <2>2 DEF InsertSession, DeleteSession, CreateGameState, dbVars
  <2>3. CASE DebitTicket(t)
    BY <2>3 DEF DebitTicket
  <2> QED BY <1>2, <2>1, <2>2, <2>3 DEF StartStep
<1>3. ASSUME NEW t \in Tasks, Client(t) \/ GraceExpired(t) PROVE UNCHANGED ledgerVars
  BY <1>3 DEF Client, GraceExpired, HandleGameStartV2, SpeedHack, HandleGameCrash, HandleGameCashout,
       HandleDisconnect, HandleAbortStart, dbVars
<1>4. ASSUME \/ \E s \in Sessions : SweepFind(s)
             \/ SweepCheck \/ HandleGameMove \/ CheckCpStayTimeouts \/ HandleReconnect
             \/ FreezeSeason \/ Restart
      PROVE  UNCHANGED ledgerVars
  BY <1>4 DEF SweepFind, SweepCheck, HandleGameMove, CheckCpStayTimeouts, HandleReconnect,
       FreezeSeason, Restart, dbVars
<1>5. ASSUME NEW s, GiveBack(s)
      PROVE  \/ UNCHANGED ledgerVars
             \/ /\ s \in spent \ refunded /\ refunded' = refunded \cup {s} /\ UNCHANGED spent
                /\ balance' = balance + 1
  BY <1>5 DEF GiveBack
<1>6. ASSUME NEW s, DebitAllowed(s) /\ TakeTicket(s)
      PROVE  /\ s \notin spent /\ spent' = spent \cup {s} /\ UNCHANGED refunded
             /\ balance >= 1 /\ balance' = balance - 1
  BY <1>6 DEF DebitAllowed, TakeTicket
<1> QED BY <1>1, <1>2, <1>3, <1>4, <1>5, <1>6 DEF Next

LEMMA CountStep == TypeOK /\ CountInv /\ [Next]_vars => CountInv'
<1> SUFFICES ASSUME TypeOK, CountInv, [Next]_vars PROVE CountInv'
    OBVIOUS
<1>a. balance \in Int /\ Tickets \in Nat /\ Cardinality(spent) \in Nat /\ Cardinality(refunded) \in Nat
  BY FS_CardinalityType, Naturals DEF TypeOK, CountInv
<1>1. CASE UNCHANGED ledgerVars
  BY <1>1 DEF ledgerVars, CountInv
<1>2. ASSUME NEW s, s \notin spent, spent' = spent \cup {s}, UNCHANGED refunded,
             balance >= 1, balance' = balance - 1
      PROVE  CountInv'
  <2>1. IsFiniteSet(spent') /\ Cardinality(spent') = Cardinality(spent) + 1
    BY <1>2, FS_AddElement DEF CountInv
  <2> QED BY <1>2, <1>a, <2>1 DEF CountInv
<1>3. ASSUME NEW s, s \in spent \ refunded, refunded' = refunded \cup {s}, UNCHANGED spent,
             balance' = balance + 1
      PROVE  CountInv'
  <2>1. IsFiniteSet(refunded') /\ Cardinality(refunded') = Cardinality(refunded) + 1
    BY <1>3, FS_AddElement DEF CountInv
  <2> QED BY <1>3, <1>a, <2>1 DEF CountInv
<1>4. CASE UNCHANGED vars
  BY <1>1, <1>4 DEF vars, ledgerVars
<1> QED BY <1>1, <1>2, <1>3, <1>4, BalanceSteps

(***************************************************************************)
(* The balance is what the ledger says it is and never negative, and every *)
(* debit keeps the row the sweeper would find it by.                       *)
(***************************************************************************)
THEOREM LedgerIsBalance == Spec => []LedgerMatchesBalance
<1>1. Init => CountInv
  BY FS_EmptySet, Naturals DEF Init, CountInv
<1>2. SessionInv /\ CountInv => LedgerMatchesBalance
  BY DEF SessionInv, SpentRowExists, CountInv, LedgerMatchesBalance, RowExists, TypeOK
<1> QED BY <1>1, <1>2, TypeCorrect, InvariantCorrect, CountStep, PTL DEF Spec

----------------------------------------------------------------------------
\* What one step does to the rows and the ledger of a session.
LedgerAndResults == <<spent, refunded, awarded>>

Opens(s) ==
    /\ status[s] = "FREE" /\ status' = [status EXCEPT ![s] = "ACTIVE"]
    /\ UNCHANGED LedgerAndResults
Drops(s) ==
    /\ s \notin spent /\ status' = [status EXCEPT ![s] = "FREE"]
    /\ UNCHANGED LedgerAndResults
Voids(s) ==
    /\ status[s] = "ACTIVE" /\ status' = [status EXCEPT ![s] = "VOIDED"]
    /\ UNCHANGED LedgerAndResults
Scores(s) ==
    /\ s \in spent /\ status[s] = "ACTIVE"
    /\ \E o \in Ended : status' = [status EXCEPT ![s] = o]
    /\ \E n \in Nat : awarded' = [awarded EXCEPT ![s] = n]
    /\ UNCHANGED <<spent, refunded>>
Charges(s) ==
    /\ s \notin spent /\ Charged \ {s} = {} /\ spent' = spent \cup {s}
    /\ UNCHANGED <<status, refunded, awarded>>
Refunds(s) ==
    /\ s \in spent \ refunded /\ status[s] = "VOIDED" /\ refunded' = refunded \cup {s}
    /\ UNCHANGED <<status, spent, awarded>>

RowStep == \/ UNCHANGED <<status, spent, refunded, awarded>>
           \/ \E s \in Sessions :
                Opens(s) \/ Drops(s) \/ Voids(s) \/ Scores(s) \/ Charges(s) \/ Refunds(s)

\* Every step of the gateway, the sweeper and the scheduler is one of these.
LEMMA RowSteps == SessionInv /\ [Next]_vars => RowStep
<1> SUFFICES ASSUME SessionInv, [Next]_vars PROVE RowStep
    OBVIOUS
<1>a. TypeOK
  BY DEF SessionInv
<1> USE DEF RowStep
<1>1. ASSUME NEW t \in Tasks, StartStep(t) PROVE RowStep
  <2>1. CASE InsertSession(t)
    <3>1. CASE UNCHANGED rowVars
      BY <2>1, <3>1 DEF InsertSession, rowVars, ledgerVars
    <3>2. ASSUME NEW s \in Sessions, FreshSession(s), NewRow(t, s) PROVE RowStep
      BY <2>1, <3>2 DEF InsertSession, FreshSession, NewRow, ledgerVars, Opens, LedgerAndResults
    <3> QED BY <2>1, <3>1, <3>2 DEF InsertSession
  <2>2. CASE DebitTicket(t)
    <3>1. UNCHANGED <<status, awarded, refunded>>
      BY <2>2 DEF DebitTicket, TakeTicket, rowVars, ledgerVars
    <3>2. CASE UNCHANGED spent
      BY <3>1, <3>2
    <3>3. CASE DebitAllowed(task[t].sid) /\ TakeTicket(task[t].sid)
      BY <3>1, <3>3 DEF DebitAllowed, TakeTicket, RowExists, Charges
    <3> QED BY <2>2, <3>2, <3>3 DEF DebitTicket, ledgerVars
  <2>3. CASE DeleteSession(t)
    BY <2>3 DEF DeleteSession, DropRow, rowVars, ledgerVars, Drops, LedgerAndResults
  <2>4. CASE LookupIntent(t) \/ ResolveExisting(t) \/ CheckStaleActive(t) \/ CheckSeason(t)
               \/ CreateGameState(t)
    BY <2>4 DEF LookupIntent, ResolveExisting, CheckStaleActive, CheckSeason, CreateGameState, dbVars
  <2> QED BY <1>1, <2>1, <2>2, <2>3, <2>4 DEF StartStep
<1>2. ASSUME NEW t \in Slots, EndStep(t) PROVE RowStep
  <2> DEFINE s == task[t].sid
  <2>1. CASE CloseUpdate(t)
    <3>0. UNCHANGED <<spent, refunded>>
      BY <2>1 DEF CloseUpdate, ledgerVars
    <3>1. CASE UNCHANGED <<status, awarded>>
      BY <3>0, <3>1
    <3>2. CASE /\ status[s] = "ACTIVE" /\ status' = [status EXCEPT ![s] = task[t].outcome]
               /\ \E n \in Nat : awarded' = [awarded EXCEPT ![s] = n]
      <4>1. s \in spent /\ s \in Sessions /\ task[t].outcome \in Ended
        BY <1>a, <2>1 DEF CloseUpdate, SessionInv, PaidInFlight, PaidTask, ClosePcs, TypeOK, Task
      <4> QED BY <3>0, <3>2, <4>1 DEF Scores
    <3>3. task[t].cp \in Nat
      BY <1>a, Naturals DEF TypeOK, Task
    <3>4. ComputeMatchPoints(task[t].cp) \in Nat
      BY <3>3, Naturals DEF ComputeMatchPoints
    <3>5. CASE CloseGate(s) /\ ~UNCHANGED <<status, awarded>>
      <4>1. (IF task[t].open THEN ComputeMatchPoints(task[t].cp) ELSE 0) \in Nat
        BY <3>4
      <4> QED BY <2>1, <3>2, <3>5, <4>1 DEF CloseUpdate, CloseGate
    <3> QED BY <2>1, <3>1, <3>5 DEF CloseUpdate
  <2>2. CASE VoidSession(t)
    <3>1. UNCHANGED LedgerAndResults
      BY <2>2 DEF VoidSession, ledgerVars, LedgerAndResults
    <3>2. CASE UNCHANGED status
      BY <3>1, <3>2 DEF LedgerAndResults
    <3>3. CASE status[s] = "ACTIVE" /\ status' = [status EXCEPT ![s] = "VOIDED"]
      <4>1. CASE s \in Sessions
        BY <3>1, <3>3, <4>1 DEF Voids
      <4>2. CASE s \notin Sessions
        BY <1>a, <3>2, <3>3, <4>2 DEF TypeOK
      <4> QED BY <4>1, <4>2
    <3> QED BY <2>2, <3>2, <3>3 DEF VoidSession, VoidGate
  <2>3. CASE RefundTicket(t)
    <3>1. UNCHANGED <<status, awarded, spent>>
      BY <2>3 DEF RefundTicket, GiveBack, rowVars, ledgerVars
    <3>2. CASE UNCHANGED refunded
      BY <3>1, <3>2
    <3>3. CASE s \in spent \ refunded /\ refunded' = refunded \cup {s}
      <4>1. s \in Sessions /\ status[s] = "VOIDED"
        BY <1>a, <2>3, <3>3
           DEF RefundTicket, SessionInv, PaidInFlight, PaidTask, SpentRowExists, Unplayed, TypeOK
      <4> QED BY <3>1, <3>3, <4>1 DEF Refunds
    <3> QED BY <2>3, <3>2, <3>3 DEF RefundTicket, GiveBack, ledgerVars
  <2>4. CASE CloseReadSeason(t) \/ ReadPoints(t) \/ CreditPoints(t) \/ RemoveGameState(t)
    BY <2>4 DEF CloseReadSeason, ReadPoints, CreditPoints, RemoveGameState, dbVars, rowVars, ledgerVars
  <2> QED BY <1>2, <2>1, <2>2, <2>3, <2>4 DEF EndStep
<1>3. ASSUME NEW t \in Tasks, Client(t) \/ GraceExpired(t) PROVE RowStep
  BY <1>3 DEF Client, GraceExpired, HandleGameStartV2, SpeedHack, HandleGameCrash, HandleGameCashout,
       HandleDisconnect, HandleAbortStart, dbVars
<1>4. ASSUME NEW s \in Sessions, SweepFind(s) PROVE RowStep
  BY <1>4 DEF SweepFind, dbVars
<1>5. CASE \/ SweepCheck \/ HandleGameMove \/ CheckCpStayTimeouts \/ HandleReconnect
           \/ FreezeSeason \/ Restart \/ UNCHANGED vars
  BY <1>5 DEF SweepCheck, HandleGameMove, CheckCpStayTimeouts, HandleReconnect, FreezeSeason,
       Restart, dbVars, vars
<1> QED BY <1>1, <1>2, <1>3, <1>4, <1>5 DEF Next

(***************************************************************************)
(* What a run ended with, and the points it was awarded, never change: a   *)
(* second close, a late sweep or a repeated start finds a row that is not  *)
(* ACTIVE, and a paid row is never deleted.                                *)
(***************************************************************************)
THEOREM OutcomesAreFinal == Spec => OutcomeIsFinal
<1>1. ASSUME SessionInv, [Next]_vars
      PROVE  [\A s \in Sessions : status[s] \in Ended =>
                 status'[s] = status[s] /\ awarded'[s] = awarded[s]]_vars
  <2>1. RowStep
    BY <1>1, RowSteps
  <2>2. TypeOK /\ OutcomeWasPaid
    BY <1>1 DEF SessionInv
  <2> SUFFICES ASSUME NEW s \in Sessions, status[s] \in Ended
               PROVE  status'[s] = status[s] /\ awarded'[s] = awarded[s]
      OBVIOUS
  <2>3. s \in spent
    BY <2>2 DEF OutcomeWasPaid
  <2> QED BY <2>1, <2>2, <2>3 DEF RowStep, Opens, Drops, Voids, Scores, Charges, Refunds,
               LedgerAndResults, TypeOK, Ended
<1> QED BY <1>1, InvariantCorrect, PTL DEF Spec, OutcomeIsFinal

----------------------------------------------------------------------------
(* The season total.  A step moves no credit, closes a run, or pays one.   *)

CreditPcs == {"readPoints", "creditPoints"}

\* The handler t, the only one that moves, is not about to credit after the step.
Settles(t) ==
    /\ task'[t].pc \notin CreditPcs /\ task'[t].prev \in {task[t].prev, NoPoints}
    /\ \A u \in Slots \ {t} : task'[u] = task[u]

\* No points are awarded or credited; a handler about to credit was so before.
MovesNoCredit ==
    /\ UNCHANGED <<awarded, points>>
    /\ \A s \in Sessions : status'[s] \in Ended <=> status[s] \in Ended
    /\ \A u \in Slots :
          /\ task'[u].pc \in CreditPcs => /\ task[u].pc \in CreditPcs
                                         /\ task'[u].sid = task[u].sid /\ task'[u].cp = task[u].cp
          /\ task'[u].prev \in {task[u].prev, points, NoPoints}

AwardsRun(t) ==
    /\ task[t].pc = "closeUpdate" /\ task[t].sid \in Sessions
    /\ status[task[t].sid] = "ACTIVE"
    /\ \E o \in Ended : status' = [status EXCEPT ![task[t].sid] = o]
    /\ \E n \in Nat :
          /\ awarded' = [awarded EXCEPT ![task[t].sid] = n]
          /\ \/ Settles(t)
             \/ /\ n = ComputeMatchPoints(task[t].cp) /\ task'[t].pc = "readPoints"
                /\ task'[t].sid = task[t].sid /\ task'[t].cp = task[t].cp
                /\ task'[t].prev = task[t].prev
                /\ \A u \in Slots \ {t} : task'[u] = task[u]
    /\ UNCHANGED points

PaysCredit(t) ==
    LET delta == ComputeMatchPoints(task[t].cp) IN
    /\ task[t].pc \in CreditPcs /\ Settles(t)
    /\ points' \in {points, delta, task[t].prev + delta}
    /\ UNCHANGED <<status, awarded>>

CreditStep == MovesNoCredit \/ \E t \in Slots : AwardsRun(t) \/ PaysCredit(t)

LEMMA FinishSettles ==
    ASSUME TypeOK, NEW t \in Slots, Finish(t) PROVE Settles(t)
BY DEF TypeOK, Finish, Idle, Settles, CreditPcs

LEMMA GotoSettles ==
    ASSUME TypeOK, NEW t \in Slots, NEW pc, pc \notin CreditPcs, Goto(t, pc) PROVE Settles(t)
BY DEF TypeOK, Goto, Task, Settles

LEMMA BecomeSettles ==
    ASSUME TypeOK, NEW t \in Slots, NEW pc, NEW s, pc \notin CreditPcs, Become(t, pc, s) PROVE Settles(t)
BY DEF TypeOK, Become, Idle, Settles

LEMMA BeginCloseSettles ==
    ASSUME TypeOK, NEW t \in Slots, NEW outcome, NEW fromClient, BeginClose(t, outcome, fromClient)
    PROVE  Settles(t)
BY DEF TypeOK, BeginClose, Idle, Settles, CreditPcs

\* A step that leaves the results alone and after which its handler is not about
\* to credit moves no credit.
LEMMA SettledMovesNothing ==
    ASSUME TypeOK, NEW t \in Slots, Settles(t) \/ UNCHANGED task, UNCHANGED <<awarded, points>>,
           \A s \in Sessions : status'[s] \in Ended <=> status[s] \in Ended
    PROVE  MovesNoCredit
<1>1. \A u \in Slots : task'[u].prev \in {task[u].prev, NoPoints}
  BY DEF Settles
<1>2. \A u \in Slots : task'[u].pc \in CreditPcs => task'[u] = task[u]
  BY DEF Settles
<1> QED BY <1>1, <1>2 DEF MovesNoCredit

LEMMA StartMovesNoCredit ==
    ASSUME SessionInv, NEW t \in Tasks, StartStep(t)
    PROVE  MovesNoCredit
<1>a. TypeOK /\ OutcomeWasPaid /\ t \in Slots
  BY DEF SessionInv, Slots
<1>b. "ACTIVE" \notin Ended /\ "FREE" \notin Ended
  BY DEF Ended
<1>1. UNCHANGED <<awarded, points>>
  BY DEF StartStep, LookupIntent, ResolveExisting, CheckStaleActive, CheckSeason, InsertSession, NewRow,
         DebitTicket, DeleteSession, DropRow, CreateGameState, dbVars, rowVars
<1>2. \A s \in Sessions : status'[s] \in Ended <=> status[s] \in Ended
  <2>1. CASE InsertSession(t)
    BY <1>a, <1>b, <2>1 DEF InsertSession, NewRow, FreshSession, rowVars, TypeOK
  <2>2. CASE DeleteSession(t)
    <3>1. CASE UNCHANGED status
      BY <3>1
    <3>2. CASE task[t].sid \in Sessions \ spent /\ status' = [status EXCEPT ![task[t].sid] = "FREE"]
      BY <1>a, <1>b, <3>2 DEF OutcomeWasPaid, TypeOK
    <3> QED BY <2>2, <3>1, <3>2 DEF DeleteSession, DropRow, rowVars
  <2>3. CASE \/ LookupIntent(t) \/ ResolveExisting(t) \/ CheckStaleActive(t) \/ CheckSeason(t)
             \/ DebitTicket(t) \/ CreateGameState(t)
    BY <2>3 DEF LookupIntent, ResolveExisting, CheckStaleActive, CheckSeason, DebitTicket,
                CreateGameState, dbVars, rowVars
  <2> QED BY <2>1, <2>2, <2>3 DEF StartStep
<1>3. Settles(t)
  <2>1. CASE LookupIntent(t)
    <3>1. CASE Finish(t)
      BY <1>a, <3>1, FinishSettles
    <3>2. CASE \E sid, seen : task' = [task EXCEPT ![t].pc = "resolve", ![t].sid = sid, ![t].seen = seen]
      BY <1>a, <3>2 DEF Settles, CreditPcs, TypeOK, Task
    <3>3. CASE task' = [task EXCEPT ![t].pc = "resolve", ![t].seen = "NONE", ![t].sid = NoSession]
      BY <1>a, <3>3 DEF Settles, CreditPcs, TypeOK, Task
    <3> QED BY <2>1, <3>1, <3>2, <3>3 DEF LookupIntent
  <2>2. CASE InsertSession(t)
    <3>1. CASE Finish(t)
      BY <1>a, <3>1, FinishSettles
    <3>2. CASE \E sid : task' = [task EXCEPT ![t].pc = "debit", ![t].sid = sid]
      BY <1>a, <3>2 DEF Settles, CreditPcs, TypeOK, Task
    <3>3. CASE task' = [task EXCEPT ![t].pc = "lookup", ![t].again = TRUE]
      BY <1>a, <3>3 DEF Settles, CreditPcs, TypeOK, Task
    <3> QED BY <2>2, <3>1, <3>2, <3>3 DEF InsertSession
  <2>3. CASE \/ ResolveExisting(t) \/ CheckStaleActive(t) \/ CheckSeason(t) \/ DebitTicket(t)
             \/ DeleteSession(t) \/ CreateGameState(t)
    <3> DEFINE Next5 == {"stale", "season", "insert", "create", "delete"}
    <3>1. \/ Finish(t) \/ Become(t, "void", task[t].sid)
          \/ \E pc \in Next5 : Goto(t, pc)
      BY <2>3 DEF ResolveExisting, CheckStaleActive, CheckSeason, DebitTicket, GiveUpStart,
                  DeleteSession, CreateGameState
    <3>2. "void" \notin CreditPcs /\ \A pc \in Next5 : pc \notin CreditPcs
      BY DEF CreditPcs
    <3>3. CASE Become(t, "void", task[t].sid)
      BY <1>a, <3>2, <3>3, BecomeSettles
    <3>4. ASSUME NEW pc \in Next5, Goto(t, pc)
          PROVE  Settles(t)
      BY <1>a, <3>2, <3>4, GotoSettles
    <3> QED BY <1>a, <3>1, <3>3, <3>4, FinishSettles
  <2> QED BY <2>1, <2>2, <2>3 DEF StartStep
<1> QED BY <1>a, <1>1, <1>2, <1>3, SettledMovesNothing

LEMMA EndCredits ==
    ASSUME SessionInv, NEW t \in Slots, EndStep(t)
    PROVE  CreditStep
<1>a. TypeOK /\ task[t] \in Task
  BY DEF SessionInv, TypeOK
<1>b. "ACTIVE" \notin Ended /\ "VOIDED" \notin Ended
  BY DEF Ended
<1>c. /\ "remove" \notin CreditPcs /\ "refund" \notin CreditPcs /\ "closeUpdate" \notin CreditPcs
      /\ "readPoints" \in CreditPcs /\ "creditPoints" \in CreditPcs
  BY DEF CreditPcs
<1>d. AfterVoid(t) => Settles(t)
  BY <1>a, <1>c, FinishSettles, BecomeSettles DEF AfterVoid
<1> DEFINE s == task[t].sid
<1>1. CASE CloseReadSeason(t)
  <2>1. Settles(t)
    BY <1>1, <1>a, <1>c DEF CloseReadSeason, Settles, TypeOK, Task
  <2>2. UNCHANGED <<awarded, points, status>>
    BY <1>1 DEF CloseReadSeason, dbVars
  <2> QED BY <1>a, <2>1, <2>2, SettledMovesNothing DEF CreditStep
<1>2. CASE CloseUpdate(t)
  <2>0. UNCHANGED points
    BY <1>2 DEF CloseUpdate
  <2>1. CASE UNCHANGED <<status, awarded>> /\ Become(t, "remove", s)
    BY <1>a, <1>c, <2>0, <2>1, BecomeSettles, SettledMovesNothing DEF CreditStep
  <2>2. CASE CloseGate(s) /\ ~ (UNCHANGED <<status, awarded>> /\ Become(t, "remove", s))
    <3> DEFINE pts == IF task[t].open THEN ComputeMatchPoints(task[t].cp) ELSE 0
    <3>1. /\ task[t].pc = "closeUpdate" /\ status[s] = "ACTIVE"
          /\ status' = [status EXCEPT ![s] = task[t].outcome]
          /\ awarded' = [awarded EXCEPT ![s] = pts]
          /\ (task[t].open /\ Goto(t, "readPoints")) \/ Become(t, "remove", s)
      BY <1>2, <2>2 DEF CloseUpdate, CloseGate
    <3>2. s \in Sessions /\ task[t].outcome \in Ended
      BY <1>a, <3>1 DEF SessionInv, PaidInFlight, PaidTask, ClosePcs, TypeOK, Task
    <3>3. pts \in Nat
      <4>1. task[t].cp \in Nat
        BY <1>a, Naturals DEF Task
      <4> QED BY <4>1, Naturals DEF ComputeMatchPoints
    <3>4. CASE Become(t, "remove", s)
      <4>1. Settles(t)
        BY <1>a, <1>c, <3>4, BecomeSettles
      <4> HIDE DEF pts
      <4>2. AwardsRun(t)
        BY <2>0, <3>1, <3>2, <3>3, <4>1 DEF AwardsRun
      <4> QED BY <4>2 DEF CreditStep
    <3>5. CASE task[t].open /\ Goto(t, "readPoints")
      <4>1. /\ task'[t].pc = "readPoints" /\ task'[t].sid = task[t].sid /\ task'[t].cp = task[t].cp
            /\ task'[t].prev = task[t].prev /\ \A u \in Slots \ {t} : task'[u] = task[u]
        BY <1>a, <3>5 DEF Goto, TypeOK, Task
      <4>2. pts = ComputeMatchPoints(task[t].cp)
        BY <3>5
      <4> HIDE DEF pts
      <4>3. AwardsRun(t)
        BY <2>0, <3>1, <3>2, <3>3, <4>1, <4>2 DEF AwardsRun
      <4> QED BY <4>3 DEF CreditStep
    <3> QED BY <3>1, <3>4, <3>5
  <2> QED BY <1>2, <2>1, <2>2 DEF CloseUpdate
<1>3. CASE ReadPoints(t)
  <2>1. UNCHANGED <<awarded, points, status>> /\ task[t].pc \in CreditPcs
    BY <1>3, <1>c DEF ReadPoints, dbVars
  <2>2. /\ task'[t].sid = task[t].sid /\ task'[t].cp = task[t].cp /\ task'[t].prev \in {task[t].prev, points}
        /\ \A u \in Slots \ {t} : task'[u] = task[u]
    <3>1. CASE Goto(t, "creditPoints")
      BY <1>a, <3>1 DEF Goto, TypeOK, Task
    <3>2. CASE task' = [task EXCEPT ![t].pc = "creditPoints", ![t].prev = points]
      BY <1>a, <3>2 DEF TypeOK, Task
    <3> QED BY <1>3, <3>1, <3>2 DEF ReadPoints
  <2>3. MovesNoCredit
    BY <2>1, <2>2 DEF MovesNoCredit
  <2> QED BY <2>3 DEF CreditStep
<1>4. CASE CreditPoints(t)
  <2>1. Settles(t)
    BY <1>4, <1>a, <1>c, BecomeSettles DEF CreditPoints
  <2>2. UNCHANGED <<status, awarded>> /\ task[t].pc \in CreditPcs
    BY <1>4, <1>c DEF CreditPoints, rowVars
  <2> DEFINE delta == ComputeMatchPoints(task[t].cp)
  <2>3. points' \in {points, delta, task[t].prev + delta}
    BY <1>4 DEF CreditPoints
  <2>4. PaysCredit(t)
    BY <2>1, <2>2, <2>3 DEF PaysCredit
  <2> QED BY <2>4 DEF CreditStep
<1>5. CASE RemoveGameState(t)
  <2>1. UNCHANGED <<awarded, points, status>> /\ Settles(t)
    BY <1>5, <1>a, FinishSettles DEF RemoveGameState, dbVars
  <2> QED BY <1>a, <2>1, SettledMovesNothing DEF CreditStep
<1>6. CASE VoidSession(t)
  <2>1. UNCHANGED <<awarded, points>> /\ Settles(t)
    BY <1>6, <1>a, <1>c, <1>d, GotoSettles DEF VoidSession
  <2>2. UNCHANGED status \/ (status[s] = "ACTIVE" /\ status' = [status EXCEPT ![s] = "VOIDED"])
    BY <1>6 DEF VoidSession, VoidGate
  <2>3. \A r \in Sessions : status'[r] \in Ended <=> status[r] \in Ended
    BY <1>a, <1>b, <2>2 DEF TypeOK
  <2> QED BY <1>a, <2>1, <2>3, SettledMovesNothing DEF CreditStep
<1>7. CASE RefundTicket(t)
  <2>1. UNCHANGED <<awarded, points, status>> /\ Settles(t)
    BY <1>7, <1>d DEF RefundTicket, rowVars
  <2> QED BY <1>a, <2>1, SettledMovesNothing DEF CreditStep
<1> QED BY <1>1, <1>2, <1>3, <1>4, <1>5, <1>6, <1>7 DEF EndStep

LEMMA CreditSteps == SessionInv /\ [Next]_vars => CreditStep
<1> SUFFICES ASSUME SessionInv, [Next]_vars PROVE CreditStep
    OBVIOUS
<1>a. TypeOK /\ Sweeper \in Slots
  BY DEF SessionInv, Slots
<1>1. ASSUME NEW t \in Tasks, StartStep(t) PROVE CreditStep
  BY <1>1, StartMovesNoCredit DEF CreditStep
<1>2. ASSUME NEW t \in Slots, EndStep(t) PROVE CreditStep
  BY <1>2, EndCredits
<1>3. ASSUME NEW t \in Tasks, Client(t) \/ GraceExpired(t) PROVE CreditStep
  <2>1. t \in Slots /\ UNCHANGED <<awarded, points, status>>
    BY <1>3 DEF Slots, Client, GraceExpired, HandleGameStartV2, SpeedHack, HandleGameCrash,
         HandleGameCashout, HandleDisconnect, HandleAbortStart, dbVars
  <2>2. \/ UNCHANGED task \/ \E outcome, fromClient : BeginClose(t, outcome, fromClient)
        \/ Become(t, "abortDelete", mem.sid)
        \/ \E i : task' = [task EXCEPT ![t] = [Idle EXCEPT !.pc = "lookup", !.intent = i]]
    BY <1>3 DEF Client, GraceExpired, HandleGameStartV2, SpeedHack, HandleGameCrash,
         HandleGameCashout, HandleDisconnect, HandleAbortStart
  <2>3. Settles(t) \/ UNCHANGED task
    <3>1. ASSUME NEW i, task' = [task EXCEPT ![t] = [Idle EXCEPT !.pc = "lookup", !.intent = i]]
          PROVE  Settles(t)
      BY <1>a, <2>1, <3>1 DEF Settles, CreditPcs, TypeOK, Idle
    <3>2. "abortDelete" \notin CreditPcs
      BY DEF CreditPcs
    <3> QED BY <1>a, <2>1, <2>2, <3>1, <3>2, BeginCloseSettles, BecomeSettles
  <2> QED BY <1>a, <2>1, <2>3, SettledMovesNothing DEF CreditStep
<1>4. CASE SweepCheck \/ \E s \in Sessions : SweepFind(s)
  <2>1. UNCHANGED <<awarded, points, status>>
    BY <1>4 DEF SweepCheck, SweepFind, dbVars
  <2>2. \/ Finish(Sweeper) \/ Become(Sweeper, "void", task[Sweeper].sid)
        \/ \E s : Become(Sweeper, "sweepCheck", s)
    BY <1>4 DEF SweepCheck, SweepFind
  <2>3. "void" \notin CreditPcs /\ "sweepCheck" \notin CreditPcs
    BY DEF CreditPcs
  <2>4. Settles(Sweeper)
    BY <1>a, <2>2, <2>3, FinishSettles, BecomeSettles
  <2> QED BY <1>a, <2>1, <2>4, SettledMovesNothing DEF CreditStep
<1>5. CASE Restart
  <2>1. UNCHANGED <<awarded, points, status>> /\ \A u \in Slots : task'[u] = Idle
    BY <1>5 DEF Restart, dbVars
  <2>2. Idle.pc \notin CreditPcs /\ Idle.prev = NoPoints
    BY DEF Idle, CreditPcs
  <2>3. MovesNoCredit
    BY <2>1, <2>2 DEF MovesNoCredit
  <2> QED BY <2>3 DEF CreditStep
<1>6. CASE HandleGameMove \/ CheckCpStayTimeouts \/ HandleReconnect \/ FreezeSeason \/ UNCHANGED vars
  <2>1. UNCHANGED <<awarded, points, status, task>>
    BY <1>6 DEF HandleGameMove, CheckCpStayTimeouts, HandleReconnect, FreezeSeason, dbVars, vars
  <2> QED BY <1>a, <2>1, SettledMovesNothing DEF CreditStep
<1> QED BY <1>1, <1>2, <1>3, <1>4, <1>5, <1>6 DEF Next

LEMMA CreditedIsASum == /\ Credited = Sum(awarded, Sessions \ UnderCredit)
                        /\ MapThenSumSet(LAMBDA s : awarded[s], Sessions) = Sum(awarded, Sessions)
BY DEF Credited, Sum

LEMMA CreditedIsASumNext == Credited' = Sum(awarded', Sessions \ UnderCredit')
<1>1. (Credited = Sum(awarded, Sessions \ UnderCredit))'
  BY CreditedIsASum, PTL
<1> QED BY <1>1

\* Points that other handlers still owe do not shrink when a handler settles.
LEMMA NoCreditKeeps ==
    ASSUME TypeOK, CreditInv, MovesNoCredit
    PROVE  CreditInv'
<1>1. Crediting' \subseteq Crediting /\ UnderCredit' \subseteq UnderCredit
  BY DEF Crediting, UnderCredit, MovesNoCredit, CreditPcs
<1>2. Credited <= Credited' /\ Credited \in Nat /\ Credited' \in Nat
  <2>1. Credited = Sum(awarded, Sessions \ UnderCredit) /\ Credited' = Sum(awarded, Sessions \ UnderCredit')
    BY CreditedIsASum, CreditedIsASumNext DEF MovesNoCredit
  <2>2. /\ IsFiniteSet(Sessions \ UnderCredit') /\ IsFiniteSet(Sessions \ UnderCredit)
        /\ Sessions \ UnderCredit \in SUBSET (Sessions \ UnderCredit')
    BY <1>1, SessionsAreFinite, FS_Subset
  <2>3. \A s \in Sessions : awarded[s] \in Nat
    BY DEF TypeOK
  <2> QED BY <2>1, <2>2, <2>3, SumGrows, SumIsNatural
<1>3. \A s \in Sessions : status'[s] \notin Ended => awarded'[s] = 0
  BY DEF CreditInv, MovesNoCredit
<1>4. \A t \in Crediting' : task'[t].sid = task[t].sid /\ task'[t].cp = task[t].cp
  BY DEF Crediting, MovesNoCredit, CreditPcs
<1>5. ASSUME NEW t \in Crediting'
      PROVE  /\ task'[t].sid \in Sessions /\ status'[task'[t].sid] \in Ended
             /\ awarded'[task'[t].sid] = ComputeMatchPoints(task'[t].cp)
             /\ \A u \in Crediting' : task'[u].sid = task'[t].sid => u = t
  BY <1>1, <1>4 DEF CreditInv, MovesNoCredit
<1>6. points' <= Credited'
  BY <1>2 DEF CreditInv, MovesNoCredit, TypeOK
<1>7. ASSUME NEW t \in Slots PROVE task'[t].prev <= Credited'
  <2>1. task[t].prev \in Int /\ task[t].prev <= Credited /\ points <= Credited /\ points \in Int
    BY DEF CreditInv, TypeOK, Task
  <2>2. task'[t].prev \in {task[t].prev, points, NoPoints}
    BY DEF MovesNoCredit
  <2> QED BY <1>2, <2>1, <2>2 DEF NoPoints
<1> QED BY <1>3, <1>5, <1>6, <1>7 DEF CreditInv

\* A run that is closed had no award; its award counts at once or is under way.
LEMMA AwardKeeps ==
    ASSUME TypeOK, TypeOK', CreditInv, NEW t \in Slots, AwardsRun(t)
    PROVE  CreditInv'
<1> DEFINE s == task[t].sid
<1>1. PICK n \in Nat : /\ awarded' = [awarded EXCEPT ![s] = n]
                       /\ \/ Settles(t)
                          \/ /\ n = ComputeMatchPoints(task[t].cp) /\ task'[t].pc = "readPoints"
                             /\ task'[t].sid = task[t].sid /\ task'[t].cp = task[t].cp
                             /\ task'[t].prev = task[t].prev
                             /\ \A u \in Slots \ {t} : task'[u] = task[u]
  BY DEF AwardsRun
<1>2. PICK o \in Ended : status' = [status EXCEPT ![s] = o]
  BY DEF AwardsRun
<1>3. s \in Sessions /\ status[s] = "ACTIVE" /\ task[t].pc = "closeUpdate" /\ points' = points
  BY DEF AwardsRun
<1>4. awarded[s] = 0 /\ t \notin Crediting /\ s \notin UnderCredit
  <2>1. status[s] \notin Ended
    BY <1>3 DEF Ended
  <2> QED BY <1>3, <2>1 DEF CreditInv, Crediting, UnderCredit
<1>5. \A r \in Sessions \ {s} : awarded'[r] = awarded[r] /\ status'[r] = status[r]
  BY <1>1, <1>2 DEF TypeOK
<1>6. awarded'[s] = n /\ status'[s] = o
  BY <1>1, <1>2, <1>3 DEF TypeOK
<1>7. /\ \A u \in Slots \ {t} : task'[u] = task[u]
      /\ task'[t].prev \in {task[t].prev, NoPoints}
      /\ \/ t \notin Crediting'
         \/ t \in Crediting' /\ n = ComputeMatchPoints(task'[t].cp) /\ task'[t].sid = s
  BY <1>1 DEF Settles, Crediting, CreditPcs
<1>8. Crediting' \ {t} = Crediting
  BY <1>4, <1>7 DEF Crediting
<1>9. Credited <= Credited' /\ Credited \in Nat /\ Credited' \in Nat
  <2> DEFINE A == Sessions \ UnderCredit
  <2>1. Credited = Sum(awarded, A) /\ Credited' = Sum(awarded', Sessions \ UnderCredit')
    BY CreditedIsASum, CreditedIsASumNext
  <2>2. IsFiniteSet(A) /\ s \in A /\ IsFiniteSet(A \ {s})
    BY <1>3, <1>4, SessionsAreFinite, FS_Subset
  <2>3. \A r \in A : awarded[r] \in Nat /\ awarded'[r] \in Nat
    BY DEF TypeOK
  <2>4. \A r \in A \ {s} : awarded[r] = awarded'[r]
    BY <1>5
  <2>5. /\ Sum(awarded, A) = awarded[s] + Sum(awarded, A \ {s})
        /\ Sum(awarded', A) = awarded'[s] + Sum(awarded, A \ {s})
        /\ Sum(awarded, A \ {s}) \in Nat
    <3> HIDE DEF A, s
    <3> QED BY <2>2, <2>3, <2>4, SumOfChange
  <2>6. CASE t \notin Crediting'
    <3>1. Crediting' = Crediting
      BY <1>8, <2>6
    <3>2. UnderCredit' = UnderCredit
      BY <1>7, <2>6, <3>1 DEF UnderCredit, Crediting
    <3> QED BY <1>4, <1>6, <2>1, <2>5, <3>2
  <2>7. CASE t \in Crediting'
    <3>1. Crediting' = Crediting \cup {t}
      BY <1>8, <2>7
    <3>2. UnderCredit' = UnderCredit \cup {s}
      BY <1>4, <1>7, <2>7, <3>1 DEF UnderCredit, Crediting
    <3>3. Sessions \ UnderCredit' = A \ {s}
      BY <3>2
    <3>4. Sum(awarded, A \ {s}) = Sum(awarded', A \ {s})
      <4> HIDE DEF A, s
      <4> QED BY <2>2, <2>4, SumAgrees
    <3>5. Credited = awarded[s] + Sum(awarded, A \ {s}) /\ Credited' = Sum(awarded, A \ {s})
      BY <2>1, <2>5, <3>3, <3>4
    <3> HIDE DEF A, s
    <3> QED BY <1>4, <2>5, <3>5
  <2> QED BY <2>6, <2>7
<1>10. \A r \in Sessions : status'[r] \notin Ended => awarded'[r] = 0
  BY <1>2, <1>5, <1>6 DEF CreditInv
<1>11. ASSUME NEW u \in Crediting'
       PROVE  /\ task'[u].sid \in Sessions /\ status'[task'[u].sid] \in Ended
              /\ awarded'[task'[u].sid] = ComputeMatchPoints(task'[u].cp)
              /\ \A v \in Crediting' : task'[v].sid = task'[u].sid => v = u
  <2>1. \A v \in Crediting : /\ task'[v] = task[v] /\ task[v].sid \in Sessions \ {s}
                             /\ status'[task[v].sid] \in Ended
                             /\ awarded'[task[v].sid] = ComputeMatchPoints(task[v].cp)
    <3>1. \A v \in Crediting : v \in Slots \ {t} /\ task[v].sid \in UnderCredit
      BY <1>4 DEF Crediting, UnderCredit
    <3> QED BY <1>4, <1>5, <1>7, <3>1 DEF CreditInv
  <2>2. CASE u = t
    BY <1>2, <1>3, <1>6, <1>7, <1>8, <2>1, <2>2
  <2>3. CASE u # t
    <3>1. u \in Crediting
      BY <1>8, <2>3
    <3>2. ASSUME NEW v \in Crediting', task'[v].sid = task'[u].sid PROVE v = u
      <4>1. CASE v = t
        BY <1>7, <2>1, <3>1, <3>2, <4>1
      <4>2. CASE v # t
        <5>1. v \in Crediting
          BY <1>8, <4>2
        <5> QED BY <2>1, <3>1, <3>2, <5>1 DEF CreditInv
      <4> QED BY <4>1, <4>2
    <3> QED BY <2>1, <3>1, <3>2
  <2> QED BY <2>2, <2>3
<1>12. points' <= Credited'
  BY <1>3, <1>9 DEF CreditInv, TypeOK
<1>13. ASSUME NEW u \in Slots PROVE task'[u].prev <= Credited'
  <2>1. task[u].prev \in Int /\ task[u].prev <= Credited
    BY DEF CreditInv, TypeOK, Task
  <2>2. task'[u].prev \in {task[u].prev, NoPoints}
    BY <1>7
  <2> QED BY <1>9, <2>1, <2>2 DEF NoPoints
<1> QED BY <1>10, <1>11, <1>12, <1>13 DEF CreditInv

\* A credit adds the award of its own run to a total that was read without it.
LEMMA PaymentKeeps ==
    ASSUME TypeOK, TypeOK', CreditInv, NEW t \in Slots, PaysCredit(t)
    PROVE  CreditInv'
<1> DEFINE s == task[t].sid
           delta == ComputeMatchPoints(task[t].cp)
<1>1. t \in Crediting /\ Settles(t) /\ UNCHANGED <<status, awarded>>
  BY DEF PaysCredit, Crediting, CreditPcs
<1>2. s \in Sessions /\ awarded[s] = delta /\ delta \in Nat
  BY <1>1 DEF CreditInv, TypeOK
<1>3. Crediting' = Crediting \ {t} /\ \A u \in Crediting' : task'[u] = task[u]
  BY <1>1 DEF Crediting, Settles, CreditPcs
<1>4. UnderCredit' = UnderCredit \ {s} /\ s \in UnderCredit
  <2>1. \A u \in Crediting \ {t} : task[u].sid # s
    BY <1>1 DEF CreditInv
  <2> QED BY <1>1, <1>3, <2>1 DEF UnderCredit
<1>5. Credited' = Credited + delta /\ Credited \in Nat
  <2> DEFINE A == Sessions \ UnderCredit
  <2>1. Credited = Sum(awarded, A) /\ Credited' = Sum(awarded, Sessions \ UnderCredit')
    BY <1>1, CreditedIsASum, CreditedIsASumNext
  <2>2. IsFiniteSet(A) /\ s \notin A /\ Sessions \ UnderCredit' = A \cup {s}
    BY <1>2, <1>4, SessionsAreFinite, FS_Subset
  <2>3. \A r \in A \cup {s} : awarded[r] \in Nat
    BY <1>2 DEF TypeOK
  <2>4. Sum(awarded, A \cup {s}) = Sum(awarded, A) + awarded[s] /\ Sum(awarded, A) \in Nat
    <3> HIDE DEF A, s
    <3> QED BY <2>2, <2>3, SumPutsIn, SumIsNatural
  <2> QED BY <1>2, <2>1, <2>2, <2>4
<1>6. points' <= Credited'
  <2>1. points \in Int /\ points <= Credited /\ task[t].prev \in Int /\ task[t].prev <= Credited
    BY DEF CreditInv, TypeOK, Task
  <2>2. points' \in {points, delta, task[t].prev + delta}
    BY DEF PaysCredit
  <2> HIDE DEF delta
  <2> QED BY <1>2, <1>5, <2>1, <2>2
<1>7. ASSUME NEW u \in Slots PROVE task'[u].prev <= Credited'
  <2>1. task[u].prev \in Int /\ task[u].prev <= Credited
    BY DEF CreditInv, TypeOK, Task
  <2>2. task'[u].prev \in {task[u].prev, NoPoints}
    BY <1>1 DEF Settles
  <2> HIDE DEF delta
  <2> QED BY <1>2, <1>5, <2>1, <2>2 DEF NoPoints
<1>8. \A r \in Sessions : status'[r] \notin Ended => awarded'[r] = 0
  BY <1>1 DEF CreditInv
<1>9. \A u \in Crediting' :
         /\ task'[u].sid \in Sessions /\ status'[task'[u].sid] \in Ended
         /\ awarded'[task'[u].sid] = ComputeMatchPoints(task'[u].cp)
         /\ \A v \in Crediting' : task'[v].sid = task'[u].sid => v = u
  BY <1>1, <1>3 DEF CreditInv
<1> QED BY <1>6, <1>7, <1>8, <1>9 DEF CreditInv

(***************************************************************************)
(* However often crash, end_run, timeouts and sweeps close a run, and      *)
(* however the read and the write of two credits interleave, the season    *)
(* total is at most what the runs were awarded.                            *)
(***************************************************************************)
THEOREM PointsAreNotDoubled == Spec => []NoDoublePoints
<1>1. Init => CreditInv
  <2> SUFFICES ASSUME Init PROVE CreditInv
      OBVIOUS
  <2>1. Crediting = {} /\ \A t \in Slots : task[t].prev = NoPoints
    BY DEF Init, Crediting, Idle
  <2>2. Credited \in Nat
    <3>1. IsFiniteSet(Sessions \ UnderCredit) /\ \A s \in Sessions \ UnderCredit : awarded[s] \in Nat
      BY SessionsAreFinite, FS_Subset DEF Init
    <3> QED BY <3>1, SumIsNatural, CreditedIsASum
  <2> QED BY <2>1, <2>2 DEF Init, CreditInv, NoPoints
<1>2. SessionInv /\ CreditInv /\ [Next]_vars => CreditInv'
  <2> SUFFICES ASSUME SessionInv, CreditInv, [Next]_vars PROVE CreditInv'
      OBVIOUS
  <2>1. TypeOK /\ TypeOK' /\ CreditStep
    BY TypeStep, CreditSteps DEF SessionInv
  <2> QED BY <2>1, NoCreditKeeps, AwardKeeps, PaymentKeeps DEF CreditStep
<1>3. SessionInv /\ CreditInv => NoDoublePoints
  <2> SUFFICES ASSUME SessionInv, CreditInv PROVE NoDoublePoints
      OBVIOUS
  <2>1. TypeOK /\ points <= Credited /\ points \in Int
    BY DEF SessionInv, CreditInv, TypeOK
  <2>2. \A s \in Sessions : awarded[s] \in Nat
    BY <2>1 DEF TypeOK
  <2>3. Credited <= Sum(awarded, Sessions) /\ Credited \in Nat /\ Sum(awarded, Sessions) \in Nat
    <3>1. IsFiniteSet(Sessions \ UnderCredit) /\ Sessions \ UnderCredit \in SUBSET Sessions
      BY SessionsAreFinite, FS_Subset
    <3> QED BY <2>2, <3>1, SessionsAreFinite, CreditedIsASum, SumGrows, SumIsNatural
  <2> QED BY <2>1, <2>3, CreditedIsASum DEF NoDoublePoints
<1> QED BY <1>1, <1>2, <1>3, InvariantCorrect, PTL DEF Spec

----------------------------------------------------------------------------
\* A step on the rows is a step of TicketPlay, or none.
LEMMA RowStepImplements ==
    ASSUME SessionInv, RowStep
    PROVE  [Promise!Next]_(Promise!vars)
<1> DEFINE oc == [s \in Sessions |-> OutcomeOf(s)]
<1>a. TypeOK /\ OutcomeWasPaid /\ SpentRowExists
  BY DEF SessionInv
<1>s. ASSUME UNCHANGED <<spent, refunded>>, \A s \in Sessions : OutcomeOf(s)' = OutcomeOf(s)
      PROVE  UNCHANGED Promise!vars
  BY <1>s DEF Promise!vars
<1>1. CASE UNCHANGED <<status, spent, refunded, awarded>>
  BY <1>1, <1>s DEF OutcomeOf
<1>2. ASSUME NEW s \in Sessions, Opens(s)
      PROVE  UNCHANGED Promise!vars
  BY <1>a, <1>2, <1>s DEF Opens, LedgerAndResults, OutcomeOf, TypeOK, Ended
<1>3. ASSUME NEW s \in Sessions, Drops(s)
      PROVE  Promise!Forget(s) \/ UNCHANGED Promise!vars
  <2>1. CASE status[s] = "VOIDED"
    <3>1. oc' = [oc EXCEPT ![s] = "open"] /\ oc[s] = "void"
      BY <1>a, <1>3, <2>1 DEF Drops, OutcomeOf, TypeOK, Ended
    <3> QED BY <1>3, <3>1 DEF Drops, LedgerAndResults, Promise!Forget
  <2>2. CASE status[s] # "VOIDED"
    <3>1. status[s] \notin Ended
      BY <1>a, <1>3 DEF Drops, OutcomeWasPaid
    <3> QED BY <1>a, <1>3, <1>s, <2>2, <3>1 DEF Drops, LedgerAndResults, OutcomeOf, TypeOK, Ended
  <2> QED BY <2>1, <2>2
<1>4. ASSUME NEW s \in Sessions, Voids(s)
      PROVE  Promise!Void(s)
  <2>1. oc' = [oc EXCEPT ![s] = "void"] /\ oc[s] = "open"
    BY <1>a, <1>4 DEF Voids, OutcomeOf, TypeOK, Ended
  <2> QED BY <1>4, <2>1 DEF Voids, LedgerAndResults, Promise!Void
<1>5. ASSUME NEW s \in Sessions, Scores(s)
      PROVE  Promise!Score(s)
  <2>1. oc' = [oc EXCEPT ![s] = "scored"] /\ oc[s] = "open"
    BY <1>a, <1>5 DEF Scores, OutcomeOf, TypeOK, Ended
  <2>2. s \in spent \ refunded
    BY <1>5 DEF Scores, SessionInv, RefundExcludesOutcome
  <2> QED BY <1>5, <2>1, <2>2 DEF Scores, Promise!Score
<1>6. ASSUME NEW s \in Sessions, Charges(s)
      PROVE  Promise!Charge(s)
  <2>1. oc' = oc
    BY <1>6 DEF Charges, OutcomeOf
  <2>2. \A r \in (spent \ refunded) \ {s} : oc[r] # "open"
    BY <1>a, <1>6 DEF Charges, Charged, SpentRowExists, OutcomeOf, TypeOK, RowStatus
  <2> QED BY <1>6, <2>1, <2>2 DEF Charges, Promise!Charge
<1>7. ASSUME NEW s \in Sessions, Refunds(s)
      PROVE  Promise!Refund(s)
  <2>1. oc' = oc /\ oc[s] = "void"
    BY <1>7 DEF Refunds, OutcomeOf, Ended
  <2> QED BY <1>7, <2>1 DEF Refunds, Promise!Refund
<1> QED BY <1>1, <1>2, <1>3, <1>4, <1>5, <1>6, <1>7 DEF RowStep, Promise!Next, Promise!vars

(***************************************************************************)
(* The handlers implement what one-ticket play promises: a session id that *)
(* took a ticket is scored or refunded at most once and never both, and a  *)
(* ticket is taken only while no other run of the wallet holds one.        *)
(***************************************************************************)
THEOREM Implementation == Spec => KeepsPromise
<1>1. Init => Promise!Init
  BY DEF Init, Promise!Init, OutcomeOf, Ended
<1>2. SessionInv /\ [Next]_vars => [Promise!Next]_(Promise!vars)
  BY RowSteps, RowStepImplements
<1> QED BY <1>1, <1>2, InvariantCorrect, PTL DEF Spec, KeepsPromise, Promise!Spec

============================================================================
