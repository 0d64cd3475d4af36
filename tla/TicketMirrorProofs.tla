------------------------ MODULE TicketMirrorProofs -------------------------
(***************************************************************************)
(* The mirror for every set of logs, of overlapping backfills, of faults    *)
(* and of block heights.                                                    *)
(***************************************************************************)
EXTENDS TicketMirror, FiniteSetTheorems, TLAPS

\* What a handler's program counter says of the log it handles.
JobsFit ==
    \A w \in Sources :
        /\ job[w].pc # "idle" => job[w].log \in Mined
        /\ job[w].pc \notin {"idle", "claim"} => job[w].log \in seen
        /\ job[w].pc \in {"readRow", "writeRow"} => job[w].log \notin Spent
        /\ job[w].pc \in {"readStreak", "writeStreak"} => job[w].log \in Claims

TargetsFit ==
    \A b \in Backfills : backfill[b].target <= head /\ backfill[b].todo \subseteq Mined

TypeInv == TypeOK /\ JobsFit /\ TargetsFit

LEMMA IdleIsJob == Idle \in Job /\ NewRow \in Row /\ NewStreak \in Streak /\ Asleep \in Backfill
BY DEF Idle, Job, Row, Streak, NewRow, NewStreak, NoDay, Asleep, Backfill

LEMMA InitType == Init => TypeInv
BY IdleIsJob, Bounds
   DEF Init, TypeInv, TypeOK, JobsFit, TargetsFit, Idle, Asleep, NoBlock

LEMMA NewBlockType == TypeInv /\ NewBlock => TypeInv'
<1> SUFFICES ASSUME TypeInv, NewBlock PROVE TypeInv'
  OBVIOUS
<1> USE DEF TypeInv, TypeOK
<1>1. minedIn' \in [Logs -> 0..head'] /\ head' \in Nat /\ head' = head + 1
  BY DEF NewBlock
<1>2. Mined \subseteq Mined'
  BY <1>1 DEF NewBlock, Mined
<1>3. TypeOK'
  BY <1>1 DEF NewBlock, tables, bounds
<1>4. JobsFit'
  BY <1>2 DEF JobsFit, NewBlock, tables
<1>5. TargetsFit'
  BY <1>1, <1>2 DEF TargetsFit, NewBlock, Backfill
<1> QED BY <1>3, <1>4, <1>5

LEMMA GamesType ==
    ASSUME TypeInv, DebitTicketForSession \/ RefundTicketForSession
    PROVE  TypeInv'
<1> USE DEF TypeInv, TypeOK
<1>1. row' \in Row /\ ledger' \in [spent: Nat, refunded: Nat]
  <2>1. \/ /\ row' = [row EXCEPT !.balance = @ - 1, !.debited = @ + 1]
           /\ ledger' = [ledger EXCEPT !.spent = @ + 1]
        \/ /\ row' = [row EXCEPT !.balance = @ + 1, !.debited = @ - 1]
           /\ ledger' = [ledger EXCEPT !.refunded = @ + 1]
    BY DEF DebitTicketForSession, RefundTicketForSession
  <2>2. row \in Row /\ ledger \in [spent: Nat, refunded: Nat]
    OBVIOUS
  <2>3. row' \in Row
    <3>1. row.credited \in Nat /\ row.debited \in Int /\ row.balance \in Int
      BY <2>2 DEF Row
    <3>2. /\ row.debited + 1 \in Int /\ row.debited - 1 \in Int
          /\ row.balance + 1 \in Int /\ row.balance - 1 \in Int
      BY <3>1
    <3>3. \A d, e \in Int : [row EXCEPT !.balance = d, !.debited = e] \in Row
      BY <2>2 DEF Row
    <3>4. \/ row' = [row EXCEPT !.balance = row.balance - 1, !.debited = row.debited + 1]
          \/ row' = [row EXCEPT !.balance = row.balance + 1, !.debited = row.debited - 1]
      BY <2>1
    <3> QED BY <3>2, <3>3, <3>4
  <2>4. ledger' \in [spent: Nat, refunded: Nat]
    BY <2>1, <2>2
  <2> QED BY <2>3, <2>4
<1>2. UNCHANGED <<head, minedIn, seen, streak, cursor, job, backfill, since, forgone, bounds>>
  BY DEF DebitTicketForSession, RefundTicketForSession
<1> QED BY <1>1, <1>2 DEF JobsFit, TargetsFit, Mined, bounds

\* The handlers change job, and of the rest only seen, forgone, row, streak and faults.
LEMMA HandlersType ==
    ASSUME TypeInv, NEW w \in Sources, NEW new \in Job,
           job' = [job EXCEPT ![w] = new],
           seen \subseteq seen', seen' \in SUBSET Logs, forgone' \in SUBSET Logs,
           row' \in Row, streak' \in Streak, faults' \in 0..MaxFaults,
           UNCHANGED outsideHandlers,
           /\ new.pc # "idle" => new.log \in Mined
           /\ new.pc \notin {"idle", "claim"} => new.log \in seen'
           /\ new.pc \in {"readRow", "writeRow"} => new.log \notin Spent
           /\ new.pc \in {"readStreak", "writeStreak"} => new.log \in Claims
    PROVE  TypeInv'
<1> USE DEF TypeInv, TypeOK
<1>1. Mined' = Mined
  BY DEF outsideHandlers, Mined
<1>2. TypeOK'
  BY DEF outsideHandlers
<1>3. JobsFit'
  BY <1>1 DEF JobsFit
<1>4. TargetsFit'
  BY <1>1 DEF TargetsFit, outsideHandlers
<1> QED BY <1>2, <1>3, <1>4

LEMMA FailsCounts == TypeOK /\ ((\E call \in Faults : Fails(call)) \/ Works) => faults' \in 0..MaxFaults
BY Bounds DEF TypeOK, Fails, Works

LEMMA DeliverType == ASSUME TypeInv, NEW e \in Logs, Deliver(e) PROVE TypeInv'
<1> DEFINE new == [Idle EXCEPT !.pc = "claim", !.log = e]
<1>1. new \in Job /\ new.pc = "claim" /\ new.log = e
  BY IdleIsJob DEF Idle, Job
<1>2. e \in Mined
  BY DEF Deliver, Mined, TypeInv, TypeOK
<1>3. job' = [job EXCEPT ![e] = new] /\ e \in Sources
  BY DEF Deliver, Sources
<1> HIDE DEF new
<1> QED BY <1>1, <1>2, <1>3, HandlersType DEF Deliver, TypeInv, TypeOK

LEMMA ClaimType == ASSUME TypeInv, NEW w \in Sources, ClaimTicketEvent(w) PROVE TypeInv'
<1> DEFINE new == IF job'[w].pc = "record" THEN [job[w] EXCEPT !.pc = "record"] ELSE Idle
<1>1. /\ job[w] \in Job /\ job[w].log \in Mined /\ job[w].log \in Logs
      /\ job \in [Sources -> Job]
  BY DEF ClaimTicketEvent, At, TypeInv, TypeOK, JobsFit, Mined
<1>2. /\ \/ /\ job' = [job EXCEPT ![w] = [job[w] EXCEPT !.pc = "record"]]
            /\ seen' = seen \cup {job[w].log}
         \/ /\ job' = [job EXCEPT ![w] = Idle]
            /\ seen' \in {seen, seen \cup {job[w].log}}
      /\ faults' \in 0..MaxFaults
  BY FailsCounts DEF ClaimTicketEvent, Goto, Finish, TypeInv, Fails
<1>3. [job[w] EXCEPT !.pc = "record"] \in Job
  BY <1>1 DEF Job
<1>4. UNCHANGED <<outsideHandlers, row, streak>> /\ forgone' \in SUBSET Logs
  BY <1>1 DEF ClaimTicketEvent, TypeInv, TypeOK
<1>5. CASE job' = [job EXCEPT ![w] = [job[w] EXCEPT !.pc = "record"]] /\ seen' = seen \cup {job[w].log}
  <2>1. [job[w] EXCEPT !.pc = "record"].pc = "record" /\ [job[w] EXCEPT !.pc = "record"].log = job[w].log
    BY <1>1 DEF Job
  <2> QED BY <1>1, <1>2, <1>3, <1>4, <1>5, <2>1, HandlersType DEF TypeInv, TypeOK
<1>6. CASE job' = [job EXCEPT ![w] = Idle] /\ seen' \in {seen, seen \cup {job[w].log}}
  <2>1. Idle.pc = "idle" /\ Idle \in Job
    BY IdleIsJob DEF Idle
  <2> QED BY <1>1, <1>2, <1>4, <1>6, <2>1, HandlersType DEF TypeInv, TypeOK
<1> QED BY <1>2, <1>5, <1>6

LEMMA RecordType == ASSUME TypeInv, NEW w \in Sources, Record(w) PROVE TypeInv'
<1>1. /\ job[w] \in Job /\ job[w].log \in Mined /\ job[w].log \in seen
  BY DEF Record, At, TypeInv, TypeOK, JobsFit
<1>2. Idle.pc = "idle" /\ Idle \in Job
  BY IdleIsJob DEF Idle
<1>3. faults' \in 0..MaxFaults /\ UNCHANGED <<outsideHandlers, seen, forgone, row, streak>>
  BY DEF Record, TypeInv, TypeOK
<1>4. CASE job' = [job EXCEPT ![w] = Idle]
  BY <1>2, <1>3, <1>4, HandlersType DEF TypeInv, TypeOK
<1>5. CASE job[w].log \notin Spent /\ job' = [job EXCEPT ![w].pc = "readRow"]
  <2> DEFINE new == [job[w] EXCEPT !.pc = "readRow"]
  <2>1. new \in Job /\ new.pc = "readRow" /\ new.log = job[w].log
    BY <1>1 DEF Job
  <2>2. job' = [job EXCEPT ![w] = new]
    BY <1>5
  <2> HIDE DEF new
  <2> QED BY <1>1, <1>3, <1>5, <2>1, <2>2, HandlersType DEF TypeInv, TypeOK
<1> QED BY <1>4, <1>5 DEF Record, Finish, Goto

\* The handler is over, or goes on to the streak of a claim.
LEMMA AfterDeltaType ==
    ASSUME TypeInv, NEW w \in Sources, job[w].pc \in {"readRow", "writeRow"}, AfterDelta(w),
           row' \in Row, faults' \in 0..MaxFaults,
           UNCHANGED <<outsideHandlers, seen, forgone, streak>>
    PROVE  TypeInv'
<1>1. /\ job[w] \in Job /\ job[w].log \in Mined /\ job[w].log \in seen
  BY DEF TypeInv, TypeOK, JobsFit
<1> DEFINE new == IF job[w].log \in Claims
                  THEN [Idle EXCEPT !.pc = "readStreak", !.log = job[w].log] ELSE Idle
<1>2. new \in Job /\ (new.pc = "idle" \/ (new.pc = "readStreak" /\ new.log = job[w].log
                                           /\ job[w].log \in Claims))
  BY <1>1, IdleIsJob DEF Idle, Job
<1>3. job' = [job EXCEPT ![w] = new]
  BY DEF AfterDelta, Finish
<1> HIDE DEF new
<1> QED BY <1>1, <1>2, <1>3, HandlersType DEF TypeInv, TypeOK

LEMMA ReadRowType == ASSUME TypeInv, NEW w \in Sources, ReadRow(w) PROVE TypeInv'
<1>1. /\ job[w] \in Job /\ job[w].log \in Mined /\ job[w].log \in seen
      /\ job[w].log \notin Spent /\ row \in Row
  BY DEF ReadRow, At, TypeInv, TypeOK, JobsFit
<1>2. /\ faults' \in 0..MaxFaults /\ UNCHANGED <<outsideHandlers, seen, forgone, row, streak>>
      /\ job[w].pc \in {"readRow", "writeRow"}
  BY FailsCounts DEF ReadRow, At, TypeInv, Fails
<1>3. CASE AfterDelta(w)
  BY <1>1, <1>2, <1>3, AfterDeltaType
<1>4. CASE job' = [job EXCEPT ![w].pc = "writeRow", ![w].row = row]
  <2> DEFINE new == [job[w] EXCEPT !.pc = "writeRow", !.row = row]
  <2>1. new \in Job /\ new.pc = "writeRow" /\ new.log = job[w].log
    BY <1>1 DEF Job
  <2>2. job' = [job EXCEPT ![w] = new]
    BY <1>4 DEF TypeInv, TypeOK
  <2> HIDE DEF new
  <2> QED BY <1>1, <1>2, <2>1, <2>2, HandlersType DEF TypeInv, TypeOK
<1> QED BY <1>3, <1>4 DEF ReadRow

LEMMA AddTicketIsRow == ASSUME NEW copy \in Row PROVE AddTicket(copy) \in Row
<1>1. copy.credited + 1 \in Nat /\ copy.debited \in Int /\ copy.credited + 1 - copy.debited \in Int
  BY DEF Row
<1> QED BY <1>1 DEF AddTicket, Row

LEMMA WriteRowType == ASSUME TypeInv, NEW w \in Sources, WriteRow(w) PROVE TypeInv'
<1>1. job[w].row \in Row /\ row \in Row
  BY DEF TypeInv, TypeOK, Job
<1>2. row' \in Row
  BY <1>1, AddTicketIsRow DEF WriteRow
<1>3. /\ faults' \in 0..MaxFaults /\ UNCHANGED <<outsideHandlers, seen, forgone, streak>>
      /\ job[w].pc \in {"readRow", "writeRow"} /\ AfterDelta(w)
  BY FailsCounts DEF WriteRow, At, TypeInv, Fails
<1> QED BY <1>2, <1>3, AfterDeltaType

LEMMA ReadStreakType == ASSUME TypeInv, NEW w \in Sources, ReadStreak(w) PROVE TypeInv'
<1>1. /\ job[w] \in Job /\ job[w].log \in Mined /\ job[w].log \in seen
      /\ job[w].log \in Claims /\ streak \in Streak
  BY DEF ReadStreak, At, TypeInv, TypeOK, JobsFit
<1>2. faults' \in 0..MaxFaults /\ UNCHANGED <<outsideHandlers, seen, forgone, row, streak>>
  BY FailsCounts DEF ReadStreak, TypeInv, Fails
<1>3. CASE Finish(w)
  <2>1. Idle.pc = "idle" /\ Idle \in Job
    BY IdleIsJob DEF Idle
  <2> QED BY <1>2, <1>3, <2>1, HandlersType DEF TypeInv, TypeOK, Finish
<1>4. CASE job' = [job EXCEPT ![w].pc = "writeStreak", ![w].streak = streak]
  <2> DEFINE new == [job[w] EXCEPT !.pc = "writeStreak", !.streak = streak]
  <2>1. new \in Job /\ new.pc = "writeStreak" /\ new.log = job[w].log
    BY <1>1 DEF Job
  <2>2. job' = [job EXCEPT ![w] = new]
    BY <1>4 DEF TypeInv, TypeOK
  <2> HIDE DEF new
  <2> QED BY <1>1, <1>2, <2>1, <2>2, HandlersType DEF TypeInv, TypeOK
<1> QED BY <1>3, <1>4 DEF ReadStreak

\* computeStreakDay stays within the seven days and never skips one.
LEMMA StreakDays ==
    ASSUME NEW k \in 0..7, NEW prev \in Nat, NEW today \in Nat
    PROVE  /\ ComputeStreakDay(k, prev, today) \in 1..7
           /\ ComputeStreakDay(k, prev, today) = 1
              \/ (today = prev + 1 /\ ComputeStreakDay(k, prev, today) <= k + 1)
<1>1. (k % 7) + 1 \in 1..7 /\ (k % 7) + 1 <= k + 1
  OBVIOUS
<1> QED BY <1>1 DEF ComputeStreakDay

LEMMA WriteStreakType == ASSUME TypeInv, NEW w \in Sources, WriteStreak(w) PROVE TypeInv'
<1>1. /\ job[w].log \in Claims /\ job[w].streak \in Streak /\ DayOf[job[w].log] \in Nat
  BY ClaimDays DEF WriteStreak, At, TypeInv, TypeOK, JobsFit, Job
<1>2. /\ faults' \in 0..MaxFaults /\ UNCHANGED <<outsideHandlers, seen, forgone, row>>
      /\ Finish(w)
  BY FailsCounts DEF WriteStreak, TypeInv, Fails
<1>3. streak' \in Streak
  <2> DEFINE old == job[w].streak
             today == DayOf[job[w].log]
  <2>1. old.day \in 0..7 /\ old.last \in Nat /\ old.total \in Nat
    BY <1>1 DEF Streak
  <2>2. ComputeStreakDay(old.day, old.last, today) \in 1..7
    BY <1>1, <2>1, StreakDays
  <2>3. streak' \in {streak, [day |-> ComputeStreakDay(old.day, old.last, today),
                              last |-> today, total |-> old.total + 1]}
    BY DEF WriteStreak
  <2> HIDE DEF old, today
  <2>4. today \in Nat
    BY <1>1 DEF today
  <2> QED BY <2>1, <2>2, <2>3, <2>4 DEF Streak, TypeInv, TypeOK
<1>4. Idle.pc = "idle" /\ Idle \in Job
  BY IdleIsJob DEF Idle
<1> QED BY <1>2, <1>3, <1>4, HandlersType DEF TypeInv, TypeOK, Finish

LEMMA HandleType == ASSUME TypeInv, NEW w \in Sources, Handle(w) PROVE TypeInv'
BY ClaimType, RecordType, ReadRowType, WriteRowType, ReadStreakType, WriteStreakType DEF Handle

----------------------------------------------------------------------------
LEMMA ColdStartIsNat ==
    ASSUME TypeInv, NEW b \in Backfills
    PROVE  ColdStartFrom(b) \in 0..head
BY BackfillParameters DEF ColdStartFrom, TypeInv, TypeOK, TargetsFit, Backfill

\* A backfill that starts to read keeps its target and has nothing to apply.
LEMMA StartFromShape ==
    ASSUME TypeInv, NEW b \in Backfills, NEW from \in Nat, StartFrom(b, from)
    PROVE  \/ backfill' = [backfill EXCEPT ![b] = Asleep]
           \/ \E r \in Backfill :
                 /\ backfill' = [backfill EXCEPT ![b] = r]
                 /\ r.pc = "fetch" /\ r.next = from /\ r.todo = {}
                 /\ r.target = backfill[b].target /\ from <= r.target
<1> DEFINE run == [Asleep EXCEPT !.pc = "fetch", !.target = backfill[b].target, !.next = from]
<1>1. backfill[b].target \in Nat /\ backfill \in [Backfills -> Backfill]
  BY DEF TypeInv, TypeOK, Backfill
<1>2. run \in Backfill /\ run.pc = "fetch" /\ run.next = from /\ run.todo = {}
      /\ run.target = backfill[b].target
  BY <1>1, IdleIsJob DEF Asleep, Backfill
<1>3. CASE from > backfill[b].target
  BY <1>3 DEF StartFrom
<1>4. CASE ~(from > backfill[b].target)
  <2>1. backfill' = [backfill EXCEPT ![b] = run]
    BY <1>4 DEF StartFrom
  <2>2. from <= run.target
    BY <1>1, <1>2, <1>4
  <2> HIDE DEF run
  <2> QED BY <1>2, <2>1, <2>2
<1> QED BY <1>3, <1>4

\* What a step of a backfill may do to the types.
LEMMA BackfillsType ==
    ASSUME TypeInv, NEW b \in Backfills, NEW run \in Backfill,
           backfill' = [backfill EXCEPT ![b] = run],
           run.target <= head, run.todo \subseteq Mined,
           cursor' \in Nat \cup {NoBlock}, forgone' \in SUBSET Logs, faults' \in 0..MaxFaults,
           job' \in [Sources -> Job], JobsFit', UNCHANGED outsideBackfill
    PROVE  TypeInv'
<1>1. Mined' = Mined
  BY DEF outsideBackfill, Mined
<1>2. TypeOK'
  BY DEF TypeInv, TypeOK, outsideBackfill
<1>3. TargetsFit'
  BY <1>1 DEF TypeInv, TypeOK, TargetsFit, outsideBackfill
<1> QED BY <1>2, <1>3 DEF TypeInv

LEMMA GetBlockNumberType == ASSUME TypeInv, NEW b \in Backfills, GetBlockNumber(b) PROVE TypeInv'
<1> DEFINE run == [Asleep EXCEPT !.pc = "cursor", !.target = head]
<1>1. run \in Backfill /\ run.target = head /\ run.todo = {}
  BY IdleIsJob DEF TypeInv, TypeOK, Asleep, Backfill
<1>2. backfill' = [backfill EXCEPT ![b] = run]
  BY DEF GetBlockNumber
<1> HIDE DEF run
<1>3. UNCHANGED <<outsideBackfill, cursor, job, forgone, faults>> /\ JobsFit'
  BY DEF GetBlockNumber, TypeInv, JobsFit, outsideBackfill, Mined
<1>4. run.target <= head /\ run.todo \subseteq Mined
  BY <1>1 DEF TypeInv, TypeOK
<1>5. /\ cursor' \in Nat \cup {NoBlock} /\ forgone' \in SUBSET Logs /\ faults' \in 0..MaxFaults
      /\ job' \in [Sources -> Job]
  BY <1>3 DEF TypeInv, TypeOK
<1> QED BY <1>1, <1>2, <1>3, <1>4, <1>5, BackfillsType

\* StartFrom keeps the types, whatever it starts from.
LEMMA StartFromType ==
    ASSUME TypeInv, NEW b \in Backfills, NEW from \in Nat, StartFrom(b, from),
           cursor' \in Nat \cup {NoBlock}, forgone' \in SUBSET Logs, faults' \in 0..MaxFaults,
           UNCHANGED <<outsideBackfill, job>>
    PROVE  TypeInv'
<1>1. JobsFit' /\ job' \in [Sources -> Job]
  BY DEF TypeInv, TypeOK, JobsFit, outsideBackfill, Mined
<1>2. backfill[b].target <= head /\ head \in Nat
  BY DEF TypeInv, TypeOK, TargetsFit
<1>3. CASE backfill' = [backfill EXCEPT ![b] = Asleep]
  <2>1. Asleep \in Backfill /\ Asleep.target <= head /\ Asleep.todo = {}
    BY <1>2, IdleIsJob DEF Asleep
  <2> QED BY <1>1, <1>3, <2>1, BackfillsType
<1>4. CASE \E r \in Backfill :
              /\ backfill' = [backfill EXCEPT ![b] = r] /\ r.todo = {}
              /\ r.target = backfill[b].target
  <2>1. PICK r \in Backfill :
          /\ backfill' = [backfill EXCEPT ![b] = r] /\ r.todo = {}
          /\ r.target = backfill[b].target
    BY <1>4
  <2>2. r.target <= head /\ r.todo \subseteq Mined
    BY <1>2, <2>1
  <2> QED BY <1>1, <2>1, <2>2, BackfillsType
<1> QED BY <1>3, <1>4, StartFromShape

LEMMA ReadSyncCursorType == ASSUME TypeInv, NEW b \in Backfills, ReadSyncCursor(b) PROVE TypeInv'
<1>1. ColdStartFrom(b) \in 0..head /\ forgone \in SUBSET Logs /\ cursor \in Nat \cup {NoBlock}
      /\ head \in Nat
  BY ColdStartIsNat DEF TypeInv, TypeOK
<1>2. /\ cursor' \in Nat \cup {NoBlock} /\ forgone' \in SUBSET Logs
      /\ faults' \in 0..MaxFaults /\ UNCHANGED <<outsideBackfill, job>>
  BY <1>1, FailsCounts DEF ReadSyncCursor, PassedOver, Mined, TypeInv, TypeOK, Fails
<1>3. StartFrom(b, ColdStartFrom(b)) \/ (cursor # NoBlock /\ StartFrom(b, cursor + 1))
  BY DEF ReadSyncCursor
<1>4. CASE StartFrom(b, ColdStartFrom(b))
  BY <1>1, <1>2, <1>4, StartFromType
<1>5. CASE cursor # NoBlock /\ StartFrom(b, cursor + 1)
  <2>1. cursor + 1 \in Nat
    BY <1>1, <1>5
  <2> QED BY <1>2, <1>5, <2>1, StartFromType
<1> QED BY <1>3, <1>4, <1>5

LEMMA GetContractEventsType ==
    ASSUME TypeInv, NEW b \in Backfills, GetContractEvents(b) PROVE TypeInv'
<1>1. JobsFit' /\ UNCHANGED <<outsideBackfill, cursor, job, forgone>> /\ faults' \in 0..MaxFaults
  BY FailsCounts
     DEF GetContractEvents, TypeInv, TypeOK, JobsFit, outsideBackfill, Mined, Fails
<1>2. backfill[b] \in Backfill /\ backfill[b].target <= head /\ head \in Nat
  BY DEF TypeInv, TypeOK, TargetsFit
<1> DEFINE last == backfill[b].next + Chunk - 1
           to == IF last > backfill[b].target THEN backfill[b].target ELSE last
           todo == Between(backfill[b].next, to)
           run == [backfill[b] EXCEPT !.pc = "apply", !.to = to, !.todo = todo]
<1>3. to \in Nat /\ todo \subseteq Mined /\ Mined \subseteq Logs
  BY <1>2, BackfillParameters DEF Backfill, Between, Mined
<1>4. run \in Backfill /\ run.target = backfill[b].target /\ run.todo = todo
  <2> HIDE DEF to, todo
  <2> QED BY <1>2, <1>3 DEF Backfill
<1>5. CASE backfill' = [backfill EXCEPT ![b] = Asleep]
  <2>1. Asleep \in Backfill /\ Asleep.target <= head /\ Asleep.todo = {}
    BY <1>2, IdleIsJob DEF Asleep
  <2> QED BY <1>1, <1>5, <2>1, BackfillsType DEF TypeInv, TypeOK
<1>6. CASE backfill' = [backfill EXCEPT ![b] = run]
  <2> HIDE DEF run
  <2> QED BY <1>1, <1>2, <1>3, <1>4, <1>6, BackfillsType DEF TypeInv, TypeOK
<1>7. \/ backfill' = [backfill EXCEPT ![b] = Asleep]
      \/ backfill' = [backfill EXCEPT ![b].pc = "apply", ![b].to = to, ![b].todo = todo]
  BY DEF GetContractEvents
<1>8. [backfill EXCEPT ![b].pc = "apply", ![b].to = to, ![b].todo = todo]
      = [backfill EXCEPT ![b] = run]
  <2> HIDE DEF to, todo
  <2> QED BY DEF TypeInv, TypeOK
<1> QED BY <1>5, <1>6, <1>7, <1>8

LEMMA DispatchType == ASSUME TypeInv, NEW b \in Backfills, DispatchTicketLog(b) PROVE TypeInv'
<1>1. PICK e \in backfill[b].todo :
        /\ job' = [job EXCEPT ![b] = [Idle EXCEPT !.pc = "claim", !.log = e]]
        /\ backfill' = [backfill EXCEPT ![b].todo = @ \ {e}]
  BY DEF DispatchTicketLog
<1>2. UNCHANGED <<outsideBackfill, cursor, forgone, faults>>
  BY DEF DispatchTicketLog
<1> DEFINE run == [backfill[b] EXCEPT !.todo = @ \ {e}]
           new == [Idle EXCEPT !.pc = "claim", !.log = e]
<1>3. backfill[b] \in Backfill /\ backfill[b].todo \subseteq Mined /\ backfill[b].target <= head
      /\ Mined \subseteq Logs
  BY DEF TypeInv, TypeOK, TargetsFit, Mined
<1>4. run \in Backfill /\ run.target = backfill[b].target /\ run.todo = backfill[b].todo \ {e}
  BY <1>3 DEF Backfill
<1>5. new \in Job /\ new.pc = "claim" /\ new.log = e
  BY <1>3, IdleIsJob DEF Idle, Job
<1>6. job' = [job EXCEPT ![b] = new] /\ backfill' = [backfill EXCEPT ![b] = run]
  BY <1>1
<1> HIDE DEF run, new
<1>7. job' \in [Sources -> Job]
  BY <1>5, <1>6 DEF TypeInv, TypeOK
<1>8. JobsFit'
  BY <1>2, <1>3, <1>5, <1>6 DEF TypeInv, TypeOK, JobsFit, outsideBackfill, Mined
<1> QED BY <1>2, <1>3, <1>4, <1>6, <1>7, <1>8, BackfillsType DEF TypeInv, TypeOK

LEMMA WriteSyncCursorType ==
    ASSUME TypeInv, NEW b \in Backfills, WriteSyncCursor(b) PROVE TypeInv'
<1>1. backfill[b].to \in Nat /\ backfill[b].to + 1 \in Nat
  BY DEF TypeInv, TypeOK, Backfill
<1>2. /\ cursor' \in Nat \cup {NoBlock} /\ faults' \in 0..MaxFaults
      /\ StartFrom(b, backfill[b].to + 1) /\ UNCHANGED <<outsideBackfill, job, forgone>>
  BY <1>1, FailsCounts DEF WriteSyncCursor, Processed, TypeInv, TypeOK, Fails
<1> QED BY <1>1, <1>2, StartFromType DEF TypeInv, TypeOK

LEMMA RestartType == ASSUME TypeInv, Restart PROVE TypeInv'
<1> USE DEF TypeInv, TypeOK
<1>1. job' \in [Sources -> Job] /\ backfill' \in [Backfills -> Backfill]
  BY IdleIsJob DEF Restart
<1>2. restarts' \in 0..MaxRestarts
  BY Bounds DEF Restart
<1>3. TypeOK'
  BY <1>1, <1>2 DEF Restart, tables
<1>4. JobsFit' /\ TargetsFit'
  BY DEF Restart, JobsFit, TargetsFit, Idle, Asleep
<1> QED BY <1>3, <1>4

LEMMA StepType == TypeInv /\ [Next]_vars => TypeInv'
<1> SUFFICES ASSUME TypeInv, [Next]_vars PROVE TypeInv'
  OBVIOUS
<1>1. CASE NewBlock
  BY <1>1, NewBlockType
<1>2. CASE DebitTicketForSession \/ RefundTicketForSession
  BY <1>2, GamesType
<1>3. CASE \E e \in Logs : Deliver(e)
  BY <1>3, DeliverType
<1>4. CASE \E w \in Sources : Handle(w)
  BY <1>4, HandleType
<1>5. CASE \E b \in Backfills : BackfillStep(b)
  BY <1>5, GetBlockNumberType, ReadSyncCursorType, GetContractEventsType, DispatchType,
     WriteSyncCursorType DEF BackfillStep
<1>6. CASE Restart
  BY <1>6, RestartType
<1>7. CASE UNCHANGED vars
  BY <1>7 DEF vars, bounds, TypeInv, TypeOK, JobsFit, TargetsFit, Mined
<1> QED BY <1>1, <1>2, <1>3, <1>4, <1>5, <1>6, <1>7 DEF Next

\* The tables, the handlers and the backfills keep their types.
THEOREM MirrorTypes == Spec => []TypeInv
BY InitType, StepType, PTL DEF Spec

THEOREM MirrorTypeOK == Spec => []TypeOK
<1>1. TypeInv => TypeOK
  BY DEF TypeInv
<1> QED BY <1>1, MirrorTypes, PTL

----------------------------------------------------------------------------
(* No log is credited twice *)

\* A handler that has claimed its log and not yet written the ticket.
Holds(w) == job[w].pc \in {"record", "readRow", "writeRow"}

Held == {job[w].log : w \in {v \in Sources : Holds(v)}}

Applied == (seen \ Spent) \ Held

\* A row, or a handler's copy of one, counts logs that nobody holds.  A handler
\* that writes its copy back may undo the tickets of others, never add one twice.
CreditInv ==
    /\ \A v, w \in Sources : Holds(v) /\ Holds(w) /\ v # w => job[v].log # job[w].log
    /\ row.credited <= Cardinality(Applied)
    /\ \A w \in Sources :
          job[w].pc = "writeRow" => job[w].row.credited <= Cardinality(Applied)

LEMMA AppliedGrows ==
    ASSUME TypeInv, TypeInv', Applied \subseteq Applied'
    PROVE  /\ Cardinality(Applied) \in Nat /\ Cardinality(Applied') \in Nat
           /\ Cardinality(Applied) <= Cardinality(Applied')
           /\ IsFiniteSet(Applied) /\ IsFiniteSet(Applied')
<1>1. Applied \subseteq Logs /\ Applied' \subseteq Logs
  BY DEF TypeInv, TypeOK, Applied
<1>2. IsFiniteSet(Applied) /\ IsFiniteSet(Applied')
  BY <1>1, LogsAreKinds, FS_Subset
<1> QED BY <1>2, FS_Subset, FS_CardinalityType

\* The step of one handler keeps or lets go of the log it holds, or claims one
\* that nobody had.
HoldsOn(w) ==
    \/ Holds(w)' => Holds(w) /\ job'[w].log = job[w].log
    \/ /\ ~Holds(w) /\ job'[w].log = job[w].log
       /\ job[w].log \notin seen /\ seen' = seen \cup {job[w].log}

LEMMA HandlerApplied ==
    ASSUME NEW w \in Sources, \A v \in Sources : v # w => job'[v] = job[v],
           seen \subseteq seen', HoldsOn(w)
    PROVE  Applied \subseteq Applied'
<1>1. CASE Holds(w)' => Holds(w) /\ job'[w].log = job[w].log
  <2>1. Held' \subseteq Held
    BY <1>1 DEF Held, Holds
  <2> QED BY <2>1 DEF Applied
<1>2. CASE /\ ~Holds(w) /\ job'[w].log = job[w].log
           /\ job[w].log \notin seen /\ seen' = seen \cup {job[w].log}
  <2>1. Held' \subseteq Held \cup {job[w].log}
    BY <1>2 DEF Held, Holds
  <2> QED BY <1>2, <2>1 DEF Applied
<1> QED BY <1>1, <1>2 DEF HoldsOn

LEMMA HandlerCredit ==
    ASSUME TypeInv, TypeInv', CreditInv, NEW w \in Sources,
           \A v \in Sources : v # w => job'[v] = job[v], seen \subseteq seen', HoldsOn(w),
           row'.credited <= Cardinality(Applied'),
           job'[w].pc = "writeRow" => job'[w].row.credited <= Cardinality(Applied')
    PROVE  CreditInv'
<1>1. \A v \in Sources : Holds(v) => job[v].log \in seen
  BY DEF TypeInv, JobsFit, Holds
<1>2. \A u, v \in Sources : Holds(u)' /\ Holds(v)' /\ u # v => job'[u].log # job'[v].log
  <2>1. CASE Holds(w)' => Holds(w) /\ job'[w].log = job[w].log
    BY <2>1 DEF CreditInv, Holds
  <2>2. CASE /\ ~Holds(w) /\ job'[w].log = job[w].log
             /\ job[w].log \notin seen /\ seen' = seen \cup {job[w].log}
    BY <1>1, <2>2 DEF CreditInv, Holds
  <2> QED BY <2>1, <2>2 DEF HoldsOn
<1>3. \A v \in Sources :
         job'[v].pc = "writeRow" => job'[v].row.credited <= Cardinality(Applied')
  <2> SUFFICES ASSUME NEW v \in Sources, v # w, job'[v].pc = "writeRow"
               PROVE  job'[v].row.credited <= Cardinality(Applied')
    OBVIOUS
  <2>1. job[v].row.credited <= Cardinality(Applied) /\ job'[v] = job[v]
    BY DEF CreditInv
  <2>2. job[v].row.credited \in Nat
    BY DEF TypeInv, TypeOK, Job, Row
  <2> QED BY <2>1, <2>2, HandlerApplied, AppliedGrows
<1> QED BY <1>2, <1>3 DEF CreditInv

\* The same for a step that leaves the row alone.
LEMMA HandlerKeepsRow ==
    ASSUME TypeInv, TypeInv', CreditInv, NEW w \in Sources, NEW new \in Job,
           job' = [job EXCEPT ![w] = new], seen \subseteq seen', row' = row,
           \/ new.pc \in {"record", "readRow", "writeRow"} => Holds(w) /\ new.log = job[w].log
           \/ /\ ~Holds(w) /\ new.log = job[w].log
              /\ job[w].log \notin seen /\ seen' = seen \cup {job[w].log},
           new.pc = "writeRow" => new.row = row
    PROVE  CreditInv'
<1>1. job'[w] = new /\ \A v \in Sources : v # w => job'[v] = job[v]
  BY DEF TypeInv, TypeOK
<1>2. HoldsOn(w)
  BY <1>1 DEF HoldsOn, Holds
<1>3. row.credited <= Cardinality(Applied')
  <2>1. row.credited \in Nat /\ row.credited <= Cardinality(Applied)
    BY DEF TypeInv, TypeOK, Row, CreditInv
  <2> QED BY <1>1, <1>2, <2>1, HandlerApplied, AppliedGrows
<1> QED BY <1>1, <1>2, <1>3, HandlerCredit

LEMMA AfterDeltaShape ==
    ASSUME TypeInv, NEW w \in Sources, job[w].pc \in {"readRow", "writeRow"}, AfterDelta(w)
    PROVE  \E new \in Job : job' = [job EXCEPT ![w] = new] /\ new.pc \in {"idle", "readStreak"}
<1>1. job[w] \in Job
  BY DEF TypeInv, TypeOK
<1> DEFINE new == IF job[w].log \in Claims
                  THEN [Idle EXCEPT !.pc = "readStreak", !.log = job[w].log] ELSE Idle
<1>2. new \in Job /\ new.pc \in {"idle", "readStreak"}
  BY <1>1, IdleIsJob DEF Idle, Job
<1>3. job' = [job EXCEPT ![w] = new]
  BY DEF AfterDelta, Finish
<1> HIDE DEF new
<1> QED BY <1>2, <1>3

LEMMA WriteRowCredit ==
    ASSUME TypeInv, TypeInv', CreditInv, NEW w \in Sources, WriteRow(w) PROVE CreditInv'
<1>1. job[w].pc = "writeRow" /\ Holds(w) /\ job[w].row \in Row
  BY DEF WriteRow, At, Holds, TypeInv, TypeOK, Job
<1>2. PICK new \in Job : job' = [job EXCEPT ![w] = new] /\ new.pc \in {"idle", "readStreak"}
  BY <1>1, AfterDeltaShape DEF WriteRow
<1>3. job'[w] = new /\ (\A v \in Sources : v # w => job'[v] = job[v]) /\ seen' = seen
  BY <1>2 DEF WriteRow, TypeInv, TypeOK
<1>4. HoldsOn(w)
  BY <1>2, <1>3 DEF HoldsOn, Holds
<1>5. Applied \subseteq Applied'
  BY <1>3, <1>4, HandlerApplied
<1>6. job[w].log \in Applied' /\ job[w].log \notin Applied
  <2>1. job[w].log \in seen /\ job[w].log \notin Spent
    BY <1>1 DEF TypeInv, JobsFit
  <2>2. job[w].log \in Held
    BY <1>1 DEF Held
  <2>3. job[w].log \notin Held'
    BY <1>1, <1>2, <1>3 DEF CreditInv, Held, Holds
  <2> QED BY <1>3, <2>1, <2>2, <2>3 DEF Applied
<1>7. Cardinality(Applied) + 1 <= Cardinality(Applied')
  <2>1. IsFiniteSet(Applied) /\ IsFiniteSet(Applied') /\ Cardinality(Applied) \in Nat
    BY <1>5, AppliedGrows
  <2>2. Applied \cup {job[w].log} \subseteq Applied'
    BY <1>5, <1>6
  <2>3. Cardinality(Applied \cup {job[w].log}) = Cardinality(Applied) + 1
    BY <1>6, <2>1, FS_AddElement
  <2>4. Cardinality(Applied \cup {job[w].log}) <= Cardinality(Applied')
    BY <2>1, <2>2, FS_Subset
  <2> QED BY <2>3, <2>4
<1>8. row'.credited <= Cardinality(Applied')
  <2>1. CASE row' = AddTicket(job[w].row)
    <3>1. row'.credited = job[w].row.credited + 1
      BY <2>1 DEF AddTicket
    <3>2. job[w].row.credited <= Cardinality(Applied) /\ job[w].row.credited \in Nat
      BY <1>1 DEF CreditInv, Row
    <3> QED BY <1>5, <1>7, <3>1, <3>2, AppliedGrows
  <2>2. CASE row' = row
    <3>1. row.credited <= Cardinality(Applied) /\ row.credited \in Nat
      BY DEF CreditInv, TypeInv, TypeOK, Row
    <3> QED BY <1>5, <2>2, <3>1, AppliedGrows
  <2> QED BY <2>1, <2>2 DEF WriteRow
<1> QED BY <1>2, <1>3, <1>4, <1>8, HandlerCredit

LEMMA HandleCredit ==
    ASSUME TypeInv, TypeInv', CreditInv, NEW w \in Sources, Handle(w) PROVE CreditInv'
<1>1. Idle \in Job /\ Idle.pc = "idle" /\ job[w] \in Job
  BY IdleIsJob DEF Idle, TypeInv, TypeOK
<1>2. CASE job' = [job EXCEPT ![w] = Idle] /\ seen \subseteq seen' /\ row' = row
  BY <1>1, <1>2, HandlerKeepsRow
<1>3. CASE ClaimTicketEvent(w)
  <2> DEFINE new == [job[w] EXCEPT !.pc = "record"]
  <2>1. CASE job' = [job EXCEPT ![w].pc = "record"]
             /\ job[w].log \notin seen /\ seen' = seen \cup {job[w].log}
    <3>1. new \in Job /\ new.pc = "record" /\ new.log = job[w].log
      BY <1>1 DEF Job
    <3>2. job' = [job EXCEPT ![w] = new] /\ row' = row /\ ~Holds(w)
      BY <1>3, <2>1 DEF ClaimTicketEvent, At, Holds
    <3> HIDE DEF new
    <3> QED BY <2>1, <3>1, <3>2, HandlerKeepsRow
  <2> QED BY <1>2, <1>3, <2>1 DEF ClaimTicketEvent, Goto, Finish, Recorded
<1>4. CASE Record(w)
  <2> DEFINE new == [job[w] EXCEPT !.pc = "readRow"]
  <2>1. CASE job' = [job EXCEPT ![w].pc = "readRow"]
    <3>1. new \in Job /\ new.pc = "readRow" /\ new.log = job[w].log
      BY <1>1 DEF Job
    <3>2. job' = [job EXCEPT ![w] = new] /\ row' = row /\ seen' = seen /\ Holds(w)
      BY <1>4, <2>1 DEF Record, At, Holds
    <3> HIDE DEF new
    <3> QED BY <3>1, <3>2, HandlerKeepsRow
  <2> QED BY <1>2, <1>4, <2>1 DEF Record, Goto, Finish
<1>5. CASE ReadRow(w)
  <2> DEFINE new == [job[w] EXCEPT !.pc = "writeRow", !.row = row]
  <2>1. CASE job' = [job EXCEPT ![w].pc = "writeRow", ![w].row = row]
    <3>1. new \in Job /\ new.pc = "writeRow" /\ new.log = job[w].log /\ new.row = row
      BY <1>1 DEF Job, TypeInv, TypeOK
    <3>2. job' = [job EXCEPT ![w] = new] /\ row' = row /\ seen' = seen /\ Holds(w)
      BY <1>5, <2>1 DEF ReadRow, At, Holds, TypeInv, TypeOK
    <3> HIDE DEF new
    <3> QED BY <3>1, <3>2, HandlerKeepsRow
  <2>2. CASE AfterDelta(w)
    BY <1>5, <2>2, AfterDeltaShape, HandlerKeepsRow DEF ReadRow, At
  <2> QED BY <1>5, <2>1, <2>2 DEF ReadRow
<1>6. CASE WriteRow(w)
  BY <1>6, WriteRowCredit
<1>7. CASE ReadStreak(w) \/ WriteStreak(w)
  <2> DEFINE new == [job[w] EXCEPT !.pc = "writeStreak", !.streak = streak]
  <2>1. CASE job' = [job EXCEPT ![w].pc = "writeStreak", ![w].streak = streak]
    <3>1. new \in Job /\ new.pc = "writeStreak"
      BY <1>1 DEF Job, TypeInv, TypeOK
    <3>2. job' = [job EXCEPT ![w] = new] /\ row' = row /\ seen' = seen
      BY <1>7, <2>1 DEF ReadStreak, WriteStreak, TypeInv, TypeOK
    <3> HIDE DEF new
    <3> QED BY <3>1, <3>2, HandlerKeepsRow
  <2> QED BY <1>2, <1>7, <2>1 DEF ReadStreak, WriteStreak, Finish
<1> QED BY <1>3, <1>4, <1>5, <1>6, <1>7 DEF Handle

\* A handler starts on a log that is delivered to it.
LEMMA StartCredit ==
    ASSUME TypeInv, TypeInv', CreditInv, NEW w \in Sources, NEW e \in Logs,
           job' = [job EXCEPT ![w] = [Idle EXCEPT !.pc = "claim", !.log = e]],
           UNCHANGED <<seen, row>>
    PROVE  CreditInv'
<1> DEFINE new == [Idle EXCEPT !.pc = "claim", !.log = e]
<1>1. new \in Job /\ new.pc = "claim"
  BY IdleIsJob DEF Idle, Job
<1>2. job' = [job EXCEPT ![w] = new]
  OBVIOUS
<1> HIDE DEF new
<1> QED BY <1>1, <1>2, HandlerKeepsRow

LEMMA RestartCredit == ASSUME TypeInv, TypeInv', CreditInv, Restart PROVE CreditInv'
<1>1. \A w \in Sources : job'[w].pc = "idle"
  BY DEF Restart, Idle
<1>2. Applied \subseteq Applied'
  BY <1>1 DEF Restart, tables, Applied, Held, Holds
<1>3. row.credited \in Nat /\ row.credited <= Cardinality(Applied) /\ row' = row
  BY DEF TypeInv, TypeOK, Row, CreditInv, Restart, tables
<1>4. row'.credited <= Cardinality(Applied')
  BY <1>2, <1>3, AppliedGrows
<1> QED BY <1>1, <1>4 DEF CreditInv, Holds

LEMMA StepCredit == ASSUME TypeInv, TypeInv', CreditInv, [Next]_vars PROVE CreditInv'
<1> USE DEF CreditInv, Applied, Held, Holds
<1>1. CASE UNCHANGED <<job, seen, row>>
  BY <1>1
<1>2. CASE DebitTicketForSession \/ RefundTicketForSession
  <2>1. row'.credited = row.credited /\ UNCHANGED <<job, seen>>
    BY <1>2 DEF DebitTicketForSession, RefundTicketForSession, TypeInv, TypeOK, Row
  <2> QED BY <2>1
<1>3. CASE \E e \in Logs : Deliver(e)
  BY <1>3, StartCredit DEF Deliver, Sources
<1>4. CASE \E w \in Sources : Handle(w)
  BY <1>4, HandleCredit
<1>5. CASE \E b \in Backfills : DispatchTicketLog(b)
  <2>1. PICK b \in Backfills, e \in Logs :
           job' = [job EXCEPT ![b] = [Idle EXCEPT !.pc = "claim", !.log = e]]
    BY <1>5 DEF DispatchTicketLog, TypeInv, TypeOK, Backfill
  <2>2. b \in Sources /\ UNCHANGED <<seen, row>>
    BY <1>5 DEF DispatchTicketLog, outsideBackfill, Sources
  <2> QED BY <2>1, <2>2, StartCredit
<1>6. CASE Restart
  BY <1>6, RestartCredit
<1>7. (NewBlock \/ (\E b \in Backfills : GetBlockNumber(b) \/ ReadSyncCursor(b)
                     \/ GetContractEvents(b) \/ WriteSyncCursor(b)) \/ UNCHANGED vars)
      => UNCHANGED <<job, seen, row>>
  BY DEF NewBlock, GetBlockNumber, ReadSyncCursor, GetContractEvents, WriteSyncCursor,
         outsideBackfill, tables, vars
<1> QED BY <1>1, <1>2, <1>3, <1>4, <1>5, <1>6, <1>7 DEF Next, BackfillStep

LEMMA InitCredit == Init => CreditInv
<1> SUFFICES ASSUME Init PROVE CreditInv
  OBVIOUS
<1>1. \A w \in Sources : job[w].pc = "idle"
  BY DEF Init, Idle
<1>2. Applied = {} /\ row.credited = 0
  BY DEF Init, Applied, NewRow
<1>3. row.credited <= Cardinality(Applied)
  BY <1>2, FS_EmptySet
<1> QED BY <1>1, <1>3 DEF CreditInv, Holds

LEMMA CreditBounds == TypeInv /\ CreditInv => NeverCreditedTwice
<1> SUFFICES ASSUME TypeInv, CreditInv PROVE NeverCreditedTwice
  OBVIOUS
<1>1. IsFiniteSet(seen \ Spent) /\ Applied \subseteq seen \ Spent
  BY LogsAreKinds, FS_Subset DEF TypeInv, TypeOK, Applied
<1>2. /\ Cardinality(Applied) \in Nat /\ Cardinality(seen \ Spent) \in Nat
      /\ Cardinality(Applied) <= Cardinality(seen \ Spent)
  BY <1>1, FS_Subset, FS_CardinalityType
<1> QED BY <1>2 DEF CreditInv, NeverCreditedTwice, TypeInv, TypeOK, Row

\* The mirror never credits more tickets than the credit logs it has claimed.
THEOREM NeverCreditsTwice == Spec => []NeverCreditedTwice
<1>1. TypeInv /\ TypeInv' /\ CreditInv /\ [Next]_vars => CreditInv'
  BY StepCredit
<1>2. Spec => []CreditInv
  BY <1>1, InitCredit, MirrorTypes, PTL DEF Spec
<1> QED BY <1>2, CreditBounds, MirrorTypes, PTL

----------------------------------------------------------------------------
(* The balance and the streak *)

\* The balance is the difference whichever of a handler, a debit and a refund
\* wrote the row last, and from whichever copy.
THEOREM BalanceStaysDifference == Spec => []BalanceIsDifference
<1>1. Init => BalanceIsDifference
  BY DEF Init, NewRow, BalanceIsDifference
<1>2. ASSUME TypeInv, BalanceIsDifference, [Next]_vars PROVE BalanceIsDifference'
  <2>1. row.credited \in Nat /\ row.debited \in Int /\ row.balance \in Int
    BY <1>2 DEF TypeInv, TypeOK, Row
  <2>2. CASE row' = row
    BY <1>2, <2>2 DEF BalanceIsDifference
  <2>3. CASE DebitTicketForSession \/ RefundTicketForSession
    <3>1. /\ row'.credited = row.credited
          /\ \/ row'.balance = row.balance - 1 /\ row'.debited = row.debited + 1
             \/ row'.balance = row.balance + 1 /\ row'.debited = row.debited - 1
      BY <1>2, <2>3 DEF DebitTicketForSession, RefundTicketForSession, TypeInv, TypeOK, Row
    <3> QED BY <1>2, <2>1, <3>1 DEF BalanceIsDifference
  <2>4. CASE \E w \in Sources : row' = AddTicket(job[w].row)
    <3>1. PICK w \in Sources : row' = AddTicket(job[w].row)
      BY <2>4
    <3>2. /\ row'.credited = job[w].row.credited + 1 /\ row'.debited = job[w].row.debited
          /\ row'.balance = (job[w].row.credited + 1) - job[w].row.debited
      BY <3>1 DEF AddTicket
    <3>3. job[w].row.credited \in Nat /\ job[w].row.debited \in Int
      BY <1>2 DEF TypeInv, TypeOK, Job, Row
    <3>4. row'.balance = row'.credited - row'.debited
      BY <3>2, <3>3
    <3> QED BY <3>4 DEF BalanceIsDifference
  <2>5. (\E w \in Sources : Handle(w)) =>
           row' = row \/ \E w \in Sources : row' = AddTicket(job[w].row)
    BY DEF Handle, ClaimTicketEvent, Record, ReadRow, WriteRow, ReadStreak, WriteStreak
  <2>6. (NewBlock \/ (\E e \in Logs : Deliver(e)) \/ (\E b \in Backfills : BackfillStep(b))
          \/ Restart \/ UNCHANGED vars) => row' = row
    BY DEF NewBlock, Deliver, BackfillStep, GetBlockNumber, ReadSyncCursor, GetContractEvents,
           DispatchTicketLog, WriteSyncCursor, outsideBackfill, Restart, tables, vars
  <2> QED BY <1>2, <2>2, <2>3, <2>4, <2>5, <2>6 DEF Next
<1> QED BY <1>1, <1>2, MirrorTypes, PTL DEF Spec

LEMMA MinedGrows == TypeInv /\ [Next]_vars => Mined \subseteq Mined'
<1>1. TypeInv /\ NewBlock => Mined \subseteq Mined'
  BY DEF NewBlock, Mined, TypeInv, TypeOK
<1>2. [Next]_vars => NewBlock \/ minedIn' = minedIn
  BY DEF Next, DebitTicketForSession, RefundTicketForSession, Deliver, Handle, ClaimTicketEvent,
     Record, ReadRow, WriteRow, ReadStreak, WriteStreak, outsideHandlers, BackfillStep,
     GetBlockNumber, ReadSyncCursor, GetContractEvents, DispatchTicketLog, WriteSyncCursor,
     outsideBackfill, Restart, vars
<1>3. minedIn' = minedIn => Mined' = Mined
  BY DEF Mined
<1> QED BY <1>1, <1>2, <1>3

\* The stored streak and every copy of it are earned.
StreakInv ==
    /\ Earned(streak, Claims \cap Mined)
    /\ \A w \in Sources :
          job[w].pc = "writeStreak" => Earned(job[w].streak, Claims \cap Mined)

LEMMA EarnedStays ==
    ASSUME NEW claims, NEW more, claims \subseteq more, NEW s, Earned(s, claims)
    PROVE  Earned(s, more)
BY DEF Earned

\* A day more than an earned streak is earned by a claim of the next day, and one
\* day by any claim.
LEMMA ClaimEarns ==
    ASSUME NEW claims \in SUBSET Claims, NEW s \in Streak, Earned(s, claims), NEW e \in claims,
           NEW new, new.day = ComputeStreakDay(s.day, s.last, DayOf[e]), new.last = DayOf[e]
    PROVE  Earned(new, claims)
<1>1. /\ s.day \in 0..7 /\ s.last \in Nat /\ DayOf[e] \in Nat
  BY ClaimDays DEF Streak
<1>2. /\ new.day \in 1..7
      /\ new.day = 1 \/ (DayOf[e] = s.last + 1 /\ new.day <= s.day + 1)
  BY <1>1, StreakDays
<1>3. SUFFICES ASSUME NEW i \in 0..(new.day - 1)
               PROVE  \E c \in claims : DayOf[c] = new.last - i
  BY DEF Earned
<1>4. CASE i = 0
  BY <1>1, <1>4
<1>5. CASE i # 0
  <2>1. i - 1 \in 0..(s.day - 1) /\ DayOf[e] = s.last + 1
    BY <1>1, <1>2, <1>5
  <2>2. PICK c \in claims : DayOf[c] = s.last - (i - 1)
    BY <2>1 DEF Earned
  <2>3. s.last - (i - 1) = new.last - i
    BY <1>1, <2>1
  <2> QED BY <2>2, <2>3
<1> QED BY <1>4, <1>5

\* A step keeps StreakInv when what it stores is earned and what a handler is
\* about to write was the stored streak or the same handler's copy.
LEMMA StreakKeeps ==
    ASSUME TypeInv, StreakInv, Mined \subseteq Mined',
           streak' = streak \/ Earned(streak', Claims \cap Mined),
           \A v \in Sources : job'[v].pc = "writeStreak" =>
              \/ job'[v].streak = streak
              \/ job[v].pc = "writeStreak" /\ job'[v].streak = job[v].streak
    PROVE  StreakInv'
<1>1. Claims \cap Mined \subseteq Claims \cap Mined'
  OBVIOUS
<1>2. Earned(streak', Claims \cap Mined')
  BY <1>1, EarnedStays DEF StreakInv
<1>3. ASSUME NEW v \in Sources, job'[v].pc = "writeStreak"
      PROVE  Earned(job'[v].streak, Claims \cap Mined')
  BY <1>1, <1>3, EarnedStays DEF StreakInv
<1> QED BY <1>2, <1>3 DEF StreakInv

\* A streak of so many days means that so many days in a row were claimed on chain.
THEOREM StreakStaysEarned == Spec => []StreakIsEarned
<1>1. Init => StreakInv
  BY DEF Init, NewStreak, Idle, StreakInv, Earned
<1>2. ASSUME TypeInv, StreakInv, [Next]_vars PROVE StreakInv'
  <2>1. Mined \subseteq Mined'
    BY <1>2, MinedGrows
  <2>2. ASSUME NEW w \in Sources, ReadStreak(w) PROVE StreakInv'
    <3>1. streak' = streak
      BY <2>2 DEF ReadStreak
    <3>2. \A v \in Sources : job'[v].pc = "writeStreak" =>
             job'[v].streak = streak \/ (job[v].pc = "writeStreak" /\ job'[v].streak = job[v].streak)
      BY <1>2, <2>2 DEF ReadStreak, Finish, Idle, TypeInv, TypeOK, Job
    <3> QED BY <1>2, <2>1, <3>1, <3>2, StreakKeeps
  <2>3. ASSUME NEW w \in Sources, WriteStreak(w) PROVE StreakInv'
    <3>1. /\ job[w].streak \in Streak /\ Earned(job[w].streak, Claims \cap Mined)
          /\ job[w].log \in Claims \cap Mined
      BY <1>2, <2>3 DEF WriteStreak, At, StreakInv, TypeInv, TypeOK, JobsFit, Job
    <3>3. \A v \in Sources : job'[v].pc = "writeStreak" =>
             job[v].pc = "writeStreak" /\ job'[v].streak = job[v].streak
      BY <1>2, <2>3 DEF WriteStreak, Finish, Idle, TypeInv, TypeOK
    <3>4. streak' = streak \/ Earned(streak', Claims \cap Mined)
      <4>1. CASE streak' = streak
        BY <4>1
      <4>2. CASE streak' # streak
        <5>1. /\ streak'.day = ComputeStreakDay(job[w].streak.day, job[w].streak.last,
                                                DayOf[job[w].log])
              /\ streak'.last = DayOf[job[w].log]
          BY <2>3, <4>2 DEF WriteStreak
        <5> QED BY <3>1, <5>1, ClaimEarns
      <4> QED BY <4>1, <4>2
    <3> QED BY <1>2, <2>1, <3>3, <3>4, StreakKeeps
  <2>4. CASE /\ streak' = streak
             /\ \E w \in Sources : /\ \A v \in Sources : v # w => job'[v] = job[v]
                                   /\ job'[w].pc # "writeStreak"
    BY <1>2, <2>1, <2>4, StreakKeeps
  <2>5. ASSUME NEW w \in Sources,
               ClaimTicketEvent(w) \/ Record(w) \/ ReadRow(w) \/ WriteRow(w)
        PROVE  StreakInv'
    <3>1. streak' = streak
      BY <2>5 DEF ClaimTicketEvent, Record, ReadRow, WriteRow
    <3>2. \/ Finish(w) \/ Goto(w, "record") \/ Goto(w, "readRow")
          \/ (job[w].pc \in {"readRow", "writeRow"} /\ AfterDelta(w))
          \/ job' = [job EXCEPT ![w].pc = "writeRow", ![w].row = row]
      BY <2>5 DEF ClaimTicketEvent, Record, ReadRow, WriteRow, At
    <3>3. /\ job \in [Sources -> Job] /\ job[w] \in Job
          /\ Idle.pc = "idle"
      BY <1>2 DEF TypeInv, TypeOK, Idle
    <3>4. /\ \A v \in Sources : v # w => job'[v] = job[v]
          /\ job'[w].pc # "writeStreak"
      <4>1. CASE Finish(w)
        BY <3>3, <4>1 DEF Finish
      <4>2. CASE Goto(w, "record") \/ Goto(w, "readRow")
        BY <3>3, <4>2 DEF Goto, Job
      <4>3. CASE job[w].pc \in {"readRow", "writeRow"} /\ AfterDelta(w)
        BY <1>2, <3>3, <4>3, AfterDeltaShape
      <4>4. CASE job' = [job EXCEPT ![w].pc = "writeRow", ![w].row = row]
        BY <3>3, <4>4 DEF Job
      <4> QED BY <3>2, <4>1, <4>2, <4>3, <4>4
    <3> QED BY <2>4, <3>1, <3>4
  <2>6. CASE (\E e \in Logs : Deliver(e)) \/ (\E b \in Backfills : DispatchTicketLog(b))
    <3>1. streak' = streak
      BY <2>6 DEF Deliver, DispatchTicketLog, outsideBackfill
    <3>2. PICK w \in Sources, e \in Logs :
             job' = [job EXCEPT ![w] = [Idle EXCEPT !.pc = "claim", !.log = e]]
      BY <1>2, <2>6 DEF Deliver, DispatchTicketLog, Sources, TypeInv, TypeOK, Backfill
    <3>3. /\ \A v \in Sources : v # w => job'[v] = job[v]
          /\ job'[w].pc # "writeStreak"
      BY <1>2, <3>2 DEF Idle, TypeInv, TypeOK
    <3> QED BY <2>4, <3>1, <3>3
  <2>7. CASE Restart
    <3>1. streak' = streak /\ \A v \in Sources : job'[v].pc # "writeStreak"
      BY <2>7 DEF Restart, tables, Idle
    <3> QED BY <1>2, <2>1, <3>1, StreakKeeps
  <2>8. CASE \/ NewBlock \/ DebitTicketForSession \/ RefundTicketForSession \/ UNCHANGED vars
             \/ \E b \in Backfills : GetBlockNumber(b) \/ ReadSyncCursor(b)
                                     \/ GetContractEvents(b) \/ WriteSyncCursor(b)
    <3>1. UNCHANGED <<job, streak>>
      BY <2>8 DEF NewBlock, DebitTicketForSession, RefundTicketForSession, GetBlockNumber,
         ReadSyncCursor, GetContractEvents, WriteSyncCursor, outsideBackfill, tables, vars
    <3> QED BY <1>2, <2>1, <3>1, StreakKeeps
  <2> QED BY <1>2, <2>2, <2>3, <2>5, <2>6, <2>7, <2>8 DEF Next, Handle, BackfillStep
<1>3. StreakInv => StreakIsEarned
  BY DEF StreakInv, StreakIsEarned
<1> QED BY <1>1, <1>2, <1>3, MirrorTypes, PTL DEF Spec

----------------------------------------------------------------------------
(* The cursor *)

\* A backfill that is about to read has nothing to find behind its next block; one
\* that has read up to `to' finds the rest in its list or is claiming it.
RunCovers(b) ==
    /\ backfill[b].pc = "fetch" =>
          /\ backfill[b].next <= backfill[b].target
          /\ \A e \in Mined : minedIn[e] <= backfill[b].next - 1 => e \in seen \cup forgone
    /\ backfill[b].pc = "apply" =>
          /\ backfill[b].to <= backfill[b].target
          /\ \A e \in Mined : minedIn[e] <= backfill[b].to =>
                \/ e \in seen \cup forgone
                \/ e \in backfill[b].todo \/ (At(b, "claim") /\ job[b].log = e)

CursorCovers == \A e \in Mined : minedIn[e] <= cursor => e \in seen \cup forgone

CursorInv ==
    /\ cursor <= head
    /\ CursorCovers
    /\ \A b \in Backfills : RunCovers(b)

LEMMA CursorKeeps ==
    ASSUME TypeInv, TypeInv', CursorInv, UNCHANGED <<head, minedIn>>,
           forgone \subseteq forgone', seen \subseteq seen',
           cursor' = cursor \/ (cursor' <= head /\ CursorCovers'),
           \A b \in Backfills :
              \/ /\ backfill'[b] = backfill[b]
                 /\ At(b, "claim") => job'[b] = job[b] \/ job[b].log \in seen' \cup forgone'
              \/ RunCovers(b)'
    PROVE  CursorInv'
<1>1. Mined' = Mined /\ seen \cup forgone \subseteq seen' \cup forgone'
  BY DEF Mined
<1>2. cursor' <= head' /\ CursorCovers'
  <2>1. CASE cursor' = cursor
    BY <1>1, <2>1 DEF CursorInv, CursorCovers
  <2>2. CASE cursor' <= head /\ CursorCovers'
    BY <2>2
  <2> QED BY <2>1, <2>2
<1>3. ASSUME NEW b \in Backfills, backfill'[b] = backfill[b],
             At(b, "claim") => job'[b] = job[b] \/ job[b].log \in seen' \cup forgone'
      PROVE  RunCovers(b)'
  <2>1. RunCovers(b)
    BY DEF CursorInv
  <2>2. ASSUME backfill[b].pc = "apply", NEW e \in Mined, minedIn[e] <= backfill[b].to
        PROVE  \/ e \in seen' \cup forgone'
               \/ e \in backfill[b].todo \/ (At(b, "claim")' /\ job'[b].log = e)
    <3>1. \/ e \in seen \cup forgone
          \/ e \in backfill[b].todo \/ (At(b, "claim") /\ job[b].log = e)
      BY <2>1, <2>2 DEF RunCovers
    <3> QED BY <1>1, <1>3, <3>1 DEF At
  <2> QED BY <1>1, <1>3, <2>1, <2>2 DEF RunCovers
<1> QED BY <1>2, <1>3 DEF CursorInv

\* What is mined lies above every block a backfill of the moment can reach.
LEMMA NewBlockCursor == ASSUME TypeInv, CursorInv, NewBlock PROVE CursorInv'
<1>1. /\ head \in Nat /\ cursor \in Int /\ head' = head + 1
      /\ UNCHANGED <<seen, cursor, job, backfill, forgone>>
  BY DEF NewBlock, tables, TypeInv, TypeOK, NoBlock
<1>2. ASSUME NEW e \in Mined', NEW n \in Int, n <= head, minedIn'[e] <= n
      PROVE  e \in Mined /\ minedIn[e] <= n
  BY <1>1, <1>2 DEF NewBlock, Mined, TypeInv, TypeOK
<1>3. cursor' <= head' /\ CursorCovers'
  BY <1>1, <1>2 DEF CursorInv, CursorCovers
<1>4. ASSUME NEW b \in Backfills PROVE RunCovers(b)'
  <2>1. /\ backfill[b].target \in Nat /\ backfill[b].target <= head
        /\ backfill[b].to \in Nat /\ backfill[b].next \in Nat /\ RunCovers(b)
    BY DEF TypeInv, TypeOK, TargetsFit, Backfill, CursorInv
  <2>2. ASSUME backfill[b].pc = "fetch"
        PROVE  \A e \in Mined' : minedIn'[e] <= backfill[b].next - 1 => e \in seen \cup forgone
    <3>1. backfill[b].next - 1 \in Int /\ backfill[b].next - 1 <= head
      BY <1>1, <2>1, <2>2 DEF RunCovers
    <3> QED BY <1>2, <2>1, <2>2, <3>1 DEF RunCovers
  <2>3. ASSUME backfill[b].pc = "apply"
        PROVE  \A e \in Mined' : minedIn'[e] <= backfill[b].to =>
                  e \in seen \cup forgone \/ e \in backfill[b].todo \/ (At(b, "claim") /\ job[b].log = e)
    <3>1. backfill[b].to \in Int /\ backfill[b].to <= head
      BY <1>1, <2>1, <2>3 DEF RunCovers
    <3> QED BY <1>2, <2>1, <2>3, <3>1 DEF RunCovers
  <2> QED BY <1>1, <2>1, <2>2, <2>3 DEF RunCovers, At
<1> QED BY <1>3, <1>4 DEF CursorInv

\* The step of a backfill that leaves the handlers alone.
LEMMA BackfillCursor ==
    ASSUME TypeInv, TypeInv', CursorInv, NEW b \in Backfills, NEW run,
           backfill' = [backfill EXCEPT ![b] = run], RunCovers(b)',
           forgone \subseteq forgone', cursor' = cursor \/ (cursor' <= head /\ CursorCovers'),
           UNCHANGED <<outsideBackfill, job>>
    PROVE  CursorInv'
<1>1. \A c \in Backfills : c # b => backfill'[c] = backfill[c]
  BY DEF TypeInv, TypeOK
<1>2. UNCHANGED <<head, minedIn, seen, job>>
  BY DEF outsideBackfill
<1> QED BY <1>1, <1>2, CursorKeeps

\* A backfill may start from a block when nothing behind it is missing.
LEMMA StartFromCursor ==
    ASSUME TypeInv, TypeInv', CursorInv, NEW b \in Backfills, NEW from \in Nat,
           StartFrom(b, from),
           forgone \subseteq forgone', cursor' = cursor \/ (cursor' <= head /\ CursorCovers'),
           \A e \in Mined : minedIn[e] <= from - 1 => e \in seen' \cup forgone',
           UNCHANGED <<outsideBackfill, job>>
    PROVE  CursorInv'
<1>1. backfill \in [Backfills -> Backfill] /\ UNCHANGED <<minedIn, seen>> /\ Mined' = Mined
  BY DEF TypeInv, TypeOK, outsideBackfill, Mined
<1>2. CASE backfill' = [backfill EXCEPT ![b] = Asleep]
  <2>1. RunCovers(b)'
    BY <1>1, <1>2 DEF RunCovers, Asleep
  <2> QED BY <1>2, <2>1, BackfillCursor
<1>3. ASSUME NEW r \in Backfill,
             backfill' = [backfill EXCEPT ![b] = r], r.pc = "fetch", r.next = from,
             from <= r.target
      PROVE  CursorInv'
  <2>1. RunCovers(b)'
    BY <1>1, <1>3 DEF RunCovers
  <2> QED BY <1>3, <2>1, BackfillCursor
<1> QED BY <1>2, <1>3, StartFromShape

LEMMA ReadSyncCursorCursor ==
    ASSUME TypeInv, TypeInv', CursorInv, NEW b \in Backfills, ReadSyncCursor(b)
    PROVE  CursorInv'
<1>1. /\ ColdStartFrom(b) \in Nat /\ cursor \in Nat \cup {NoBlock} /\ cursor \in Int
      /\ minedIn \in [Logs -> Nat] /\ Mined \subseteq Logs
  BY ColdStartIsNat DEF TypeInv, TypeOK, Mined, NoBlock
<1>2. UNCHANGED <<outsideBackfill, job, cursor, seen>>
  BY DEF ReadSyncCursor, outsideBackfill
<1>3. CASE StartFrom(b, ColdStartFrom(b)) /\ forgone' = forgone \cup PassedOver(b)
  <2>1. ASSUME NEW e \in Mined, minedIn[e] <= ColdStartFrom(b) - 1
        PROVE  e \in seen' \cup forgone'
    <3>1. CASE minedIn[e] <= cursor
      BY <1>2, <1>3, <3>1 DEF CursorInv, CursorCovers
    <3>2. CASE ~(minedIn[e] <= cursor)
      <4>1. minedIn[e] > cursor /\ minedIn[e] < ColdStartFrom(b)
        BY <1>1, <2>1, <3>2
      <4> QED BY <1>2, <1>3, <4>1 DEF PassedOver
    <3> QED BY <3>1, <3>2
  <2> QED BY <1>1, <1>2, <1>3, <2>1, StartFromCursor
<1>4. CASE cursor # NoBlock /\ StartFrom(b, cursor + 1) /\ forgone' = forgone
  <2>1. cursor + 1 \in Nat /\ (cursor + 1) - 1 = cursor
    BY <1>1, <1>4
  <2>2. \A e \in Mined : minedIn[e] <= (cursor + 1) - 1 => e \in seen' \cup forgone'
    BY <1>2, <1>4, <2>1 DEF CursorInv, CursorCovers
  <2> QED BY <1>2, <1>4, <2>1, <2>2, StartFromCursor
<1> QED BY <1>3, <1>4 DEF ReadSyncCursor

LEMMA GetContractEventsCursor ==
    ASSUME TypeInv, TypeInv', CursorInv, NEW b \in Backfills, GetContractEvents(b)
    PROVE  CursorInv'
<1>1. /\ UNCHANGED <<outsideBackfill, cursor, job, forgone>>
      /\ backfill \in [Backfills -> Backfill] /\ backfill[b].pc = "fetch"
      /\ backfill[b].next \in Nat /\ backfill[b].target \in Nat /\ RunCovers(b)
      /\ minedIn \in [Logs -> Nat] /\ Mined \subseteq Logs
  BY DEF GetContractEvents, TypeInv, TypeOK, Backfill, CursorInv, Mined
<1>2. UNCHANGED <<minedIn, seen>> /\ Mined' = Mined
  BY <1>1 DEF outsideBackfill, Mined
<1>0. forgone \subseteq forgone' /\ cursor' = cursor /\ UNCHANGED <<outsideBackfill, job>>
  BY <1>1
<1> DEFINE last == backfill[b].next + Chunk - 1
           to == IF last > backfill[b].target THEN backfill[b].target ELSE last
           todo == Between(backfill[b].next, to)
           run == [backfill[b] EXCEPT !.pc = "apply", !.to = to, !.todo = todo]
<1>3. to \in Int /\ to <= backfill[b].target
  BY <1>1, BackfillParameters
<1>4. \A e \in Mined : minedIn[e] <= to => e \in seen \cup forgone \/ e \in todo
  <2> HIDE DEF to
  <2> SUFFICES ASSUME NEW e \in Mined, minedIn[e] <= to
               PROVE  e \in seen \cup forgone \/ e \in Between(backfill[b].next, to)
    OBVIOUS
  <2>1. CASE minedIn[e] <= backfill[b].next - 1
    BY <1>1, <1>3, <2>1 DEF RunCovers
  <2>2. CASE ~(minedIn[e] <= backfill[b].next - 1)
    <3>1. minedIn[e] \in backfill[b].next..to
      BY <1>1, <1>3, <2>2
    <3> QED BY <3>1 DEF Between
  <2> QED BY <2>1, <2>2
<1>5. CASE backfill' = [backfill EXCEPT ![b] = Asleep]
  <2>1. RunCovers(b)'
    BY <1>1, <1>5 DEF RunCovers, Asleep
  <2> QED BY <1>0, <1>5, <2>1, BackfillCursor
<1>6. CASE backfill' = [backfill EXCEPT ![b].pc = "apply", ![b].to = to, ![b].todo = todo]
  <2> HIDE DEF to, todo
  <2>1. backfill' = [backfill EXCEPT ![b] = run]
    BY <1>1, <1>6
  <2>2. /\ run.pc = "apply" /\ run.to = to /\ run.todo = todo
        /\ run.target = backfill[b].target
    BY <1>1 DEF Backfill
  <2> HIDE DEF run
  <2>3. RunCovers(b)'
    BY <1>1, <1>2, <1>3, <1>4, <2>1, <2>2 DEF RunCovers
  <2> QED BY <1>0, <2>1, <2>3, BackfillCursor
<1> QED BY <1>5, <1>6 DEF GetContractEvents

LEMMA DispatchCursor ==
    ASSUME TypeInv, TypeInv', CursorInv, NEW b \in Backfills, DispatchTicketLog(b)
    PROVE  CursorInv'
<1>1. PICK e \in backfill[b].todo :
        /\ job' = [job EXCEPT ![b] = [Idle EXCEPT !.pc = "claim", !.log = e]]
        /\ backfill' = [backfill EXCEPT ![b].todo = @ \ {e}]
  BY DEF DispatchTicketLog
<1>2. /\ UNCHANGED <<outsideBackfill, cursor, forgone, head, minedIn, seen>> /\ Mined' = Mined
      /\ backfill[b].pc = "apply" /\ job[b].pc = "idle" /\ b \in Sources
      /\ backfill \in [Backfills -> Backfill] /\ job \in [Sources -> Job] /\ RunCovers(b)
  BY DEF DispatchTicketLog, outsideBackfill, At, Sources, TypeInv, TypeOK, CursorInv, Mined
<1>3. /\ job'[b].pc = "claim" /\ job'[b].log = e
      /\ \A c \in Backfills : c # b => job'[c] = job[c] /\ backfill'[c] = backfill[c]
  BY <1>1, <1>2 DEF Idle
<1>4. /\ backfill'[b].pc = "apply" /\ backfill'[b].to = backfill[b].to
      /\ backfill'[b].target = backfill[b].target /\ backfill'[b].todo = backfill[b].todo \ {e}
  BY <1>1, <1>2 DEF Backfill
<1>5. RunCovers(b)'
  BY <1>2, <1>3, <1>4 DEF RunCovers, At
<1> QED BY <1>2, <1>3, <1>5, CursorKeeps

LEMMA WriteSyncCursorCursor ==
    ASSUME TypeInv, TypeInv', CursorInv, NEW b \in Backfills, WriteSyncCursor(b)
    PROVE  CursorInv'
<1>1. /\ UNCHANGED <<outsideBackfill, job, forgone, minedIn, seen>> /\ Mined' = Mined
      /\ StartFrom(b, backfill[b].to + 1)
      /\ cursor' = cursor \/ cursor' = backfill[b].to
      /\ backfill[b].pc = "apply" /\ job[b].pc = "idle" /\ backfill[b].todo = {}
  BY DEF WriteSyncCursor, Processed, outsideBackfill, At, Mined
<1>2. /\ backfill[b].to \in Nat /\ backfill[b].target \in Nat /\ backfill[b].target <= head
      /\ head \in Nat /\ RunCovers(b)
  BY DEF TypeInv, TypeOK, TargetsFit, Backfill, CursorInv
<1>3. \A e \in Mined : minedIn[e] <= backfill[b].to => e \in seen \cup forgone
  BY <1>1, <1>2 DEF RunCovers, At
<1>4. cursor' = cursor \/ (cursor' <= head /\ CursorCovers')
  BY <1>1, <1>2, <1>3 DEF CursorCovers, RunCovers
<1>5. /\ backfill[b].to + 1 \in Nat /\ forgone \subseteq forgone'
      /\ (backfill[b].to + 1) - 1 = backfill[b].to
  BY <1>1, <1>2
<1> QED BY <1>1, <1>3, <1>4, <1>5, StartFromCursor

\* A handler's step only adds to seen, and a claim of a log ends with its row.
LEMMA HandleCursor ==
    ASSUME TypeInv, TypeInv', CursorInv, NEW w \in Sources, Handle(w)
    PROVE  CursorInv'
<1>1. /\ UNCHANGED <<head, minedIn, cursor>>
      /\ seen \subseteq seen' /\ forgone \subseteq forgone'
  BY DEF Handle, ClaimTicketEvent, Record, ReadRow, WriteRow, ReadStreak, WriteStreak,
         outsideHandlers, TypeInv, TypeOK
<1>2. backfill' = backfill
  BY DEF Handle, ClaimTicketEvent, Record, ReadRow, WriteRow, ReadStreak, WriteStreak,
         outsideHandlers
<1>3. \A v \in Sources : v # w => job'[v] = job[v]
  BY DEF Handle, ClaimTicketEvent, Record, ReadRow, WriteRow, ReadStreak, WriteStreak,
         AfterDelta, Finish, Goto, TypeInv, TypeOK
<1>4. w \in Backfills /\ At(w, "claim") => job[w].log \in seen' \cup forgone'
  <2>1. At(w, "claim") => ClaimTicketEvent(w)
    BY DEF Handle, Record, ReadRow, WriteRow, ReadStreak, WriteStreak, At
  <2> QED BY <2>1 DEF ClaimTicketEvent, Recorded
<1>5. ASSUME NEW b \in Backfills
      PROVE  \/ /\ backfill'[b] = backfill[b]
                /\ At(b, "claim") => job'[b] = job[b] \/ job[b].log \in seen' \cup forgone'
             \/ RunCovers(b)'
  BY <1>2, <1>3, <1>4 DEF Sources
<1>6. forgone \subseteq forgone' /\ cursor' = cursor
  BY <1>1
<1> QED BY <1>1, <1>5, <1>6, CursorKeeps

LEMMA StepCursor ==
    ASSUME TypeInv, TypeInv', CursorInv, [Next]_vars PROVE CursorInv'
<1>2. CASE UNCHANGED <<head, minedIn, seen, cursor, forgone, job, backfill>>
  BY <1>2, CursorKeeps
<1>3. ASSUME NEW e \in Logs, Deliver(e) PROVE CursorInv'
  <2>1. /\ UNCHANGED <<head, minedIn, seen, cursor, backfill>> /\ forgone \subseteq forgone'
    BY <1>3 DEF Deliver, outsideHandlers
  <2>2. \A b \in Backfills : At(b, "claim") => job'[b] = job[b]
    BY <1>3 DEF Deliver, At, Sources, TypeInv, TypeOK
  <2> QED BY <2>1, <2>2, CursorKeeps
<1>4. CASE Restart
  <2>1. /\ UNCHANGED <<head, minedIn, seen, cursor>> /\ forgone \subseteq forgone'
    BY <1>4 DEF Restart, tables
  <2>2. \A b \in Backfills : RunCovers(b)'
    BY <1>4 DEF Restart, RunCovers, Asleep
  <2> QED BY <2>1, <2>2, CursorKeeps
<1>5. ASSUME NEW b \in Backfills, GetBlockNumber(b) PROVE CursorInv'
  <2>1. /\ UNCHANGED <<outsideBackfill, job, cursor>> /\ forgone \subseteq forgone'
    BY <1>5 DEF GetBlockNumber
  <2>2. backfill' = [backfill EXCEPT ![b] = [Asleep EXCEPT !.pc = "cursor", !.target = head]]
    BY <1>5 DEF GetBlockNumber
  <2>3. RunCovers(b)'
    BY <2>2 DEF RunCovers, Asleep, TypeInv, TypeOK
  <2> QED BY <2>1, <2>2, <2>3, BackfillCursor
<1>6. DebitTicketForSession \/ RefundTicketForSession \/ UNCHANGED vars
        => UNCHANGED <<head, minedIn, seen, cursor, forgone, job, backfill>>
  BY DEF DebitTicketForSession, RefundTicketForSession, vars
<1> QED
  BY <1>2, <1>3, <1>4, <1>5, <1>6, NewBlockCursor, HandleCursor, ReadSyncCursorCursor,
     GetContractEventsCursor, DispatchCursor, WriteSyncCursorCursor DEF Next, BackfillStep

\* Whatever the backfills and the watchers do at the same time, through any number
\* of restarts and failed calls, a log the cursor has passed is in ticket_event_log,
\* or the backfill's claim of it failed, or a cold start began behind it.
THEOREM CursorSkipsOnlyForgone == Spec => []CursorCoversLogs
<1>1. Init => CursorInv
  <2>1. Init => Mined = {}
    BY DEF Init, Mined
  <2> QED BY <2>1 DEF Init, Asleep, NoBlock, CursorInv, CursorCovers, RunCovers
<1>2. TypeInv /\ TypeInv' /\ CursorInv /\ [Next]_vars => CursorInv'
  BY StepCursor
<1>3. CursorInv => CursorCoversLogs
  BY DEF CursorInv, CursorCovers, CursorCoversLogs
<1> QED BY <1>1, <1>2, <1>3, MirrorTypes, PTL DEF Spec
=============================================================================
