-------------------------- MODULE DeadlinesProofs --------------------------
(***************************************************************************)
(* The daily run for any requirements, callers, terms and bounds: types,   *)
(* one run at a time and none for a day that is recorded unless a lock was *)
(* lost, and the order in which the levels are told.                       *)
(***************************************************************************)
EXTENDS DeadlinesProperties, TLAPS

----------------------------------------------------------------------------
(* Types *)

\* What a phase has on its list and in its plan.
Lists(r) ==
    /\ r.at \in {"review", "pace", "escalate"} => r.todo \subseteq [row : Rows, due : {None}]
    /\ r.at = "remind" => r.todo \subseteq [row : Rows, due : Dates] /\ r.plan \subseteq Pending
    /\ r.at = "escalate" => r.plan \subseteq Note
    /\ r.at = "dispatch" => r.todo \subseteq Pending

TypeInv == TypeOK /\ \A c \in Callers : running(c) => Lists(run[c])

LEMMA DatesOK ==
  /\ PACE \in Dates
  /\ \A d \in Days : d \in Dates /\ d + REVIEW \in Dates
  /\ Days \subseteq Nat /\ Dates \subseteq Nat
  BY TermAssumption, BoundAssumption DEF Days, Dates

\* A run in progress has all fields.
LEMMA RunTyped ==
  ASSUME TypeInv, NEW c \in Callers, running(c)
  PROVE  run[c] \in Run /\ Lists(run[c])
  BY DEF TypeInv, TypeOK, running, Idle

\* A run that moves on leaves the others as they are.
LEMMA RunMoves ==
  ASSUME TypeInv, NEW c \in Callers, NEW new \in Run, Lists(new), run' = [run EXCEPT ![c] = new]
  PROVE  /\ run' \in [Callers -> Run \cup {Idle}]
         /\ \A d \in Callers : running(d)' => Lists(run'[d])
<1>1. run' \in [Callers -> Run \cup {Idle}]
  BY DEF TypeInv, TypeOK
<1>2. ASSUME NEW d \in Callers, running(d)' PROVE Lists(run'[d])
  BY <1>2 DEF TypeInv, TypeOK, running
<1> QED
  BY <1>1, <1>2

LEMMA RunEnds ==
  ASSUME TypeInv, NEW c \in Callers, run' = [run EXCEPT ![c] = Idle]
  PROVE  /\ run' \in [Callers -> Run \cup {Idle}]
         /\ \A d \in Callers : running(d)' => Lists(run'[d])
<1>1. run' \in [Callers -> Run \cup {Idle}]
  BY DEF TypeInv, TypeOK
<1>2. ASSUME NEW d \in Callers, running(d)' PROVE Lists(run'[d])
  BY <1>2 DEF TypeInv, TypeOK, running, Idle
<1> QED
  BY <1>1, <1>2

LEMMA RunStays ==
  ASSUME TypeInv, UNCHANGED run
  PROVE  /\ run' \in [Callers -> Run \cup {Idle}]
         /\ \A d \in Callers : running(d)' => Lists(run'[d])
  BY DEF TypeInv, TypeOK, running

\* What is told about a row is a rule, before and after.
LEMMA ToldTyped ==
  ASSUME TypeOK
  PROVE  /\ \A r \in Rows, k \in Rules : tell(r, k) \in [Rows -> Rules \cup {0}]
         /\ \A S : insert(S) => told' \in [Rows -> Rules \cup {0}]
<1>1. \A k \in Rules : countsAs(k) \in Rules
  BY DEF countsAs, Rules
<1> QED
  BY <1>1 DEF tell, insert, Rules, TypeOK

\* Reminders of a date are notifications of the row.
LEMMA RemindersTyped ==
  ASSUME TypeOK, NEW r \in Rows, NEW d \in Dates
  PROVE  reminders(r, d) \subseteq Pending
<1> SUFFICES ASSUME NEW o \in REMIND, today + o <= d PROVE d - o \in Dates
  BY DEF reminders, Pending
<1>1. o \in Nat /\ d \in Nat /\ today \in Nat /\ LastDay + REVIEW + PACE \in Nat
  BY TermAssumption, BoundAssumption DEF TypeOK, Days, Dates
<1>2. d <= LastDay + REVIEW + PACE
  BY DEF Dates
<1> QED
  BY <1>1, <1>2 DEF Dates

THEOREM TypeInit == Init => TypeInv
<1> SUFFICES ASSUME Init PROVE TypeInv
  OBVIOUS
<1>1. today \in Days
  BY BoundAssumption DEF Init, Days
<1>2. status \in [Rows -> Statuses] /\ due \in [Rows -> Dates \cup {None}]
  BY DatesOK DEF Init, Statuses
<1>3. run \in [Callers -> Run \cup {Idle}] /\ \A c \in Callers : ~running(c)
  BY DEF Init, running, Idle
<1> QED
  BY <1>1, <1>2, <1>3 DEF Init, TypeInv, TypeOK

\* What people do.
LEMMA PeopleTyped == TypeInv /\ People => TypeInv'
<1> SUFFICES ASSUME TypeInv, People PROVE TypeInv'
  OBVIOUS
<1>1. CASE \E r \in Rows : signOff(r) \/ confirmModuleRef(r) \/ setAside(r) \/ withdrawSignOff(r)
  <2>1. PICK r \in Rows : signOff(r) \/ confirmModuleRef(r) \/ setAside(r) \/ withdrawSignOff(r)
    BY <1>1
  <2>2. UNCHANGED <<today, noteVars, runVars>>
    BY <2>1 DEF signOff, confirmModuleRef, setAside, withdrawSignOff
  <2>3. status' \in [Rows -> Statuses]
    BY <2>1 DEF signOff, confirmModuleRef, setAside, withdrawSignOff, TypeInv, TypeOK, Statuses
  <2>4. due' \in [Rows -> Dates \cup {None}]
    <3>1. today + REVIEW \in Dates /\ PACE \in Dates
      BY DatesOK DEF TypeInv, TypeOK
    <3> QED
      BY <2>1, <3>1 DEF signOff, confirmModuleRef, setAside, withdrawSignOff, TypeInv, TypeOK
  <2>5. tasks' \subseteq Task
    BY <2>1 DEF signOff, confirmModuleRef, setAside, withdrawSignOff, TypeInv, TypeOK, Task
  <2> QED
    BY <2>2, <2>3, <2>4, <2>5, RunStays DEF noteVars, runVars, TypeInv, TypeOK
<1>2. CASE (\E r \in standing : acknowledge(r)) \/ (\E n \in pending : acknowledgePending(n))
  <2>1. UNCHANGED <<today, rowVars, told, tasks, runVars>>
    BY <1>2 DEF acknowledge, acknowledgePending
  <2>2. pending' \subseteq pending /\ standing' \subseteq standing
    BY <1>2 DEF acknowledge, acknowledgePending
  <2> QED
    BY <2>1, <2>2, RunStays DEF rowVars, runVars, TypeInv, TypeOK
<1> QED
  BY <1>1, <1>2 DEF People

\* What happens in the background.
LEMMA TasksTyped ==
  TypeInv /\ (\E t \in tasks : Background(t) \/ TaskLost(t)) => TypeInv'
<1> SUFFICES ASSUME TypeInv, NEW t \in tasks, Background(t) \/ TaskLost(t) PROVE TypeInv'
  OBVIOUS
<1>1. t \in Task /\ t.row \in Rows /\ t.day \in Days
  BY DEF TypeInv, TypeOK, Task
<1>2. t.day + REVIEW \in Dates /\ t.day \in Dates
  BY <1>1, DatesOK
<1>3. \A at \in {"date", "cancel", "insert", "notice"} : [t EXCEPT !.at = at] \in Task
  BY <1>1 DEF Task
<1>4. UNCHANGED <<today, status, runVars>>
  BY DEF Background, TaskLost, scheduleDate, cancelPending, insertReminders,
         announceWithdrawal, rowVars
<1>5. due' \in [Rows -> Dates \cup {None}]
  BY <1>1, <1>2 DEF Background, TaskLost, scheduleDate, cancelPending, insertReminders,
         announceWithdrawal, rowVars, TypeInv, TypeOK
<1>6. tasks' \subseteq Task
  BY <1>3 DEF Background, TaskLost, scheduleDate, cancelPending, insertReminders,
         announceWithdrawal, Then, TypeInv, TypeOK
<1>7. pending' \subseteq Pending
  <2>1. reminders(t.row, t.day + REVIEW) \subseteq Pending
    BY <1>1, <1>2, RemindersTyped DEF TypeInv
  <2>2. [row |-> t.row, on |-> t.day] \in Pending
    BY <1>1, <1>2 DEF Pending
  <2> QED
    BY <2>1, <2>2 DEF Background, TaskLost, scheduleDate, cancelPending, insertReminders,
         announceWithdrawal, insert, noteVars, TypeInv, TypeOK
<1>8. told' \in [Rows -> Rules \cup {0}] /\ standing' \subseteq Rows
  <2>1. UNCHANGED told \/ \E S : insert(S)
    BY DEF Background, TaskLost, scheduleDate, cancelPending, insertReminders,
           announceWithdrawal, noteVars
  <2>2. standing' \subseteq standing
    BY DEF Background, TaskLost, scheduleDate, cancelPending, insertReminders,
           announceWithdrawal, noteVars
  <2> QED
    BY <2>1, <2>2, ToldTyped DEF TypeInv, TypeOK
<1> QED
  BY <1>4, <1>5, <1>6, <1>7, <1>8, RunStays DEF runVars, TypeInv, TypeOK

\* A run starts, ends, or is broken off.
LEMMA EndsTyped ==
  ASSUME TypeInv, NEW c \in Callers,
         deadlinesOnce(c) \/ ranFor(c) \/ recordRun(c) \/ RunFails(c) \/ LockLost(c) \/ Restart(c)
  PROVE  TypeInv'
<1>1. UNCHANGED <<today, rowVars, noteVars, tasks>>
  BY DEF deadlinesOnce, ranFor, recordRun, RunFails, LockLost, Restart
<1>2. running(c) => run[c] \in Run /\ run[c].day \in Days
  BY RunTyped DEF Run
<1>3. recorded' \subseteq Days /\ lock' \in Callers \cup {None} /\ settled' \subseteq Schedules
  BY <1>2 DEF deadlinesOnce, ranFor, recordRun, RunFails, LockLost, Restart, Leave, TypeInv, TypeOK, running
<1>4. /\ run' \in [Callers -> Run \cup {Idle}]
      /\ \A d \in Callers : running(d)' => Lists(run'[d])
  <2>1. CASE run' = [run EXCEPT ![c] = Idle]
    BY <2>1, RunEnds
  <2>2. CASE deadlinesOnce(c)
    <3>1. PICK new : new = newRun
      OBVIOUS
    <3>2. new \in Run /\ Lists(new)
      BY <3>1 DEF newRun, Run, Lists, TypeInv, TypeOK
    <3> QED
      BY <2>2, <3>1, <3>2, RunMoves DEF deadlinesOnce
  <2>3. CASE run[c].at = "check" /\ run' = [run EXCEPT ![c].at = "begin"]
    <3>1. PICK new : new = [run[c] EXCEPT !.at = "begin"]
      OBVIOUS
    <3>2. new \in Run /\ Lists(new)
      BY <2>3, <3>1, <1>2 DEF Run, Lists, running
    <3> QED
      BY <2>3, <3>1, <3>2, RunMoves
  <2>4. CASE LockLost(c)
    <3>1. PICK new : new = [run[c] EXCEPT !.lossFree = FALSE]
      OBVIOUS
    <3>2. new \in Run /\ Lists(new)
      BY <2>4, <3>1, RunTyped DEF LockLost, Run, Lists
    <3> QED
      BY <2>4, <3>1, <3>2, RunMoves DEF LockLost
  <2> QED
    BY <2>1, <2>2, <2>3, <2>4 DEF ranFor, recordRun, RunFails, Restart, Leave
<1> QED
  BY <1>1, <1>3, <1>4 DEF rowVars, noteVars, TypeInv, TypeOK

\* A phase's list, as it is read.
LEMMA PhaseTyped ==
  ASSUME TypeInv, NEW c \in Callers, NEW p \in Phases, beginPhase(c, p)
  PROVE  TypeInv'
<1>1. running(c)
  BY DEF beginPhase, phaseBefore, running, Phases
<1>2. run[c] \in Run
  BY <1>1, RunTyped
<1>3. PICK new : new = [run[c] EXCEPT !.at = p, !.todo = selected(p, run[c].day)]
  OBVIOUS
<1>4. /\ p \in {"review", "pace", "escalate"} => selected(p, run[c].day) \subseteq [row : Rows, due : {None}]
      /\ p = "remind" => selected(p, run[c].day) \subseteq [row : Rows, due : Dates]
      /\ p = "dispatch" => selected(p, run[c].day) \subseteq Pending
  <2>1. p = "remind" => selected(p, run[c].day) \subseteq [row : Rows, due : Dates]
    BY DEF selected, asRead, dated, TypeInv, TypeOK
  <2>2. p = "dispatch" => selected(p, run[c].day) \subseteq Pending
    BY DEF selected, TypeInv, TypeOK
  <2>3. p \in {"review", "pace", "escalate"} => selected(p, run[c].day) \subseteq [row : Rows, due : {None}]
    BY DEF selected, byId
  <2> QED
    BY <2>1, <2>2, <2>3
<1>5. new \in Run /\ Lists(new)
  BY <1>2, <1>3, <1>4 DEF Run, Lists, beginPhase, Phases
<1>6. run' = [run EXCEPT ![c] = new]
  BY <1>3 DEF beginPhase
<1> QED
  BY <1>5, <1>6, RunMoves DEF beginPhase, rowVars, noteVars, TypeInv, TypeOK

\* Work of a phase on one row or notification.
LEMMA HandledTyped ==
  ASSUME TypeInv, NEW c \in Callers, running(c), NEW i, NEW plan, Handled(c, i, plan),
         plan # {} => \/ run[c].at = "remind" /\ plan \subseteq Pending
                      \/ run[c].at = "escalate" /\ plan \subseteq Note,
         status' \in [Rows -> Statuses], due' \in [Rows -> Dates \cup {None}],
         pending' \subseteq Pending, standing' \subseteq Rows, told' \in [Rows -> Rules \cup {0}]
  PROVE  TypeInv'
<1>1. run[c] \in Run /\ Lists(run[c])
  BY RunTyped
<1>2. PICK new : new = [run[c] EXCEPT !.todo = @ \ {i}, !.plan = plan]
  OBVIOUS
<1>3. new \in Run /\ Lists(new)
  BY <1>1, <1>2 DEF Run, Lists
<1>4. run' = [run EXCEPT ![c] = new]
  BY <1>2 DEF Handled
<1> QED
  BY <1>3, <1>4, RunMoves DEF Handled, TypeInv, TypeOK

LEMMA WorkTyped ==
  ASSUME TypeInv, NEW c \in Callers, Work(c)
  PROVE  TypeInv'
<1>1. running(c) /\ run[c] \in Run /\ Lists(run[c])
  BY RunTyped DEF Work
<1>2. ASSUME NEW i \in run[c].todo, moveToReview(c, i) \/ backfillPace(c, i)
      PROVE  TypeInv'
  <2>1. PACE \in Dates
    BY DatesOK
  <2>2. status' \in [Rows -> Statuses] /\ due' \in [Rows -> Dates \cup {None}]
    BY <1>2, <2>1 DEF moveToReview, backfillPace, TypeInv, TypeOK, Statuses
  <2>3. UNCHANGED noteVars /\ Handled(c, i, {})
    BY <1>2 DEF moveToReview, backfillPace
  <2> QED
    BY <1>1, <2>2, <2>3, HandledTyped DEF noteVars, TypeInv, TypeOK
<1>3. ASSUME NEW i \in run[c].todo, planReminders(c, i)
      PROVE  TypeInv'
  <2>1. PICK plan : plan = IF active(i.row) THEN {} ELSE reminders(i.row, i.due)
    OBVIOUS
  <2>2. i.row \in Rows /\ i.due \in Dates
    BY <1>1, <1>3 DEF planReminders, Lists
  <2>3. plan \subseteq Pending
    BY <2>1, <2>2, RemindersTyped DEF TypeInv
  <2>4. Handled(c, i, plan) /\ UNCHANGED <<rowVars, noteVars>> /\ run[c].at = "remind"
    BY <1>3, <2>1 DEF planReminders
  <2> QED
    BY <1>1, <2>3, <2>4, HandledTyped DEF rowVars, noteVars, TypeInv, TypeOK
<1>4. ASSUME NEW i \in run[c].todo, planEscalation(c, i)
      PROVE  TypeInv'
  <2>1. PICK plan : plan = IF ~dated(i.row, today) THEN {}
                           ELSE {[row |-> i.row, rule |-> k] : k \in applicable(i.row)}
    OBVIOUS
  <2>2. i.row \in Rows
    BY <1>1, <1>4 DEF planEscalation, Lists
  <2>3. plan \subseteq Note
    BY <2>1, <2>2 DEF Note, applicable
  <2>4. Handled(c, i, plan) /\ UNCHANGED <<rowVars, noteVars>> /\ run[c].at = "escalate"
    BY <1>4, <2>1 DEF planEscalation
  <2> QED
    BY <1>1, <2>3, <2>4, HandledTyped DEF rowVars, noteVars, TypeInv, TypeOK
<1>5. ASSUME NEW i \in run[c].todo, markSent(c, i)
      PROVE  TypeInv'
  <2>1. i \in Pending
    BY <1>1, <1>5 DEF markSent, Lists
  <2>2. pending' \subseteq Pending /\ standing' \subseteq Rows
    BY <1>5, <2>1 DEF markSent, Pending, TypeInv, TypeOK
  <2>3. Handled(c, i, {}) /\ UNCHANGED <<rowVars, told>>
    BY <1>5 DEF markSent
  <2> QED
    BY <1>1, <2>2, <2>3, HandledTyped DEF rowVars, TypeInv, TypeOK
<1>6. CASE makeReminders(c)
  <2>1. PICK new : new = [run[c] EXCEPT !.plan = {}]
    OBVIOUS
  <2>2. new \in Run /\ Lists(new)
    BY <1>1, <2>1 DEF Run, Lists
  <2>3. run' = [run EXCEPT ![c] = new] /\ pending' \subseteq Pending
    BY <1>1, <1>6, <2>1 DEF makeReminders, insert, Lists, TypeInv, TypeOK
  <2>4. told' \in [Rows -> Rules \cup {0}]
    BY <1>6, ToldTyped DEF makeReminders, TypeInv
  <2> QED
    BY <1>6, <2>2, <2>3, <2>4, RunMoves DEF makeReminders, rowVars, TypeInv, TypeOK
<1>7. CASE processEscalation(c)
  <2>1. PICK n \in run[c].plan :
          /\ \/ told' = tell(n.row, n.rule) /\ standing' = standing \cup {n.row}
             \/ UNCHANGED <<told, standing>>
          /\ run' = [run EXCEPT ![c].plan = @ \ {n}]
    BY <1>7 DEF processEscalation
  <2>2. PICK new : new = [run[c] EXCEPT !.plan = @ \ {n}]
    OBVIOUS
  <2>3. new \in Run /\ Lists(new)
    BY <1>1, <2>2 DEF Run, Lists
  <2>4. n.row \in Rows /\ n.rule \in Rules
    BY <1>1, <1>7, <2>1 DEF processEscalation, Lists, Note
  <2>5. told' \in [Rows -> Rules \cup {0}] /\ standing' \subseteq Rows
    BY <2>1, <2>4, ToldTyped DEF TypeInv, TypeOK
  <2> QED
    BY <1>7, <2>1, <2>2, <2>3, <2>5, RunMoves DEF processEscalation, rowVars, TypeInv, TypeOK
<1> QED
  BY <1>2, <1>3, <1>4, <1>5, <1>6, <1>7 DEF Work

LEMMA MidnightTyped == TypeInv /\ Midnight => TypeInv'
<1> SUFFICES ASSUME TypeInv, Midnight PROVE TypeInv'
  OBVIOUS
<1>1. today' \in Days
  BY BoundAssumption DEF Midnight, Days, TypeInv, TypeOK
<1>2. recorded' \subseteq Days /\ settled' \subseteq Schedules
  BY DEF Midnight, TypeInv, TypeOK
<1> QED
  BY <1>1, <1>2, RunStays DEF Midnight, rowVars, noteVars, TypeInv, TypeOK

LEMMA TypeStep == TypeInv /\ [Next]_vars => TypeInv'
<1> SUFFICES ASSUME TypeInv, [Next]_vars PROVE TypeInv'
  OBVIOUS
<1>1. CASE UNCHANGED vars
  BY <1>1, RunStays DEF vars, rowVars, noteVars, runVars, TypeInv, TypeOK
<1>2. ASSUME NEW c \in Callers, \E p \in Phases : beginPhase(c, p) PROVE TypeInv'
  BY <1>2, PhaseTyped
<1> QED
  BY <1>1, <1>2, PeopleTyped, TasksTyped, EndsTyped, WorkTyped, MidnightTyped DEF Next

\* Every variable keeps its type, and each phase has on its list what it works on.
THEOREM TypeCorrect == Spec => []TypeOK
<1>1. Spec => []TypeInv
  BY TypeInit, TypeStep, PTL DEF Spec
<1> QED
  BY <1>1, PTL DEF TypeInv

----------------------------------------------------------------------------
(* One run at a time, and none for a day that is recorded *)

\* A run whose lock was not lost still holds it, and nobody runs beside it.
LockKept ==
    \A c \in Callers : running(c) /\ run[c].lossFree =>
        /\ lock = c
        /\ \A d \in Callers : running(d) => d = c

OnceInv == TypeInv /\ RunsOnce /\ LockKept

LEMMA OnceInit == Init => RunsOnce /\ LockKept
  BY DEF Init, RunsOnce, LockKept, running, Idle

\* A run that goes on where it is leaves the others, the lock and the records alone.
LEMMA OnceKept ==
  ASSUME OnceInv, UNCHANGED <<lock, recorded>>, NEW c \in Callers, NEW new, running(c),
         run' = [run EXCEPT ![c] = new], new.day = run[c].day, new.at # "idle",
         new.lossFree = run[c].lossFree,
         run[c].at = "check" /\ new.at # "check" => run[c].day \notin recorded
  PROVE  RunsOnce' /\ LockKept'
<1>1. \A d \in Callers : run'[d] = IF d = c THEN new ELSE run[d]
  BY DEF OnceInv, TypeInv, TypeOK
<1> QED
  BY <1>1 DEF OnceInv, RunsOnce, LockKept, running

\* A run that ends gives back no lock but its own.
LEMMA OnceEnded ==
  ASSUME OnceInv, NEW c \in Callers, run' = [run EXCEPT ![c] = Idle],
         lock' = (IF lock = c THEN None ELSE lock), running(c) \/ UNCHANGED recorded
  PROVE  RunsOnce' /\ LockKept'
<1>1. ASSUME NEW d \in Callers, running(d)' PROVE d # c /\ running(d) /\ run'[d] = run[d]
  BY <1>1 DEF OnceInv, TypeInv, TypeOK, running, Idle
<1>2. ASSUME NEW d \in Callers, running(d)', run'[d].lossFree PROVE UNCHANGED <<lock, recorded>>
  BY <1>1, <1>2 DEF OnceInv, LockKept
<1> QED
  BY <1>1, <1>2 DEF OnceInv, RunsOnce, LockKept

LEMMA OnceStep == OnceInv /\ [Next]_vars => RunsOnce' /\ LockKept'
<1> SUFFICES ASSUME OnceInv, [Next]_vars PROVE RunsOnce' /\ LockKept'
  OBVIOUS
<1>1. CASE UNCHANGED runVars
  BY <1>1 DEF OnceInv, RunsOnce, LockKept, running, runVars
<1>2. CASE UNCHANGED vars
  BY <1>1, <1>2 DEF vars
<1>3. CASE People
  <2>1. UNCHANGED runVars
    BY <1>3 DEF People, signOff, confirmModuleRef, setAside, withdrawSignOff, acknowledge,
                acknowledgePending
  <2> QED
    BY <1>1, <2>1
<1>4. CASE \E t \in tasks : Background(t) \/ TaskLost(t)
  <2>1. UNCHANGED runVars
    BY <1>4 DEF Background, TaskLost, scheduleDate, cancelPending, insertReminders,
                announceWithdrawal
  <2> QED
    BY <1>1, <2>1
<1>5. ASSUME NEW c \in Callers, deadlinesOnce(c) PROVE RunsOnce' /\ LockKept'
  <2>1. \A d \in Callers : running(d) => ~run[d].lossFree
    BY <1>5, NoneAssumption DEF deadlinesOnce, OnceInv, LockKept
  <2>2. \A d \in Callers : run'[d] = IF d = c THEN newRun ELSE run[d]
    BY <1>5 DEF deadlinesOnce, OnceInv, TypeInv, TypeOK
  <2>3. newRun.lossFree = (\A d \in Callers : ~running(d)) /\ newRun.at = "check"
    BY <2>1 DEF newRun
  <2>4. lock' = c /\ ~running(c)
    BY <1>5 DEF deadlinesOnce
  <2> QED
    BY <2>1, <2>2, <2>3, <2>4 DEF RunsOnce, LockKept, running
<1>6. ASSUME NEW c \in Callers, ranFor(c) PROVE RunsOnce' /\ LockKept'
  <2>1. running(c) /\ run[c] \in Run
    BY <1>6, RunTyped DEF ranFor, running, OnceInv
  <2>2. CASE Leave(c, TRUE)
    BY <1>6, <2>1, <2>2, OnceEnded DEF Leave
  <2>3. CASE run[c].day \notin recorded /\ run' = [run EXCEPT ![c].at = "begin"]
             /\ UNCHANGED <<lock, settled>>
    <3>1. PICK new : new = [run[c] EXCEPT !.at = "begin"]
      OBVIOUS
    <3>2. new.day = run[c].day /\ new.at = "begin" /\ new.lossFree = run[c].lossFree
      BY <2>1, <3>1 DEF Run
    <3> QED
      BY <1>6, <2>1, <2>3, <3>1, <3>2, OnceKept DEF ranFor
  <2> QED
    BY <1>6, <2>2, <2>3 DEF ranFor
<1>7. ASSUME NEW c \in Callers, recordRun(c) \/ RunFails(c) \/ Restart(c) PROVE RunsOnce' /\ LockKept'
  <2>1. run' = [run EXCEPT ![c] = Idle] /\ lock' = IF lock = c THEN None ELSE lock
    BY <1>7 DEF recordRun, RunFails, Restart, Leave
  <2>2. running(c) \/ UNCHANGED recorded
    BY <1>7 DEF recordRun, RunFails, Restart, running
  <2> QED
    BY <2>1, <2>2, OnceEnded
<1>8. ASSUME NEW c \in Callers, NEW p \in Phases, beginPhase(c, p) PROVE RunsOnce' /\ LockKept'
  <2>1. running(c) /\ run[c].at # "check"
    BY <1>8 DEF beginPhase, phaseBefore, Phases, running
  <2>2. run[c] \in Run
    BY <2>1, RunTyped DEF OnceInv
  <2>3. PICK new : new = [run[c] EXCEPT !.at = p, !.todo = selected(p, run[c].day)]
    OBVIOUS
  <2>4. /\ new.day = run[c].day /\ new.at = p /\ p # "idle"
        /\ new.lossFree = run[c].lossFree
    BY <2>2, <2>3 DEF Run, Phases
  <2>5. run' = [run EXCEPT ![c] = new] /\ UNCHANGED <<lock, recorded>>
    BY <1>8, <2>3 DEF beginPhase
  <2> QED
    BY <2>1, <2>4, <2>5, OnceKept
<1>9. ASSUME NEW c \in Callers, Work(c) PROVE RunsOnce' /\ LockKept'
  <2>1. running(c) /\ run[c] \in Run
    BY <1>9, RunTyped DEF Work, OnceInv
  <2>2. UNCHANGED <<lock, recorded>>
    BY <1>9 DEF Work, moveToReview, backfillPace, planReminders, planEscalation, markSent,
                makeReminders, processEscalation, Handled
  <2>3. run[c].at # "check"
    BY <1>9 DEF Work, moveToReview, backfillPace, planReminders, planEscalation, markSent,
                makeReminders, processEscalation
  <2>4. \E todo, plan : run' = [run EXCEPT ![c] = [run[c] EXCEPT !.todo = todo, !.plan = plan]]
    <3>1. ASSUME NEW i, NEW plan, Handled(c, i, plan)
          PROVE  run' = [run EXCEPT ![c] = [run[c] EXCEPT !.todo = @ \ {i}, !.plan = plan]]
      BY <3>1 DEF Handled
    <3>2. CASE \E i \in run[c].todo : \/ moveToReview(c, i) \/ backfillPace(c, i) \/ planReminders(c, i)
                                      \/ planEscalation(c, i) \/ markSent(c, i)
      BY <3>1, <3>2 DEF moveToReview, backfillPace, planReminders, planEscalation, markSent
    <3>3. ASSUME NEW plan, run' = [run EXCEPT ![c].plan = plan]
          PROVE  \E todo, plan2 : run' = [run EXCEPT ![c] = [run[c] EXCEPT !.todo = todo, !.plan = plan2]]
      <4>1. [run[c] EXCEPT !.plan = plan] = [run[c] EXCEPT !.todo = run[c].todo, !.plan = plan]
        BY <2>1 DEF Run
      <4> QED
        BY <3>3, <4>1
    <3>4. CASE makeReminders(c)
      BY <3>3, <3>4 DEF makeReminders
    <3>5. CASE processEscalation(c)
      BY <3>3, <3>5 DEF processEscalation
    <3> QED
      BY <1>9, <3>2, <3>4, <3>5 DEF Work
  <2>5. PICK todo, plan : run' = [run EXCEPT ![c] = [run[c] EXCEPT !.todo = todo, !.plan = plan]]
    BY <2>4
  <2>6. PICK new : new = [run[c] EXCEPT !.todo = todo, !.plan = plan]
    OBVIOUS
  <2>7. new.day = run[c].day /\ new.at = run[c].at /\ new.lossFree = run[c].lossFree
    BY <2>1, <2>6 DEF Run
  <2> QED
    BY <2>1, <2>2, <2>3, <2>5, <2>6, <2>7, OnceKept DEF running
<1>10. CASE Midnight
  <2>1. /\ UNCHANGED <<run, lock>> /\ recorded' \subseteq recorded
    BY <1>10 DEF Midnight
  <2> QED
    BY <2>1 DEF OnceInv, RunsOnce, LockKept, running
<1>11. ASSUME NEW c \in Callers, LockLost(c) PROVE RunsOnce' /\ LockKept'
  <2>1. /\ running(c) /\ lock = c /\ UNCHANGED recorded
        /\ run' = [run EXCEPT ![c].lossFree = FALSE]
    BY <1>11 DEF LockLost
  <2>2. PICK new : new = [run[c] EXCEPT !.lossFree = FALSE]
    OBVIOUS
  <2>3. new.at = run[c].at /\ ~new.lossFree
    BY <2>1, <2>2, RunTyped DEF Run, OnceInv
  <2>4. \A d \in Callers : run'[d] = IF d = c THEN new ELSE run[d]
    BY <2>1, <2>2 DEF OnceInv, TypeInv, TypeOK
  <2>5. \A d \in Callers : running(d) /\ run[d].lossFree => d = c
    BY <2>1 DEF OnceInv, LockKept
  <2> QED
    BY <2>1, <2>3, <2>4, <2>5 DEF RunsOnce, LockKept, running
<1> QED
  BY <1>2, <1>3, <1>4, <1>5, <1>6, <1>7, <1>8, <1>9, <1>10, <1>11 DEF Next

\* However servers, the endpoint, failures and restarts meet, a run that neither lost its
\* lock nor began beside one that had is alone, and does not work for a day that is recorded.
THEOREM OneRun == Spec => []RunsOnce
<1>1. Init => OnceInv
  BY TypeInit, OnceInit DEF OnceInv
<1>2. OnceInv /\ [Next]_vars => OnceInv'
  BY TypeStep, OnceStep DEF OnceInv
<1>3. Spec => []OnceInv
  BY <1>1, <1>2, PTL DEF Spec
<1> QED
  BY <1>3, PTL DEF OnceInv

----------------------------------------------------------------------------
(* The levels are told in their order, and once *)

SafeInv == OnceInv /\ LevelsToldOnce

LEMMA LevelsInit == Init => LevelsToldOnce
  BY DEF Init, LevelsToldOnce, running, Idle

\* A rule of a higher level comes later.
LEMMA RulesOrdered ==
  ASSUME NEW j \in Rules, NEW k \in Rules, DEFAULT_RULES[j].level < DEFAULT_RULES[k].level
  PROVE  j < k
<1>1. ASSUME NEW i \in Rules
      PROVE  DEFAULT_RULES[i].level = IF i <= 2 THEN 0 ELSE IF i = 3 THEN 1 ELSE IF i = 4 THEN 2 ELSE 3
  BY <1>1 DEF DEFAULT_RULES, Rules
<1> QED
  BY <1>1 DEF Rules

LEMMA HighRules ==
  ASSUME NEW k \in Rules, DEFAULT_RULES[k].level >= 1
  PROVE  k > 1 /\ countsAs(k) = k
  BY DEF DEFAULT_RULES, Rules, countsAs

\* Reminders may be made and anything may be cancelled: that tells no level above 0.
OnlyReminders == \A r \in Rows : told'[r] = told[r] \/ told'[r] = 1

LEMMA InsertTells == \A S : insert(S) => OnlyReminders
  BY DEF insert, OnlyReminders

LEMMA LevelsKept ==
  ASSUME SafeInv, TypeInv', OnlyReminders,
         \A c \in Callers : running(c)' /\ run'[c].lossFree /\ run'[c].at = "escalate" =>
            \/ /\ running(c) /\ run[c].lossFree /\ run[c].at = "escalate"
               /\ run'[c].plan \subseteq run[c].plan
            \/ \A n \in run'[c].plan :
                  n \in Note /\ DEFAULT_RULES[n.rule].level >= 1 => told[n.row] < n.rule
  PROVE  LevelsToldOnce'
<1> SUFFICES ASSUME NEW c \in Callers, running(c)', run'[c].lossFree, run'[c].at = "escalate",
                    NEW n \in run'[c].plan, DEFAULT_RULES[n.rule].level >= 1
             PROVE  told'[n.row] < n.rule
  BY DEF LevelsToldOnce
<1>1. n \in Note
  BY DEF TypeInv, Lists
<1>2. n.row \in Rows /\ n.rule \in Rules /\ n.rule > 1
  BY <1>1, HighRules DEF Note
<1>3. told[n.row] < n.rule
  BY <1>1 DEF SafeInv, LevelsToldOnce
<1> QED
  BY <1>2, <1>3 DEF OnlyReminders, Rules

\* A run that moves on with no plan, or with less of its plan, tells nothing new.
LEMMA LevelsMoved ==
  ASSUME SafeInv, TypeInv', OnlyReminders, NEW c \in Callers, NEW new,
         run' = [run EXCEPT ![c] = new],
         new.at = "escalate" =>
            \/ /\ running(c) /\ (new.lossFree => run[c].lossFree) /\ run[c].at = "escalate"
               /\ new.plan \subseteq run[c].plan
            \/ \A n \in new.plan :
                  n \in Note /\ DEFAULT_RULES[n.rule].level >= 1 => told[n.row] < n.rule
  PROVE  LevelsToldOnce'
<1>1. \A d \in Callers : run'[d] = IF d = c THEN new ELSE run[d]
  BY DEF SafeInv, OnceInv, TypeInv, TypeOK
<1> QED
  BY <1>1, LevelsKept DEF running

\* The lowest rule of the plan is told and leaves it; what is left comes after it, and
\* nobody else has a plan.
LEMMA LevelTold ==
  ASSUME SafeInv, TypeInv', NEW c \in Callers, processEscalation(c)
  PROVE  LevelsToldOnce'
<1>1. PICK n \in run[c].plan :
        /\ \A m \in run[c].plan : n.rule <= m.rule
        /\ told' = tell(n.row, n.rule) \/ UNCHANGED told
        /\ run' = [run EXCEPT ![c].plan = @ \ {n}]
  BY DEF processEscalation
<1>2. running(c) /\ run[c].at = "escalate"
  BY DEF processEscalation, running
<1>3. run[c] \in Run /\ Lists(run[c])
  BY <1>2, RunTyped DEF SafeInv, OnceInv
<1>4. n \in Note /\ n.row \in Rows /\ n.rule \in Rules
  BY <1>1, <1>2, <1>3 DEF Lists, Note
<1>5. PICK new : new = [run[c] EXCEPT !.plan = @ \ {n}]
  OBVIOUS
<1>6. /\ new.plan = run[c].plan \ {n} /\ new.lossFree = run[c].lossFree /\ new.at = "escalate"
  BY <1>2, <1>3, <1>5 DEF Run
<1>7. \A d \in Callers : run'[d] = IF d = c THEN new ELSE run[d]
  BY <1>1, <1>5 DEF SafeInv, OnceInv, TypeInv, TypeOK
<1>8. ASSUME NEW d \in Callers, running(d)', run'[d].lossFree, run'[d].at = "escalate"
      PROVE  d = c /\ run[c].lossFree
  BY <1>2, <1>6, <1>7, <1>8 DEF SafeInv, OnceInv, LockKept, running
<1>9. ASSUME run[c].lossFree, NEW m \in new.plan, DEFAULT_RULES[m.rule].level >= 1
      PROVE  told'[m.row] < m.rule
  <2>1. m \in run[c].plan /\ m # n /\ m \in Note
    BY <1>2, <1>3, <1>6, <1>9 DEF Lists
  <2>2. m.row \in Rows /\ m.rule \in Rules /\ m.rule > 1 /\ told[m.row] \in Rules \cup {0}
    BY <2>1, <1>9, HighRules DEF Note, SafeInv, OnceInv, TypeInv, TypeOK
  <2>3. told[m.row] < m.rule
    BY <1>2, <1>9, <2>1 DEF SafeInv, LevelsToldOnce
  <2>4. CASE m.row # n.row \/ UNCHANGED told
    BY <1>1, <1>4, <2>2, <2>3, <2>4 DEF tell, SafeInv, OnceInv, TypeInv, TypeOK
  <2>5. CASE m.row = n.row /\ told' = tell(n.row, n.rule)
    <3>1. n.rule < m.rule
      <4>1. n.rule # m.rule
        BY <1>4, <2>1, <2>5 DEF Note
      <4>2. n.rule <= m.rule
        BY <1>1, <2>1
      <4> QED
        BY <1>4, <2>2, <4>1, <4>2 DEF Rules
    <3>2. countsAs(n.rule) <= n.rule /\ countsAs(n.rule) \in Nat
      BY <1>4 DEF countsAs, Rules
    <3>3. told'[m.row] \in {told[m.row], countsAs(n.rule)}
      BY <1>4, <2>5 DEF tell, SafeInv, OnceInv, TypeInv, TypeOK
    <3> QED
      BY <1>4, <2>2, <2>3, <3>1, <3>2, <3>3 DEF Rules
  <2> QED
    BY <1>1, <2>4, <2>5
<1> QED
  BY <1>7, <1>8, <1>9 DEF LevelsToldOnce

LEMMA LevelsWork ==
  ASSUME SafeInv, TypeInv', NEW c \in Callers, Work(c)
  PROVE  LevelsToldOnce'
<1>1. running(c) /\ run[c] \in Run /\ Lists(run[c])
  BY RunTyped DEF Work, SafeInv, OnceInv
<1>2. ASSUME NEW i, NEW plan, Handled(c, i, plan), OnlyReminders,
             run[c].at = "escalate" =>
                \A n \in plan : n \in Note /\ DEFAULT_RULES[n.rule].level >= 1 => told[n.row] < n.rule
      PROVE  LevelsToldOnce'
  <2>1. PICK new : new = [run[c] EXCEPT !.todo = @ \ {i}, !.plan = plan]
    OBVIOUS
  <2>2. new.at = run[c].at /\ new.plan = plan
    BY <1>1, <2>1 DEF Run
  <2>3. run' = [run EXCEPT ![c] = new]
    BY <1>2, <2>1 DEF Handled
  <2> QED
    BY <1>2, <2>2, <2>3, LevelsMoved
<1>3. ASSUME NEW i \in run[c].todo, moveToReview(c, i) \/ backfillPace(c, i) \/ markSent(c, i)
      PROVE  LevelsToldOnce'
  <2>1. OnlyReminders
    BY <1>3 DEF moveToReview, backfillPace, markSent, noteVars, OnlyReminders
  <2>2. Handled(c, i, {})
    BY <1>3 DEF moveToReview, backfillPace, markSent
  <2> QED
    BY <1>2, <2>1, <2>2
<1>4. ASSUME NEW i \in run[c].todo, planReminders(c, i)
      PROVE  LevelsToldOnce'
  <2>1. OnlyReminders /\ run[c].at = "remind"
    BY <1>4 DEF planReminders, noteVars, OnlyReminders
  <2>2. \E plan : Handled(c, i, plan)
    BY <1>4 DEF planReminders
  <2> QED
    BY <1>2, <2>1, <2>2
<1>5. ASSUME NEW i \in run[c].todo, planEscalation(c, i)
      PROVE  LevelsToldOnce'
  <2>1. OnlyReminders
    BY <1>5 DEF planEscalation, noteVars, OnlyReminders
  <2>2. PICK plan : plan = IF ~dated(i.row, today) THEN {}
                           ELSE {[row |-> i.row, rule |-> k] : k \in applicable(i.row)}
    OBVIOUS
  <2>3. Handled(c, i, plan)
    BY <1>5, <2>2 DEF planEscalation
  <2>4. ASSUME NEW n \in plan, n \in Note, DEFAULT_RULES[n.rule].level >= 1
        PROVE  told[n.row] < n.rule
    <3>1. n.row \in Rows /\ n.rule \in Rules /\ told[n.row] \in Rules \cup {0}
      BY <2>4 DEF Note, SafeInv, OnceInv, TypeInv, TypeOK
    <3>2. n.row = i.row /\ n.rule \in applicable(i.row)
      BY <2>2, <2>4
    <3>3. told[n.row] # 0 => DEFAULT_RULES[told[n.row]].level < DEFAULT_RULES[n.rule].level
      BY <3>2 DEF applicable, toldBelow
    <3> QED
      BY <3>1, <3>3, RulesOrdered DEF Rules
  <2> QED
    BY <1>2, <2>1, <2>3, <2>4
<1>6. CASE makeReminders(c)
  <2>1. PICK new : new = [run[c] EXCEPT !.plan = {}]
    OBVIOUS
  <2>2. new.at = "remind"
    BY <1>1, <1>6, <2>1 DEF makeReminders, Run
  <2>3. OnlyReminders /\ run' = [run EXCEPT ![c] = new]
    BY <1>6, <2>1, InsertTells DEF makeReminders
  <2> QED
    BY <2>2, <2>3, LevelsMoved
<1> QED
  BY <1>3, <1>4, <1>5, <1>6, LevelTold DEF Work

LEMMA LevelsStep == SafeInv /\ TypeInv' /\ [Next]_vars => LevelsToldOnce'
<1> SUFFICES ASSUME SafeInv, TypeInv', [Next]_vars PROVE LevelsToldOnce'
  OBVIOUS
<1>1. CASE UNCHANGED run /\ OnlyReminders
  BY <1>1, LevelsKept DEF running
<1>2. CASE UNCHANGED vars
  BY <1>1, <1>2 DEF vars, noteVars, runVars, OnlyReminders
<1>3. CASE People
  BY <1>1, <1>3 DEF People, signOff, confirmModuleRef, setAside, withdrawSignOff, acknowledge,
                    acknowledgePending, noteVars, runVars, OnlyReminders
<1>4. CASE \E t \in tasks : Background(t) \/ TaskLost(t)
  <2>1. UNCHANGED run /\ (UNCHANGED told \/ \E S : insert(S))
    BY <1>4 DEF Background, TaskLost, scheduleDate, cancelPending, insertReminders,
                announceWithdrawal, noteVars, runVars
  <2> QED
    BY <1>1, <2>1, InsertTells DEF OnlyReminders
<1>5. ASSUME NEW c \in Callers,
             \/ deadlinesOnce(c) \/ ranFor(c) \/ recordRun(c) \/ RunFails(c)
             \/ LockLost(c) \/ Restart(c)
      PROVE  LevelsToldOnce'
  <2>1. OnlyReminders
    BY <1>5 DEF deadlinesOnce, ranFor, recordRun, RunFails, LockLost, Restart, noteVars,
                OnlyReminders
  <2>2. CASE run' = [run EXCEPT ![c] = Idle]
    BY <2>1, <2>2, LevelsMoved DEF Idle
  <2>3. CASE deadlinesOnce(c)
    <3>1. PICK new : new = newRun
      OBVIOUS
    <3>2. new.at = "check" /\ run' = [run EXCEPT ![c] = new]
      BY <2>3, <3>1 DEF deadlinesOnce, newRun
    <3> QED
      BY <2>1, <3>2, LevelsMoved
  <2>4. CASE ranFor(c) /\ run' = [run EXCEPT ![c].at = "begin"]
    <3>1. PICK new : new = [run[c] EXCEPT !.at = "begin"]
      OBVIOUS
    <3>2. new.at = "begin"
      BY <2>4, <3>1, RunTyped DEF ranFor, running, Run, SafeInv, OnceInv
    <3> QED
      BY <2>1, <2>4, <3>1, <3>2, LevelsMoved
  <2>5. CASE LockLost(c)
    <3>1. PICK new : new = [run[c] EXCEPT !.lossFree = FALSE]
      OBVIOUS
    <3>2. running(c) /\ new.at = run[c].at /\ new.plan = run[c].plan /\ ~new.lossFree
      BY <2>5, <3>1, RunTyped DEF LockLost, Run, SafeInv, OnceInv
    <3> QED
      BY <2>1, <2>5, <3>1, <3>2, LevelsMoved DEF LockLost
  <2> QED
    BY <1>5, <2>2, <2>3, <2>4, <2>5 DEF ranFor, recordRun, RunFails, Restart, Leave
<1>6. ASSUME NEW c \in Callers, NEW p \in Phases, beginPhase(c, p) PROVE LevelsToldOnce'
  <2>1. run[c] \in Run
    BY <1>6, RunTyped DEF beginPhase, phaseBefore, Phases, running, SafeInv, OnceInv
  <2>2. PICK new : new = [run[c] EXCEPT !.at = p, !.todo = selected(p, run[c].day)]
    OBVIOUS
  <2>3. new.plan = {}
    BY <1>6, <2>1, <2>2 DEF beginPhase, Run
  <2>4. OnlyReminders /\ run' = [run EXCEPT ![c] = new]
    BY <1>6, <2>2 DEF beginPhase, noteVars, OnlyReminders
  <2> QED
    BY <2>3, <2>4, LevelsMoved
<1>7. CASE Midnight
  BY <1>1, <1>7 DEF Midnight, noteVars, OnlyReminders
<1> QED
  BY <1>2, <1>3, <1>4, <1>5, <1>6, <1>7, LevelsWork DEF Next

\* Whatever breaks off and is repeated, a run that kept its lock, and ran beside none that
\* lost it, tells a requirement's levels in the order of the rules and none that was told.
THEOREM LevelsOnce == Spec => []LevelsToldOnce
<1>1. Init => SafeInv
  BY TypeInit, OnceInit, LevelsInit DEF SafeInv, OnceInv
<1>2. SafeInv /\ [Next]_vars => SafeInv'
  BY TypeStep, OnceStep, LevelsStep DEF SafeInv, OnceInv
<1>3. Spec => []SafeInv
  BY <1>1, <1>2, PTL DEF Spec
<1> QED
  BY <1>3, PTL DEF SafeInv
=============================================================================
