----------------------------- MODULE Deadlines -----------------------------
(***************************************************************************)
(* Review dates of requirements, their reminders and escalations, and the  *)
(* daily run that works on them (lib/cron/deadlines, lib/compliance).      *)
(*                                                                         *)
(* The run goes through five phases over rows it reads at the start of     *)
(* each, one row after the other and without a transaction; a server may   *)
(* restart or lose its lock's connection at any step.  People sign, reopen *)
(* and set rows aside meanwhile; a sign-off or approval has its dates and  *)
(* reminders written afterwards, in the background, in three statements.   *)
(*                                                                         *)
(* Rows here have a review frequency: one that does not recur gets no date *)
(* when it is signed.  "done" is completed, approved or not applicable,    *)
(* "open" not started or in progress; Module SignOff tells them apart.     *)
(* Somebody can always be reminded; whether a category has a lead to tell  *)
(* may change.  Each notification stands for its rows of both channels and *)
(* of all its recipients.  The phases on progress figures, the supplier    *)
(* portal and erasures are left out: they fail on their own.               *)
(***************************************************************************)
EXTENDS Naturals, FiniteSets

CONSTANTS Rows,      \* requirements of one company
          Callers,   \* where a run can start: the schedule of a server, a call of the endpoint
          Schedules, \* the ones of them that are schedules
          None,
          PACE,      \* the day by which open work is due, from its priority
          REVIEW,    \* days from a sign-off to the next review
          REMIND,    \* days before a review at which people are reminded
          HORIZON,   \* days ahead for which the run makes reminders up
          WEEK,      \* days overdue at which admins are told
          FORTNIGHT, \* days overdue at which management is told of a P0 requirement
          MONTH,     \* days overdue at which management is told of any
          P0,        \* the rows of requirements with priority P0
          LastDay,   \* bound: days
          Lossy,     \* bound: whose run may lose its lock, and in which step
          MaxTasks,  \* bound: background tasks at a time
          MaxAtOnce  \* bound: background tasks and runs at a time

ASSUME NoneAssumption == None \notin Nat /\ None \notin Callers
ASSUME SubsetAssumption == Schedules \subseteq Callers /\ P0 \subseteq Rows
ASSUME TermAssumption ==
    /\ PACE \in Nat /\ REVIEW \in Nat /\ HORIZON \in Nat
    /\ WEEK \in Nat /\ FORTNIGHT \in Nat /\ MONTH \in Nat
    /\ REMIND \subseteq 0 .. REVIEW
ASSUME BoundAssumption == LastDay \in Nat /\ MaxTasks \in Nat /\ MaxAtOnce \in Nat

VARIABLES today,     \* the UTC day
          status,    \* status[r]
          due,       \* due[r]: next_review_date, or None
          pending,   \* reminders and news that are not shown yet
          told,      \* told[r]: the last rule that made a notification about r, or 0
          standing,  \* rows with one that is shown and not cancelled or acknowledged
          tasks,     \* what runs in the background after a request
          run,       \* run[c]: the daily run that c has started
          lock,      \* whose session holds the advisory lock, or None
          recorded,  \* the latest days whose run is in the audit log
          settled    \* schedules whose settledDay, in their server's memory, is today

rowVars == <<status, due>>
noteVars == <<pending, told, standing>>
runVars == <<run, lock, recorded, settled>>
vars == <<today, rowVars, noteVars, tasks, runVars>>

Days == 0 .. LastDay
Dates == 0 .. (LastDay + REVIEW + PACE)
Statuses == {"open", "done", "needs_review"}
Phases == {"review", "pace", "remind", "escalate", "dispatch"}

\* The escalation rules in their order: the level each tells, the days overdue from
\* which it applies (the two for the assignees lie before the date), and whether to P0
\* requirements only.
DEFAULT_RULES ==
    << [level |-> 0, delay |-> 0, p0 |-> FALSE],
       [level |-> 0, delay |-> 0, p0 |-> FALSE],
       [level |-> 1, delay |-> 0, p0 |-> FALSE],
       [level |-> 2, delay |-> WEEK, p0 |-> FALSE],
       [level |-> 3, delay |-> FORTNIGHT, p0 |-> TRUE],
       [level |-> 3, delay |-> MONTH, p0 |-> FALSE] >>
Rules == 1 .. 6

\* A pending notification has its day, scheduled_for; one that the run escalates has its
\* rule.  Reminders, news and what the two rules of level 0 tell count as the first rule's.
Pending == [row : Rows, on : Dates]
Note == [row : Rows, rule : Rules]
countsAs(k) == IF DEFAULT_RULES[k].level = 0 THEN 1 ELSE k
tell(r, k) == [told EXCEPT ![r] = IF @ < countsAs(k) THEN countsAs(k) ELSE @]
insert(S) ==
    /\ pending' = pending \cup S
    /\ told' = [r \in Rows |-> IF told[r] = 0 /\ \E n \in S : n.row = r THEN 1 ELSE told[r]]

\* day: the day of the sign-off.
Task == [row : Rows, day : Days, at : {"date", "cancel", "insert", "notice"}]

\* day: the day it runs for; todo: what its phase has read and not handled yet;
\* plan: the notifications it has decided on for one row; lossFree: history, TRUE as long
\* as neither it nor a run it began beside has lost its lock.
Run == [at : Phases \cup {"check", "begin"}, day : Days, lossFree : BOOLEAN,
        todo : SUBSET ([row : Rows, due : Dates \cup {None}] \cup Pending),
        plan : SUBSET (Pending \cup Note)]
Idle == [at |-> "idle"]

TypeOK ==
    /\ today \in Days
    /\ status \in [Rows -> Statuses]
    /\ due \in [Rows -> Dates \cup {None}]
    /\ pending \subseteq Pending /\ standing \subseteq Rows
    /\ told \in [Rows -> Rules \cup {0}]
    /\ tasks \subseteq Task
    /\ run \in [Callers -> Run \cup {Idle}]
    /\ lock \in Callers \cup {None}
    /\ recorded \subseteq Days
    /\ settled \subseteq Schedules

\* backfillInitialDeadlines has set the pace of a new row, or was lost.
Init ==
    /\ today = 0
    /\ status = [r \in Rows |-> "open"]
    /\ due \in [Rows -> {PACE, None}]
    /\ pending = {} /\ standing = {}
    /\ told = [r \in Rows |-> 0]
    /\ tasks = {}
    /\ run = [c \in Callers |-> Idle]
    /\ lock = None
    /\ recorded = {}
    /\ settled = {}

----------------------------------------------------------------------------
(* People *)

pendingOf(r) == {n \in pending : n.row = r}
active(r) == pendingOf(r) # {} \/ r \in standing

running(c) == run[c].at # "idle"
room == Cardinality(tasks) + Cardinality({c \in Callers : running(c)}) < MaxAtOnce

\* A full sign-off by assigned signers, or an approval: the date stays, and the
\* next review is scheduled in the background.
signOff(r) ==
    /\ Cardinality(tasks) < MaxTasks /\ room
    /\ status' = [status EXCEPT ![r] = "done"]
    /\ tasks' = tasks \cup {[row |-> r, day |-> today, at |-> "date"]}
    /\ UNCHANGED <<today, due, noteVars, runVars>>

\* A sign-off through a module, a batch or a linked requirement: nothing is scheduled.
confirmModuleRef(r) ==
    /\ status[r] # "done"
    /\ status' = [status EXCEPT ![r] = "done"]
    /\ UNCHANGED <<today, due, noteVars, tasks, runVars>>

setAside(r) ==
    /\ status[r] # "done"
    /\ status' = [status EXCEPT ![r] = "done"]
    /\ due' = [due EXCEPT ![r] = today + REVIEW]
    /\ UNCHANGED <<today, noteVars, tasks, runVars>>

\* The row is due at its first pace again; those who lose a signature are told in
\* the background, and what was scheduled stays.
withdrawSignOff(r) ==
    /\ status[r] # "open"
    /\ status' = [status EXCEPT ![r] = "open"]
    /\ due' = [due EXCEPT ![r] = PACE]
    /\ \/ UNCHANGED tasks
       \/ /\ Cardinality(tasks) < MaxTasks /\ room
          /\ tasks' = tasks \cup {[row |-> r, day |-> today, at |-> "notice"]}
    /\ UNCHANGED <<today, noteVars, runVars>>

\* People read the last notification about a row that stands, or leave or are unassigned:
\* with others left nothing changes that anybody looks at.
acknowledge(r) ==
    /\ standing' = standing \ {r}
    /\ UNCHANGED <<today, rowVars, pending, told, tasks, runVars>>

\* The same with one that is not shown yet.
acknowledgePending(n) ==
    /\ pending' = pending \ {n}
    /\ UNCHANGED <<today, rowVars, told, standing, tasks, runVars>>

----------------------------------------------------------------------------
(* Background tasks *)

Then(t, at) == tasks' = (tasks \ {t}) \cup {[t EXCEPT !.at = at]}

\* MUTANT of reminders: those whose day is past are made as well.
remindersPast(r, d) == {[row |-> r, on |-> d - o] : o \in REMIND}

\* The reminders of a review at day d that are not past.
reminders(r, d) == {[row |-> r, on |-> d - o] : o \in {o \in REMIND : today + o <= d}}

\* Written by id, whatever has become of the row since.
scheduleDate(t) ==
    /\ t.at = "date"
    /\ due' = [due EXCEPT ![t.row] = t.day + REVIEW]
    /\ Then(t, "cancel")
    /\ UNCHANGED <<today, status, noteVars, runVars>>

cancelPending(t) ==
    /\ t.at = "cancel"
    /\ pending' = pending \ pendingOf(t.row) /\ standing' = standing \ {t.row}
    /\ Then(t, "insert")
    /\ UNCHANGED <<today, rowVars, told, runVars>>

insertReminders(t) ==
    /\ t.at = "insert"
    /\ insert(reminders(t.row, t.day + REVIEW))
    /\ tasks' = tasks \ {t}
    /\ UNCHANGED <<today, rowVars, standing, runVars>>

announceWithdrawal(t) ==
    /\ t.at = "notice"
    /\ insert({[row |-> t.row, on |-> t.day]})
    /\ tasks' = tasks \ {t}
    /\ UNCHANGED <<today, rowVars, standing, runVars>>

\* The server restarts or a statement fails: nobody takes the task up again.
TaskLost(t) ==
    /\ tasks' = tasks \ {t}
    /\ UNCHANGED <<today, rowVars, noteVars, runVars>>

----------------------------------------------------------------------------
(* When the run starts and ends *)

newRun == [at |-> "check", day |-> today, todo |-> {}, plan |-> {},
           lossFree |-> \A c \in Callers : running(c) => run[c].lossFree]

\* MUTANT of deadlinesOnce: without the lock.
deadlinesOnceUnlocked(c) ==
    /\ ~running(c) /\ c \notin settled /\ room
    /\ run' = [run EXCEPT ![c] = newRun]
    /\ lock' = c
    /\ UNCHANGED <<today, rowVars, noteVars, tasks, recorded, settled>>

\* By a schedule, which looks every half hour until its day is settled, or by a call
\* of the endpoint. A lock that is taken is not waited for.
deadlinesOnce(c) ==
    /\ ~running(c) /\ c \notin settled /\ room
    /\ lock = None
    /\ run' = [run EXCEPT ![c] = newRun]
    /\ lock' = c
    /\ UNCHANGED <<today, rowVars, noteVars, tasks, recorded, settled>>

\* A run that ends gives the lock back if it still has it, and the schedule has settled
\* its day; without the lock the unlock throws, and the run counts as failed.
Leave(c, done) ==
    /\ run' = [run EXCEPT ![c] = Idle]
    /\ lock' = IF lock = c THEN None ELSE lock
    /\ settled' = IF done /\ lock = c /\ c \in Schedules /\ run[c].day = today
                  THEN settled \cup {c} ELSE settled

\* MUTANT of ranFor: the day is recorded before the run and not after it.
ranForFirst(c) ==
    /\ run[c].at = "check"
    /\ \/ /\ run[c].day \in recorded
          /\ Leave(c, TRUE)
          /\ UNCHANGED recorded
       \/ /\ run[c].day \notin recorded
          /\ run' = [run EXCEPT ![c].at = "begin"]
          /\ recorded' = recorded \cup {run[c].day}
          /\ UNCHANGED <<lock, settled>>
    /\ UNCHANGED <<today, rowVars, noteVars, tasks>>

\* A day that is recorded is not run for again.
ranFor(c) ==
    /\ run[c].at = "check"
    /\ \/ /\ run[c].day \in recorded
          /\ Leave(c, TRUE)
       \/ /\ run[c].day \notin recorded
          /\ run' = [run EXCEPT ![c].at = "begin"]
          /\ UNCHANGED <<lock, settled>>
    /\ UNCHANGED <<today, rowVars, noteVars, tasks, recorded>>

\* The audit row comes last, and a failure to write it is swallowed.
recordRun(c) ==
    /\ run[c].at = "dispatch" /\ run[c].todo = {}
    /\ \E written \in BOOLEAN :
         recorded' = IF written THEN recorded \cup {run[c].day} ELSE recorded
    /\ Leave(c, TRUE)
    /\ UNCHANGED <<today, rowVars, noteVars, tasks>>

\* The connection that holds the lock is lost, which is logged and no more: the run goes
\* on over the pool's connections, and the lock is free.
LockLost(c) ==
    /\ running(c) /\ lock = c /\ <<c, run[c].at>> \in Lossy
    /\ lock' = None
    /\ run' = [run EXCEPT ![c].lossFree = FALSE]
    /\ UNCHANGED <<today, rowVars, noteVars, tasks, recorded, settled>>

\* A statement fails; the next check tries again.
RunFails(c) ==
    /\ running(c)
    /\ Leave(c, FALSE)
    /\ UNCHANGED <<today, rowVars, noteVars, tasks, recorded>>

\* The server restarts, and with it its memory of the day.
Restart(c) ==
    /\ running(c) \/ c \in settled
    /\ run' = [run EXCEPT ![c] = Idle]
    /\ lock' = IF lock = c THEN None ELSE lock
    /\ settled' = settled \ {c}
    /\ UNCHANGED <<today, rowVars, noteVars, tasks, recorded>>

\* A run may straddle one midnight, not two, and none before its first phase; only the
\* latest days' records are read.
Midnight ==
    /\ today < LastDay
    /\ \A c \in Callers : running(c) => run[c].day = today /\ run[c].at \in Phases
    /\ today' = today + 1
    /\ recorded' = recorded \cap {today}
    /\ settled' = {}
    /\ UNCHANGED <<rowVars, noteVars, tasks, run, lock>>

----------------------------------------------------------------------------
(* The phases of the run *)

dated(r, day) == due[r] # None /\ due[r] <= day
asRead(R) == {[row |-> r, due |-> due[r]] : r \in R}
byId(R) == {[row |-> r, due |-> None] : r \in R}

\* MUTANT of selected: a notification is shown only on its day.
selectedOnTheDay(p, day) ==
    CASE p = "review"   -> byId({r \in Rows : status[r] = "done" /\ dated(r, day)})
      [] p = "pace"     -> byId({r \in Rows : status[r] = "open" /\ due[r] = None})
      [] p = "remind"   -> asRead({r \in Rows : status[r] # "open" /\ dated(r, today + HORIZON)})
      [] p = "escalate" -> byId({r \in Rows : status[r] # "open" /\ dated(r, day) /\ due[r] # day})
      [] p = "dispatch" -> {n \in pending : n.on = today}

\* What a phase of the run for a day works on.
selected(p, day) ==
    CASE p = "review"   -> byId({r \in Rows : status[r] = "done" /\ dated(r, day)})
      [] p = "pace"     -> byId({r \in Rows : status[r] = "open" /\ due[r] = None})
      [] p = "remind"   -> asRead({r \in Rows : status[r] # "open" /\ dated(r, today + HORIZON)})
      [] p = "escalate" -> byId({r \in Rows : status[r] # "open" /\ dated(r, day) /\ due[r] # day})
      [] p = "dispatch" -> {n \in pending : n.on <= today}

phaseBefore == [review |-> "begin", pace |-> "review", remind |-> "pace",
                escalate |-> "remind", dispatch |-> "escalate"]

beginPhase(c, p) ==
    /\ run[c].at = phaseBefore[p] /\ run[c].todo = {} /\ run[c].plan = {}
    /\ run' = [run EXCEPT ![c].at = p, ![c].todo = selected(p, run[c].day)]
    /\ UNCHANGED <<today, rowVars, noteVars, tasks, lock, recorded, settled>>

\* One item of the phase's list is handled, with this plan made for it.
Handled(c, i, plan) ==
    /\ i \in run[c].todo /\ run[c].plan = {}
    /\ run' = [run EXCEPT ![c].todo = @ \ {i}, ![c].plan = plan]
    /\ UNCHANGED <<today, tasks, lock, recorded, settled>>

\* Written by id, whatever the row's status is by now.
moveToReview(c, i) ==
    /\ run[c].at = "review"
    /\ Handled(c, i, {})
    /\ status' = [status EXCEPT ![i.row] = "needs_review"]
    /\ UNCHANGED <<due, noteVars>>

backfillPace(c, i) ==
    /\ run[c].at = "pace"
    /\ Handled(c, i, {})
    /\ due' = [due EXCEPT ![i.row] = PACE]
    /\ UNCHANGED <<status, noteVars>>

\* A row with any notification that is neither cancelled nor acknowledged gets none.
planReminders(c, i) ==
    /\ run[c].at = "remind"
    /\ Handled(c, i, IF active(i.row) THEN {} ELSE reminders(i.row, i.due))
    /\ UNCHANGED <<rowVars, noteVars>>

makeReminders(c) ==
    /\ run[c].at = "remind" /\ run[c].plan # {}
    /\ insert(run[c].plan)
    /\ run' = [run EXCEPT ![c].plan = {}]
    /\ UNCHANGED <<today, rowVars, standing, tasks, lock, recorded, settled>>

\* MUTANT of toldBelow: what was cancelled or acknowledged does not count.
toldBelowActive(r, level) ==
    active(r) /\ told[r] # 0 => DEFAULT_RULES[told[r]].level < level

\* No notification of this level or above was ever made about the row.
toldBelow(r, level) == told[r] # 0 => DEFAULT_RULES[told[r]].level < level

\* The rules that apply to the row, by what was told before any of them is carried out.
applicable(r) ==
    {k \in Rules : /\ toldBelow(r, DEFAULT_RULES[k].level)
                   /\ due[r] + DEFAULT_RULES[k].delay <= today
                   /\ DEFAULT_RULES[k].p0 => r \in P0}

\* The row is read again.
planEscalation(c, i) ==
    LET r == i.row
    IN  /\ run[c].at = "escalate"
        /\ Handled(c, i, IF ~dated(r, today) THEN {}
                         ELSE {[row |-> r, rule |-> k] : k \in applicable(r)})
        /\ UNCHANGED <<rowVars, noteVars>>

\* One rule after the other. A category without a lead has nobody to tell at level 1.
processEscalation(c) ==
    /\ run[c].at = "escalate"
    /\ \E n \in run[c].plan :
         /\ \A m \in run[c].plan : n.rule <= m.rule
         /\ \/ told' = tell(n.row, n.rule) /\ standing' = standing \cup {n.row}
            \/ DEFAULT_RULES[n.rule].level = 1 /\ UNCHANGED <<told, standing>>
         /\ run' = [run EXCEPT ![c].plan = @ \ {n}]
    /\ UNCHANGED <<today, rowVars, pending, tasks, lock, recorded, settled>>

\* Written by id: one that was cancelled or acknowledged since is shown again.
markSent(c, n) ==
    /\ run[c].at = "dispatch"
    /\ Handled(c, n, {})
    /\ pending' = pending \ {n} /\ standing' = standing \cup {n.row}
    /\ UNCHANGED <<rowVars, told>>

----------------------------------------------------------------------------
Work(c) ==
    /\ running(c)
    /\ \/ \E i \in run[c].todo : \/ moveToReview(c, i) \/ backfillPace(c, i) \/ planReminders(c, i)
                                 \/ planEscalation(c, i) \/ markSent(c, i)
       \/ makeReminders(c) \/ processEscalation(c)

People ==
    \/ \E r \in Rows : signOff(r) \/ confirmModuleRef(r) \/ setAside(r) \/ withdrawSignOff(r)
    \/ \E r \in standing : acknowledge(r)
    \/ \E n \in pending : acknowledgePending(n)

Background(t) ==
    scheduleDate(t) \/ cancelPending(t) \/ insertReminders(t) \/ announceWithdrawal(t)

Next ==
    \/ People
    \/ \E t \in tasks : Background(t) \/ TaskLost(t)
    \/ \E c \in Callers : \/ deadlinesOnce(c) \/ ranFor(c)
                          \/ \E p \in Phases : beginPhase(c, p)
                          \/ recordRun(c) \/ RunFails(c) \/ LockLost(c) \/ Restart(c)
    \/ \E c \in Callers : Work(c)
    \/ Midnight

Spec == Init /\ [][Next]_vars

\* Days pass; a run that is not broken off goes on to its end; every server looks for
\* a due run again and again; on a day runs do not break off, and the endpoint is not
\* called, for ever.
RunStep(c) ==
    ranFor(c) \/ (\E p \in Phases : beginPhase(c, p)) \/ Work(c) \/ recordRun(c)

Fairness ==
    /\ WF_vars(Midnight)
    /\ \A c \in Callers : WF_vars(RunStep(c))
    /\ \A c \in Schedules : WF_vars(deadlinesOnce(c))
    /\ <>[][\A c \in Callers : /\ ~RunFails(c) /\ ~Restart(c)
                               /\ c \notin Schedules => ~deadlinesOnce(c)]_vars

FairSpec == Spec /\ Fairness
=============================================================================
