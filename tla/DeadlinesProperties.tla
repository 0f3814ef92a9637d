------------------------ MODULE DeadlinesProperties ------------------------
(***************************************************************************)
(* What people can rely on while servers restart in the middle of the      *)
(* daily run and requirements are signed, reopened and rescheduled under   *)
(* it.                                                                     *)
(***************************************************************************)
EXTENDS Deadlines

\* The schedules and the endpoint never run beside each other, nor for a day whose run
\* is recorded, unless the run or one still under way when it began has lost its lock; once
\* those have ended that holds again (deadlines-schedule.ts, in-app.ts).
RunsOnce ==
    \A c \in Callers : running(c) /\ run[c].lossFree =>
        /\ \A d \in Callers : running(d) => d = c
        /\ run[c].at # "check" => run[c].day \notin recorded

\* A run without such a loss tells a row's rules above the assignees' in their order and
\* none that was told before, by itself or by a run that broke off (escalation.ts).
LevelsToldOnce ==
    \A c \in Callers : running(c) /\ run[c].lossFree /\ run[c].at = "escalate" =>
        \A n \in run[c].plan : DEFAULT_RULES[n.rule].level >= 1 => told[n.row] < n.rule

isDue(r) == status[r] = "done" /\ dated(r, today)

\* A done requirement whose date has come does not stay done, whichever runs fail
\* before it is its turn (deadlines.ts, phase 1).
DueRowsComeUp ==
    \A r \in Rows : (isDue(r) /\ today < LastDay) ~> ~isDue(r)

\* Whatever is waiting to be shown to somebody is shown, or no longer waits, once its
\* day has come, though it was written after that day's run (deadlines.ts, phase 5).
NewsIsShown ==
    \A n \in {n \in Pending : n.on < LastDay} :
        (n \in pending /\ n.on <= today /\ today < LastDay) ~> n \notin pending
=============================================================================
