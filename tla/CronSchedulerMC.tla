-------------------------- MODULE CronSchedulerMC --------------------------
(* Two job ids, either of which can be removed and restored; one-shot and  *)
(* recurring schedules; the tick and one runJobNow.  One unit of time is   *)
(* enough for a run to outlast the due time of another job, of its own     *)
(* next occurrence and of a later tick.  From 2 the last match of the cron *)
(* expression is beyond the search window, from 3 on it is within.         *)
EXTENDS CronScheduler

At(t) == [kind |-> "at", time |-> t]
Every(p) == [kind |-> "every", period |-> p]
Anchored(a, p) == [kind |-> "anchored", anchor |-> a, period |-> p]
Cron(m) == [kind |-> "cron", matches |-> m]

MCSchedules == {At(1), Every(1)}
MCPersisted == {[enabled |-> TRUE, schedule |-> Every(1), next |-> 0]}
MCConsulted == {At(3), Anchored(0, 2), Anchored(2, 3), Anchored(4, 1), Cron({}), Cron({0, 2, 7})}
=============================================================================
