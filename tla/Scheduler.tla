----------------------------- MODULE Scheduler ------------------------------
(***************************************************************************)
(* The scheduler (atlas/application/scheduler.py) on top of the workflow   *)
(* engine: the schedules, the loop that triggers them, and the runs that   *)
(* the loop, trigger_now and the scheduler page start.                     *)
(*                                                                         *)
(* Everything is asyncio code on one loop.  Time goes by in ticks, Minute  *)
(* of them to the minute; a sleeping loop wakes up 60 seconds later or any *)
(* time after that.                                                        *)
(***************************************************************************)
EXTENDS WorkflowEngine, FiniteSets

CONSTANTS
  Names,     \* schedule names
  Table,     \* per name the workflow, the minutes its cron expression matches,
             \* and whether it is enabled when it is added
  Defaults,  \* the names _load_default_schedules adds
  Holidays,  \* minutes that are not on a trading day
  MaxLoops,  \* bound on the tasks of _scheduler_loop
  PageWorkflows,  \* the workflows the scheduler page offers
  Minute,    \* ticks
  MaxTime, MaxEdits  \* bounds on the clock and on the changes of schedules

ASSUME TimeAssumption == Minute \in Nat \ {0} /\ MaxTime \in Nat /\ MaxEdits \in Nat /\ MaxLoops \in Nat
ASSUME NamesAssumption ==
  /\ Defaults \subseteq Names /\ PageWorkflows \subseteq Workflows
  /\ "none" \notin Names
  /\ \A n \in Names : Table[n].workflow \in Workflows

VARIABLES
  clock,
  present, enabled, lastRun,     \* _schedules
  edits,                         \* how often they were changed
  running, task,                 \* _running and _task
  loop, wake, cancelled, stopping,  \* the loop tasks, and the one stop() awaits
  trigger,                       \* who started each run, for which entry, when
  log                            \* _execution_log

scheduleVars == <<present, enabled, lastRun, edits>>
loopVars     == <<running, task, loop, wake, cancelled, stopping>>
vars == <<engineVars, clock, scheduleVars, loopVars, trigger, log>>

\* The loop tasks in the order of their starts, and Python's None for one.
Loops  == 1 .. MaxLoops
NoTask == 0

\* Long enough ago for every test: the None of last_run.
Never == -2 * Minute
MinuteOf(t) == t \div Minute

NoTrigger == [by |-> "nobody", name |-> "none", at |-> 0, of |-> "none", loop |-> NoTask]
Triggered(by, n, w) == [by |-> by, name |-> n, at |-> MinuteOf(clock), of |-> w,
                        loop |-> IF by = "loop" THEN task ELSE NoTask]

Init ==
  /\ EngineInit
  /\ clock = 0
  /\ present = {}
  /\ enabled = {}
  /\ lastRun = [n \in Names |-> Never]
  /\ edits = 0
  /\ running = FALSE
  /\ task = NoTask
  /\ loop = [l \in Loops |-> "unborn"]
  /\ wake = [l \in Loops |-> 0]
  /\ cancelled = {}
  /\ stopping = NoTask
  /\ trigger = [r \in Runs |-> NoTrigger]
  /\ log = << >>

Tick ==
  /\ clock < MaxTime
  /\ clock' = clock + 1
  /\ UNCHANGED <<engineVars, scheduleVars, loopVars, trigger, log>>

-----------------------------------------------------------------------------
(* The schedules *)

EnabledByDefault(names) == {n \in names : Table[n].enabled}

\* The runs under way of the entries that are replaced hold on to those.
Orphaned(names) ==
  [r \in Runs |-> IF trigger[r].name \in names THEN [trigger[r] EXCEPT !.name = "none"]
                                               ELSE trigger[r]]

Edit == edits < MaxEdits /\ edits' = edits + 1

AddSchedule(n) ==
  /\ Edit
  /\ present' = present \union {n}
  /\ enabled' = (enabled \ {n}) \union EnabledByDefault({n})
  /\ lastRun' = [lastRun EXCEPT ![n] = Never]
  /\ trigger' = Orphaned({n})
  /\ UNCHANGED <<engineVars, clock, loopVars, log>>

RemoveSchedule(n) ==
  /\ Edit
  /\ n \in present
  /\ present' = present \ {n}
  /\ enabled' = enabled \ {n}
  /\ lastRun' = [lastRun EXCEPT ![n] = Never]
  /\ trigger' = Orphaned({n})
  /\ UNCHANGED <<engineVars, clock, loopVars, log>>

\* enable_schedule and disable_schedule
EnableSchedule(n) ==
  /\ Edit
  /\ n \in present
  /\ enabled' \in {enabled \union {n}, enabled \ {n}}
  /\ UNCHANGED <<engineVars, clock, present, lastRun, loopVars, trigger, log>>

-----------------------------------------------------------------------------
(* The end of a run *)

LogEntry(r) ==
  [run |-> r, status |-> IF stage'[r] = "returned" THEN "completed" ELSE "failed"]

\* _execute_schedule and trigger_now go on when the run they await is over: the
\* entry remembers a completed run, the log every run.
Account(r) ==
  /\ log' = IF Ends(r) /\ trigger[r].by # "page"
              THEN Append(log, LogEntry(r)) ELSE log
  /\ lastRun' = IF Ends(r) /\ stage'[r] = "returned" /\ trigger[r].name \in Names
                  THEN [lastRun EXCEPT ![trigger[r].name] = clock] ELSE lastRun

RunResumes(r) ==
  /\ Resume(r)
  /\ Account(r)
  /\ UNCHANGED <<clock, present, enabled, edits, loopVars, trigger>>

-----------------------------------------------------------------------------
(* Triggers *)

\* The calls of run() are numbered as they are triggered: the next k of them.
NextRuns(k) == {r \in Runs : trigger[r] = NoTrigger
                          /\ Cardinality({q \in 1 .. r : trigger[q] = NoTrigger}) <= k}

\* trigger_now, up to its first await; a run that ends at once is accounted for
\* at once.
TriggerNow(r, n) ==
  /\ n \in present
  /\ r \in NextRuns(1)
  /\ trigger' = [trigger EXCEPT ![r] = Triggered("manual", n, Table[n].workflow)]
  /\ Run(r, Table[n].workflow)
  /\ log' = IF Ends(r) THEN Append(log, LogEntry(r)) ELSE log
  /\ lastRun' = IF Ends(r) /\ stage'[r] = "returned"
                  THEN [lastRun EXCEPT ![n] = clock] ELSE lastRun
  /\ UNCHANGED <<clock, present, enabled, edits, loopVars>>

\* The scheduler page runs a workflow by itself.
PageRuns(r, w) ==
  /\ r \in NextRuns(1)
  /\ trigger' = [trigger EXCEPT ![r] = Triggered("page", "none", w)]
  /\ Run(r, w)
  /\ UNCHANGED <<clock, scheduleVars, loopVars, log>>

\* A task gives up when the scheduler was stopped.
TaskBeginsWhileRunning(r) ==
  /\ running
  /\ stage[r] = "unborn"
  /\ trigger[r].by = "loop"
  /\ Run(r, trigger[r].of)
  /\ Account(r)
  /\ UNCHANGED <<clock, present, enabled, edits, loopVars, trigger>>
\* A task that the loop created runs for the first time.
TaskBegins(r) ==
  /\ stage[r] = "unborn"
  /\ trigger[r].by = "loop"
  /\ Run(r, trigger[r].of)
  /\ Account(r)
  /\ UNCHANGED <<clock, present, enabled, edits, loopVars, trigger>>

-----------------------------------------------------------------------------
(* The loop *)

Live(l) == loop[l] \in {"ready", "asleep"}

FirstUnborn == {l \in Loops : loop[l] = "unborn" /\ \A k \in 1 .. l - 1 : loop[k] # "unborn"}

Start(l) ==
  /\ ~running
  /\ l \in FirstUnborn
  /\ running' = TRUE
  /\ task' = l
  /\ loop' = [loop EXCEPT ![l] = "ready"]
  /\ wake' = [wake EXCEPT ![l] = clock]
  /\ IF present = {}
       THEN /\ present' = Defaults
            /\ enabled' = EnabledByDefault(Defaults)
       ELSE UNCHANGED <<present, enabled>>
  /\ UNCHANGED <<engineVars, clock, lastRun, edits, cancelled, stopping, trigger, log>>

\* The loop is left to find out by itself.
StopSilently ==
  /\ stopping = NoTask
  /\ running' = FALSE
  /\ UNCHANGED <<engineVars, clock, scheduleVars, task, loop, wake, cancelled, stopping,
                 trigger, log>>
\* stop(), up to its await.  The tasks the loop created are left alone.
Stop ==
  /\ stopping = NoTask
  /\ running' = FALSE
  /\ IF task # NoTask /\ Live(task)
       THEN cancelled' = cancelled \union {task} /\ stopping' = task
       ELSE UNCHANGED <<cancelled, stopping>>
  /\ UNCHANGED <<engineVars, clock, scheduleVars, task, loop, wake, trigger, log>>

StopReturns ==
  /\ stopping # NoTask
  /\ ~Live(stopping)
  /\ stopping' = NoTask
  /\ UNCHANGED <<engineVars, clock, scheduleVars, running, task, loop, wake, cancelled,
                 trigger, log>>

LoopCancelled(l) ==
  /\ l \in cancelled
  /\ loop' = [loop EXCEPT ![l] = "over"]
  /\ cancelled' = cancelled \ {l}
  /\ UNCHANGED <<engineVars, clock, scheduleVars, running, task, wake, stopping, trigger, log>>

\* No trading day, unless the workflow is one of maintenance.
OnCalendar(n) ==
  \/ MinuteOf(clock) \notin Holidays
  \/ Table[n].workflow \in {"monthly_rebuild", "backup_db", "retrain_model"}

\* _should_run
ShouldRun(n) == MinuteOf(clock) \in Table[n].minutes /\ clock - lastRun[n] >= 2 * Minute

DueNow == {n \in present \intersect enabled : OnCalendar(n) /\ ShouldRun(n)}

\* The loop sleeps for half a minute.
HalfSleep == clock + (Minute \div 2)
\* The earliest end of the loop's sleep.
Sleep == clock + Minute

\* An iteration of the loop creates one task for each schedule that is due.
Iterate(l) ==
  /\ Live(l) /\ l \notin cancelled
  /\ wake[l] <= clock
  /\ IF ~running
       THEN loop' = [loop EXCEPT ![l] = "over"] /\ UNCHANGED <<wake, trigger>>
       ELSE /\ loop' = [loop EXCEPT ![l] = "asleep"]
            /\ wake' = [wake EXCEPT ![l] = Sleep]
            /\ \E new \in [DueNow -> NextRuns(Cardinality(DueNow))] :
                 /\ \A m, n \in DueNow : new[m] = new[n] => m = n
                 /\ trigger' = [r \in Runs |->
                      CASE r \in {new[n] : n \in DueNow} ->
                             LET n == CHOOSE n \in DueNow : new[n] = r
                             IN  Triggered("loop", n, Table[n].workflow)
                        [] OTHER -> trigger[r]]
  /\ UNCHANGED <<engineVars, clock, scheduleVars, running, task, cancelled, stopping, log>>

-----------------------------------------------------------------------------
Next ==
  \/ Tick
  \/ \E n \in Names : AddSchedule(n) \/ RemoveSchedule(n) \/ EnableSchedule(n)
  \/ \E r \in Runs : \/ RunResumes(r) \/ TaskBegins(r)
                     \/ \E n \in Names : TriggerNow(r, n)
                     \/ \E w \in PageWorkflows : PageRuns(r, w)
  \/ \E l \in Loops : Start(l) \/ Iterate(l) \/ LoopCancelled(l)
  \/ Stop \/ StopReturns

Spec == Init /\ [][Next]_vars

\* Every step of a workflow returns or raises, since its network calls and its
\* subprocesses have timeouts; a ready task and a cancelled one get their turn.
\* Nobody need start anything.
Fairness ==
  /\ \A r \in Runs : WF_vars(RunResumes(r)) /\ WF_vars(TaskBegins(r))
  /\ \A l \in Loops : WF_vars(LoopCancelled(l))

FairSpec == Spec /\ Fairness

-----------------------------------------------------------------------------
(* Properties *)

\* However starts and stops overlap, one loop is at work while the scheduler is
\* running, the one it knows of, and none while it is not.
OneLoop ==
  {l \in Loops : Live(l) /\ l \notin cancelled} = IF running THEN {task} ELSE {}

LoopRuns(n) == {r \in Runs : trigger[r].by = "loop" /\ trigger[r].name = n}

\* A loop triggers a schedule at most once in any minute, whatever becomes of
\* the runs.
OncePerLoopAndMinute ==
  \A n \in Names : \A r, s \in LoopRuns(n) :
    /\ trigger[r].loop = trigger[s].loop
    /\ trigger[r].at = trigger[s].at
    => r = s

\* The scheduler triggers a schedule at most once in any minute.
OncePerMinute ==
  \A n \in Names : \A r, s \in LoopRuns(n) :
    trigger[r].at = trigger[s].at => r = s

\* A run that was triggered comes to its end and into the log, also when the
\* scheduler is stopped or its schedule removed meanwhile.
RunsFinish == \A r \in Runs : trigger[r] # NoTrigger ~> Ended(r)
=============================================================================
