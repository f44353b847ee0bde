---------------------------- MODULE HealthChecker ---------------------------
(***************************************************************************)
(* The system health checker (atlas/infrastructure/health_checker.py): the *)
(* status of each registered component, the checks in flight, and the      *)
(* periodic heartbeat task with its start and stop.                        *)
(*                                                                         *)
(* Everything runs on one asyncio loop.  A check suspends in its check_fn, *)
(* a heartbeat in check_all and in sleep, stop_periodic while it awaits    *)
(* the task it cancelled; each action is one segment between such points.  *)
(* Only comparisons of the two counters with the thresholds matter, so     *)
(* they stop counting at CountCap.                                         *)
(***************************************************************************)
EXTENDS Integers

CONSTANTS
  Components,          \* names that may be registered
  Heartbeats,          \* identities for the tasks start_periodic creates
  Callers,             \* coroutines that call check_all themselves
  Stoppers,            \* coroutines that call stop_periodic
  NoTask,              \* Python's None for _periodic_task
  RecoverThreshold, DegradeThreshold, UnhealthyThreshold,
  CountCap

ASSUME ThresholdsAssumption ==
  /\ CountCap \in Nat
  /\ DegradeThreshold = 1
  /\ RecoverThreshold \in 2 .. CountCap
  /\ UnhealthyThreshold \in 2 .. CountCap
ASSUME ActorsAssumption == NoTask \notin Heartbeats /\ Heartbeats \intersect Callers = {}

VARIABLES
  registered,  \* the keys of _components and _check_fns
  status, failures, successes,  \* the ComponentHealth of each
  up,          \* whether the component itself works
  checks,      \* per check_all in flight, the state of each component's check
  running,     \* _running
  task,        \* _periodic_task
  beat,        \* where each heartbeat task stands
  cancelled,   \* the tasks that were asked to cancel
  awaits       \* the task each stop_periodic awaits

vars == <<registered, status, failures, successes, up, checks, running, task,
          beat, cancelled, awaits>>
componentVars == <<registered, status, failures, successes>>
taskVars      == <<running, task, beat, cancelled, awaits>>

Statuses == {"HEALTHY", "DEGRADED", "UNHEALTHY"}
Actors   == Heartbeats \union Callers

\* A check is not under way, waits for its check_fn, has its answer, or works
\* for a ComponentHealth that was replaced meanwhile.
CheckStates == {"none", "asked", "ok", "failed", "orphan"}
BeatStates  == {"none", "new", "checking", "sleeping"}

Live(h)    == beat[h] # "none"
Idle(a)    == \A c \in Components : checks[a][c] = "none"
NoChecks   == [c \in Components |-> "none"]

-----------------------------------------------------------------------------
Init ==
  /\ registered \in SUBSET Components
  /\ status    = [c \in Components |-> "HEALTHY"]
  /\ failures  = [c \in Components |-> 0]
  /\ successes = [c \in Components |-> 0]
  /\ up \in [Components -> BOOLEAN]
  /\ checks = [a \in Actors |-> NoChecks]
  /\ running = FALSE
  /\ task = NoTask
  /\ beat = [h \in Heartbeats |-> "none"]
  /\ cancelled = {}
  /\ awaits = [s \in Stoppers |-> NoTask]

\* The component itself fails or comes back.
Flip(c) ==
  /\ up' = [up EXCEPT ![c] = ~up[c]]
  /\ UNCHANGED <<componentVars, checks, taskVars>>

\* A check under way keeps the ComponentHealth it began with.
OrphansChecks(c) ==
  [a \in Actors |-> [checks[a] EXCEPT ![c] = IF @ = "none" THEN @ ELSE "orphan"]]

\* The entry replaced without its counters.
RegisterKeepingCounters(c) ==
  /\ registered' = registered \union {c}
  /\ status' = [status EXCEPT ![c] = "HEALTHY"]
  /\ checks' = OrphansChecks(c)
  /\ UNCHANGED <<failures, successes, up, taskVars>>
RegisterComponent(c) ==
  /\ registered' = registered \union {c}
  /\ status'     = [status EXCEPT ![c] = "HEALTHY"]
  /\ failures'   = [failures EXCEPT ![c] = 0]
  /\ successes'  = [successes EXCEPT ![c] = 0]
  /\ checks' = OrphansChecks(c)
  /\ UNCHANGED <<up, taskVars>>

-----------------------------------------------------------------------------
(* check_component *)

\* check_all gathers one check per registered component.
StartedChecks == [c \in Components |-> IF c \in registered THEN "asked" ELSE "none"]

CheckAll(a) ==
  /\ Idle(a)
  /\ checks' = [checks EXCEPT ![a] = StartedChecks]
  /\ UNCHANGED <<componentVars, up, taskVars>>

\* check_fn comes to its answer; the check is resumed with it later.
Answer(a, c) ==
  /\ checks[a][c] = "asked"
  /\ a \notin cancelled
  /\ checks' = [checks EXCEPT ![a][c] = IF up[c] THEN "ok" ELSE "failed"]
  /\ UNCHANGED <<componentVars, up, taskVars>>

Count(n) == IF n < CountCap THEN n + 1 ELSE n

\* The successes so far are not forgotten.
MarkFailureOnly(c) ==
  /\ failures'  = [failures EXCEPT ![c] = Count(@)]
  /\ status' = [status EXCEPT ![c] =
       IF failures'[c] >= UnhealthyThreshold THEN "UNHEALTHY" ELSE "DEGRADED"]
  /\ UNCHANGED successes
\* The lower threshold tested first.
MarkFailureDegradeFirst(c) ==
  /\ failures'  = [failures EXCEPT ![c] = Count(@)]
  /\ successes' = [successes EXCEPT ![c] = 0]
  /\ status' = [status EXCEPT ![c] =
       IF failures'[c] >= DegradeThreshold THEN "DEGRADED"
       ELSE IF failures'[c] >= UnhealthyThreshold THEN "UNHEALTHY"
       ELSE @]
\* _mark_failure
MarkFailure(c) ==
  /\ failures'  = [failures EXCEPT ![c] = Count(@)]
  /\ successes' = [successes EXCEPT ![c] = 0]
  /\ status' = [status EXCEPT ![c] =
       IF failures'[c] >= UnhealthyThreshold THEN "UNHEALTHY"
       ELSE IF failures'[c] >= DegradeThreshold THEN "DEGRADED"
       ELSE @]

\* A degraded component waits for a failure to be reset.
MarkSuccessOnlyIfUnhealthy(c) ==
  /\ successes' = [successes EXCEPT ![c] = Count(@)]
  /\ failures'  = [failures EXCEPT ![c] = 0]
  /\ status' = [status EXCEPT ![c] = IF @ = "UNHEALTHY" THEN "DEGRADED" ELSE @]
MarkSuccess(c) ==
  /\ successes' = [successes EXCEPT ![c] = Count(@)]
  /\ failures'  = [failures EXCEPT ![c] = 0]
  /\ status' = [status EXCEPT ![c] =
       IF successes'[c] >= RecoverThreshold THEN "HEALTHY"
       ELSE IF @ = "UNHEALTHY" THEN "DEGRADED"
       ELSE @]

\* The check resumes and updates the ComponentHealth it holds: the registered
\* one, or one that nobody reads any more.
Resume(a, c) ==
  /\ a \notin cancelled
  /\ \/ checks[a][c] = "ok" /\ MarkSuccess(c)
     \/ checks[a][c] = "failed" /\ MarkFailure(c)
     \/ checks[a][c] = "orphan" /\ UNCHANGED <<status, failures, successes>>
  /\ checks' = [checks EXCEPT ![a][c] = "none"]
  /\ UNCHANGED <<registered, up, taskVars>>

-----------------------------------------------------------------------------
(* The heartbeat *)

\* start_periodic: a task identity that nobody refers to any more is reused.
StartPeriodic(h) ==
  /\ ~running
  /\ ~Live(h) /\ h # task /\ \A s \in Stoppers : awaits[s] # h
  /\ running' = TRUE
  /\ task' = h
  /\ beat' = [beat EXCEPT ![h] = "new"]
  /\ UNCHANGED <<componentVars, up, checks, cancelled, awaits>>

\* The loop does not look at _running.
BeatIgnoresFlag(h) ==
  /\ beat[h] \in {"new", "sleeping"}
  /\ h \notin cancelled
  /\ beat' = [beat EXCEPT ![h] = "checking"]
  /\ checks' = [checks EXCEPT ![h] = StartedChecks]
  /\ UNCHANGED <<componentVars, up, running, task, cancelled, awaits>>
\* The head of the loop, first and after every sleep.  Without components
\* check_all returns at once.
BeatBegins(h) ==
  /\ beat[h] \in {"new", "sleeping"}
  /\ h \notin cancelled
  /\ IF running
       THEN /\ beat' = [beat EXCEPT ![h] = "checking"]
            /\ checks' = [checks EXCEPT ![h] = StartedChecks]
       ELSE /\ beat' = [beat EXCEPT ![h] = "none"]
            /\ UNCHANGED checks
  /\ UNCHANGED <<componentVars, up, running, task, cancelled, awaits>>

\* gather has all the results.
BeatSleeps(h) ==
  /\ beat[h] = "checking"
  /\ h \notin cancelled
  /\ Idle(h)
  /\ beat' = [beat EXCEPT ![h] = "sleeping"]
  /\ UNCHANGED <<componentVars, up, checks, running, task, cancelled, awaits>>

\* The CancelledError reaches the task; its gather cancels the checks with it.
BeatCancelled(h) ==
  /\ h \in cancelled
  /\ beat' = [beat EXCEPT ![h] = "none"]
  /\ checks' = [checks EXCEPT ![h] = NoChecks]
  /\ cancelled' = cancelled \ {h}
  /\ UNCHANGED <<componentVars, up, running, task, awaits>>

\* The task cancelled and the flag left alone.
StopWithoutFlag(s) ==
  /\ awaits[s] = NoTask
  /\ task # NoTask /\ Live(task)
  /\ cancelled' = cancelled \union {task}
  /\ awaits' = [awaits EXCEPT ![s] = task]
  /\ UNCHANGED <<componentVars, up, checks, running, task, beat>>
\* stop_periodic, up to its await if there is a task to wait for.
StopPeriodic(s) ==
  /\ awaits[s] = NoTask
  /\ running' = FALSE
  /\ IF task # NoTask /\ Live(task)
       THEN /\ cancelled' = cancelled \union {task}
            /\ awaits' = [awaits EXCEPT ![s] = task]
            /\ UNCHANGED task
       ELSE /\ task' = NoTask
            /\ UNCHANGED <<cancelled, awaits>>
  /\ UNCHANGED <<componentVars, up, checks, beat>>

\* The awaited task is over.  _periodic_task is cleared whatever it holds now.
StopResumes(s) ==
  /\ awaits[s] # NoTask
  /\ ~Live(awaits[s])
  /\ task' = NoTask
  /\ awaits' = [awaits EXCEPT ![s] = NoTask]
  /\ UNCHANGED <<componentVars, up, checks, running, beat, cancelled>>

-----------------------------------------------------------------------------
Next ==
  \/ \E c \in Components : Flip(c) \/ RegisterComponent(c)
  \/ \E a \in Callers : CheckAll(a)
  \/ \E a \in Actors, c \in Components : Answer(a, c) \/ Resume(a, c)
  \/ \E h \in Heartbeats : \/ StartPeriodic(h) \/ BeatBegins(h)
                           \/ BeatSleeps(h) \/ BeatCancelled(h)
  \/ \E s \in Stoppers : StopPeriodic(s) \/ StopResumes(s)

Spec == Init /\ [][Next]_vars

\* Whatever is ready runs: a check_fn answers (its client has a timeout), a
\* resumed coroutine gets its turn, a sleep ends, a cancellation arrives.
Fairness ==
  /\ \A a \in Actors, c \in Components : WF_vars(Answer(a, c)) /\ WF_vars(Resume(a, c))
  /\ \A h \in Heartbeats : /\ WF_vars(BeatBegins(h))
                           /\ WF_vars(BeatSleeps(h))
                           /\ WF_vars(BeatCancelled(h))
  /\ \A s \in Stoppers : WF_vars(StopResumes(s))

FairSpec == Spec /\ Fairness

-----------------------------------------------------------------------------
(* Properties *)

TypeOK ==
  /\ registered \subseteq Components
  /\ status \in [Components -> Statuses]
  /\ failures \in [Components -> 0 .. CountCap]
  /\ successes \in [Components -> 0 .. CountCap]
  /\ up \in [Components -> BOOLEAN]
  /\ checks \in [Actors -> [Components -> CheckStates]]
  /\ running \in BOOLEAN
  /\ task \in Heartbeats \union {NoTask}
  /\ beat \in [Heartbeats -> BeatStates]
  /\ cancelled \subseteq Heartbeats
  /\ awaits \in [Stoppers -> Heartbeats \union {NoTask}]

\* The status says what the last results were, in whatever order concurrent
\* checks delivered them: UNHEALTHY exactly after three failures in a row,
\* never HEALTHY after a failure, and DEGRADED otherwise only until the third
\* success in a row.
StatusExplained ==
  \A c \in Components :
    /\ failures[c] = 0 \/ successes[c] = 0
    /\ status[c] = "UNHEALTHY" <=> failures[c] >= UnhealthyThreshold
    /\ failures[c] > 0 => status[c] # "HEALTHY"
    /\ successes[c] >= RecoverThreshold => status[c] = "HEALTHY"

\* A component leaves UNHEALTHY by DEGRADED only, unless it is registered anew;
\* it never becomes HEALTHY or UNHEALTHY at one blow.
NoJump ==
  [][ \A c \in Components :
        status[c] # status'[c] =>
          \/ "DEGRADED" \in {status[c], status'[c]}
          \/ failures'[c] = 0 /\ successes'[c] = 0 ]_vars

\* While the periodic check counts as running, a heartbeat is alive that no
\* one has cancelled, however starts and stops overlap.
RunningHasHeartbeat == running => \E h \in Heartbeats : Live(h) /\ h \notin cancelled

\* Once stopped for good, every heartbeat ends: also one whose task reference
\* an overlapping stop_periodic overwrote.
StopQuiesces == <>[](~running) => <>[](\A h \in Heartbeats : ~Live(h))

\* A component that stays up under a running heartbeat becomes and stays
\* HEALTHY.
Recovers ==
  \A c \in Components :
    <>[](running /\ c \in registered /\ up[c]) => <>[](status[c] = "HEALTHY")

\* A component that stays down under a running heartbeat is found UNHEALTHY,
\* unless it is registered again and again.
Detected ==
  \A c \in Components :
    <>[](running /\ c \in registered /\ ~up[c]) /\ <>[][~RegisterComponent(c)]_vars
      => <>[](status[c] = "UNHEALTHY")
=============================================================================
