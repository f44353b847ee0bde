------------------------ MODULE HealthCheckerProofs -------------------------
(***************************************************************************)
(* Theorems about the health checker, for any components, any number of    *)
(* concurrent checks, heartbeats and stops, and any thresholds.            *)
(***************************************************************************)
EXTENDS HealthChecker, TLAPS

\* A cancellation is on its way to a living task only, so a task identity that
\* start_periodic reuses is not cancelled at birth.
CancelledAreLive == \A h \in cancelled : Live(h)

IInv == TypeOK /\ StatusExplained /\ CancelledAreLive /\ RunningHasHeartbeat

-----------------------------------------------------------------------------
(* One result counted *)

\* A counter stays within its range and is positive after it counted.
LEMMA Counting ==
  ASSUME NEW n \in 0 .. CountCap
  PROVE  Count(n) \in 1 .. CountCap
BY ThresholdsAssumption DEF Count

\* A success leaves the status explained by the counters.
LEMMA Success ==
  ASSUME TypeOK, StatusExplained, NEW c \in Components, MarkSuccess(c)
  PROVE  /\ status' \in [Components -> Statuses]
         /\ failures' \in [Components -> 0 .. CountCap]
         /\ successes' \in [Components -> 0 .. CountCap]
         /\ StatusExplained'
<1> DEFINE s == Count(successes[c])
<1>1. s \in 1 .. CountCap /\ s \in 0 .. CountCap
  <2>1. s \in 1 .. CountCap
    BY Counting DEF TypeOK
  <2> QED
    BY <2>1, ThresholdsAssumption
<1>2. successes' = [successes EXCEPT ![c] = s]
  BY DEF MarkSuccess
<1> HIDE DEF s
<1>3. /\ failures' \in [Components -> 0 .. CountCap]
      /\ successes' \in [Components -> 0 .. CountCap]
      /\ status' \in [Components -> Statuses]
  BY <1>1, <1>2, ThresholdsAssumption DEF TypeOK, MarkSuccess, Statuses
<1>4. StatusExplained'
  <2> SUFFICES ASSUME NEW d \in Components
               PROVE  /\ failures'[d] = 0 \/ successes'[d] = 0
                      /\ status'[d] = "UNHEALTHY" <=> failures'[d] >= UnhealthyThreshold
                      /\ failures'[d] > 0 => status'[d] # "HEALTHY"
                      /\ successes'[d] >= RecoverThreshold => status'[d] = "HEALTHY"
    BY DEF StatusExplained
  <2>1. CASE d = c
    BY <2>1, <1>1, <1>2, ThresholdsAssumption
    DEF TypeOK, MarkSuccess, StatusExplained, Statuses
  <2>2. CASE d # c
    BY <2>2, <1>2 DEF TypeOK, MarkSuccess, StatusExplained
  <2> QED
    BY <2>1, <2>2
<1> QED
  BY <1>3, <1>4

\* So does a failure.
LEMMA Failure ==
  ASSUME TypeOK, StatusExplained, NEW c \in Components, MarkFailure(c)
  PROVE  /\ status' \in [Components -> Statuses]
         /\ failures' \in [Components -> 0 .. CountCap]
         /\ successes' \in [Components -> 0 .. CountCap]
         /\ StatusExplained'
<1> DEFINE f == Count(failures[c])
<1>1. f \in 1 .. CountCap /\ f \in 0 .. CountCap
  <2>1. f \in 1 .. CountCap
    BY Counting DEF TypeOK
  <2> QED
    BY <2>1, ThresholdsAssumption
<1>2. failures' = [failures EXCEPT ![c] = f]
  BY DEF MarkFailure
<1> HIDE DEF f
<1>3. /\ failures' \in [Components -> 0 .. CountCap]
      /\ successes' \in [Components -> 0 .. CountCap]
      /\ status' \in [Components -> Statuses]
  BY <1>1, <1>2, ThresholdsAssumption DEF TypeOK, MarkFailure, Statuses
<1>4. StatusExplained'
  <2> SUFFICES ASSUME NEW d \in Components
               PROVE  /\ failures'[d] = 0 \/ successes'[d] = 0
                      /\ status'[d] = "UNHEALTHY" <=> failures'[d] >= UnhealthyThreshold
                      /\ failures'[d] > 0 => status'[d] # "HEALTHY"
                      /\ successes'[d] >= RecoverThreshold => status'[d] = "HEALTHY"
    BY DEF StatusExplained
  <2>1. CASE d = c
    BY <2>1, <1>1, <1>2, ThresholdsAssumption
    DEF TypeOK, MarkFailure, StatusExplained, Statuses
  <2>2. CASE d # c
    BY <2>2, <1>2 DEF TypeOK, MarkFailure, StatusExplained
  <2> QED
    BY <2>1, <2>2
<1> QED
  BY <1>3, <1>4

-----------------------------------------------------------------------------
(* The steps *)

\* A step of a component, a registration or a check leaves the heartbeats alone.
LEMMA ComponentStep ==
  ASSUME IInv,
         \/ \E c \in Components : Flip(c) \/ RegisterComponent(c)
         \/ \E a \in Callers : CheckAll(a)
         \/ \E a \in Actors, c \in Components : Answer(a, c) \/ Resume(a, c)
  PROVE  IInv'
<1> USE DEF IInv, TypeOK, Live
<1>1. ASSUME NEW c \in Components, Flip(c) PROVE IInv'
  BY <1>1 DEF Flip, componentVars, taskVars, StatusExplained, CancelledAreLive,
              RunningHasHeartbeat
<1>2. ASSUME NEW c \in Components, RegisterComponent(c) PROVE IInv'
  <2>1. TypeOK'
    BY <1>2, ThresholdsAssumption
    DEF RegisterComponent, taskVars, Statuses, OrphansChecks, CheckStates
  <2>2. StatusExplained'
    BY <1>2, ThresholdsAssumption DEF RegisterComponent, StatusExplained
  <2> QED
    BY <1>2, <2>1, <2>2
    DEF RegisterComponent, taskVars, CancelledAreLive, RunningHasHeartbeat
<1>3. ASSUME NEW a \in Callers, CheckAll(a) PROVE IInv'
  <2>1. TypeOK'
    BY <1>3 DEF CheckAll, componentVars, taskVars, StartedChecks, CheckStates, Actors
  <2> QED
    BY <1>3, <2>1 DEF CheckAll, componentVars, taskVars, StatusExplained,
                      CancelledAreLive, RunningHasHeartbeat
<1>4. ASSUME NEW a \in Actors, NEW c \in Components, Answer(a, c) PROVE IInv'
  <2>1. TypeOK'
    BY <1>4 DEF Answer, componentVars, taskVars, CheckStates
  <2> QED
    BY <1>4, <2>1 DEF Answer, componentVars, taskVars, StatusExplained,
                      CancelledAreLive, RunningHasHeartbeat
<1>5. ASSUME NEW a \in Actors, NEW c \in Components, Resume(a, c) PROVE IInv'
  <2>1. /\ status' \in [Components -> Statuses]
        /\ failures' \in [Components -> 0 .. CountCap]
        /\ successes' \in [Components -> 0 .. CountCap]
        /\ StatusExplained'
    <3>1. CASE MarkSuccess(c)
      BY <3>1, Success
    <3>2. CASE MarkFailure(c)
      BY <3>2, Failure
    <3>3. CASE UNCHANGED <<status, failures, successes>>
      BY <3>3 DEF StatusExplained
    <3> QED
      BY <1>5, <3>1, <3>2, <3>3 DEF Resume
  <2>2. TypeOK'
    BY <1>5, <2>1 DEF Resume, taskVars, CheckStates
  <2> QED
    BY <1>5, <2>1, <2>2 DEF Resume, taskVars, CancelledAreLive, RunningHasHeartbeat
<1> QED
  BY <1>1, <1>2, <1>3, <1>4, <1>5

\* A step of a heartbeat or of start_periodic and stop_periodic leaves the
\* component states alone.
LEMMA HeartbeatStep ==
  ASSUME IInv,
         \/ \E h \in Heartbeats : \/ StartPeriodic(h) \/ BeatBegins(h)
                                  \/ BeatSleeps(h) \/ BeatCancelled(h)
         \/ \E s \in Stoppers : StopPeriodic(s) \/ StopResumes(s)
  PROVE  IInv'
<1> USE DEF IInv, TypeOK, Live
<1>1. ASSUME NEW h \in Heartbeats, StartPeriodic(h) PROVE IInv'
  <2>1. TypeOK'
    BY <1>1 DEF StartPeriodic, componentVars, BeatStates
  <2>2. Live(h)' /\ h \notin cancelled'
    BY <1>1 DEF StartPeriodic, CancelledAreLive
  <2> QED
    BY <1>1, <2>1, <2>2
    DEF StartPeriodic, componentVars, StatusExplained, CancelledAreLive, RunningHasHeartbeat
<1>2. ASSUME NEW h \in Heartbeats, BeatBegins(h) PROVE IInv'
  <2>1. TypeOK'
    BY <1>2 DEF BeatBegins, componentVars, BeatStates, StartedChecks, CheckStates, Actors
  <2> QED
    BY <1>2, <2>1 DEF BeatBegins, componentVars, StatusExplained, CancelledAreLive,
                      RunningHasHeartbeat
<1>3. ASSUME NEW h \in Heartbeats, BeatSleeps(h) PROVE IInv'
  BY <1>3 DEF BeatSleeps, componentVars, BeatStates, StatusExplained, CancelledAreLive,
              RunningHasHeartbeat
<1>4. ASSUME NEW h \in Heartbeats, BeatCancelled(h) PROVE IInv'
  <2>1. TypeOK'
    BY <1>4 DEF BeatCancelled, componentVars, BeatStates, NoChecks, CheckStates, Actors
  <2> QED
    BY <1>4, <2>1 DEF BeatCancelled, componentVars, StatusExplained, CancelledAreLive,
                      RunningHasHeartbeat
<1>5. ASSUME NEW s \in Stoppers, StopPeriodic(s) PROVE IInv'
  <2>1. CASE task # NoTask /\ Live(task)
    <3>1. task \in Heartbeats
      BY <2>1
    <3>2. TypeOK' /\ CancelledAreLive'
      BY <1>5, <2>1, <3>1 DEF StopPeriodic, componentVars, CancelledAreLive
    <3>3. StatusExplained' /\ RunningHasHeartbeat'
      BY <1>5, <3>2 DEF StopPeriodic, componentVars, StatusExplained, RunningHasHeartbeat
    <3> QED
      BY <3>2, <3>3
  <2>2. CASE ~(task # NoTask /\ Live(task))
    BY <1>5, <2>2 DEF StopPeriodic, componentVars, StatusExplained, CancelledAreLive,
                      RunningHasHeartbeat
  <2> QED
    BY <2>1, <2>2
<1>6. ASSUME NEW s \in Stoppers, StopResumes(s) PROVE IInv'
  BY <1>6 DEF StopResumes, componentVars, StatusExplained, CancelledAreLive,
              RunningHasHeartbeat
<1> QED
  BY <1>1, <1>2, <1>3, <1>4, <1>5, <1>6

-----------------------------------------------------------------------------
\* The inductive invariant holds in every reachable state.
THEOREM HealthInvariance == Spec => []IInv
<1>1. Init => IInv
  <2> SUFFICES ASSUME Init PROVE IInv
    OBVIOUS
  <2>1. 0 \in 0 .. CountCap
    BY ThresholdsAssumption
  <2>2. TypeOK
    <3>1. checks \in [Actors -> [Components -> CheckStates]]
      BY DEF Init, NoChecks, CheckStates
    <3> QED
      BY <2>1, <3>1 DEF Init, TypeOK, Statuses, BeatStates
  <2>3. StatusExplained
    <3>1. \A c \in Components : status[c] = "HEALTHY" /\ failures[c] = 0 /\ successes[c] = 0
      BY DEF Init
    <3>2. ~(0 >= UnhealthyThreshold) /\ ~(0 >= RecoverThreshold) /\ ~(0 > 0)
      BY ThresholdsAssumption
    <3> QED
      BY <3>1, <3>2 DEF StatusExplained
  <2>4. CancelledAreLive /\ RunningHasHeartbeat
    BY DEF Init, CancelledAreLive, RunningHasHeartbeat
  <2> QED
    BY <2>2, <2>3, <2>4 DEF IInv
<1>2. IInv /\ [Next]_vars => IInv'
  <2> SUFFICES ASSUME IInv, [Next]_vars PROVE IInv'
    OBVIOUS
  <2>1. CASE Next
    BY <2>1, ComponentStep, HeartbeatStep DEF Next
  <2>2. CASE UNCHANGED vars
    BY <2>2 DEF vars, IInv, TypeOK, StatusExplained, CancelledAreLive,
                RunningHasHeartbeat, Live
  <2> QED
    BY <2>1, <2>2
<1> QED
  BY <1>1, <1>2, PTL DEF Spec

\* The checker's state stays well formed.
THEOREM TypeCorrectness == Spec => []TypeOK
BY HealthInvariance, PTL DEF IInv

\* The status of a component always says what its last results were, however
\* many check_all calls and heartbeats deliver them.
THEOREM StatusIsExplained == Spec => []StatusExplained
BY HealthInvariance, PTL DEF IInv

\* A checker that counts as running has a heartbeat nobody cancelled.
THEOREM HeartbeatWhileRunning == Spec => []RunningHasHeartbeat
BY HealthInvariance, PTL DEF IInv

\* A status changes by one degree at a time, registrations apart: a component
\* that was UNHEALTHY has no successes to its credit, and one that is HEALTHY no
\* failures, whichever checks resume in between.
THEOREM NoJumps == Spec => NoJump
<1> DEFINE Gradual(c) ==
      status[c] # status'[c] =>
        \/ "DEGRADED" \in {status[c], status'[c]}
        \/ failures'[c] = 0 /\ successes'[c] = 0
<1>1. ASSUME IInv, Next, NEW c \in Components PROVE Gradual(c)
  <2> SUFFICES ASSUME status[c] # status'[c]
               PROVE  \/ status[c] = "DEGRADED" \/ status'[c] = "DEGRADED"
                      \/ failures'[c] = 0 /\ successes'[c] = 0
    OBVIOUS
  <2> USE DEF IInv, TypeOK
  <2>0. /\ status[c] \in Statuses
        /\ failures[c] \in 0 .. CountCap
        /\ successes[c] \in 0 .. CountCap
        /\ failures[c] = 0 \/ successes[c] = 0
        /\ status[c] = "UNHEALTHY" <=> failures[c] >= UnhealthyThreshold
        /\ failures[c] > 0 => status[c] # "HEALTHY"
    BY <1>1 DEF StatusExplained
  <2>1. ASSUME NEW d \in Components, RegisterComponent(d)
        PROVE  failures'[c] = 0 /\ successes'[c] = 0
    BY <1>1, <2>1 DEF RegisterComponent
  <2>2. ASSUME NEW d \in Components, MarkSuccess(d)
        PROVE  status[c] = "DEGRADED" \/ status'[c] = "DEGRADED"
    <3>1. d = c
      BY <1>1, <2>2 DEF MarkSuccess
    <3>2. status[c] = "UNHEALTHY" => successes[c] = 0
      BY <2>0, ThresholdsAssumption
    <3>3. CASE status[c] = "UNHEALTHY"
      <4>1. ~(successes'[c] >= RecoverThreshold)
        BY <1>1, <2>2, <3>1, <3>2, <3>3, ThresholdsAssumption DEF MarkSuccess, Count
      <4> QED
        BY <1>1, <2>2, <3>1, <3>3, <4>1 DEF MarkSuccess
    <3>4. CASE status[c] = "HEALTHY"
      BY <1>1, <2>2, <3>1, <3>4 DEF MarkSuccess
    <3> QED
      BY <2>0, <3>3, <3>4 DEF Statuses
  <2>3. ASSUME NEW d \in Components, MarkFailure(d)
        PROVE  status[c] = "DEGRADED" \/ status'[c] = "DEGRADED"
    <3>1. d = c
      BY <1>1, <2>3 DEF MarkFailure
    <3>2. status[c] = "HEALTHY" => failures[c] = 0
      BY <2>0, ThresholdsAssumption
    <3>3. status[c] = "HEALTHY" => failures'[c] = 1
      BY <1>1, <2>3, <3>1, <3>2, ThresholdsAssumption DEF MarkFailure, Count
    <3> QED
      BY <1>1, <2>0, <2>3, <3>1, <3>3, ThresholdsAssumption DEF MarkFailure, Statuses
  <2>4. \/ \E d \in Components : RegisterComponent(d)
        \/ \E a \in Actors, d \in Components : Resume(a, d)
    BY <1>1 DEF Next, Flip, CheckAll, Answer, StartPeriodic, BeatBegins, BeatSleeps,
                BeatCancelled, StopPeriodic, StopResumes, componentVars
  <2>5. CASE \E d \in Components : RegisterComponent(d)
    BY <2>1, <2>5
  <2>6. CASE \E a \in Actors, d \in Components : Resume(a, d)
    BY <2>2, <2>3, <2>6 DEF Resume
  <2> QED
    BY <2>4, <2>5, <2>6
<1>2. IInv /\ [Next]_vars => [\A c \in Components : Gradual(c)]_vars
  BY <1>1
<1> QED
  BY <1>2, HealthInvariance, PTL DEF Spec, NoJump
=============================================================================
