--------------------------- MODULE SchedulerProofs ---------------------------
(***************************************************************************)
(* Theorems about the scheduler and the workflow engine below it, for any  *)
(* workflows, schedules, holidays, runs and loop tasks, and any length of  *)
(* a minute.                                                               *)
(***************************************************************************)
EXTENDS Scheduler, TLAPS, SequenceTheorems

Stages   == {"unborn", "step", "notify", "returned", "raised"}
Outcomes == {"completed", "failed"}

\* The engine's part: runs have a workflow once they have begun, and only those
\* are recorded.
EngineOK ==
  /\ workflow \in [Runs -> Workflows \union {"none"}]
  /\ stage \in [Runs -> Stages]
  /\ status \in [Workflows -> Outcomes \union {"never_run", "running"}]
  /\ history \in Seq([run : Runs, status : Outcomes])
  /\ \A r \in Runs : stage[r] # "unborn" => workflow[r] \in Workflows
  /\ \A i \in DOMAIN history : stage[history[i].run] # "unborn"

Triggers ==
  [by : {"nobody", "loop", "manual", "page"}, name : Names \union {"none"}, at : Nat,
   of : Workflows \union {"none"}, loop : Loops \union {NoTask}]

SchedulerOK ==
  /\ clock \in Nat
  /\ present \subseteq Names
  /\ running \in BOOLEAN
  /\ task \in Loops \union {NoTask}
  /\ loop \in [Loops -> {"unborn", "ready", "asleep", "over"}]
  /\ wake \in [Loops -> Nat]
  /\ cancelled \subseteq Loops
  /\ trigger \in [Runs -> Triggers]

\* A run that nobody has triggered has not begun; what a loop triggers names a
\* workflow and a loop that was started.
TriggersOK ==
  \A r \in Runs :
    /\ trigger[r].by = "nobody" => stage[r] = "unborn"
    /\ trigger[r].by = "loop" => /\ trigger[r].of \in Workflows
                                 /\ trigger[r].loop \in Loops
                                 /\ loop[trigger[r].loop] # "unborn"

\* Only loops at work are cancelled.
CancelledAreLive == \A l \in cancelled : Live(l)

\* A loop that may go on sleeps past the minute of all it has triggered.
SleepsPastTriggers ==
  \A r \in Runs :
    trigger[r].by = "loop" /\ Live(trigger[r].loop) =>
      trigger[r].at < MinuteOf(wake[trigger[r].loop])

IInv ==
  /\ EngineOK /\ SchedulerOK
  /\ TriggersOK /\ CancelledAreLive /\ SleepsPastTriggers
  /\ StatusTruthful /\ OneLoop /\ OncePerLoopAndMinute

-----------------------------------------------------------------------------
(* Minutes *)

\* Minutes are numbers that grow with the clock, and a sleep of a minute ends
\* in a later one.
LEMMA Minutes ==
  /\ \A t \in Nat : MinuteOf(t) \in Nat
  /\ \A t, u \in Nat : t <= u => MinuteOf(t) <= MinuteOf(u)
  /\ \A t \in Nat : MinuteOf(t) < MinuteOf(t + Minute)
<1>1. Minute \in Nat \ {0}
  BY TimeAssumption
<1>2. \A t \in Nat : t \div Minute \in Nat
  BY <1>1
<1>3. \A t, u \in Nat : t <= u => t \div Minute <= u \div Minute
  BY <1>1
<1>4. \A t \in Nat : t \div Minute < (t + Minute) \div Minute
  BY <1>1
<1> QED
  BY <1>2, <1>3, <1>4 DEF MinuteOf

-----------------------------------------------------------------------------
(* The engine *)

\* Every record is of a run that has begun.
LEMMA Recorded ==
  ASSUME EngineOK
  PROVE  \A i \in DOMAIN history : history[i].run \in Runs /\ stage[history[i].run] # "unborn"
<1>1. \A i \in 1 .. Len(history) : history[i] \in [run : Runs, status : Outcomes]
  BY ElementOfSeq DEF EngineOK
<1>2. DOMAIN history = 1 .. Len(history)
  BY DEF EngineOK
<1> QED
  BY <1>1, <1>2 DEF EngineOK

\* A run ends, or ends at once: its outcome is the last record of its workflow.
LEMMA Recording ==
  ASSUME EngineOK, StatusTruthful, NEW r \in Runs, NEW w \in Workflows,
         stage[r] = "unborn" \/ workflow[r] = w,
         NEW st \in {"notify", "returned", "raised"}, NEW outcome \in Outcomes,
         workflow' = [workflow EXCEPT ![r] = w], stage' = [stage EXCEPT ![r] = st],
         Record(r, w, outcome)
  PROVE  EngineOK' /\ StatusTruthful'
<1> DEFINE last == [run |-> r, status |-> outcome]
           n    == Len(history) + 1
<1>1. last \in [run : Runs, status : Outcomes]
  OBVIOUS
<1>2. /\ status' = [status EXCEPT ![w] = outcome]
      /\ history' = Append(history, last)
  BY DEF Record
<1>3. /\ history \in Seq([run : Runs, status : Outcomes])
      /\ DOMAIN history = 1 .. Len(history) /\ Len(history) \in Nat
  BY DEF EngineOK
<1>4. /\ history' \in Seq([run : Runs, status : Outcomes])
      /\ DOMAIN history' = DOMAIN history \union {n}
      /\ history'[n] = last /\ \A i \in DOMAIN history : history'[i] = history[i]
      /\ \A i \in DOMAIN history : i < n
  BY <1>1, <1>2, <1>3
<1>5. \A i \in DOMAIN history : history[i].run \in Runs /\ stage[history[i].run] # "unborn"
  BY Recorded
<1>6. EngineOK'
  BY <1>2, <1>4, <1>5 DEF EngineOK, Stages
<1>7. ASSUME NEW x \in Workflows
      PROVE  /\ status'[x] = "running" => Awaited(x)'
             /\ RecordsOf(x)' = {} /\ ~Awaited(x)' => status'[x] = "never_run"
             /\ \A i \in RecordsOf(x)' :
                  ~Awaited(x)' /\ (\A j \in RecordsOf(x)' : j <= i) =>
                    status'[x] = history'[i].status
  <2>1. CASE x = w
    <3>1. n \in RecordsOf(w)'
      BY <1>4 DEF RecordsOf, EngineOK
    <3>2. status'[w] = outcome /\ outcome # "running" /\ history'[n].status = outcome
      BY <1>2, <1>4 DEF EngineOK, Outcomes
    <3>3. ASSUME NEW i \in RecordsOf(w)', \A j \in RecordsOf(w)' : j <= i
          PROVE  i = n
      BY <1>3, <1>4, <3>1, <3>3 DEF RecordsOf
    <3> QED
      BY <2>1, <3>1, <3>2, <3>3
  <2>2. CASE x # w
    <3>1. RecordsOf(x)' = RecordsOf(x)
      BY <1>4, <1>5, <2>2 DEF RecordsOf, EngineOK
    <3>2. Awaited(x)' = Awaited(x)
      BY <2>2 DEF Awaited, EngineOK
    <3>3. status'[x] = status[x]
      BY <1>2, <2>2 DEF EngineOK
    <3>4. \A i \in RecordsOf(x) : history'[i] = history[i]
      BY <1>4 DEF RecordsOf
    <3> QED
      BY <3>1, <3>2, <3>3, <3>4 DEF StatusTruthful
  <2> QED
    BY <2>1, <2>2
<1> QED
  BY <1>6, <1>7 DEF StatusTruthful

\* A run begins to await its first step.
LEMMA Beginning ==
  ASSUME EngineOK, StatusTruthful, NEW r \in Runs, NEW w \in Workflows,
         stage[r] = "unborn",
         workflow' = [workflow EXCEPT ![r] = w], stage' = [stage EXCEPT ![r] = "step"],
         status' = [status EXCEPT ![w] = "running"], UNCHANGED history
  PROVE  EngineOK' /\ StatusTruthful'
<1>1. \A i \in DOMAIN history : history[i].run \in Runs /\ history[i].run # r
  BY Recorded
<1>2. EngineOK'
  BY <1>1 DEF EngineOK, Stages
<1>3. ASSUME NEW x \in Workflows
      PROVE  /\ status'[x] = "running" => Awaited(x)'
             /\ RecordsOf(x)' = {} /\ ~Awaited(x)' => status'[x] = "never_run"
             /\ \A i \in RecordsOf(x)' :
                  ~Awaited(x)' /\ (\A j \in RecordsOf(x)' : j <= i) =>
                    status'[x] = history'[i].status
  <2>1. CASE x = w
    <3>1. Awaited(w)'
      BY DEF Awaited, EngineOK
    <3> QED
      BY <2>1, <3>1
  <2>2. CASE x # w
    <3>1. RecordsOf(x)' = RecordsOf(x)
      BY <1>1 DEF RecordsOf, EngineOK
    <3>2. Awaited(x)' = Awaited(x)
      BY <2>2 DEF Awaited, EngineOK
    <3>3. status'[x] = status[x]
      BY <2>2 DEF EngineOK
    <3> QED
      BY <3>1, <3>2, <3>3 DEF StatusTruthful
  <2> QED
    BY <2>1, <2>2
<1> QED
  BY <1>2, <1>3 DEF StatusTruthful

\* A run that goes on, with its next step or after the notification, changes
\* nothing that is shown.
LEMMA GoingOn ==
  ASSUME EngineOK, StatusTruthful, NEW r \in Runs,
         \/ stage' = stage
         \/ stage[r] = "notify" /\ stage' = [stage EXCEPT ![r] = "returned"],
         UNCHANGED <<workflow, status, history>>
  PROVE  EngineOK' /\ StatusTruthful'
<1>0. /\ stage' \in [Runs -> Stages]
      /\ \A q \in Runs : (stage'[q] = "unborn") <=> (stage[q] = "unborn")
      /\ \A q \in Runs : (stage'[q] = "step") <=> (stage[q] = "step")
  <2>1. CASE stage' = stage
    BY <2>1 DEF EngineOK
  <2>2. CASE stage[r] = "notify" /\ stage' = [stage EXCEPT ![r] = "returned"]
    BY <2>2 DEF EngineOK, Stages
  <2> QED
    BY <2>1, <2>2
<1>1. EngineOK'
  BY <1>0, Recorded DEF EngineOK
<1>2. \A x \in Workflows : Awaited(x)' = Awaited(x)
  BY <1>0 DEF Awaited
<1>3. \A x \in Workflows : RecordsOf(x)' = RecordsOf(x)
  BY DEF RecordsOf
<1> QED
  BY <1>1, <1>2, <1>3 DEF StatusTruthful

\* The handler goes on to an await, or is left.
LEMMA Awaiting ==
  ASSUME EngineOK, NEW r \in Runs, NEW w, NEW i, AwaitStep(r, w, i)
  PROVE  \/ /\ stage' = [stage EXCEPT ![r] = "step"] /\ stage'[r] = "step"
            /\ UNCHANGED history
         \/ \E st \in {"notify", "returned"} :
              /\ stage' = [stage EXCEPT ![r] = st] /\ stage'[r] # "step"
              /\ Record(r, w, "completed")
<1>1. \A st : [stage EXCEPT ![r] = st][r] = st
  BY DEF EngineOK
<1>2. CASE i <= Len(Steps(w))
  BY <1>1, <1>2 DEF AwaitStep
<1>3. CASE ~(i <= Len(Steps(w)))
  BY <1>1, <1>3 DEF AwaitStep, Complete
<1> QED
  BY <1>2, <1>3

\* A call of run(), up to its first await.
LEMMA RunStep ==
  ASSUME EngineOK, StatusTruthful, NEW r \in Runs, NEW w \in Workflows, stage[r] = "unborn",
         Run(r, w)
  PROVE  /\ EngineOK' /\ StatusTruthful'
         /\ stage'[r] # "unborn" /\ \A q \in Runs \ {r} : stage'[q] = stage[q]
<1>1. workflow' = [workflow EXCEPT ![r] = w]
  BY DEF Run
<1>2. CASE w \in Known
  <2>1. /\ AwaitStep(r, w, 1)
        /\ stage'[r] = "step" => status' = [status EXCEPT ![w] = "running"]
    BY <1>2 DEF Run
  <2>2. CASE /\ stage' = [stage EXCEPT ![r] = "step"] /\ stage'[r] = "step"
             /\ UNCHANGED history
    BY <1>1, <2>1, <2>2, Beginning DEF EngineOK
  <2>3. ASSUME NEW st \in {"notify", "returned"}, stage' = [stage EXCEPT ![r] = st],
               Record(r, w, "completed")
        PROVE  EngineOK' /\ StatusTruthful' /\ stage'[r] = st
                 /\ \A q \in Runs \ {r} : stage'[q] = stage[q]
    <3>1. "completed" \in Outcomes /\ st \in {"notify", "returned", "raised"}
      BY DEF Outcomes
    <3> QED
      BY <1>1, <2>3, <3>1, Recording DEF EngineOK
  <2> QED
    BY <2>1, <2>2, <2>3, Awaiting
<1>3. CASE w \notin Known
  <2>1. stage' = [stage EXCEPT ![r] = "raised"] /\ Record(r, w, "failed")
    BY <1>3 DEF Run, Fail
  <2>2. "failed" \in Outcomes
    BY DEF Outcomes
  <2> QED
    BY <1>1, <2>1, <2>2, Recording DEF EngineOK
<1> QED
  BY <1>2, <1>3

\* A run that goes on after an await.
LEMMA ResumeStep ==
  ASSUME EngineOK, StatusTruthful, NEW r \in Runs, Resume(r)
  PROVE  /\ EngineOK' /\ StatusTruthful'
         /\ stage[r] # "unborn" /\ stage'[r] # "unborn"
         /\ \A q \in Runs \ {r} : stage'[q] = stage[q]
<1>1. CASE StepReturns(r)
  <2>1. PICK w : w = workflow[r]
    OBVIOUS
  <2>2. /\ stage[r] = "step" /\ AwaitStep(r, w, step[r] + 1) /\ UNCHANGED workflow
        /\ stage'[r] = "step" => UNCHANGED status
    BY <1>1, <2>1 DEF StepReturns
  <2>3. w \in Workflows /\ workflow' = [workflow EXCEPT ![r] = w]
    BY <2>1, <2>2 DEF EngineOK
  <2>4. CASE /\ stage' = [stage EXCEPT ![r] = "step"] /\ stage'[r] = "step"
             /\ UNCHANGED history
    <3>1. stage' = stage
      BY <2>2, <2>4 DEF EngineOK
    <3> QED
      BY <2>2, <2>4, <3>1, GoingOn
  <2>5. ASSUME NEW st \in {"notify", "returned"}, stage' = [stage EXCEPT ![r] = st],
               Record(r, w, "completed")
        PROVE  EngineOK' /\ StatusTruthful' /\ stage'[r] = st
                 /\ \A q \in Runs \ {r} : stage'[q] = stage[q]
    <3>1. "completed" \in Outcomes /\ st \in {"notify", "returned", "raised"}
      BY DEF Outcomes
    <3> QED
      BY <2>1, <2>3, <2>5, <3>1, Recording DEF EngineOK
  <2>6. PICK i : i = step[r] + 1
    OBVIOUS
  <2> QED
    BY <2>2, <2>4, <2>5, <2>6, Awaiting
<1>2. CASE StepRaises(r)
  <2>1. PICK w : w = workflow[r]
    OBVIOUS
  <2>2. /\ stage[r] = "step" /\ UNCHANGED workflow
        /\ stage' = [stage EXCEPT ![r] = "raised"] /\ Record(r, w, "failed")
    BY <1>2, <2>1 DEF StepRaises, Fail
  <2>3. w \in Workflows /\ workflow' = [workflow EXCEPT ![r] = w] /\ "failed" \in Outcomes
    BY <2>1, <2>2 DEF EngineOK, Outcomes
  <2> QED
    BY <2>1, <2>2, <2>3, Recording DEF EngineOK
<1>3. CASE Notified(r)
  <2>1. /\ stage[r] = "notify" /\ stage' = [stage EXCEPT ![r] = "returned"]
        /\ UNCHANGED <<workflow, status, history>>
    BY <1>3 DEF Notified
  <2> QED
    BY <2>1, GoingOn DEF EngineOK
<1> QED
  BY <1>1, <1>2, <1>3 DEF Resume

-----------------------------------------------------------------------------
(* The loop and its triggers *)

\* What the loop triggered stays as it is: a schedule that is edited lets go of
\* its runs, and every other step leaves the loop's triggers alone.
LEMMA Kept ==
  ASSUME SchedulerOK, TriggersOK, SleepsPastTriggers, OncePerLoopAndMinute,
         trigger' \in [Runs -> Triggers], UNCHANGED <<loop, wake>>,
         \A r \in Runs : trigger'[r].by = "loop" =>
           /\ trigger[r].by = "loop"
           /\ trigger'[r].at = trigger[r].at
           /\ trigger'[r].of = trigger[r].of
           /\ trigger'[r].loop = trigger[r].loop
           /\ trigger'[r].name \in {trigger[r].name, "none"},
         \A r \in Runs : trigger'[r].by = "nobody" =>
           trigger[r].by = "nobody" /\ stage'[r] = stage[r]
  PROVE  TriggersOK' /\ SleepsPastTriggers' /\ OncePerLoopAndMinute'
<1>1. TriggersOK'
  BY DEF TriggersOK
<1>2. SleepsPastTriggers'
  BY DEF SleepsPastTriggers, Live
<1>3. \A n \in Names : LoopRuns(n)' \subseteq LoopRuns(n)
  BY NamesAssumption DEF LoopRuns
<1>4. \A n \in Names : \A r \in LoopRuns(n)' :
        trigger'[r].at = trigger[r].at /\ trigger'[r].loop = trigger[r].loop
  BY DEF LoopRuns
<1>5. OncePerLoopAndMinute'
  BY <1>3, <1>4 DEF OncePerLoopAndMinute
<1> QED
  BY <1>1, <1>2, <1>5

\* An iteration is one of the loop the scheduler knows of.
LEMMA IteratesKnown ==
  ASSUME OneLoop, NEW l \in Loops, Iterate(l)
  PROVE  running /\ l = task
BY DEF OneLoop, Iterate

\* An iteration gives a run to each due schedule, and leaves the other runs alone.
LEMMA NewTriggers ==
  ASSUME SchedulerOK, OneLoop, NEW l \in Loops, Iterate(l)
  PROVE  \E due \in SUBSET Names, new \in [Names -> Runs \union {NoTask}] :
           /\ \A n \in due :
                /\ new[n] \in Runs
                /\ trigger[new[n]] = NoTrigger
                /\ trigger'[new[n]] = [by |-> "loop", name |-> n, at |-> MinuteOf(clock),
                                       of |-> Table[n].workflow, loop |-> l]
           /\ \A r \in Runs : (\A n \in due : new[n] # r) => trigger'[r] = trigger[r]
           /\ trigger' \in [Runs -> Triggers]
<1>1. running /\ l = task
  BY IteratesKnown
<1>2. PICK due : due = DueNow
  OBVIOUS
<1>3. due \subseteq Names
  BY <1>2 DEF DueNow, SchedulerOK
<1>4. PICK new \in [due -> NextRuns(Cardinality(due))] :
        /\ \A m, n \in due : new[m] = new[n] => m = n
        /\ trigger' = [r \in Runs |->
             CASE r \in {new[n] : n \in due} ->
                    LET n == CHOOSE n \in due : new[n] = r
                    IN  Triggered("loop", n, Table[n].workflow)
               [] OTHER -> trigger[r]]
  BY <1>1, <1>2 DEF Iterate
<1>5. \A n \in due : new[n] \in Runs /\ trigger[new[n]] = NoTrigger
  BY <1>4 DEF NextRuns
<1>6. ASSUME NEW n \in due
      PROVE  trigger'[new[n]] = [by |-> "loop", name |-> n, at |-> MinuteOf(clock),
                                 of |-> Table[n].workflow, loop |-> l]
  <2>1. (CHOOSE m \in due : new[m] = new[n]) = n
    BY <1>4
  <2>2. new[n] \in Runs /\ new[n] \in {new[m] : m \in due}
    BY <1>5
  <2>3. trigger'[new[n]] = Triggered("loop", n, Table[n].workflow)
    BY <1>4, <2>1, <2>2
  <2> QED
    BY <1>1, <2>3 DEF Triggered
<1>7. ASSUME NEW r \in Runs, \A n \in due : new[n] # r
      PROVE  trigger'[r] = trigger[r]
  BY <1>4, <1>7
<1>8. MinuteOf(clock) \in Nat
  BY Minutes DEF SchedulerOK
<1>9. ASSUME NEW n \in due
      PROVE  trigger'[new[n]] \in Triggers
  <2>1. n \in Names /\ Table[n].workflow \in Workflows
    BY <1>3, <1>9, NamesAssumption
  <2>2. [by |-> "loop", name |-> n, at |-> MinuteOf(clock), of |-> Table[n].workflow,
         loop |-> l] \in Triggers
    BY <1>8, <2>1 DEF Triggers
  <2> QED
    BY <1>6, <1>9, <2>2
<1>10. \A r \in Runs : trigger'[r] \in Triggers
  BY <1>7, <1>9 DEF SchedulerOK
<1>11. trigger' \in [Runs -> Triggers]
  BY <1>4, <1>10
<1>12. PICK all \in [Names -> Runs \union {NoTask}] : \A n \in due : all[n] = new[n]
  <2>1. [n \in Names |-> IF n \in due THEN new[n] ELSE NoTask]
          \in [Names -> Runs \union {NoTask}]
    BY <1>5
  <2> QED
    BY <1>3, <2>1
<1> QED
  BY <1>3, <1>5, <1>6, <1>7, <1>11, <1>12

\* An iteration triggers nothing that its loop has triggered in this minute.
LEMMA IterateStep ==
  ASSUME IInv, NEW l \in Loops, Iterate(l)
  PROVE  IInv'
<1>1. /\ EngineOK /\ SchedulerOK /\ TriggersOK /\ CancelledAreLive
      /\ SleepsPastTriggers /\ StatusTruthful /\ OneLoop /\ OncePerLoopAndMinute
  BY DEF IInv
<1>2. running /\ l = task
  BY <1>1, IteratesKnown
<1>3. /\ Live(l) /\ l \notin cancelled /\ wake[l] <= clock
      /\ loop' = [loop EXCEPT ![l] = "asleep"]
      /\ wake' = [wake EXCEPT ![l] = clock + Minute]
  BY <1>2 DEF Iterate, Sleep
<1>4. /\ UNCHANGED <<workflow, stage, step, status, history>>
      /\ UNCHANGED <<clock, present, running, task, cancelled>>
  BY DEF Iterate, engineVars, scheduleVars
<1>5. PICK due \in SUBSET Names, new \in [Names -> Runs \union {NoTask}] :
           /\ \A n \in due :
                /\ new[n] \in Runs
                /\ trigger[new[n]] = NoTrigger
                /\ trigger'[new[n]] = [by |-> "loop", name |-> n, at |-> MinuteOf(clock),
                                       of |-> Table[n].workflow, loop |-> l]
           /\ \A r \in Runs : (\A n \in due : new[n] # r) => trigger'[r] = trigger[r]
           /\ trigger' \in [Runs -> Triggers]
  BY <1>1, NewTriggers
<1>6. /\ MinuteOf(clock) \in Nat /\ MinuteOf(wake[l]) \in Nat
      /\ MinuteOf(wake[l]) <= MinuteOf(clock)
      /\ MinuteOf(clock + Minute) \in Nat /\ MinuteOf(clock) < MinuteOf(clock + Minute)
      /\ clock + Minute \in Nat
  <2>1. clock \in Nat /\ wake[l] \in Nat /\ clock + Minute \in Nat
    BY <1>1, TimeAssumption DEF SchedulerOK
  <2> QED
    BY <1>3, <2>1, Minutes
<1>7. /\ loop' \in [Loops -> {"unborn", "ready", "asleep", "over"}]
      /\ loop'[l] = "asleep" /\ \A k \in Loops \ {l} : loop'[k] = loop[k]
      /\ wake' \in [Loops -> Nat]
      /\ wake'[l] = clock + Minute /\ \A k \in Loops \ {l} : wake'[k] = wake[k]
  BY <1>1, <1>3, <1>6 DEF SchedulerOK
<1>8. \A k \in Loops : loop'[k] \in {"ready", "asleep"} <=> loop[k] \in {"ready", "asleep"}
  BY <1>3, <1>7 DEF Live
<1>9. EngineOK' /\ StatusTruthful'
  BY <1>1, <1>4 DEF EngineOK, StatusTruthful, Awaited, RecordsOf
<1>10. SchedulerOK'
  BY <1>1, <1>4, <1>5, <1>7 DEF SchedulerOK
<1>11. CancelledAreLive' /\ OneLoop'
  BY <1>1, <1>4, <1>8 DEF CancelledAreLive, OneLoop, SchedulerOK, Live
<1>12. ASSUME NEW n \in due
       PROVE  /\ trigger'[new[n]].by = "loop" /\ trigger'[new[n]].name = n
              /\ trigger'[new[n]].at = MinuteOf(clock) /\ trigger'[new[n]].loop = l
              /\ trigger'[new[n]].of \in Workflows
  <2>1. PICK w \in Workflows : w = Table[n].workflow
    BY NamesAssumption
  <2>2. trigger'[new[n]] = [by |-> "loop", name |-> n, at |-> MinuteOf(clock), of |-> w,
                           loop |-> l]
    BY <1>5, <1>12, <2>1
  <2> QED
    BY <2>2
<1>13. ASSUME NEW r \in Runs, trigger'[r].by = "loop"
       PROVE  \/ /\ \E n \in due : new[n] = r
                 /\ trigger'[r].at = MinuteOf(clock) /\ trigger'[r].loop = l
                 /\ trigger'[r].of \in Workflows
                 /\ trigger'[r].name \in due /\ new[trigger'[r].name] = r
              \/ trigger'[r] = trigger[r]
  <2>1. CASE \E n \in due : new[n] = r
    <3>1. PICK n \in due : new[n] = r
      BY <2>1
    <3> QED
      BY <1>12, <3>1
  <2>2. CASE \A n \in due : new[n] # r
    BY <1>5, <2>2
  <2> QED
    BY <2>1, <2>2
<1>14. TriggersOK'
  <2>1. ASSUME NEW r \in Runs, trigger'[r].by = "nobody"
        PROVE  stage'[r] = "unborn"
    <3>1. \A n \in due : new[n] # r
      BY <1>12, <2>1
    <3> QED
      BY <1>1, <1>4, <1>5, <2>1, <3>1 DEF TriggersOK
  <2>2. ASSUME NEW r \in Runs, trigger'[r].by = "loop"
        PROVE  /\ trigger'[r].of \in Workflows /\ trigger'[r].loop \in Loops
               /\ loop'[trigger'[r].loop] # "unborn"
    BY <1>1, <1>7, <1>13, <2>2 DEF TriggersOK
  <2> QED
    BY <2>1, <2>2 DEF TriggersOK
<1>15. SleepsPastTriggers'
  <2>1. ASSUME NEW r \in Runs, trigger'[r].by = "loop", loop'[trigger'[r].loop] \in {"ready", "asleep"}
        PROVE  trigger'[r].at < MinuteOf(wake'[trigger'[r].loop])
    <3>1. CASE trigger'[r].at = MinuteOf(clock) /\ trigger'[r].loop = l
      BY <1>6, <1>7, <3>1
    <3>2. CASE trigger'[r] = trigger[r]
      <4>4. trigger[r].by = "loop" /\ trigger[r].loop \in Loops /\ trigger[r].at \in Nat
        BY <1>1, <2>1, <3>2 DEF TriggersOK, SchedulerOK, Triggers
      <4>1. trigger[r].at < MinuteOf(wake[trigger[r].loop])
        BY <1>1, <1>8, <2>1, <3>2, <4>4 DEF SleepsPastTriggers, Live
      <4>2. CASE trigger[r].loop = l
        BY <1>6, <1>7, <3>2, <4>1, <4>2, <4>4
      <4>3. CASE trigger[r].loop # l
        BY <1>7, <3>2, <4>1, <4>3, <4>4
      <4> QED
        BY <4>2, <4>3
    <3> QED
      BY <1>13, <2>1, <3>1, <3>2
  <2> QED
    BY <2>1 DEF SleepsPastTriggers, MinuteOf, Live
<1>16. OncePerLoopAndMinute'
  <2>1. ASSUME NEW r \in Runs, trigger'[r] = trigger[r], trigger[r].by = "loop",
               trigger[r].loop = l
        PROVE  trigger'[r].at # MinuteOf(clock)
    <3>1. trigger[r].at \in Nat /\ trigger[r].at < MinuteOf(wake[l])
      BY <1>1, <1>3, <2>1 DEF SleepsPastTriggers, SchedulerOK, Triggers
    <3> QED
      BY <1>6, <2>1, <3>1
  <2>2. ASSUME NEW n \in Names, NEW r \in LoopRuns(n)', NEW s \in LoopRuns(n)',
               trigger'[r].loop = trigger'[s].loop, trigger'[r].at = trigger'[s].at
        PROVE  r = s
    <3>1. /\ r \in Runs /\ trigger'[r].by = "loop" /\ trigger'[r].name = n
          /\ s \in Runs /\ trigger'[s].by = "loop" /\ trigger'[s].name = n
      BY <2>2 DEF LoopRuns
    <3>2. CASE new[n] = r /\ new[n] = s
      BY <3>2
    <3>3. CASE trigger'[r] = trigger[r] /\ trigger'[s] = trigger[s]
      BY <1>1, <2>2, <3>1, <3>3 DEF OncePerLoopAndMinute, LoopRuns
    <3>4. CASE /\ trigger'[r].at = MinuteOf(clock) /\ trigger'[r].loop = l
               /\ trigger'[s] = trigger[s]
      BY <2>1, <2>2, <3>1, <3>4
    <3>5. CASE /\ trigger'[s].at = MinuteOf(clock) /\ trigger'[s].loop = l
               /\ trigger'[r] = trigger[r]
      BY <2>1, <2>2, <3>1, <3>5
    <3> QED
      BY <1>13, <3>1, <3>2, <3>3, <3>4, <3>5
  <2> QED
    BY <2>2 DEF OncePerLoopAndMinute
<1> QED
  BY <1>9, <1>10, <1>11, <1>14, <1>15, <1>16 DEF IInv

-----------------------------------------------------------------------------
(* The other steps *)

\* The engine is left alone.
LEMMA EngineKept ==
  ASSUME EngineOK, StatusTruthful, UNCHANGED engineVars
  PROVE  EngineOK' /\ StatusTruthful'
BY DEF EngineOK, StatusTruthful, Awaited, RecordsOf, engineVars

\* The scheduler's tasks are left alone.
LEMMA LoopsKept ==
  ASSUME SchedulerOK, CancelledAreLive, OneLoop, UNCHANGED loopVars,
         clock' \in Nat, present' \subseteq Names, trigger' \in [Runs -> Triggers]
  PROVE  SchedulerOK' /\ CancelledAreLive' /\ OneLoop'
BY DEF SchedulerOK, CancelledAreLive, OneLoop, Live, loopVars

\* A schedule that is replaced or removed, or turned on or off.
LEMMA EditStep ==
  ASSUME IInv, NEW n \in Names,
         AddSchedule(n) \/ RemoveSchedule(n) \/ EnableSchedule(n)
  PROVE  IInv'
<1>1. /\ EngineOK /\ SchedulerOK /\ TriggersOK /\ CancelledAreLive
      /\ SleepsPastTriggers /\ StatusTruthful /\ OneLoop /\ OncePerLoopAndMinute
  BY DEF IInv
<1>2. /\ UNCHANGED engineVars /\ UNCHANGED <<clock, loopVars>>
      /\ present' \in {present, present \union {n}, present \ {n}}
      /\ trigger' = trigger \/ trigger' = Orphaned({n})
  BY DEF AddSchedule, RemoveSchedule, EnableSchedule
<1>3. /\ trigger' \in [Runs -> Triggers]
      /\ \A r \in Runs : /\ trigger'[r].by = trigger[r].by /\ trigger'[r].at = trigger[r].at
                         /\ trigger'[r].of = trigger[r].of
                         /\ trigger'[r].loop = trigger[r].loop
                         /\ trigger'[r].name \in {trigger[r].name, "none"}
  <2>1. CASE trigger' = trigger
    BY <1>1, <2>1 DEF SchedulerOK
  <2>2. CASE trigger' = Orphaned({n})
    <3>1. ASSUME NEW t \in Triggers
          PROVE  /\ [t EXCEPT !.name = "none"] \in Triggers
                 /\ [t EXCEPT !.name = "none"].by = t.by
                 /\ [t EXCEPT !.name = "none"].at = t.at
                 /\ [t EXCEPT !.name = "none"].of = t.of
                 /\ [t EXCEPT !.name = "none"].loop = t.loop
                 /\ [t EXCEPT !.name = "none"].name = "none"
      BY DEF Triggers
    <3>2. \A r \in Runs : /\ trigger[r] \in Triggers
                         /\ trigger'[r] \in {trigger[r], [trigger[r] EXCEPT !.name = "none"]}
      BY <1>1, <2>2 DEF SchedulerOK, Orphaned
    <3>3. trigger' \in [Runs -> Triggers]
      BY <2>2, <3>1, <3>2 DEF Orphaned
    <3> QED
      BY <3>1, <3>2, <3>3
  <2> QED
    BY <1>2, <2>1, <2>2
<1>4. EngineOK' /\ StatusTruthful'
  BY <1>1, <1>2, EngineKept
<1>5. SchedulerOK' /\ CancelledAreLive' /\ OneLoop'
  <2>1. clock' \in Nat /\ present' \subseteq Names
    BY <1>1, <1>2 DEF SchedulerOK
  <2> QED
    BY <1>1, <1>2, <1>3, <2>1, LoopsKept
<1>6. TriggersOK' /\ SleepsPastTriggers' /\ OncePerLoopAndMinute'
  <2>1. UNCHANGED <<stage, loop, wake>>
    BY <1>2 DEF engineVars, loopVars
  <2> QED
    BY <1>1, <1>3, <2>1, Kept
<1> QED
  BY <1>4, <1>5, <1>6 DEF IInv

\* A run that begins, or goes on; what triggers it is known by now, and what it
\* leaves behind is no loop's business.
LEMMA RunningStep ==
  ASSUME IInv, NEW r \in Runs, EngineOK' /\ StatusTruthful',
         stage'[r] # "unborn", \A q \in Runs \ {r} : stage'[q] = stage[q],
         UNCHANGED <<clock, present, loopVars>>,
         NEW t \in Triggers, trigger' = [trigger EXCEPT ![r] = t],
         t = trigger[r] \/ t.by \in {"manual", "page"}, t.by # "nobody"
  PROVE  IInv'
<1>1. /\ SchedulerOK /\ TriggersOK /\ CancelledAreLive
      /\ SleepsPastTriggers /\ OneLoop /\ OncePerLoopAndMinute
  BY DEF IInv
<1>2. /\ trigger' \in [Runs -> Triggers]
      /\ trigger'[r] = t /\ \A q \in Runs \ {r} : trigger'[q] = trigger[q]
  BY <1>1 DEF SchedulerOK
<1>3. SchedulerOK' /\ CancelledAreLive' /\ OneLoop'
  <2>1. clock' \in Nat /\ present' \subseteq Names
    BY <1>1 DEF SchedulerOK
  <2> QED
    BY <1>1, <1>2, <2>1, LoopsKept
<1>4. \A q \in Runs : trigger'[q].by = "loop" => trigger'[q] = trigger[q]
  BY <1>2
<1>5. \A q \in Runs : trigger'[q].by = "nobody" =>
        trigger'[q] = trigger[q] /\ stage'[q] = stage[q]
  BY <1>2
<1>6. TriggersOK' /\ SleepsPastTriggers' /\ OncePerLoopAndMinute'
  <2>1. UNCHANGED <<loop, wake>>
    BY DEF loopVars
  <2>2. \A q \in Runs : trigger'[q].by = "loop" =>
          /\ trigger[q].by = "loop"
          /\ trigger'[q].at = trigger[q].at
          /\ trigger'[q].of = trigger[q].of
          /\ trigger'[q].loop = trigger[q].loop
          /\ trigger'[q].name \in {trigger[q].name, "none"}
    BY <1>4
  <2>3. \A q \in Runs : trigger'[q].by = "nobody" =>
          trigger[q].by = "nobody" /\ stage'[q] = stage[q]
    BY <1>5
  <2> QED
    BY <1>1, <1>2, <2>1, <2>2, <2>3, Kept
<1> QED
  BY <1>3, <1>6 DEF IInv

\* trigger_now and the scheduler page, which start a run that nobody has triggered.
LEMMA ManualStep ==
  ASSUME IInv, NEW r \in Runs, NEW by \in {"manual", "page"}, NEW n \in Names \union {"none"},
         NEW w \in Workflows, trigger[r] = NoTrigger,
         trigger' = [trigger EXCEPT ![r] = Triggered(by, n, w)], Run(r, w),
         UNCHANGED <<clock, present, loopVars>>
  PROVE  IInv'
<1>1. /\ EngineOK /\ StatusTruthful /\ TriggersOK /\ clock \in Nat
  BY DEF IInv, SchedulerOK
<1>2. stage[r] = "unborn"
  BY <1>1 DEF TriggersOK, NoTrigger
<1>3. /\ EngineOK' /\ StatusTruthful'
      /\ stage'[r] # "unborn" /\ \A q \in Runs \ {r} : stage'[q] = stage[q]
  BY <1>1, <1>2, RunStep
<1>4. PICK t : t = Triggered(by, n, w)
  OBVIOUS
<1>5. MinuteOf(clock) \in Nat
  BY <1>1, Minutes
<1>6. t \in Triggers /\ t.by = by
  BY <1>4, <1>5 DEF Triggered, Triggers
<1> QED
  BY <1>3, <1>4, <1>6, RunningStep

\* A run goes on, or a task begins it.
LEMMA RunOnStep ==
  ASSUME IInv, NEW r \in Runs, RunResumes(r) \/ TaskBegins(r)
  PROVE  IInv'
<1>1. /\ EngineOK /\ StatusTruthful /\ TriggersOK /\ trigger \in [Runs -> Triggers]
  BY DEF IInv, SchedulerOK
<1>2. /\ EngineOK' /\ StatusTruthful'
      /\ stage'[r] # "unborn" /\ \A q \in Runs \ {r} : stage'[q] = stage[q]
      /\ trigger[r].by # "nobody"
  <2>1. CASE RunResumes(r)
    <3>1. Resume(r)
      BY <2>1 DEF RunResumes
    <3> QED
      BY <1>1, <3>1, ResumeStep DEF TriggersOK
  <2>2. CASE TaskBegins(r)
    <3>1. PICK w : w = trigger[r].of
      OBVIOUS
    <3>2. w \in Workflows /\ stage[r] = "unborn" /\ Run(r, w) /\ trigger[r].by = "loop"
      BY <1>1, <2>2, <3>1 DEF TaskBegins, TriggersOK
    <3> QED
      BY <1>1, <3>2, RunStep
  <2> QED
    BY <2>1, <2>2
<1>3. UNCHANGED <<clock, present, loopVars, trigger>>
  BY DEF RunResumes, TaskBegins
<1>4. PICK t \in Triggers : t = trigger[r]
  BY <1>1
<1>5. trigger' = [trigger EXCEPT ![r] = t]
  BY <1>1, <1>3, <1>4
<1> QED
  BY <1>2, <1>3, <1>4, <1>5, RunningStep

\* A loop that is started or cancelled, stop(), and time that goes by.
LEMMA LoopStep ==
  ASSUME IInv,
         Stop \/ StopReturns \/ Tick \/ \E l \in Loops : Start(l) \/ LoopCancelled(l)
  PROVE  IInv'
<1>1. /\ EngineOK /\ SchedulerOK /\ TriggersOK /\ CancelledAreLive
      /\ SleepsPastTriggers /\ StatusTruthful /\ OneLoop /\ OncePerLoopAndMinute
  BY DEF IInv
<1>2. EngineOK' /\ StatusTruthful'
  <2>1. UNCHANGED engineVars
    BY DEF Stop, StopReturns, Tick, Start, LoopCancelled
  <2> QED
    BY <1>1, <2>1, EngineKept
<1>3. UNCHANGED <<stage, trigger>>
  BY DEF Stop, StopReturns, Tick, Start, LoopCancelled, engineVars
<1>4. CASE Stop \/ StopReturns \/ Tick
  <2>1. UNCHANGED <<loop, wake, task, present>>
    BY <1>4 DEF Stop, StopReturns, Tick, scheduleVars, loopVars
  <2>2. TriggersOK' /\ SleepsPastTriggers' /\ OncePerLoopAndMinute'
    <3>1. trigger \in [Runs -> Triggers]
      BY <1>1 DEF SchedulerOK
    <3> QED
      BY <1>1, <1>3, <2>1, <3>1, Kept
  <2>3. SchedulerOK' /\ CancelledAreLive' /\ OneLoop'
    <3>1. CASE StopReturns \/ Tick
      <4>1. UNCHANGED <<running, cancelled>> /\ clock' \in Nat
        BY <1>1, <3>1 DEF StopReturns, Tick, loopVars, SchedulerOK
      <4> QED
        BY <1>1, <1>3, <2>1, <4>1 DEF SchedulerOK, CancelledAreLive, OneLoop, Live
    <3>2. CASE Stop
      <4>1. CASE task # NoTask /\ Live(task)
        <5>1. /\ cancelled' = cancelled \union {task} /\ running' = FALSE /\ clock' = clock
              /\ task \in Loops
          BY <1>1, <3>2, <4>1 DEF Stop, SchedulerOK
        <5> QED
          BY <1>1, <1>3, <2>1, <4>1, <5>1
             DEF SchedulerOK, CancelledAreLive, OneLoop, Live
      <4>2. CASE ~(task # NoTask /\ Live(task))
        <5>1. cancelled' = cancelled /\ running' = FALSE /\ clock' = clock
          BY <3>2, <4>2 DEF Stop
        <5>2. {l \in Loops : Live(l) /\ l \notin cancelled} = {}
          BY <1>1, <4>2 DEF OneLoop, Loops, NoTask
        <5> QED
          BY <1>1, <1>3, <2>1, <5>1, <5>2
             DEF SchedulerOK, CancelledAreLive, OneLoop, Live
      <4> QED
        BY <4>1, <4>2
    <3> QED
      BY <1>4, <3>1, <3>2
  <2> QED
    BY <1>2, <2>2, <2>3 DEF IInv
<1>5. ASSUME NEW l \in Loops, Start(l)
      PROVE  IInv'
  <2>1. /\ ~running /\ running' = TRUE /\ loop[l] = "unborn" /\ task' = l
        /\ loop' = [loop EXCEPT ![l] = "ready"] /\ wake' = [wake EXCEPT ![l] = clock]
        /\ UNCHANGED <<clock, cancelled>>
    BY <1>5 DEF Start, FirstUnborn
  <2>2. present' \subseteq Names
    BY <1>1, <1>5, NamesAssumption DEF Start, SchedulerOK
  <2>3. \A r \in Runs : trigger[r].by = "loop" => trigger[r].loop # l
    BY <1>1, <2>1 DEF TriggersOK
  <2>4. /\ loop'[l] = "ready" /\ \A k \in Loops \ {l} : loop'[k] = loop[k]
        /\ \A k \in Loops \ {l} : wake'[k] = wake[k]
    BY <1>1, <2>1 DEF SchedulerOK
  <2>5. SchedulerOK'
    BY <1>1, <1>3, <2>1, <2>2 DEF SchedulerOK
  <2>6. CancelledAreLive' /\ OneLoop'
    <3>1. l \notin cancelled
      BY <1>1, <2>1 DEF CancelledAreLive, Live
    <3> QED
      BY <1>1, <2>1, <2>4, <3>1 DEF CancelledAreLive, OneLoop, Live, SchedulerOK
  <2>7. TriggersOK'
    BY <1>1, <1>3, <2>3, <2>4 DEF TriggersOK
  <2>8. SleepsPastTriggers'
    BY <1>1, <1>3, <2>3, <2>4 DEF TriggersOK, SleepsPastTriggers, Live, MinuteOf
  <2>9. OncePerLoopAndMinute'
    BY <1>1, <1>3 DEF OncePerLoopAndMinute, LoopRuns
  <2> QED
    BY <1>2, <2>5, <2>6, <2>7, <2>8, <2>9 DEF IInv
<1>6. ASSUME NEW l \in Loops, LoopCancelled(l)
      PROVE  IInv'
  <2>1. /\ l \in cancelled /\ cancelled' = cancelled \ {l}
        /\ loop' = [loop EXCEPT ![l] = "over"]
        /\ UNCHANGED <<clock, present, running, task, wake>>
    BY <1>6 DEF LoopCancelled, scheduleVars
  <2>2. loop'[l] = "over" /\ \A k \in Loops \ {l} : loop'[k] = loop[k]
    BY <1>1, <2>1 DEF SchedulerOK
  <2>3. SchedulerOK'
    BY <1>1, <1>3, <2>1 DEF SchedulerOK
  <2>4. CancelledAreLive' /\ OneLoop'
    BY <1>1, <2>1, <2>2 DEF CancelledAreLive, OneLoop, Live, SchedulerOK
  <2>5. TriggersOK'
    BY <1>1, <1>3, <2>2 DEF TriggersOK
  <2>6. SleepsPastTriggers'
    BY <1>1, <1>3, <2>1, <2>2 DEF TriggersOK, SleepsPastTriggers, Live, MinuteOf
  <2>7. OncePerLoopAndMinute'
    BY <1>1, <1>3 DEF OncePerLoopAndMinute, LoopRuns
  <2> QED
    BY <1>2, <2>3, <2>4, <2>5, <2>6, <2>7 DEF IInv
<1> QED
  BY <1>4, <1>5, <1>6

-----------------------------------------------------------------------------
(* The theorems *)

\* The invariant holds before the scheduler is started.
LEMMA InitIInv == Init => IInv
<1> SUFFICES ASSUME Init PROVE IInv
  OBVIOUS
<1>1. EngineOK
  BY DEF Init, EngineInit, EngineOK, Stages
<1>2. SchedulerOK
  <2>1. NoTrigger \in Triggers
    BY DEF NoTrigger, Triggers
  <2> QED
    BY <2>1 DEF Init, SchedulerOK
<1>3. TriggersOK /\ CancelledAreLive /\ SleepsPastTriggers /\ OncePerLoopAndMinute
  BY DEF Init, EngineInit, NoTrigger, TriggersOK, CancelledAreLive, SleepsPastTriggers,
         OncePerLoopAndMinute, LoopRuns
<1>4. StatusTruthful
  BY DEF Init, EngineInit, StatusTruthful, RecordsOf, Awaited
<1>5. OneLoop
  BY DEF Init, OneLoop, Live
<1> QED
  BY <1>1, <1>2, <1>3, <1>4, <1>5 DEF IInv

\* Every step of the engine, the scheduler and its loops keeps the invariant.
LEMMA NextIInv == IInv /\ [Next]_vars => IInv'
<1> SUFFICES ASSUME IInv, [Next]_vars PROVE IInv'
  OBVIOUS
<1>1. CASE \E n \in Names : AddSchedule(n) \/ RemoveSchedule(n) \/ EnableSchedule(n)
  BY <1>1, EditStep
<1>2. ASSUME NEW r \in Runs, RunResumes(r) \/ TaskBegins(r)
      PROVE  IInv'
  BY <1>2, RunOnStep
<1>3. ASSUME NEW r \in Runs, NEW n \in Names, TriggerNow(r, n)
      PROVE  IInv'
  <2>1. PICK w \in Workflows : w = Table[n].workflow
    BY NamesAssumption
  <2>2. /\ trigger[r] = NoTrigger /\ trigger' = [trigger EXCEPT ![r] = Triggered("manual", n, w)]
        /\ Run(r, w) /\ UNCHANGED <<clock, present, loopVars>>
    BY <1>3, <2>1 DEF TriggerNow, NextRuns
  <2> QED
    BY <2>2, ManualStep
<1>4. ASSUME NEW r \in Runs, NEW w \in PageWorkflows, PageRuns(r, w)
      PROVE  IInv'
  <2>1. /\ w \in Workflows /\ trigger[r] = NoTrigger
        /\ trigger' = [trigger EXCEPT ![r] = Triggered("page", "none", w)]
        /\ Run(r, w) /\ UNCHANGED <<clock, present, loopVars>>
    BY <1>4, NamesAssumption DEF PageRuns, NextRuns, scheduleVars
  <2> QED
    BY <2>1, ManualStep
<1>5. CASE \E l \in Loops : Iterate(l)
  BY <1>5, IterateStep
<1>6. CASE Stop \/ StopReturns \/ Tick \/ \E l \in Loops : Start(l) \/ LoopCancelled(l)
  BY <1>6, LoopStep
<1>7. CASE UNCHANGED vars
  <2>1. /\ UNCHANGED engineVars /\ UNCHANGED <<stage, trigger, loop, wake>>
        /\ UNCHANGED <<clock, present, loopVars>>
    BY <1>7 DEF vars, engineVars, scheduleVars, loopVars
  <2>2. /\ EngineOK /\ SchedulerOK /\ TriggersOK /\ CancelledAreLive
        /\ SleepsPastTriggers /\ StatusTruthful /\ OneLoop /\ OncePerLoopAndMinute
    BY DEF IInv
  <2>3. trigger' \in [Runs -> Triggers] /\ clock' \in Nat /\ present' \subseteq Names
    BY <2>1, <2>2 DEF SchedulerOK
  <2>4. EngineOK' /\ StatusTruthful'
    BY <2>1, <2>2, EngineKept
  <2>5. SchedulerOK' /\ CancelledAreLive' /\ OneLoop'
    BY <2>1, <2>2, <2>3, LoopsKept
  <2>6. TriggersOK' /\ SleepsPastTriggers' /\ OncePerLoopAndMinute'
    BY <2>1, <2>2, <2>3, Kept
  <2> QED
    BY <2>4, <2>5, <2>6 DEF IInv
<1> QED
  BY <1>1, <1>2, <1>3, <1>4, <1>5, <1>6, <1>7 DEF Next

\* Every state the scheduler reaches satisfies the invariant, however its runs,
\* loops, edits, starts and stops are interleaved.
THEOREM SchedulerInvariant == Spec => []IInv
BY InitIInv, NextIInv, PTL DEF Spec

\* WorkflowEngine._status and _history never disagree: a workflow shown as running
\* has a run at an await, and one that is not shows how its last run ended, however
\* many runs of it overlap.
THEOREM StatusIsTruthful == Spec => []StatusTruthful
<1>1. IInv => StatusTruthful
  BY DEF IInv
<1> QED
  BY <1>1, SchedulerInvariant, PTL

\* start() and stop() leave one loop at work while the scheduler runs and none
\* while it does not, also when a start comes before the cancelled loop is gone.
THEOREM OneLoopAtWork == Spec => []OneLoop
<1>1. IInv => OneLoop
  BY DEF IInv
<1> QED
  BY <1>1, SchedulerInvariant, PTL

\* A loop of the scheduler, whose _should_run looks at last_run of completed runs
\* only, still triggers each schedule at most once a minute: it sleeps past it.
THEOREM LoopTriggersOnce == Spec => []OncePerLoopAndMinute
<1>1. IInv => OncePerLoopAndMinute
  BY DEF IInv
<1> QED
  BY <1>1, SchedulerInvariant, PTL
=============================================================================
