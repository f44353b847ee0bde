--------------------------- MODULE WorkflowEngine ---------------------------
(***************************************************************************)
(* The workflow engine (atlas/application/workflow_engine.py): the eight   *)
(* workflows as sequences of awaited steps, the status the engine shows    *)
(* for each workflow, and its history.                                     *)
(*                                                                         *)
(* Runs of any workflows may overlap: a schedule, a manual trigger and a   *)
(* page may each start one.  An action is a run's segment between two      *)
(* awaits.  A step may raise; a step in Guarded catches what it raises.    *)
(***************************************************************************)
EXTENDS Integers, Sequences, TLC

CONSTANTS
  MaxRuns,     \* bound on the calls of run()
  Workflows,   \* the names run() is called with
  Configured,  \* the collaborators the engine was constructed with
  HasHub       \* whether one of them is a notification hub

ASSUME EngineAssumption == HasHub \in BOOLEAN /\ MaxRuns \in Nat

VARIABLES
  workflow,  \* the argument of each run
  stage,     \* where the run stands
  step,      \* the step it awaits
  status,    \* _status
  history    \* _history, with the run that each record is of

Runs == 1 .. MaxRuns

engineVars == <<workflow, stage, step, status, history>>

-----------------------------------------------------------------------------
(* The handlers *)

\* The awaited calls of each handler, with the collaborator each one needs.  (The
\* updates of institutional flow and margin trading are called with arguments the
\* data manager does not take: they raise, and are caught, without an await.)
MarketDay ==
  [pre_market |-> <<<<"international", "fetch_us_close">>,
                    <<"international", "fetch_futures">>,
                    <<"gap_predictor", "gap_prediction">>,
                    <<"regime", "regime_update">>,
                    <<"sentiment", "sentiment_update">>>>,
   intraday |-> <<<<"radar", "radar_start">>>>,
   post_market |-> <<<<"radar", "radar_stop">>,
                     <<"data_manager", "daily_bars">>,
                     <<"screener", "screener_scan">>>>,
   ipo_scan |-> <<<<"ipo", "scan_upcoming">>, <<"ipo", "historical_stats">>>>]

Upkeep ==
  [weekly_report |-> <<<<"portfolio", "portfolio_stats">>,
                       <<"regime", "regime_snapshot">>,
                       <<"sentiment", "sentiment_snapshot">>>>,
   monthly_rebuild |-> <<<<"universe", "build_universe">>>>,
   backup_db |-> <<<<"shell", "backup_db">>>>,
   retrain_model |-> <<<<"shell", "retrain_model">>>>]

Handler == MarketDay @@ Upkeep

Known == DOMAIN Handler

\* A step is left out if its collaborator is missing; the gap prediction needs
\* the international data, and the scripts need none.
Taken(s) ==
  \/ s[1] \in Configured \union {"shell"} /\ s[1] # "gap_predictor"
  \/ s[1] = "gap_predictor" /\ {"gap_predictor", "international"} \subseteq Configured
Steps(w) == SelectSeq(Handler[w], Taken)

Guarded == {"daily_bars", "backup_db", "retrain_model"}
MayRaise(r) == Steps(workflow[r])[step[r]][2] \notin Guarded

-----------------------------------------------------------------------------
EngineInit ==
  /\ workflow = [r \in Runs |-> "none"]
  /\ stage = [r \in Runs |-> "unborn"]
  /\ step = [r \in Runs |-> 0]
  /\ status = [w \in Workflows |-> "never_run"]
  /\ history = << >>

Active(r) == stage[r] \in {"step", "notify"}
Ended(r)  == stage[r] \in {"returned", "raised"}
Ends(r)   == ~Ended(r) /\ Ended(r)'

Record(r, w, outcome) ==
  /\ status' = [status EXCEPT ![w] = outcome]
  /\ history' = Append(history, [run |-> r, status |-> outcome])

\* The handler is left with its result, or with an exception.
Complete(r, w) ==
  /\ Record(r, w, "completed")
  /\ stage' = [stage EXCEPT ![r] = IF HasHub THEN "notify" ELSE "returned"]
Fail(r, w) ==
  /\ Record(r, w, "failed")
  /\ stage' = [stage EXCEPT ![r] = "raised"]

\* The handler goes on to its i-th await.
AwaitStep(r, w, i) ==
  IF i <= Len(Steps(w))
    THEN /\ stage' = [stage EXCEPT ![r] = "step"]
         /\ step' = [step EXCEPT ![r] = i]
         /\ UNCHANGED history
    ELSE Complete(r, w) /\ UNCHANGED step

\* run(), up to its first await.
Run(r, w) ==
  /\ workflow' = [workflow EXCEPT ![r] = w]
  /\ IF w \in Known
       THEN /\ AwaitStep(r, w, 1)
            /\ stage'[r] = "step" => status' = [status EXCEPT ![w] = "running"]
       ELSE Fail(r, w) /\ UNCHANGED step

\* The awaited step returns, or raises what the handler catches itself.
StepReturns(r) ==
  /\ stage[r] = "step"
  /\ AwaitStep(r, workflow[r], step[r] + 1)
  /\ stage'[r] = "step" => UNCHANGED status
  /\ UNCHANGED workflow

\* The failure is recorded, and the status is left behind.
StepRaisesUnseen(r) ==
  /\ stage[r] = "step"
  /\ MayRaise(r)
  /\ stage' = [stage EXCEPT ![r] = "raised"]
  /\ history' = Append(history, [run |-> r, status |-> "failed"])
  /\ UNCHANGED <<workflow, step, status>>
StepRaises(r) ==
  /\ stage[r] = "step"
  /\ MayRaise(r)
  /\ Fail(r, workflow[r])
  /\ UNCHANGED <<workflow, step>>

\* hub.send is over; what it answers or raises does not matter.
Notified(r) ==
  /\ stage[r] = "notify"
  /\ stage' = [stage EXCEPT ![r] = "returned"]
  /\ UNCHANGED <<workflow, step, status, history>>

Resume(r) == StepReturns(r) \/ StepRaises(r) \/ Notified(r)

-----------------------------------------------------------------------------
(* Properties *)

RecordsOf(w) == {i \in DOMAIN history : workflow[history[i].run] = w}
Awaited(w)   == \E r \in Runs : workflow[r] = w /\ stage[r] = "step"

\* The status of a workflow is never left over, however its runs overlap: it
\* is "running" only while a run is, and when none is it is the outcome of the
\* run that ended last.
StatusTruthful ==
  \A w \in Workflows :
    /\ status[w] = "running" => Awaited(w)
    /\ RecordsOf(w) = {} /\ ~Awaited(w) => status[w] = "never_run"
    /\ \A i \in RecordsOf(w) :
         ~Awaited(w) /\ (\A j \in RecordsOf(w) : j <= i) => status[w] = history[i].status
=============================================================================
