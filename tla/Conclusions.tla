----------------------------- MODULE Conclusions -----------------------------
(***************************************************************************)
(* What the program concludes about a stock: the axis score and the three  *)
(* aspects (atlas/strategy/scoring_engine.py), the level with its          *)
(* downgrades (atlas/application/conclusion_engine.py), the confidence in  *)
(* it (confidence_score.py) and the health of a strategy, from which its   *)
(* weight follows (daily_backtest.py).                                     *)
(*                                                                         *)
(* Scores of the axes are in tenths, returns in tenths of a percent, and   *)
(* the total is the sum of the four axes, whose weights are equal: total   *)
(* score t of the code is 40 * t here.                                     *)
(***************************************************************************)
EXTENDS Integers, FiniteSets, FiniteSetsExt, Sequences

CONSTANTS
  Unavailable,  \* what could not be had: None, or a request that raised
  Evaluated,    \* the codes evaluated
  Figures,      \* what a stock's tables may say: records, see Technical and below
  Climates,     \* [regime, mood], "none" if it could not be had
  Histories,    \* for the confidence: what it is given
  Records       \* for the health: trade histories

Regimes == {"BULL", "RANGE", "BEAR", "none"}

ASSUME FiguresAssumption == \A f \in Figures : {f.foreign, f.trust, f.ret} \subseteq Int
ASSUME HistoriesAssumption ==
  \A h \in Histories :
    /\ DOMAIN h = {"days", "ml", "regime", "flow"}
    /\ h.days \in Nat /\ h.regime \in Regimes
    /\ h.ml # Unavailable => h.ml \in Int
    /\ h.flow # Unavailable => h.flow.known \in BOOLEAN /\ {h.flow.foreign, h.flow.trust} \subseteq Int

VARIABLES
  conclusions, \* ConclusionEngine._cache, with what each conclusion was made from
  confidence,  \* a history and the confidence in it
  health       \* a record and the health of the strategy

concludeVars == <<conclusions, confidence, health>>

Capped(x, top) == Max({0, Min({x, top})})
Steps(x, steps, otherwise) ==  \* the first step that x reaches
  LET reached == {i \in DOMAIN steps : x >= steps[i][1]}
  IN  IF reached = {} THEN otherwise ELSE steps[Min(reached)][2]

-----------------------------------------------------------------------------
(* ScoringEngine *)

\* get_fund_flow_score: an error in either request leaves the total at 50.
FundFlow(f) ==
  IF f.flow = "error" \/ f.anomaly = "error" THEN 500
  ELSE 2 * (150 + (IF f.anomaly = "yes" THEN 80 ELSE 50)
                + Capped(50 + 5 * f.foreign + 8 * f.trust, 100))

RelativeStrength(f) == IF f.bars < 20 THEN 500 ELSE Capped(500 + 5 * (f.ret - 10), 1000)

\* Without the weights 1/4: industry and catalyst are the constant 50.
TotalScore(f) == 500 + 500 + FundFlow(f) + RelativeStrength(f)

Technical(f) ==
  LET score == 2 * f.ma
             + (IF f.rsi \in 41..69 THEN 1 ELSE IF f.rsi >= 70 THEN -1 ELSE 0)
             + (IF f.macd > 0 THEN 1 ELSE -1)
             + (IF f.pattern = Unavailable THEN 0
                ELSE f.pattern.bottom + f.pattern.alignment
                     + Steps(f.pattern.stars, <<<<3, 1>>, <<1, 0>>>>, -1))
  IN  IF f.bars < 55 THEN 0 ELSE Steps(score, <<<<2, 1>>, <<-1, 0>>>>, -1)

Fundamental(f) ==
  IF f.revenue = Unavailable THEN 0
  ELSE IF f.revenue.yoy > 10 /\ f.revenue.mom > 0 THEN 1
  ELSE IF f.revenue.yoy < -10 THEN -1 ELSE 0

Institutional(f) ==
  LET days == {f.foreign, f.trust}
  IN  IF f.flow = "error" THEN 0
      ELSE IF f.bars >= 25 /\ f.phase = "MARKUP" THEN 1
      ELSE IF f.bars >= 25 /\ f.phase = "DISTRIBUTION" THEN -1
      ELSE IF \E d \in days : d >= 3 THEN 1
      ELSE IF \E d \in days : d <= -5 THEN -1 ELSE 0

Aspects(f) == [technical |-> Technical(f), fundamental |-> Fundamental(f),
               institutional |-> Institutional(f)]
IsQualified(a) == Cardinality({x \in DOMAIN a : a[x] = 1}) >= 2

-----------------------------------------------------------------------------
(* ConclusionEngine *)

\* The upper levels are for the qualified.
RawLevel(total, qualified) ==
  IF qualified /\ total >= 2000
    THEN Steps(total, <<<<3200, 5>>, <<2800, 4>>, <<2400, 3>>>>, 2)
    ELSE Steps(total, <<<<1600, 1>>, <<1000, 0>>, <<600, -1>>>>, -2)

SignalStrength(total, technical) ==
  CASE technical = 1  -> Steps(total, <<<<2800, 3>>, <<2000, 2>>>>, 1)
    [] technical = -1 -> Steps(total, <<<<2000, -1>>, <<1200, -2>>>>, -3)
    [] OTHER          -> Steps(total, <<<<2400, 1>>, <<1600, 0>>>>, -1)

ConflictFlags(a, strength, raw) ==
  {x \in {"COUNTER_TREND", "SIGNAL_CLASH", "ASPECT_CONFLICT"} :
     CASE x = "COUNTER_TREND"   -> raw >= 3 /\ a.technical = -1
       [] x = "SIGNAL_CLASH"    -> \/ strength <= -1 /\ raw >= 3
                                   \/ strength >= 1 /\ raw <= -1
       [] x = "ASPECT_CONFLICT" -> a.technical * a.institutional = -1}

Downgrade(climate, flags) ==
  (IF climate.regime = "BEAR" THEN -1 ELSE 0)
  + (IF climate.mood \in {"EXTREME_FEAR", "EXTREME_GREED"} THEN -1 ELSE 0)
  + (IF flags # {} THEN -1 ELSE 0)

\* A level that is not in the enumeration refused instead of cut off.
FinalLevelRefused(raw, downgrade) == IF raw + downgrade < -2 THEN raw ELSE raw + downgrade
FinalLevel(raw, downgrade) == Max({-2, raw + downgrade})

Conclude(f, climate) ==
  LET a        == Aspects(f)
      total    == TotalScore(f)
      raw      == RawLevel(total, IsQualified(a))
      strength == SignalStrength(total, a.technical)
      flags    == ConflictFlags(a, strength, raw)
  IN  [figures |-> f, climate |-> climate, raw |-> raw, strength |-> strength,
       final |-> FinalLevel(raw, Downgrade(climate, flags))]

\* evaluate_batch: a code whose bars cannot be had keeps its older conclusion.
EvaluateBatch(figuresOf, climate) ==
  LET evaluated == {c \in DOMAIN figuresOf : figuresOf[c] # Unavailable}
  IN  /\ conclusions' = [c \in evaluated \union DOMAIN conclusions |->
                           IF c \in evaluated THEN Conclude(figuresOf[c], climate)
                                              ELSE conclusions[c]]
      /\ UNCHANGED <<confidence, health>>

\* get_by_level
ByLevel(level) == {c \in DOMAIN conclusions : conclusions[c].final >= level}

-----------------------------------------------------------------------------
(* ConfidenceScorer *)

\* Python's round() of n / d
HalfEven(n, d) ==
  LET q == n \div d
      r == 2 * (n % d)
  IN  IF r < d \/ (r = d /\ q % 2 = 0) THEN q ELSE q + 1

ModelAccuracy(ml) == IF ml = Unavailable THEN 50 ELSE Capped(ml, 100)

DataCompleteness(h, required) ==
  IF h.days = 0 THEN 0
  ELSE LET score == HalfEven(100 * Min({h.days, required}), required)
       IN  IF h.flow # Unavailable /\ h.flow.known THEN Min({100, score + 10}) ELSE score

FlowStability(flow) ==
  IF flow = Unavailable THEN 50
  ELSE LET longest == Max({flow.foreign, -flow.foreign, flow.trust, -flow.trust})
           base    == Steps(longest, <<<<10, 90>>, <<5, 70>>, <<3, 55>>>>, 40)
           sides   == flow.foreign * flow.trust
       IN  IF sides > 0 THEN Min({100, base + 15}) ELSE IF sides < 0 THEN base - 10 ELSE base

StrategyFit(regime) ==
  CASE regime = "BULL" -> 90 [] regime = "RANGE" -> 60 [] regime = "BEAR" -> 30 [] OTHER -> 50

Confidence(h) ==
  HalfEven(ModelAccuracy(h.ml) + DataCompleteness(h, 120) + FlowStability(h.flow)
           + StrategyFit(h.regime), 4)

EvaluateConfidence(h) ==
  /\ confidence' = [history |-> h, score |-> Confidence(h),
                    level |-> Steps(Confidence(h), <<<<85, 5>>, <<70, 4>>, <<50, 3>>, <<35, 2>>>>, 1)]
  /\ UNCHANGED <<conclusions, health>>

-----------------------------------------------------------------------------
(* DailyBacktestEngine, of a record of n trades with their wins, the sum of *)
(* their returns and the drawdown, both in tenths of a percent.             *)

\* _calc_health_score times 10 * n
HealthScore(r) ==
  Capped(Min({400 * r.n, 800 * r.wins})
          + Capped(10 * (r.sum + 20 * r.n), 300 * r.n)
          + Max({-200, 2 * r.drawdown}) * r.n
          + Min({100, 10 * r.n}) * r.n,
        1000 * r.n)

IsHealthy(r) == r.n < 3 \/ (10 * r.wins >= 4 * r.n /\ r.sum >= -10 * r.n)

\* The weight in ten-thousandths.
WeightAdjustment(r) ==
  IF r.n = 0 THEN 8000
  ELSE IF HealthScore(r) >= 700 * r.n THEN 10000 + (10 * HealthScore(r)) \div r.n - 7000
  ELSE IF HealthScore(r) >= 400 * r.n THEN (HealthScore(r) * 100) \div (7 * r.n)
  ELSE 3000

RunDailyCheck(records) ==
  /\ health' = {[record |-> r, healthy |-> IsHealthy(r), weight |-> WeightAdjustment(r)] : r \in records}
  /\ UNCHANGED <<conclusions, confidence>>

-----------------------------------------------------------------------------
ConcludeInit ==
  /\ conclusions = <<>>
  /\ confidence = Unavailable
  /\ health = {}

ConcludeNext ==
  \/ \E asked \in SUBSET Evaluated, climate \in Climates :
       \E figuresOf \in [asked -> Figures \union {Unavailable}] : EvaluateBatch(figuresOf, climate)
  \/ \E h \in Histories : EvaluateConfidence(h)
  \/ \E records \in SUBSET Records : RunDailyCheck(records)

ConcludeSpec == ConcludeInit /\ [][ConcludeNext]_concludeVars

-----------------------------------------------------------------------------
(* Properties *)

\* Of two stocks evaluated under the same climate and with the same aspects,
\* the one with the higher score is never concluded lower: no downgrade turns
\* the order of the scores round.  And the same history of a stock with more
\* days in it never makes for less confidence.
BetterIsJudgedBetter ==
  /\ \A c, d \in DOMAIN conclusions :
       LET x == conclusions[c]
           y == conclusions[d]
       IN  x.climate = y.climate /\ Aspects(x.figures) = Aspects(y.figures)
             /\ TotalScore(x.figures) >= TotalScore(y.figures) => x.final >= y.final
  /\ confidence # Unavailable =>
       \A h \in Histories :
         /\ h.days >= confidence.history.days
         /\ [h EXCEPT !.days = confidence.history.days] = confidence.history
         => Confidence(h) >= confidence.score
=============================================================================
