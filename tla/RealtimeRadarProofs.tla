------------------------- MODULE RealtimeRadarProofs -------------------------
(***************************************************************************)
(* What is proved of the realtime radar, whatever its loops, watch lists,  *)
(* feeds and subscribers are: one loop is at work while it runs, and the   *)
(* page's scan and the loop, which state the detectors twice, judge every  *)
(* history alike.                                                          *)
(*                                                                         *)
(* OneScan is inductive once the shape of the loops' records is known.     *)
(* DetectorsAgree is a fact about the detectors: the integers of a history *)
(* are unbounded here, where the run samples them at the thresholds.       *)
(***************************************************************************)
EXTENDS RealtimeRadar, FiniteSetTheorems, SequenceTheorems, TLAPS

-----------------------------------------------------------------------------
(* The loops *)

PassStates == [pc : {"none", "head", "publish", "sleep", "cancelled"},
               codes : Seq(WatchedCodes), left : SUBSET (Detectors \union Toggled),
               size : {Cardinality(e) : e \in SUBSET (Detectors \union Toggled)} \union {0},
               touched : BOOLEAN, waits : SUBSET Subscribers]

TypeOK ==
  /\ watchlist \in Watchlists
  /\ scanning \in BOOLEAN
  /\ radarTask \in Loops \union {NoLoop}
  /\ loop \in [Loops -> PassStates]
  /\ enabled \in SUBSET (Detectors \union Toggled)
  /\ handlers \in SUBSET Subscribers
  /\ \A a \in alerts : a.by \in Loops

\* What the page listed is what its rules list of a history and its figures.
ListedByScan ==
  listed = NotScanned
    \/ \E b \in Histories, m \in Figures : listed = [rows |-> ScanRows(b, m), from |-> {b}]

IInv == TypeOK /\ OneScan /\ ListedByScan

\* The records of a loop that is not at work.
LEMMA IdleStates ==
  /\ NotStarted \in PassStates /\ NotStarted.pc = "none"
  /\ \A p \in {"sleep", "cancelled"} :
       [NotStarted EXCEPT !.pc = p] \in PassStates /\ [NotStarted EXCEPT !.pc = p].pc = p
<1>1. NotStarted \in PassStates /\ NotStarted.pc = "none"
  BY DEF NotStarted, PassStates
<1>2. ASSUME NEW p \in {"sleep", "cancelled"}
      PROVE  [NotStarted EXCEPT !.pc = p] \in PassStates /\ [NotStarted EXCEPT !.pc = p].pc = p
  BY <1>1 DEF PassStates
<1> QED
  BY <1>1, <1>2

\* What a step of the loop t leaves of the loops and the alerts.
StillAtWork(t) ==
  /\ loop' \in [Loops -> PassStates]
  /\ \A u \in Loops : u # t => loop'[u] = loop[u]
  /\ loop'[t].pc \in {"head", "publish", "sleep"}
  /\ \A a \in alerts' : a \in alerts \/ a.by = t

\* Going on with a pass leaves the loop at work, in a publication or asleep, and
\* adds to the alerts what the loop itself has found.
LEMMA ScanOnWorks ==
  ASSUME TypeOK, NEW t \in Loops, NEW codes \in Seq(WatchedCodes),
         NEW left, NEW size \in {Cardinality(e) : e \in SUBSET (Detectors \union Toggled)} \union {0},
         ScanOn(t, codes, left, size)
  PROVE  StillAtWork(t)
<1> DEFINE hits == Hits(codes, left)
<1>1. CASE hits = {} \/ handlers = {}
  <2>1. /\ alerts' = alerts \union {Found(t, codes[h[1]], h[2]) : h \in hits}
        /\ loop' = Asleep(t)
    BY <1>1 DEF ScanOn
  <2>2. \A a \in alerts' : a \in alerts \/ a.by = t
    BY <2>1 DEF Found
  <2> QED
    BY <2>1, <2>2, IdleStates DEF TypeOK, Asleep, StillAtWork
<1>2. CASE ~(hits = {} \/ handlers = {})
  <2>1. PICK h \in hits :
          /\ alerts' = alerts \union {Found(t, codes[h[1]], h[2])}
          /\ loop' = [loop EXCEPT ![t] =
                    [pc |-> "publish", codes |-> SubSeq(codes, h[1], Len(codes)),
                     left |-> {d \in enabled : <<h[1], d>> \in hits} \ {h[2]},
                     size |-> IF h[1] = 1 THEN size ELSE Cardinality(enabled),
                     touched |-> FALSE, waits |-> handlers]]
    BY <1>2 DEF ScanOn
  <2>2. \A a \in alerts' : a \in alerts \/ a.by = t
    BY <2>1 DEF Found
  <2>3. h[1] \in 1 .. Len(codes)
    BY DEF Hits
  <2>4. SubSeq(codes, h[1], Len(codes)) \in Seq(WatchedCodes)
    BY <2>3, SubSeqProperties
  <2>5. PICK new : new =
          [pc |-> "publish", codes |-> SubSeq(codes, h[1], Len(codes)),
           left |-> {d \in enabled : <<h[1], d>> \in hits} \ {h[2]},
           size |-> IF h[1] = 1 THEN size ELSE Cardinality(enabled),
           touched |-> FALSE, waits |-> handlers]
    OBVIOUS
  <2>6. new \in PassStates /\ new.pc = "publish"
    BY <2>4, <2>5 DEF PassStates, TypeOK
  <2>7. loop' = [loop EXCEPT ![t] = new]
    BY <2>1, <2>5
  <2> QED
    BY <2>2, <2>6, <2>7 DEF TypeOK, StillAtWork
<1> QED
  BY <1>1, <1>2

\* The radar begins with no loop at work and nothing listed.
LEMMA RadarBegins == RadarInit => IInv
<1> SUFFICES ASSUME RadarInit PROVE IInv
  OBVIOUS
<1>1. TypeOK
  BY IdleStates DEF RadarInit, TypeOK
<1>2. OneScan
  BY IdleStates DEF RadarInit, OneScan, Over
<1> QED
  BY <1>1, <1>2 DEF RadarInit, IInv, ListedByScan

\* A step of a loop that is at work keeps it the only one.
LEMMA WorkGoesOn ==
  ASSUME TypeOK, OneScan, NEW t \in Loops, ~Over(t), StillAtWork(t),
         UNCHANGED <<watchlist, scanning, radarTask, enabled, handlers>>
  PROVE  TypeOK' /\ OneScan'
<1>1. scanning /\ t = radarTask
  BY DEF OneScan
<1>2. \A a \in alerts' : a.by = t
  BY <1>1 DEF OneScan, StillAtWork
<1>3. TypeOK'
  BY <1>2 DEF TypeOK, StillAtWork
<1>4. \A u \in Loops : Over(u)' <=> u # t
  BY <1>1 DEF OneScan, Over, StillAtWork
<1>5. t # NoLoop
  BY LoopsAssumption
<1> QED
  BY <1>1, <1>2, <1>3, <1>4, <1>5 DEF OneScan

\* Each step of a loop is the step of one that is at work.
LEMMA LoopStepWorks ==
  ASSUME TypeOK, OneScan, NEW t \in Loops, LoopStep(t)
  PROVE  TypeOK' /\ OneScan' /\ UNCHANGED listed
<1>1. ~Over(t) /\ UNCHANGED <<watchlist, scanning, radarTask, enabled, handlers, listed>>
  BY DEF LoopStep, Pass, ResumeScan, Wake, Handled, Over
<1>2. scanning /\ t = radarTask
  BY <1>1 DEF OneScan
<1>3. loop[t] \in PassStates
  BY DEF TypeOK
<1>4. CASE Pass(t)
  <2>1. ScanOn(t, watchlist, enabled, Cardinality(enabled))
    BY <1>2, <1>4 DEF Pass
  <2>2. watchlist \in Seq(WatchedCodes)
    BY WatchlistsAssumption DEF TypeOK
  <2>3. StillAtWork(t)
    BY <2>1, <2>2, ScanOnWorks DEF TypeOK
  <2> QED
    BY <1>1, <2>3, WorkGoesOn
<1>5. CASE ResumeScan(t)
  <2>1. CASE Cardinality(enabled) # loop[t].size
    <3>1. loop' = Asleep(t) /\ UNCHANGED alerts
      BY <1>5, <2>1 DEF ResumeScan
    <3>2. StillAtWork(t)
      BY <3>1, IdleStates DEF TypeOK, Asleep, StillAtWork
    <3> QED
      BY <1>1, <3>2, WorkGoesOn
  <2>2. CASE ~(Cardinality(enabled) # loop[t].size)
    <3>1. PICK left : ScanOn(t, loop[t].codes, left, loop[t].size)
      BY <1>5, <2>2 DEF ResumeScan
    <3>2. loop[t].codes \in Seq(WatchedCodes)
      BY <1>3 DEF PassStates
    <3>3. loop[t].size \in {Cardinality(e) : e \in SUBSET (Detectors \union Toggled)} \union {0}
      BY <1>3 DEF PassStates
    <3>4. StillAtWork(t)
      BY <3>1, <3>2, <3>3, ScanOnWorks
    <3> QED
      BY <1>1, <3>4, WorkGoesOn
  <2> QED
    BY <2>1, <2>2
<1>6. CASE Wake(t)
  <2>1. loop' = [loop EXCEPT ![t].pc = "head"] /\ UNCHANGED alerts
    BY <1>6 DEF Wake
  <2>2. PICK new : new = [loop[t] EXCEPT !.pc = "head"]
    OBVIOUS
  <2>3. new \in PassStates /\ new.pc = "head"
    BY <1>3, <2>2 DEF PassStates
  <2>4. loop' = [loop EXCEPT ![t] = new]
    BY <2>1, <2>2
  <2>5. StillAtWork(t)
    BY <2>1, <2>3, <2>4 DEF TypeOK, StillAtWork
  <2> QED
    BY <1>1, <2>5, WorkGoesOn
<1>7. ASSUME NEW h \in Subscribers, Handled(t, h)
      PROVE  TypeOK' /\ OneScan'
  <2>1. /\ loop' = [loop EXCEPT ![t].waits = loop[t].waits \ {h}]
        /\ loop[t].pc = "publish" /\ UNCHANGED alerts
    BY <1>7 DEF Handled, TypeOK
  <2>2. PICK new : new = [loop[t] EXCEPT !.waits = loop[t].waits \ {h}]
    OBVIOUS
  <2>3. new \in PassStates /\ new.pc = "publish"
    BY <1>3, <2>1, <2>2 DEF PassStates
  <2>4. loop' = [loop EXCEPT ![t] = new]
    BY <2>1, <2>2
  <2>5. StillAtWork(t)
    BY <2>1, <2>3, <2>4 DEF TypeOK, StillAtWork
  <2> QED
    BY <1>1, <2>5, WorkGoesOn
<1> QED
  BY <1>1, <1>4, <1>5, <1>6, <1>7 DEF LoopStep

\* Starting the radar puts the new loop to work where none was.
LEMMA StartWorks ==
  ASSUME TypeOK, OneScan, NEW t \in Loops, StartRadar(t)
  PROVE  TypeOK' /\ OneScan'
<1>1. PICK new : new = [loop[t] EXCEPT !.pc = "head"]
  OBVIOUS
<1>2. loop[t] \in PassStates
  BY DEF TypeOK
<1>3. new \in PassStates /\ new.pc = "head"
  BY <1>1, <1>2 DEF PassStates
<1>4. /\ loop' = [loop EXCEPT ![t] = new]
      /\ ~scanning /\ scanning' = TRUE /\ radarTask' = t /\ alerts' = {}
      /\ UNCHANGED <<watchlist, enabled, handlers>>
  BY <1>1 DEF StartRadar
<1>5. TypeOK'
  BY <1>3, <1>4 DEF TypeOK
<1>6. \A u \in Loops : Over(u)' <=> u # t
  <2>1. \A u \in Loops : Over(u)
    BY <1>4 DEF OneScan
  <2>2. loop'[t] = new /\ \A u \in Loops : u # t => loop'[u] = loop[u]
    BY <1>4 DEF TypeOK
  <2> QED
    BY <1>3, <2>1, <2>2 DEF Over
<1>7. t # NoLoop
  BY LoopsAssumption
<1> QED
  BY <1>4, <1>5, <1>6, <1>7 DEF OneScan

\* Stopping it leaves none at work.
LEMMA StopWorks ==
  ASSUME TypeOK, OneScan, StopRadar
  PROVE  TypeOK' /\ OneScan'
<1>1. /\ scanning' = FALSE
      /\ UNCHANGED <<watchlist, radarTask, enabled, alerts, handlers>>
  BY DEF StopRadar
<1>2. PICK new : new = [NotStarted EXCEPT !.pc = "cancelled"]
  OBVIOUS
<1>3. new \in PassStates /\ new.pc = "cancelled"
  BY <1>2, IdleStates
<1>4. loop' = IF radarTask = NoLoop THEN loop ELSE [loop EXCEPT ![radarTask] = new]
  BY <1>2 DEF StopRadar
<1>5. loop' \in [Loops -> PassStates]
  BY <1>3, <1>4 DEF TypeOK
<1>6. TypeOK'
  BY <1>1, <1>5 DEF TypeOK
<1>7. \A u \in Loops : Over(u)'
  BY <1>3, <1>4, LoopsAssumption DEF TypeOK, OneScan, Over
<1> QED
  BY <1>1, <1>6, <1>7 DEF OneScan

\* Changing the detectors does not move a loop.
LEMMA ToggleWorks ==
  ASSUME TypeOK, OneScan, NEW d \in Toggled, Toggle(d)
  PROVE  TypeOK' /\ OneScan'
<1>1. /\ enabled' = IF d \in enabled THEN enabled \ {d} ELSE enabled \union {d}
      /\ loop' = [t \in Loops |-> IF loop[t].pc = "publish"
                                    THEN [loop[t] EXCEPT !.touched = TRUE] ELSE loop[t]]
      /\ UNCHANGED <<watchlist, scanning, radarTask, alerts, handlers>>
  BY DEF Toggle
<1>2. ASSUME NEW t \in Loops
      PROVE  loop'[t] \in PassStates /\ loop'[t].pc = loop[t].pc
  <2>1. PICK new : new = [loop[t] EXCEPT !.touched = TRUE]
    OBVIOUS
  <2>2. loop[t] \in PassStates
    BY DEF TypeOK
  <2>3. new \in PassStates /\ new.pc = loop[t].pc
    BY <2>1, <2>2 DEF PassStates
  <2> QED
    BY <1>1, <2>1, <2>2, <2>3
<1>3. loop' \in [Loops -> PassStates]
  BY <1>1, <1>2
<1>4. TypeOK'
  BY <1>1, <1>3 DEF TypeOK
<1>5. scanning => radarTask \in Loops
  BY DEF TypeOK, OneScan
<1>6. \A t \in Loops : Over(t)' <=> Over(t)
  BY <1>2 DEF Over
<1> QED
  BY <1>1, <1>4, <1>5, <1>6 DEF OneScan

\* Every step keeps the invariant.
LEMMA RadarGoesOn ==
  ASSUME IInv,
         \/ RadarNext
         \/ \E b \in Histories, m \in Figures : ScanWatchlist(b, m)
         \/ UNCHANGED radarVars
  PROVE  IInv'
<1> USE DEF IInv
<1>1. ASSUME UNCHANGED listed PROVE ListedByScan'
  BY <1>1 DEF ListedByScan
<1>2. ASSUME NEW t \in Loops, StartRadar(t) PROVE IInv'
  BY <1>1, <1>2, StartWorks DEF StartRadar
<1>3. ASSUME NEW t \in Loops, LoopStep(t) PROVE IInv'
  BY <1>1, <1>3, LoopStepWorks
<1>4. CASE StopRadar
  BY <1>1, <1>4, StopWorks DEF StopRadar
<1>5. ASSUME NEW d \in Toggled, Toggle(d) PROVE IInv'
  BY <1>1, <1>5, ToggleWorks DEF Toggle
<1>6. ASSUME UNCHANGED <<scanning, radarTask, loop, enabled, alerts>>,
             watchlist' \in Watchlists, handlers' \in SUBSET Subscribers
      PROVE  TypeOK' /\ OneScan'
  BY <1>6 DEF TypeOK, OneScan, Over
<1>7. ASSUME NEW codes \in Watchlists, SetWatchlist(codes) PROVE IInv'
  BY <1>1, <1>6, <1>7 DEF SetWatchlist, TypeOK
<1>8. ASSUME NEW h \in Subscribers, Subscribe(h) \/ Unsubscribe(h) PROVE IInv'
  BY <1>1, <1>6, <1>8 DEF Subscribe, Unsubscribe, TypeOK
<1>9. CASE Clear
  BY <1>1, <1>6, <1>9 DEF Clear, TypeOK
<1>10. ASSUME NEW b \in Histories, NEW m \in Figures, ScanWatchlist(b, m) PROVE IInv'
  <2>1. ListedByScan'
    BY <1>10 DEF ScanWatchlist, ListedByScan
  <2> QED
    BY <1>6, <1>10, <2>1 DEF ScanWatchlist, TypeOK
<1>11. CASE UNCHANGED radarVars
  BY <1>1, <1>6, <1>11 DEF radarVars, TypeOK
<1> QED
  BY <1>2, <1>3, <1>4, <1>5, <1>7, <1>8, <1>9, <1>10, <1>11 DEF RadarNext

\* The inductive invariant holds of every behaviour of the radar.
THEOREM RadarInvariant == RadarSpec => []IInv
BY RadarBegins, RadarGoesOn, PTL DEF RadarSpec

\* However starts, stops and changes of detectors overlap with a pass, one loop
\* is at work while the radar runs and none is when it does not, and the alerts
\* of the day are that loop's.
THEOREM OneRadarLoop == RadarSpec => []OneScan
<1>1. IInv => OneScan
  BY DEF IInv
<1> QED
  BY <1>1, RadarInvariant, PTL

-----------------------------------------------------------------------------
(* The two statements of the detectors *)

\* A set of one member has one, which is what counting thresholds begins with.
LEMMA OneMember == ASSUME NEW p PROVE IsFiniteSet({p}) /\ Cardinality({p}) = 1
BY FS_Singleton

\* Two distinct members are two.
LEMMA TwoMembers ==
  ASSUME NEW p, NEW q, p # q
  PROVE  IsFiniteSet({p, q}) /\ Cardinality({p, q}) = 2
<1>1. {p, q} = {p} \union {q} /\ q \notin {p}
  OBVIOUS
<1>2. /\ IsFiniteSet({p} \union {q})
      /\ Cardinality({p} \union {q}) = Cardinality({p}) + 1
  BY <1>1, OneMember, FS_AddElement
<1> QED
  BY <1>1, <1>2, OneMember

\* Three distinct members are three.
LEMMA ThreeMembers ==
  ASSUME NEW p, NEW q, NEW r, p # q, q # r, p # r
  PROVE  Cardinality({p, q, r}) = 3
<1>1. {p, q, r} = {p, q} \union {r} /\ r \notin {p, q}
  OBVIOUS
<1>2. Cardinality({p, q} \union {r}) = Cardinality({p, q}) + 1
  BY <1>1, TwoMembers, FS_AddElement
<1> QED
  BY <1>1, <1>2, TwoMembers

\* How many of three rising thresholds x has reached.
LEMMA GradeOfThree ==
  ASSUME NEW x \in Int, NEW p \in Int, NEW q \in Int, NEW r \in Int, p < q, q < r
  PROVE  Grade(x, {p, q, r}) = IF x >= r THEN 3 ELSE IF x >= q THEN 2 ELSE IF x >= p THEN 1 ELSE 0
<1> DEFINE reached == {t \in {p, q, r} : x >= t}
<1>1. Grade(x, {p, q, r}) = Cardinality(reached)
  BY DEF Grade
<1>2. p # q /\ q # r /\ p # r
  OBVIOUS
<1>3. CASE x >= r
  <2>1. reached = {p, q, r}
    BY <1>3
  <2>2. Cardinality({p, q, r}) = 3
    BY <1>2, ThreeMembers
  <2> QED
    BY <1>1, <1>3, <2>1, <2>2
<1>4. CASE x < r /\ x >= q
  <2>1. reached = {p, q}
    BY <1>4
  <2>2. Cardinality({p, q}) = 2
    BY <1>2, TwoMembers
  <2> QED
    BY <1>1, <1>4, <2>1, <2>2
<1>5. CASE x < q /\ x >= p
  <2>1. reached = {p}
    BY <1>5
  <2>2. Cardinality({p}) = 1
    BY OneMember
  <2> QED
    BY <1>1, <1>5, <2>1, <2>2
<1>6. CASE x < p
  <2>1. reached = {}
    BY <1>6
  <2>2. Cardinality({}) = 0
    BY FS_EmptySet
  <2> QED
    BY <1>1, <1>6, <2>1, <2>2
<1> QED
  BY <1>3, <1>4, <1>5, <1>6

\* How many of two it has reached.
LEMMA GradeOfTwo ==
  ASSUME NEW x \in Int, NEW p \in Int, NEW q \in Int, p < q
  PROVE  Grade(x, {p, q}) = IF x >= q THEN 2 ELSE IF x >= p THEN 1 ELSE 0
<1> DEFINE reached == {t \in {p, q} : x >= t}
<1>1. Grade(x, {p, q}) = Cardinality(reached)
  BY DEF Grade
<1>2. p # q
  OBVIOUS
<1>3. CASE x >= q
  <2>1. reached = {p, q}
    BY <1>3
  <2>2. Cardinality({p, q}) = 2
    BY <1>2, TwoMembers
  <2> QED
    BY <1>1, <1>3, <2>1, <2>2
<1>4. CASE x < q /\ x >= p
  <2>1. reached = {p}
    BY <1>4
  <2>2. Cardinality({p}) = 1
    BY OneMember
  <2> QED
    BY <1>1, <1>4, <2>1, <2>2
<1>5. CASE x < p
  <2>1. reached = {}
    BY <1>5
  <2>2. Cardinality({}) = 0
    BY FS_EmptySet
  <2> QED
    BY <1>1, <1>5, <2>1, <2>2
<1> QED
  BY <1>3, <1>4, <1>5

\* The rows are those of the detectors ds, each with the severity the loop gives.
Judged(rows, ds, b) ==
  /\ \A r \in rows : /\ r.detector \in ds
                     /\ r.severity = Severity(r.detector, b) /\ r.severity > 0
  /\ \A d \in ds : Severity(d, b) > 0 =>
       \E r \in rows : r.detector = d /\ r.severity = Severity(d, b)

\* The page's volume rows are the loop's verdicts on breakouts and large orders.
LEMMA VolumeRowsJudged ==
  ASSUME NEW b \in Histories, b.n >= 6
  PROVE  Judged(VolumeRows(b), {"VOLUME_BREAKOUT", "LARGE_ORDER"}, b)
<1>1. /\ b.n \in Nat /\ b.vol \in Int /\ b.avg5 \in Int /\ b.avg20 \in Int
      /\ b.close \in Int /\ b.prev \in Int
  BY DEF Histories
<1> DEFINE breakout == IF b.vol >= 4 * b.avg5 THEN 3 ELSE IF b.vol >= 3 * b.avg5 THEN 2 ELSE 1
           order    == IF b.vol >= 5 * b.avg20 THEN 3 ELSE 2
<1>2. VolumeBreakout(b) = IF b.avg5 > 0 /\ b.vol >= 2 * b.avg5 THEN breakout ELSE 0
  <2>1. Multiples(b.avg5, 2 .. 4) = {2 * b.avg5, 3 * b.avg5, 4 * b.avg5}
    <3>1. 2 .. 4 = {2, 3, 4}
      OBVIOUS
    <3> QED
      BY <1>1, <3>1 DEF Multiples
  <2>2. b.avg5 > 0 =>
          Grade(b.vol, {2 * b.avg5, 3 * b.avg5, 4 * b.avg5})
            = IF b.vol >= 4 * b.avg5 THEN 3 ELSE IF b.vol >= 3 * b.avg5 THEN 2
              ELSE IF b.vol >= 2 * b.avg5 THEN 1 ELSE 0
    BY <1>1, GradeOfThree
  <2>3. b.avg5 > 0 => VolumeBreakout(b) = Grade(b.vol, {2 * b.avg5, 3 * b.avg5, 4 * b.avg5})
    BY <2>1 DEF VolumeBreakout
  <2>4. ~(b.avg5 > 0) => VolumeBreakout(b) = 0
    BY DEF VolumeBreakout
  <2> QED
    BY <1>1, <2>2, <2>3, <2>4
<1>3. LargeOrder(b) = IF b.n >= 21 /\ b.avg20 > 0 /\ b.vol >= 3 * b.avg20 THEN order ELSE 0
  <2>1. Multiples(b.avg20, {3, 5}) = {3 * b.avg20, 5 * b.avg20}
    BY <1>1 DEF Multiples
  <2>2. b.avg20 > 0 =>
          Grade(b.vol, {3 * b.avg20, 5 * b.avg20})
            = IF b.vol >= 5 * b.avg20 THEN 2 ELSE IF b.vol >= 3 * b.avg20 THEN 1 ELSE 0
    BY <1>1, GradeOfTwo
  <2> QED
    BY <1>1, <2>1, <2>2 DEF LargeOrder
<1>4. /\ Severity("VOLUME_BREAKOUT", b) = VolumeBreakout(b)
      /\ Severity("LARGE_ORDER", b) = LargeOrder(b)
  BY DEF Severity
<1>6. \A r : r \in VolumeRows(b) <=>
        \/ /\ b.avg5 > 0 /\ b.vol >= 2 * b.avg5
           /\ r = Row("VOLUME_BREAKOUT", IF b.close >= b.prev THEN "BUY" ELSE "ALERT", breakout)
        \/ /\ b.n >= 21 /\ b.avg20 > 0 /\ b.vol >= 3 * b.avg20
           /\ r = Row("LARGE_ORDER", "ALERT", order)
  BY DEF VolumeRows
<1>7. \A d, dir, v : Row(d, dir, v).detector = d /\ Row(d, dir, v).severity = v
  BY DEF Row
<1> HIDE DEF breakout, order
<1>8. breakout > 0 /\ order > 0
  BY <1>1 DEF breakout, order
<1>9. \A r \in VolumeRows(b) :
        /\ r.detector \in {"VOLUME_BREAKOUT", "LARGE_ORDER"}
        /\ r.severity = Severity(r.detector, b) /\ r.severity > 0
  BY <1>2, <1>3, <1>4, <1>6, <1>7, <1>8
<1>10. VolumeBreakout(b) > 0 =>
         \E r \in VolumeRows(b) : r.detector = "VOLUME_BREAKOUT" /\ r.severity = VolumeBreakout(b)
  BY <1>2, <1>6, <1>7
<1>11. LargeOrder(b) > 0 =>
         \E r \in VolumeRows(b) : r.detector = "LARGE_ORDER" /\ r.severity = LargeOrder(b)
  BY <1>3, <1>6, <1>7
<1> QED
  BY <1>4, <1>9, <1>10, <1>11 DEF Judged

\* Its price rows are the loop's verdicts on spikes and broken averages.
LEMMA PriceRowsJudged ==
  ASSUME NEW b \in Histories, b.n >= 6
  PROVE  Judged(PriceRows(b), {"SPIKE", "MA_BREAK"}, b)
<1>1. /\ b.n \in Nat /\ b.close \in Int /\ b.prev \in Int /\ b.ma8 \in Int /\ b.ma8p \in Int
      /\ Change(b) \in Int /\ AbsOf(Change(b)) \in Int
  BY DEF Histories, Change, AbsOf
<1> DEFINE size  == AbsOf(Change(b))
           spike == IF size >= 7 * b.prev THEN 3 ELSE IF size >= 5 * b.prev THEN 2 ELSE 1
<1>2. Spike(b) = IF b.prev > 0 /\ size >= 3 * b.prev THEN spike ELSE 0
  <2>1. Multiples(b.prev, {3, 5, 7}) = {3 * b.prev, 5 * b.prev, 7 * b.prev}
    BY <1>1 DEF Multiples
  <2>2. b.prev > 0 =>
          Grade(size, {3 * b.prev, 5 * b.prev, 7 * b.prev})
            = IF size >= 7 * b.prev THEN 3 ELSE IF size >= 5 * b.prev THEN 2
              ELSE IF size >= 3 * b.prev THEN 1 ELSE 0
    BY <1>1, GradeOfThree
  <2>3. b.prev > 0 => Spike(b) = Grade(size, {3 * b.prev, 5 * b.prev, 7 * b.prev})
    BY <1>1, <2>1 DEF Spike
  <2>4. ~(b.prev > 0) => Spike(b) = 0
    BY DEF Spike
  <2> QED
    BY <1>1, <2>2, <2>3, <2>4
<1>3. MaBreak(b) \in {0, 2}
  BY DEF MaBreak
<1>4. Severity("SPIKE", b) = Spike(b) /\ Severity("MA_BREAK", b) = MaBreak(b)
  BY DEF Severity
<1>6. \A r : r \in PriceRows(b) <=>
        \/ /\ b.prev > 0 /\ size >= 3 * b.prev
           /\ r = Row("SPIKE", IF Change(b) > 0 THEN "BUY" ELSE "SELL", spike)
        \/ /\ MaBreak(b) > 0
           /\ r = Row("MA_BREAK", IF b.close > b.ma8 THEN "BUY" ELSE "SELL", 2)
  BY DEF PriceRows
<1>7. \A d, dir, v : Row(d, dir, v).detector = d /\ Row(d, dir, v).severity = v
  BY DEF Row
<1>8. spike > 0
  BY <1>1
<1> HIDE DEF size, spike
<1>9. \A r \in PriceRows(b) :
        /\ r.detector \in {"SPIKE", "MA_BREAK"}
        /\ r.severity = Severity(r.detector, b) /\ r.severity > 0
  BY <1>2, <1>3, <1>4, <1>6, <1>7, <1>8
<1>10. Spike(b) > 0 => \E r \in PriceRows(b) : r.detector = "SPIKE" /\ r.severity = Spike(b)
  BY <1>2, <1>6, <1>7
<1>11. MaBreak(b) > 0 => \E r \in PriceRows(b) : r.detector = "MA_BREAK" /\ r.severity = MaBreak(b)
  BY <1>3, <1>6, <1>7
<1> QED
  BY <1>4, <1>9, <1>10, <1>11 DEF Judged

\* Its divergence rows are the loop's verdict on the volume that does not follow.
LEMMA DivergeRowsJudged ==
  ASSUME NEW b \in Histories, b.n >= 6
  PROVE  Judged(DivergeRows(b), {"VOLUME_DIVERGE"}, b)
<1>1. /\ b.n \in Nat /\ b.prev \in Int /\ b.vol \in Int /\ b.avg5 \in Int /\ Change(b) \in Int
  BY DEF Histories, Change
<1>2. Severity("VOLUME_DIVERGE", b) = VolumeDiverge(b)
  BY DEF Severity
<1>3. \A d, dir, v : Row(d, dir, v).detector = d /\ Row(d, dir, v).severity = v
  BY DEF Row
<1>4. FallsHeavily(b) <=> Change(b) < -b.prev /\ 10 * b.vol > 15 * b.avg5
  BY DEF FallsHeavily
<1>5. CASE ~(b.avg5 > 0 /\ b.prev > 0)
  <2>1. VolumeDiverge(b) = 0
    BY <1>1, <1>5 DEF VolumeDiverge
  <2>2. DivergeRows(b) = {}
    BY <1>5 DEF DivergeRows
  <2> QED
    BY <1>2, <2>1, <2>2 DEF Judged
<1>6. CASE b.avg5 > 0 /\ b.prev > 0 /\ RisesThinly(b)
  <2>1. VolumeDiverge(b) = 2 /\ DivergeRows(b) = {Row("VOLUME_DIVERGE", "ALERT", 2)}
    BY <1>1, <1>6 DEF VolumeDiverge, DivergeRows, RisesThinly, FallsHeavily
  <2> QED
    BY <1>2, <1>3, <2>1 DEF Judged
<1>7. CASE b.avg5 > 0 /\ b.prev > 0 /\ ~RisesThinly(b) /\ FallsHeavily(b)
  <2> DEFINE v == IF Change(b) > -3 * b.prev THEN 2 ELSE 3
  <2>1. VolumeDiverge(b) = v /\ DivergeRows(b) = {Row("VOLUME_DIVERGE", "SELL", v)}
    BY <1>1, <1>4, <1>7 DEF VolumeDiverge, DivergeRows
  <2> QED
    BY <1>2, <1>3, <2>1 DEF Judged
<1>8. CASE b.avg5 > 0 /\ b.prev > 0 /\ ~RisesThinly(b) /\ ~FallsHeavily(b)
  <2>1. VolumeDiverge(b) = 0 /\ DivergeRows(b) = {}
    BY <1>1, <1>4, <1>8 DEF VolumeDiverge, DivergeRows
  <2> QED
    BY <1>2, <2>1 DEF Judged
<1> QED
  BY <1>5, <1>6, <1>7, <1>8

\* The rows of the margin figures are of detectors the loop has no handler for.
LEMMA MarginRowsApart ==
  ASSUME NEW b, NEW m
  PROVE  \A r \in MarginRows(b, m) : r.detector \notin Detectors
<1>1. \A r \in MarginRows(b, m) : r.detector \in {"SHORT_RATIO", "MARGIN_SURGE", "MARGIN_CALL"}
  BY DEF MarginRows, Row
<1> QED
  BY <1>1 DEF Detectors

\* For every history of six bars or more the page lists what the loop alerts of,
\* with the same severity.
LEMMA ScanJudges ==
  ASSUME NEW b \in Histories, NEW m \in Figures, b.n >= 6
  PROVE  {<<d, Severity(d, b)>> : d \in {x \in Detectors : Severity(x, b) > 0}}
           = {<<r.detector, r.severity>> : r \in {x \in ScanRows(b, m) : x.detector \in Detectors}}
<1> DEFINE found  == {<<d, Severity(d, b)>> : d \in {x \in Detectors : Severity(x, b) > 0}}
           listing == {<<r.detector, r.severity>> : r \in {x \in ScanRows(b, m) : x.detector \in Detectors}}
           volume == VolumeRows(b)
           price == PriceRows(b)
           diverge == DivergeRows(b)
<1>1. Detectors = {"VOLUME_BREAKOUT", "LARGE_ORDER"} \union {"SPIKE", "MA_BREAK"} \union {"VOLUME_DIVERGE"}
  BY DEF Detectors
<1>2. PICK margin : /\ ScanRows(b, m) = volume \union price \union diverge \union margin
                    /\ \A r \in margin : r.detector \notin Detectors
  <2>1. ~(b.n < 6)
    BY DEF Histories
  <2>2. ScanRows(b, m) = volume \union price \union diverge
          \union (IF m.balance > 0 THEN MarginRows(b, m) ELSE {})
    BY <2>1 DEF ScanRows
  <2> QED
    BY <2>2, MarginRowsApart
<1>3. /\ Judged(volume, {"VOLUME_BREAKOUT", "LARGE_ORDER"}, b)
      /\ Judged(price, {"SPIKE", "MA_BREAK"}, b)
      /\ Judged(diverge, {"VOLUME_DIVERGE"}, b)
  BY VolumeRowsJudged, PriceRowsJudged, DivergeRowsJudged
<1> HIDE DEF volume, price, diverge
<1>4. \A r \in ScanRows(b, m) : r.detector \in Detectors =>
        r.severity = Severity(r.detector, b) /\ r.severity > 0
  BY <1>2, <1>3 DEF Judged
<1>5. \A d \in Detectors : Severity(d, b) > 0 =>
        \E r \in ScanRows(b, m) : r.detector = d /\ r.severity = Severity(d, b)
  BY <1>1, <1>2, <1>3 DEF Judged
<1>6. ASSUME NEW e \in found PROVE e \in listing
  <2>1. PICK d \in Detectors : Severity(d, b) > 0 /\ e = <<d, Severity(d, b)>>
    OBVIOUS
  <2>2. PICK r \in ScanRows(b, m) : r.detector = d /\ r.severity = Severity(d, b)
    BY <1>5, <2>1
  <2> QED
    BY <2>1, <2>2
<1>7. ASSUME NEW e \in listing PROVE e \in found
  <2>1. PICK r \in ScanRows(b, m) : r.detector \in Detectors /\ e = <<r.detector, r.severity>>
    OBVIOUS
  <2> QED
    BY <1>4, <2>1
<1> QED
  BY <1>6, <1>7

\* Whatever histories and margin figures the page comes upon, it lists what the
\* loop's detectors find, no more and no less, with the same severity.
THEOREM ScansAgree == RadarSpec => []DetectorsAgree
<1>1. ListedByScan => DetectorsAgree
  <2> SUFFICES ASSUME ListedByScan PROVE DetectorsAgree
    OBVIOUS
  <2>1. CASE listed = NotScanned
    BY <2>1 DEF NotScanned, DetectorsAgree
  <2>2. ASSUME NEW b \in Histories, NEW m \in Figures,
               listed = [rows |-> ScanRows(b, m), from |-> {b}]
        PROVE  DetectorsAgree
    <3>1. listed.rows = ScanRows(b, m) /\ listed.from = {b}
      BY <2>2
    <3> QED
      BY <3>1, ScanJudges DEF DetectorsAgree
  <2> QED
    BY <2>1, <2>2 DEF ListedByScan
<1>2. IInv => DetectorsAgree
  BY <1>1 DEF IInv
<1> QED
  BY <1>2, RadarInvariant, PTL

=============================================================================
