------------------------- MODULE QuoteAdapterProofs -------------------------
(***************************************************************************)
(* Theorems about the quote adapter, for any codes, batches and overlapping *)
(* calls, with Redis or without.                                            *)
(***************************************************************************)
EXTENDS QuoteAdapter, TLAPS

Places == TWSE .. Over

CallRecords ==
  [kind : {"idle", "one", "batch"}, src : Places,
   wanted : SUBSET Codes, left : SUBSET Codes, reading : SUBSET Codes, writes : SUBSET Codes,
   got : [Codes -> [from : Places, price : Prices \union {None}]],
   refused : SUBSET (Codes \X Places), cut : BOOLEAN]

\* What a call has got through: each code it found was refused by the sources
\* before, each code it is left with by all of them so far.
Refused(r) ==
  ~r.cut => \A c \in r.wanted, s \in Chain :
              s < (IF c \in r.left THEN r.src ELSE r.got[c].from) => <<c, s>> \in r.refused

\* Its source has refused a code the call is left with.
RefusedHere(r, codes) == \A c \in codes : <<c, r.src>> \in r.refused

\* Where a call stands: codes are either left or found, what is still to be read
\* is left, and what is still to be written is found.
Stands(r) ==
  /\ r.left \subseteq r.wanted /\ r.reading \subseteq r.left
  /\ r.writes \subseteq r.wanted \ r.left
  /\ \A c \in r.left : r.got[c] = NoQuote
  /\ r.reading # {} => r.src = LastGood
  /\ r.writes # {} => r.src \in {TWSE, YFinance} /\ RefusedHere(r, r.left)
  /\ r.src = LastGood => RefusedHere(r, r.left \ r.reading)

\* The prices a call has found in the market, or read back, are of codes the
\* market has had a price for.
WasLive(r, codes) ==
  /\ \A c \in r.writes : r.got[c].from \in {TWSE, YFinance}
  /\ \A c \in r.wanted : r.got[c].from \in Chain /\ r.got[c].price = "good" => c \in codes

Sound(r, codes) == Refused(r) /\ Stands(r) /\ WasLive(r, codes)

IInv ==
  /\ call \in [Calls -> CallRecords]
  /\ lastGood \in [Codes -> Prices \union {None}]
  /\ live \subseteq Codes
  /\ \A c \in Codes : lastGood[c] = "good" => c \in live
  /\ \A k \in Calls : Sound(call[k], live)

-----------------------------------------------------------------------------
(* The operators on the record of a call *)

\* Taking quotes finds their codes in the place the call has got to, and
\* changes nothing else.
LEMMA Taking ==
  ASSUME NEW r \in CallRecords, NEW q, DOMAIN q \subseteq Codes,
         \A c \in DOMAIN q : q[c] \in Prices
  PROVE  /\ Take(r, q) \in CallRecords
         /\ Take(r, q).left = r.left \ DOMAIN q
         /\ \A c \in DOMAIN q : /\ Take(r, q).got[c].from = r.src
                               /\ Take(r, q).got[c].price = q[c]
         /\ \A c \in Codes \ DOMAIN q : Take(r, q).got[c] = r.got[c]
         /\ Take(r, q).kind = r.kind /\ Take(r, q).src = r.src
         /\ Take(r, q).wanted = r.wanted /\ Take(r, q).reading = r.reading
         /\ Take(r, q).writes = r.writes /\ Take(r, q).refused = r.refused
         /\ Take(r, q).cut = r.cut
<1> DEFINE found == [c \in Codes |-> IF c \in DOMAIN q THEN [from |-> r.src, price |-> q[c]]
                                                       ELSE r.got[c]]
<1>1. found \in [Codes -> [from : Places, price : Prices \union {None}]]
  BY DEF CallRecords
<1>2. PICK f \in [Codes -> [from : Places, price : Prices \union {None}]] : f = found
  BY <1>1
<1>3. PICK rest \in SUBSET Codes : rest = r.left \ DOMAIN q
  BY DEF CallRecords
<1>4. Take(r, q) = [r EXCEPT !.left = rest, !.got = f]
  BY <1>2, <1>3 DEF Take
<1>5. /\ Take(r, q) \in CallRecords
      /\ Take(r, q).left = rest /\ Take(r, q).got = f
      /\ Take(r, q).kind = r.kind /\ Take(r, q).src = r.src
      /\ Take(r, q).wanted = r.wanted /\ Take(r, q).reading = r.reading
      /\ Take(r, q).writes = r.writes /\ Take(r, q).refused = r.refused
      /\ Take(r, q).cut = r.cut
  BY <1>4 DEF CallRecords
<1> QED
  BY <1>2, <1>3, <1>5

\* A refusal is remembered with the place the call has got to.
LEMMA Refusing ==
  ASSUME NEW r \in CallRecords, NEW codes \in SUBSET Codes
  PROVE  /\ Refuse(r, codes) \in CallRecords
         /\ Refuse(r, codes).refused = r.refused \union (codes \X {r.src})
         /\ Refuse(r, codes).kind = r.kind /\ Refuse(r, codes).src = r.src
         /\ Refuse(r, codes).wanted = r.wanted /\ Refuse(r, codes).left = r.left
         /\ Refuse(r, codes).reading = r.reading /\ Refuse(r, codes).writes = r.writes
         /\ Refuse(r, codes).got = r.got /\ Refuse(r, codes).cut = r.cut
<1>1. PICK all \in SUBSET (Codes \X Places) : all = r.refused \union (codes \X {r.src})
  BY DEF CallRecords
<1>2. Refuse(r, codes) = [r EXCEPT !.refused = all]
  BY <1>1 DEF Refuse
<1> QED
  BY <1>1, <1>2 DEF CallRecords

\* A call goes from a place of the chain to the next one, or to an end that is
\* behind them all.
LEMMA Following ==
  ASSUME NEW r \in CallRecords, r.src \in Chain
  PROVE  /\ NextSource(r) \in Places
         /\ NextSource(r) \in Chain => NextSource(r) = r.src + 1 /\ ~r.cut
         /\ ~r.cut /\ r.left # {} /\ NextSource(r) \notin Chain => r.src = LastGood
BY DEF NextSource, CallRecords, Chain, Places, TWSE, YFinance, LastGood, LastClose, Over

\* A call that has found or been refused each code it was left with may move on.
LEMMA MovingOn ==
  ASSUME NEW r \in CallRecords, NEW codes, Refused(r), WasLive(r, codes),
         r.src \in Chain, RefusedHere(r, r.left), r.writes = {},
         r.left \subseteq r.wanted, \A c \in r.left : r.got[c] = NoQuote
  PROVE  MoveOn(r) \in CallRecords /\ Sound(MoveOn(r), codes)
<1>1. PICK next \in Places : next = NextSource(r)
  BY Following
<1>2. PICK reading \in SUBSET Codes : reading = IF next = LastGood THEN r.left ELSE {}
  BY DEF CallRecords
<1>3. MoveOn(r) = [r EXCEPT !.src = next, !.reading = reading]
  BY <1>1, <1>2 DEF MoveOn
<1>4. PICK m : m = MoveOn(r)
  OBVIOUS
<1>5. /\ m \in CallRecords
      /\ m.src = next /\ m.reading = reading
      /\ m.kind = r.kind /\ m.wanted = r.wanted /\ m.left = r.left
      /\ m.writes = r.writes /\ m.got = r.got /\ m.refused = r.refused /\ m.cut = r.cut
  BY <1>3, <1>4 DEF CallRecords
<1>6. Refused(m)
  <2>1. ASSUME ~m.cut, NEW c \in m.left, NEW s \in Chain, s < next
        PROVE  <<c, s>> \in r.refused
    <3>1. s <= r.src
      BY <1>1, <1>5, <2>1, Following DEF Chain, TWSE, LastGood
    <3>2. CASE s = r.src
      BY <1>5, <2>1, <3>2 DEF RefusedHere
    <3>3. CASE s # r.src
      <4>1. s < r.src
        BY <3>1, <3>3 DEF Chain, TWSE, LastGood
      <4> QED
        BY <1>5, <2>1, <4>1 DEF Refused
    <3> QED
      BY <3>2, <3>3
  <2>2. ASSUME ~m.cut, NEW c \in m.wanted \ m.left, NEW s \in Chain, s < m.got[c].from
        PROVE  <<c, s>> \in r.refused
    BY <1>5, <2>2 DEF Refused
  <2> QED
    BY <1>5, <2>1, <2>2 DEF Refused
<1>7. Stands(m)
  BY <1>2, <1>5 DEF Stands, RefusedHere
<1>8. WasLive(m, codes)
  BY <1>5 DEF WasLive
<1> QED
  BY <1>4, <1>5, <1>6, <1>7, <1>8 DEF Sound

\* A source answers a call only with quotes of codes that are left.
LEMMA Answering ==
  ASSUME NEW r \in CallRecords, NEW q \in Answers(r)
  PROVE  DOMAIN q \subseteq r.left /\ \A c \in DOMAIN q : q[c] \in Prices
<1>1. ASSUME NEW prices \in SUBSET Prices, q \in Partial(r.left, prices)
      PROVE  DOMAIN q \subseteq r.left /\ \A c \in DOMAIN q : q[c] \in Prices
  <2>1. PICK cs \in SUBSET r.left : q \in [cs -> prices]
    BY <1>1 DEF Partial
  <2> QED
    BY <2>1
<1>2. {"good"} \subseteq Prices
  BY DEF Prices
<1>3. CASE q \in [r.left -> {"good"}]
  BY <1>2, <1>3
<1>4. CASE q \in Partial(r.left, Prices)
  BY <1>1, <1>4
<1>5. CASE q \in Partial(r.left, {"good"})
  BY <1>1, <1>2, <1>5
<1>6. \/ q \in [r.left -> {"good"}]
      \/ q \in Partial(r.left, Prices)
      \/ q \in Partial(r.left, {"good"})
  BY DEF Answers, TWSEAnswers, YFinanceAnswers
<1> QED
  BY <1>3, <1>4, <1>5, <1>6

-----------------------------------------------------------------------------
(* The steps of a call *)

\* What a call has found in the market stays found there.
LEMMA StaysLive ==
  ASSUME NEW r, NEW codes, NEW more, codes \subseteq more, Sound(r, codes)
  PROVE  Sound(r, more)
BY DEF Sound, WasLive

\* A step of one call leaves the others alone.
LEMMA OneCall ==
  ASSUME IInv, NEW k \in Calls, NEW r \in CallRecords,
         call' = [call EXCEPT ![k] = r], Sound(r, live'),
         live \subseteq live', live' \subseteq Codes,
         lastGood' \in [Codes -> Prices \union {None}],
         \A c \in Codes : lastGood'[c] = "good" => c \in live'
  PROVE  IInv'
<1>1. PICK now, before : now = live' /\ before = live
  OBVIOUS
<1>2. ASSUME NEW j \in Calls, j # k
      PROVE  Sound(call'[j], now)
  <2>1. call'[j] = call[j] /\ Sound(call[j], before)
    BY <1>1, <1>2 DEF IInv
  <2>2. PICK s : s = call[j]
    OBVIOUS
  <2> QED
    BY <1>1, <2>1, <2>2, StaysLive
<1>3. call'[k] = r /\ call' \in [Calls -> CallRecords]
  BY DEF IInv
<1>4. \A j \in Calls : Sound(call'[j], now)
  BY <1>1, <1>2, <1>3
<1>5. \A j \in Calls : Sound(call[j], live)'
  BY <1>1, <1>4 DEF Sound, Refused, Stands, WasLive, RefusedHere
<1> QED
  BY <1>3, <1>5 DEF IInv

\* The record of a call that is at work, as the invariant has it.
LEMMA OfCall ==
  ASSUME IInv, NEW k \in Calls
  PROVE  call[k] \in CallRecords /\ Sound(call[k], live)
BY DEF IInv

\* The results of a call that has found nothing.
LEMMA NothingFound ==
  [c \in Codes |-> NoQuote] \in [Codes -> [from : Places, price : Prices \union {None}]]
<1>1. Over \in Places
  BY DEF Places, Over, TWSE
<1>2. NoQuote \in [from : Places, price : Prices \union {None}]
  BY <1>1 DEF NoQuote
<1> QED
  BY <1>2

\* A call that is not made has nothing to answer for.
LEMMA IdleIsSound ==
  ASSUME NEW codes
  PROVE  Idle \in CallRecords /\ Sound(Idle, codes)
<1>1. PICK got \in [Codes -> [from : Places, price : Prices \union {None}]] :
        got = [c \in Codes |-> NoQuote]
  BY NothingFound
<1>2. PICK i : i = Idle
  OBVIOUS
<1>3. i = [kind |-> "idle", src |-> Over, wanted |-> {}, left |-> {}, reading |-> {},
           writes |-> {}, got |-> got, refused |-> {}, cut |-> FALSE]
  BY <1>1, <1>2 DEF Idle
<1>4. i \in CallRecords
  BY <1>3 DEF CallRecords, Places, Over, TWSE
<1>5. Sound(i, codes)
  BY <1>3 DEF Sound, Refused, Stands, WasLive, Over, LastGood
<1> QED
  BY <1>2, <1>4, <1>5

\* A call begins with nothing found and no source asked.
LEMMA BeginStep ==
  ASSUME IInv, NEW k \in Calls, NEW kind \in {"one", "batch"}, NEW codes \in SUBSET Codes,
         Begin(k, kind, codes)
  PROVE  IInv'
<1>1. PICK got \in [Codes -> [from : Places, price : Prices \union {None}]] :
        got = [c \in Codes |-> NoQuote]
  BY NothingFound
<1>2. PICK r : r = [Idle EXCEPT !.kind = kind, !.src = TWSE, !.wanted = codes, !.left = codes]
  OBVIOUS
<1>3. r = [kind |-> kind, src |-> TWSE, wanted |-> codes, left |-> codes, reading |-> {},
           writes |-> {}, got |-> got, refused |-> {}, cut |-> FALSE]
  BY <1>1, <1>2 DEF Idle
<1>4. r \in CallRecords
  BY <1>3 DEF CallRecords, Places, Over, TWSE
<1>5. PICK known : known = live
  OBVIOUS
<1>6. Sound(r, known)
  <2>1. \A s \in Chain : ~(s < TWSE)
    BY DEF Chain, TWSE, LastGood
  <2>2. Refused(r)
    BY <1>3, <2>1 DEF Refused
  <2>3. Stands(r)
    BY <1>1, <1>3 DEF Stands, TWSE, LastGood
  <2>4. \A c \in codes : r.got[c].from \notin Chain
    BY <1>1, <1>3 DEF NoQuote, Chain, TWSE, LastGood, Over
  <2> QED
    BY <1>3, <2>2, <2>3, <2>4 DEF Sound, WasLive
<1>7. /\ call' = [call EXCEPT ![k] = r] /\ UNCHANGED <<lastGood, live>>
  BY <1>2 DEF Begin
<1> QED
  BY <1>4, <1>5, <1>6, <1>7, OneCall DEF IInv

\* A source of the market fails: the call moves on with what it is left with.
LEMMA LiveFailsStep ==
  ASSUME IInv, NEW k \in Calls, LiveFails(k)
  PROVE  IInv'
<1>1. PICK r \in CallRecords, known \in {live} : r = call[k] /\ known = live /\ Sound(r, known)
  BY OfCall
<1>2. /\ r.src \in {TWSE, YFinance} /\ r.writes = {} /\ r.src \in Chain
      /\ call' = [call EXCEPT ![k] = MoveOn(Refuse(r, r.left))]
      /\ UNCHANGED <<lastGood, live>>
  BY <1>1 DEF LiveFails, Asked, Chain, TWSE, YFinance, LastGood
<1>3. PICK codes \in SUBSET Codes : codes = r.left
  BY DEF CallRecords
<1>4. PICK m \in CallRecords :
        /\ m = Refuse(r, codes)
        /\ m.refused = r.refused \union (codes \X {r.src})
        /\ m.src = r.src /\ m.wanted = r.wanted /\ m.left = r.left
        /\ m.writes = r.writes /\ m.got = r.got /\ m.cut = r.cut
  BY Refusing
<1>5. Refused(m) /\ WasLive(m, known)
  BY <1>1, <1>4 DEF Refused, WasLive, Sound
<1>6. RefusedHere(m, m.left) /\ m.left \subseteq m.wanted /\ \A c \in m.left : m.got[c] = NoQuote
  BY <1>1, <1>3, <1>4 DEF RefusedHere, Sound, Stands
<1>7. PICK n \in CallRecords : n = MoveOn(m) /\ Sound(n, known)
  BY <1>2, <1>4, <1>5, <1>6, MovingOn
<1>8. call' = [call EXCEPT ![k] = n]
  BY <1>2, <1>3, <1>4, <1>7
<1> QED
  BY <1>1, <1>2, <1>7, <1>8, OneCall DEF IInv

\* A source of the market answers: the call has its quotes, and awaits Redis or
\* moves on.
LEMMA LiveAnswersStep ==
  ASSUME IInv, NEW k \in Calls, LiveAnswers(k)
  PROVE  IInv'
<1>1. PICK r \in CallRecords, known \in {live} : r = call[k] /\ known = live /\ Sound(r, known)
  BY OfCall
<1>2. /\ r.src \in {TWSE, YFinance} /\ r.writes = {} /\ r.src \in Chain
  BY <1>1 DEF LiveAnswers, Asked, Chain, TWSE, YFinance, LastGood
<1>3. PICK q \in Answers(r) :
        /\ live' = known \union {c \in DOMAIN q : q[c] = "good"}
        /\ LET taken == Refuse(Take(r, q), r.left \ DOMAIN q) IN
             \/ /\ DOMAIN q # {}
                /\ call' = [call EXCEPT ![k] = [taken EXCEPT !.writes = DOMAIN q]]
                /\ UNCHANGED lastGood
             \/ /\ call' = [call EXCEPT ![k] = MoveOn(taken)]
                /\ lastGood' = [c \in Codes |-> IF up /\ c \in DOMAIN q THEN q[c]
                                                                        ELSE lastGood[c]]
  BY <1>1 DEF LiveAnswers
<1>4. /\ DOMAIN q \subseteq r.left /\ \A c \in DOMAIN q : q[c] \in Prices
      /\ r.left \subseteq r.wanted /\ r.wanted \subseteq Codes /\ r.reading = {}
      /\ \A c \in r.left : r.got[c] = NoQuote
  BY <1>1, <1>2, <1>3, Answering DEF Sound, Stands, CallRecords, TWSE, YFinance, LastGood
<1>5. PICK rest \in SUBSET Codes : rest = r.left \ DOMAIN q
  BY <1>4
<1>6. PICK t \in CallRecords :
        /\ t = Take(r, q) /\ t.left = rest
        /\ \A c \in DOMAIN q : t.got[c].from = r.src /\ t.got[c].price = q[c]
        /\ \A c \in Codes \ DOMAIN q : t.got[c] = r.got[c]
        /\ t.src = r.src /\ t.wanted = r.wanted /\ t.reading = {}
        /\ t.writes = {} /\ t.refused = r.refused /\ t.cut = r.cut
  BY <1>2, <1>4, <1>5, Taking
<1>7. PICK m \in CallRecords :
        /\ m = Refuse(t, rest)
        /\ m.refused = r.refused \union (rest \X {r.src})
        /\ m.src = r.src /\ m.wanted = r.wanted /\ m.left = rest /\ m.reading = {}
        /\ m.writes = {} /\ m.cut = r.cut
        /\ \A c \in DOMAIN q : m.got[c].from = r.src /\ m.got[c].price = q[c]
        /\ \A c \in Codes \ DOMAIN q : m.got[c] = r.got[c]
  BY <1>6, Refusing
<1>8. PICK now \in SUBSET Codes : now = live'
  BY <1>1, <1>3, <1>4 DEF IInv
<1>9. now = known \union {c \in DOMAIN q : q[c] = "good"}
  BY <1>3, <1>8
<1>10. Refused(m)
  <2>1. ASSUME ~m.cut, NEW c \in rest, NEW s \in Chain, s < m.src
        PROVE  <<c, s>> \in m.refused
    BY <1>1, <1>4, <1>5, <1>7, <2>1 DEF Sound, Refused
  <2>2. ASSUME ~m.cut, NEW c \in m.wanted \ rest, NEW s \in Chain, s < m.got[c].from
        PROVE  <<c, s>> \in m.refused
    <3>1. CASE c \in DOMAIN q
      <4>1. m.got[c].from = r.src /\ c \in r.left
        BY <1>4, <1>7, <3>1
      <4> QED
        BY <1>1, <1>4, <1>7, <2>2, <4>1 DEF Sound, Refused
    <3>2. CASE c \notin DOMAIN q
      <4>1. m.got[c] = r.got[c] /\ c \notin r.left /\ c \in r.wanted
        BY <1>4, <1>5, <1>7, <2>2, <3>2
      <4> QED
        BY <1>1, <1>7, <2>2, <4>1 DEF Sound, Refused
    <3> QED
      BY <3>1, <3>2
  <2> QED
    BY <1>7, <2>1, <2>2 DEF Refused
<1>11. /\ RefusedHere(m, m.left) /\ m.left \subseteq m.wanted
       /\ \A c \in m.left : m.got[c] = NoQuote
  BY <1>4, <1>5, <1>7 DEF RefusedHere
<1>12. \A c \in m.wanted : m.got[c].from \in Chain /\ m.got[c].price = "good" => c \in now
  <2>1. ASSUME NEW c \in m.wanted, m.got[c].from \in Chain, m.got[c].price = "good"
        PROVE  c \in now
    <3>1. CASE c \in DOMAIN q
      BY <1>7, <1>9, <2>1, <3>1
    <3>2. CASE c \notin DOMAIN q
      <4>1. m.got[c] = r.got[c] /\ c \in r.wanted
        BY <1>4, <1>7, <2>1, <3>2
      <4> QED
        BY <1>1, <1>9, <2>1, <4>1 DEF Sound, WasLive
    <3> QED
      BY <3>1, <3>2
  <2> QED
    BY <2>1
<1>13. /\ lastGood \in [Codes -> Prices \union {None}] /\ known \subseteq now
       /\ \A c \in Codes : lastGood[c] = "good" => c \in known
  BY <1>1, <1>9 DEF IInv
<1>14. CASE /\ DOMAIN q # {} /\ UNCHANGED lastGood
            /\ call' = [call EXCEPT ![k] = [m EXCEPT !.writes = DOMAIN q]]
  <2>1. PICK ws \in SUBSET Codes : ws = DOMAIN q
    BY <1>4
  <2>2. PICK n : n = [m EXCEPT !.writes = ws]
    OBVIOUS
  <2>3. /\ n \in CallRecords /\ n.writes = ws
        /\ n.refused = m.refused /\ n.src = m.src /\ n.wanted = m.wanted
        /\ n.left = m.left /\ n.reading = m.reading /\ n.got = m.got /\ n.cut = m.cut
    BY <2>2 DEF CallRecords
  <2>4. Refused(n)
    BY <1>10, <2>3 DEF Refused
  <2>5. Stands(n)
    <3>1. n.src \in {TWSE, YFinance} /\ n.src # LastGood /\ n.reading = {}
      BY <1>2, <1>7, <2>3 DEF TWSE, YFinance, LastGood
    <3>2. RefusedHere(n, n.left) /\ n.left \subseteq n.wanted
      BY <1>11, <2>3 DEF RefusedHere
    <3>3. n.writes \subseteq n.wanted \ n.left
      BY <1>4, <1>5, <1>7, <2>1, <2>3
    <3>4. \A c \in n.left : n.got[c] = NoQuote
      BY <1>11, <2>3
    <3> QED
      BY <3>1, <3>2, <3>3, <3>4 DEF Stands
  <2>6. WasLive(n, now)
    <3>1. \A c \in ws : n.got[c].from = r.src
      BY <1>7, <2>1, <2>3
    <3> QED
      BY <1>2, <1>12, <2>3, <3>1 DEF WasLive
  <2>7. Sound(n, now)
    BY <2>4, <2>5, <2>6 DEF Sound
  <2>8. call' = [call EXCEPT ![k] = n]
    BY <1>14, <2>1, <2>2, <2>3
  <2> QED
    BY <1>1, <1>8, <1>13, <1>14, <2>7, <2>8, <2>3, OneCall
<1>15. CASE /\ call' = [call EXCEPT ![k] = MoveOn(m)]
            /\ lastGood' = [c \in Codes |-> IF up /\ c \in DOMAIN q THEN q[c]
                                                                    ELSE lastGood[c]]
  <2>1. WasLive(m, now)
    BY <1>7, <1>12 DEF WasLive
  <2>2. PICK n \in CallRecords : n = MoveOn(m) /\ Sound(n, now)
    BY <1>2, <1>7, <1>10, <1>11, <2>1, MovingOn
  <2>3. call' = [call EXCEPT ![k] = n]
    BY <1>15, <2>2
  <2>4. /\ lastGood' \in [Codes -> Prices \union {None}]
        /\ \A c \in Codes : lastGood'[c] = "good" => c \in now
    BY <1>4, <1>9, <1>13, <1>15
  <2> QED
    BY <1>1, <1>8, <1>13, <2>2, <2>3, <2>4, OneCall
<1> QED
  BY <1>3, <1>5, <1>6, <1>7, <1>14, <1>15

\* Redis has taken a quote the call found, or not.
LEMMA WriteBackStep ==
  ASSUME IInv, NEW k \in Calls, NEW c \in Codes, WriteBack(k, c)
  PROVE  IInv'
<1>1. PICK r \in CallRecords, known \in {live} : r = call[k] /\ known = live /\ Sound(r, known)
  BY OfCall
<1>2. PICK ws \in SUBSET Codes : ws = r.writes \ {c}
  BY DEF CallRecords
<1>3. PICK rest : rest = [r EXCEPT !.writes = ws]
  OBVIOUS
<1>4. /\ c \in r.writes /\ live' = known
      /\ lastGood' \in {lastGood, [lastGood EXCEPT ![c] = r.got[c].price]}
      /\ call' = [call EXCEPT ![k] = IF rest.writes = {} THEN MoveOn(rest) ELSE rest]
  BY <1>1, <1>2, <1>3 DEF WriteBack, Stored
<1>5. /\ rest \in CallRecords
      /\ rest.writes = ws
      /\ rest.refused = r.refused /\ rest.src = r.src /\ rest.wanted = r.wanted
      /\ rest.left = r.left /\ rest.reading = r.reading /\ rest.got = r.got
      /\ rest.cut = r.cut
  BY <1>3 DEF CallRecords
<1>6. r.src \in {TWSE, YFinance} /\ RefusedHere(r, r.left)
  BY <1>1, <1>4 DEF Sound, Stands
<1>7. Refused(rest) /\ WasLive(rest, known)
  BY <1>1, <1>2, <1>5 DEF Refused, WasLive, Sound
<1>8. Stands(rest)
  BY <1>1, <1>2, <1>5, <1>6 DEF Sound, Stands, RefusedHere, TWSE, YFinance, LastGood
<1>9. PICK n \in CallRecords : call' = [call EXCEPT ![k] = n] /\ Sound(n, known)
  <2>1. CASE rest.writes = {}
    <3>1. rest.src \in Chain /\ RefusedHere(rest, rest.left)
      BY <1>5, <1>6 DEF RefusedHere, Chain, TWSE, YFinance, LastGood
    <3>2. rest.left \subseteq rest.wanted /\ \A d \in rest.left : rest.got[d] = NoQuote
      BY <1>8 DEF Stands
    <3> QED
      BY <1>4, <1>5, <1>7, <2>1, <3>1, <3>2, MovingOn
  <2>2. CASE rest.writes # {}
    BY <1>4, <1>5, <1>7, <1>8, <2>2 DEF Sound
  <2> QED
    BY <2>1, <2>2
<1>10. /\ lastGood' \in [Codes -> Prices \union {None}]
       /\ \A d \in Codes : lastGood'[d] = "good" => d \in known
  <2>1. /\ lastGood \in [Codes -> Prices \union {None}]
        /\ \A d \in Codes : lastGood[d] = "good" => d \in known
    BY <1>1 DEF IInv
  <2>2. PICK p \in Prices \union {None} : p = r.got[c].price
    BY DEF CallRecords
  <2>3. p = "good" => c \in known
    <3>1. c \in r.wanted /\ r.got[c].from \in {TWSE, YFinance}
      BY <1>1, <1>4 DEF Sound, Stands, WasLive
    <3>2. r.got[c].from \in Chain
      BY <3>1 DEF Chain, TWSE, YFinance, LastGood
    <3> QED
      BY <1>1, <2>2, <3>1, <3>2 DEF Sound, WasLive
  <2> QED
    BY <1>4, <2>1, <2>2, <2>3
<1>11. known \subseteq Codes
  BY <1>1 DEF IInv
<1> QED
  BY <1>1, <1>4, <1>9, <1>10, <1>11, OneCall

\* Some last good quotes are read, or could not be.
LEMMA ReadLastGoodStep ==
  ASSUME IInv, NEW k \in Calls, ReadLastGood(k)
  PROVE  IInv'
<1>1. PICK r \in CallRecords, known \in {live} : r = call[k] /\ known = live /\ Sound(r, known)
  BY OfCall
<1>2. PICK codes, found, rest, q :
        /\ codes \in SUBSET r.reading
        /\ found \subseteq codes /\ \A c \in found : lastGood[c] \in Prices
        /\ q = [c \in found |-> lastGood[c]]
        /\ rest = [Refuse(Take(r, q), codes \ found) EXCEPT !.reading = @ \ codes]
        /\ codes # {}
        /\ call' = [call EXCEPT ![k] = IF rest.reading = {} THEN MoveOn(rest) ELSE rest]
        /\ UNCHANGED <<lastGood, live>>
  <2>1. PICK codes \in SUBSET call[k].reading, lost \in SUBSET Codes :
          LET found == {c \in codes \ lost :
                          lastGood[c] \in (IF call[k].kind = "one" THEN {"good"} ELSE Prices)}
              rest  == [Refuse(Take(call[k], [c \in found |-> lastGood[c]]), codes \ found)
                          EXCEPT !.reading = @ \ codes]
          IN  /\ codes # {}
              /\ call' = [call EXCEPT ![k] = IF rest.reading = {} THEN MoveOn(rest) ELSE rest]
              /\ UNCHANGED <<lastGood, live>>
    BY DEF ReadLastGood
  <2>2. PICK found : found = {c \in codes \ lost :
                       lastGood[c] \in (IF call[k].kind = "one" THEN {"good"} ELSE Prices)}
    OBVIOUS
  <2>3. PICK q : q = [c \in found |-> lastGood[c]]
    OBVIOUS
  <2>4. PICK rest : rest = [Refuse(Take(call[k], q), codes \ found) EXCEPT !.reading = @ \ codes]
    OBVIOUS
  <2>5. found \subseteq codes /\ \A c \in found : lastGood[c] \in Prices
    BY <2>2 DEF Prices
  <2>6. /\ codes # {}
        /\ call' = [call EXCEPT ![k] = IF rest.reading = {} THEN MoveOn(rest) ELSE rest]
        /\ UNCHANGED <<lastGood, live>>
    BY <2>1, <2>2, <2>3, <2>4
  <2>7. /\ codes \in SUBSET r.reading
        /\ rest = [Refuse(Take(r, q), codes \ found) EXCEPT !.reading = @ \ codes]
    BY <1>1, <2>4
  <2> QED
    BY <2>3, <2>5, <2>6, <2>7
<1>3. /\ found \subseteq codes /\ codes \subseteq r.reading /\ r.reading \subseteq r.left
      /\ r.left \subseteq r.wanted /\ r.wanted \subseteq Codes
      /\ r.src = LastGood /\ RefusedHere(r, r.left \ r.reading)
      /\ \A c \in r.left : r.got[c] = NoQuote
  BY <1>1, <1>2 DEF Sound, Stands, CallRecords
<1>4. r.writes = {}
  BY <1>1, <1>3 DEF Sound, Stands, TWSE, YFinance, LastGood
<1>5. DOMAIN q = found /\ \A c \in found : q[c] = lastGood[c] /\ q[c] \in Prices
  BY <1>2
<1>6. PICK t \in CallRecords :
        /\ t = Take(r, q) /\ t.left = r.left \ found
        /\ \A c \in found : t.got[c].from = r.src /\ t.got[c].price = q[c]
        /\ \A c \in Codes \ found : t.got[c] = r.got[c]
        /\ t.src = r.src /\ t.wanted = r.wanted /\ t.reading = r.reading
        /\ t.writes = {} /\ t.refused = r.refused /\ t.cut = r.cut
  <2>1. DOMAIN q \subseteq Codes
    BY <1>3, <1>5
  <2> QED
    BY <1>4, <1>5, <2>1, Taking
<1>7. PICK missed \in SUBSET Codes : missed = codes \ found
  BY <1>3
<1>8. PICK m \in CallRecords :
        /\ m = Refuse(t, missed)
        /\ m.refused = r.refused \union (missed \X {r.src})
        /\ m.src = r.src /\ m.wanted = r.wanted /\ m.left = r.left \ found
        /\ m.reading = r.reading
        /\ m.writes = {} /\ m.cut = r.cut /\ m.got = t.got
  BY <1>6, Refusing
<1>9. PICK unread \in SUBSET Codes : unread = r.reading \ codes
  BY <1>3
<1>10. rest = [m EXCEPT !.reading = unread]
  BY <1>2, <1>6, <1>7, <1>8, <1>9
<1>11. /\ rest \in CallRecords
       /\ rest.reading = unread
       /\ rest.refused = m.refused /\ rest.src = m.src /\ rest.wanted = m.wanted
       /\ rest.left = m.left /\ rest.writes = m.writes /\ rest.got = m.got
       /\ rest.cut = m.cut
  BY <1>10 DEF CallRecords
<1>12. Refused(rest)
  <2>1. ASSUME ~rest.cut, NEW c \in rest.left, NEW s \in Chain, s < rest.src
        PROVE  <<c, s>> \in rest.refused
    BY <1>1, <1>3, <1>8, <1>11, <2>1 DEF Sound, Refused
  <2>2. ASSUME ~rest.cut, NEW c \in rest.wanted \ rest.left, NEW s \in Chain,
               s < rest.got[c].from
        PROVE  <<c, s>> \in rest.refused
    <3>1. CASE c \in found
      <4>1. rest.got[c].from = r.src /\ c \in r.left
        BY <1>3, <1>6, <1>8, <1>11, <3>1
      <4> QED
        BY <1>1, <1>3, <1>8, <1>11, <2>2, <4>1 DEF Sound, Refused
    <3>2. CASE c \notin found
      <4>1. rest.got[c] = r.got[c] /\ c \notin r.left /\ c \in r.wanted
        BY <1>3, <1>6, <1>8, <1>11, <2>2, <3>2
      <4> QED
        BY <1>1, <1>8, <1>11, <2>2, <4>1 DEF Sound, Refused
    <3> QED
      BY <3>1, <3>2
  <2> QED
    BY <2>1, <2>2 DEF Refused
<1>13. /\ RefusedHere(rest, rest.left \ rest.reading)
       /\ rest.left \subseteq rest.wanted /\ rest.reading \subseteq rest.left
  BY <1>3, <1>7, <1>8, <1>9, <1>11 DEF RefusedHere
<1>14. \A c \in rest.left : rest.got[c] = NoQuote
  BY <1>3, <1>6, <1>8, <1>11
<1>15. WasLive(rest, known)
  <2>1. ASSUME NEW c \in rest.wanted, rest.got[c].from \in Chain, rest.got[c].price = "good"
        PROVE  c \in known
    <3>1. CASE c \in found
      <4>1. lastGood[c] = "good" /\ c \in Codes
        BY <1>3, <1>5, <1>6, <1>8, <1>11, <2>1, <3>1
      <4> QED
        BY <1>1, <4>1 DEF IInv
    <3>2. CASE c \notin found
      <4>1. rest.got[c] = r.got[c] /\ c \in r.wanted
        BY <1>3, <1>6, <1>8, <1>11, <2>1, <3>2
      <4> QED
        BY <1>1, <2>1, <4>1 DEF Sound, WasLive
    <3> QED
      BY <3>1, <3>2
  <2> QED
    BY <1>8, <1>11, <2>1 DEF WasLive
<1>16. PICK n \in CallRecords : call' = [call EXCEPT ![k] = n] /\ Sound(n, known)
  <2>1. CASE rest.reading = {}
    <3>1. rest.src \in Chain /\ RefusedHere(rest, rest.left) /\ rest.writes = {}
      BY <1>3, <1>8, <1>11, <1>13, <2>1 DEF RefusedHere, Chain, TWSE, LastGood
    <3> QED
      BY <1>2, <1>11, <1>12, <1>13, <1>14, <1>15, <2>1, <3>1, MovingOn
  <2>2. CASE rest.reading # {}
    <3>1. Stands(rest)
      BY <1>3, <1>8, <1>11, <1>13, <1>14, <2>2 DEF Stands
    <3> QED
      BY <1>2, <1>11, <1>12, <1>15, <2>2, <3>1 DEF Sound
  <2> QED
    BY <2>1, <2>2
<1>17. /\ known \subseteq Codes /\ lastGood \in [Codes -> Prices \union {None}]
       /\ \A c \in Codes : lastGood[c] = "good" => c \in known
  BY <1>1 DEF IInv
<1> QED
  BY <1>1, <1>2, <1>16, <1>17, OneCall

\* The close of the day before answers for what is left, or for nothing.
LEMMA LastCloseStep ==
  ASSUME IInv, NEW k \in Calls, LastCloseAnswers(k)
  PROVE  IInv'
<1>1. PICK r \in CallRecords, known \in {live} : r = call[k] /\ known = live /\ Sound(r, known)
  BY OfCall
<1>2. /\ r.src = LastClose /\ UNCHANGED <<lastGood, live>>
      /\ \/ \E price \in Prices :
              call' = [call EXCEPT ![k] = [Take(r, [c \in r.left |-> price]) EXCEPT !.src = Over]]
         \/ call' = [call EXCEPT ![k] = [Refuse(r, r.left) EXCEPT !.src = Over]]
  BY <1>1 DEF LastCloseAnswers
<1>3. /\ r.left \subseteq r.wanted /\ r.wanted \subseteq Codes /\ r.left \in SUBSET Codes
      /\ r.reading = {} /\ r.writes = {} /\ Over \in Places
      /\ \A c \in r.left : r.got[c] = NoQuote
  BY <1>1, <1>2
     DEF Sound, Stands, CallRecords, Places, TWSE, YFinance, LastGood, LastClose, Over
<1>4. \A s \in Chain : s < LastClose /\ s < Over
  BY DEF Chain, TWSE, LastGood, LastClose, Over
<1>5. ~r.cut => \A c \in r.left, s \in Chain : <<c, s>> \in r.refused
  BY <1>1, <1>2, <1>3, <1>4 DEF Sound, Refused
<1>6. ASSUME NEW price \in Prices,
             call' = [call EXCEPT ![k] = [Take(r, [c \in r.left |-> price]) EXCEPT !.src = Over]]
      PROVE  \E n \in CallRecords : call' = [call EXCEPT ![k] = n] /\ Sound(n, known)
  <2>1. PICK q : q = [c \in r.left |-> price]
    OBVIOUS
  <2>2. DOMAIN q = r.left /\ \A c \in r.left : q[c] \in Prices
    BY <2>1
  <2>3. PICK t \in CallRecords :
          /\ t = Take(r, q) /\ t.left = {}
          /\ \A c \in r.left : t.got[c].from = LastClose
          /\ \A c \in Codes \ r.left : t.got[c] = r.got[c]
          /\ t.wanted = r.wanted /\ t.reading = {}
          /\ t.writes = {} /\ t.refused = r.refused /\ t.cut = r.cut
    BY <1>2, <1>3, <2>2, Taking
  <2>4. PICK n : n = [t EXCEPT !.src = Over]
    OBVIOUS
  <2>5. /\ n \in CallRecords /\ n.src = Over
        /\ n.left = {} /\ n.got = t.got /\ n.wanted = r.wanted /\ n.reading = {}
        /\ n.writes = {} /\ n.refused = r.refused /\ n.cut = r.cut
    BY <1>3, <2>3, <2>4 DEF CallRecords
  <2>6. Refused(n)
    <3>1. ASSUME ~n.cut, NEW c \in n.wanted, NEW s \in Chain, s < n.got[c].from
          PROVE  <<c, s>> \in n.refused
      <4>1. CASE c \in r.left
        BY <1>5, <2>5, <3>1, <4>1
      <4>2. CASE c \notin r.left
        <5>1. n.got[c] = r.got[c] /\ c \in r.wanted
          BY <1>3, <2>3, <2>5, <3>1, <4>2
        <5> QED
          BY <1>1, <2>5, <3>1, <4>2, <5>1 DEF Sound, Refused
      <4> QED
        BY <4>1, <4>2
    <3> QED
      BY <2>5, <3>1 DEF Refused
  <2>7. Stands(n)
    BY <2>5 DEF Stands, LastGood, Over
  <2>8. WasLive(n, known)
    <3>1. ASSUME NEW c \in n.wanted, n.got[c].from \in Chain, n.got[c].price = "good"
          PROVE  c \in known
      <4>1. c \notin r.left
        BY <2>3, <2>5, <3>1 DEF Chain, TWSE, LastGood, LastClose
      <4>2. n.got[c] = r.got[c] /\ c \in r.wanted
        BY <1>3, <2>3, <2>5, <3>1, <4>1
      <4> QED
        BY <1>1, <3>1, <4>2 DEF Sound, WasLive
    <3> QED
      BY <2>5, <3>1 DEF WasLive
  <2> QED
    BY <1>6, <2>1, <2>3, <2>4, <2>5, <2>6, <2>7, <2>8 DEF Sound
<1>7. ASSUME call' = [call EXCEPT ![k] = [Refuse(r, r.left) EXCEPT !.src = Over]]
      PROVE  \E n \in CallRecords : call' = [call EXCEPT ![k] = n] /\ Sound(n, known)
  <2>1. PICK codes \in SUBSET Codes : codes = r.left
    BY <1>3
  <2>2. PICK m \in CallRecords :
          /\ m = Refuse(r, codes)
          /\ m.refused = r.refused \union (codes \X {r.src})
          /\ m.wanted = r.wanted /\ m.left = r.left /\ m.reading = {}
          /\ m.writes = {} /\ m.got = r.got /\ m.cut = r.cut
    BY <1>3, Refusing
  <2>3. PICK n : n = [m EXCEPT !.src = Over]
    OBVIOUS
  <2>4. /\ n \in CallRecords /\ n.src = Over
        /\ n.left = r.left /\ n.got = r.got /\ n.wanted = r.wanted /\ n.reading = {}
        /\ n.writes = {} /\ n.refused = m.refused /\ n.cut = r.cut
    BY <1>3, <2>2, <2>3 DEF CallRecords
  <2>5. Refused(n)
    BY <1>1, <1>5, <2>2, <2>4 DEF Sound, Refused
  <2>6. Stands(n)
    BY <1>3, <2>4 DEF Stands, LastGood, Over
  <2>7. WasLive(n, known)
    BY <1>1, <2>4 DEF Sound, WasLive
  <2> QED
    BY <1>7, <2>1, <2>2, <2>3, <2>4, <2>5, <2>6, <2>7 DEF Sound
<1>8. PICK n \in CallRecords : call' = [call EXCEPT ![k] = n] /\ Sound(n, known)
  BY <1>2, <1>6, <1>7
<1>9. /\ known \subseteq Codes /\ lastGood \in [Codes -> Prices \union {None}]
      /\ \A c \in Codes : lastGood[c] = "good" => c \in known
  BY <1>1 DEF IInv
<1> QED
  BY <1>1, <1>2, <1>8, <1>9, OneCall

\* The caller has its answer, and the call is free again.
LEMMA ReturnStep ==
  ASSUME IInv, NEW k \in Calls, Return(k)
  PROVE  IInv'
<1>1. call' = [call EXCEPT ![k] = Idle] /\ UNCHANGED <<lastGood, live>>
  BY DEF Return
<1>2. PICK known, i : known = live /\ i = Idle
  OBVIOUS
<1>3. i \in CallRecords /\ Sound(i, known)
  BY <1>2, IdleIsSound
<1> QED
  BY <1>1, <1>2, <1>3, OneCall DEF IInv

\* A disconnect cuts the chain of the calls at work, and leaves them where they stand.
LEMMA DisconnectedStep ==
  ASSUME IInv, Disconnected
  PROVE  IInv'
<1>1. PICK known : known = live
  OBVIOUS
<1>2. ASSUME NEW r \in CallRecords, Sound(r, known)
      PROVE  [r EXCEPT !.cut = TRUE] \in CallRecords /\ Sound([r EXCEPT !.cut = TRUE], known)
  <2>1. PICK n : n = [r EXCEPT !.cut = TRUE]
    OBVIOUS
  <2>2. /\ n \in CallRecords /\ n.cut = TRUE
        /\ n.src = r.src /\ n.wanted = r.wanted /\ n.left = r.left /\ n.reading = r.reading
        /\ n.writes = r.writes /\ n.got = r.got /\ n.refused = r.refused
    BY <2>1 DEF CallRecords
  <2>3. Refused(n)
    BY <2>2 DEF Refused
  <2>4. Stands(n)
    BY <1>2, <2>2 DEF Sound, Stands, RefusedHere
  <2>5. WasLive(n, known)
    BY <1>2, <2>2 DEF Sound, WasLive
  <2> QED
    BY <2>1, <2>2, <2>3, <2>4, <2>5 DEF Sound
<1>3. ASSUME NEW k \in Calls
      PROVE  call'[k] \in CallRecords /\ Sound(call'[k], known)
  <2>1. PICK r \in CallRecords : r = call[k] /\ Sound(r, known)
    BY <1>1, OfCall
  <2>2. call'[k] = IF r.kind = "idle" THEN Idle ELSE [r EXCEPT !.cut = TRUE]
    BY <2>1 DEF Disconnected
  <2>3. CASE r.kind = "idle"
    <3>1. PICK i : i = Idle
      OBVIOUS
    <3> QED
      BY <2>2, <2>3, <3>1, IdleIsSound
  <2>4. CASE r.kind # "idle"
    <3>1. PICK n : n = [r EXCEPT !.cut = TRUE]
      OBVIOUS
    <3> QED
      BY <1>2, <2>1, <2>2, <2>4, <3>1
  <2> QED
    BY <2>3, <2>4
<1>4. call' \in [Calls -> CallRecords]
  BY <1>3 DEF Disconnected
<1>5. UNCHANGED <<lastGood, live>>
  BY DEF Disconnected
<1>6. \A k \in Calls : Sound(call[k], live)'
  BY <1>1, <1>3, <1>5 DEF Sound, Refused, Stands, WasLive, RefusedHere
<1> QED
  BY <1>4, <1>5, <1>6 DEF IInv

\* Nothing that the calls have, and nothing new among the last good quotes.
LEMMA OtherSteps ==
  ASSUME IInv, UNCHANGED <<call, live>>,
         \/ UNCHANGED lastGood
         \/ \E c \in Codes : lastGood' = [lastGood EXCEPT ![c] = None]
  PROVE  IInv'
<1>1. /\ lastGood' \in [Codes -> Prices \union {None}]
      /\ \A c \in Codes : lastGood'[c] = "good" => lastGood[c] = "good"
  BY DEF IInv, None
<1>2. \A k \in Calls : Sound(call[k], live)'
  BY DEF IInv, Sound, Refused, Stands, WasLive, RefusedHere
<1> QED
  BY <1>1, <1>2 DEF IInv

-----------------------------------------------------------------------------
(* The theorems *)

\* The invariant holds before the first call.
LEMMA InitIInv == Init => IInv
<1> SUFFICES ASSUME Init PROVE IInv
  OBVIOUS
<1>1. PICK i, known : i = Idle /\ known = live
  OBVIOUS
<1>2. i \in CallRecords /\ Sound(i, known)
  BY <1>1, IdleIsSound
<1>3. \A k \in Calls : call[k] = i
  BY <1>1 DEF Init
<1>4. call \in [Calls -> CallRecords] /\ \A k \in Calls : Sound(call[k], live)
  BY <1>1, <1>2, <1>3 DEF Init
<1> QED
  BY <1>4 DEF Init, IInv, None

\* Every step keeps the invariant.
LEMMA NextIInv == IInv /\ [Next]_vars => IInv'
<1> SUFFICES ASSUME IInv, [Next]_vars PROVE IInv'
  OBVIOUS
<1>1. CASE Connect \/ Disconnect \/ \E c \in Codes : Expire(c)
  <2>1. UNCHANGED <<call, live>>
    BY <1>1 DEF Connect, Disconnect, Expire
  <2>2. \/ UNCHANGED lastGood
        \/ \E c \in Codes : lastGood' = [lastGood EXCEPT ![c] = None]
    BY <1>1 DEF Connect, Disconnect, Expire
  <2> QED
    BY <2>1, <2>2, OtherSteps
<1>2. CASE Disconnected
  BY <1>2, DisconnectedStep
<1>3. ASSUME NEW k \in Calls, NEW c \in Codes, GetQuote(k, c)
      PROVE  IInv'
  BY <1>3, BeginStep DEF GetQuote
<1>4. ASSUME NEW k \in Calls, NEW cs \in Batches, GetQuotesBatch(k, cs)
      PROVE  IInv'
  BY <1>4, BatchesAssumption, BeginStep DEF GetQuotesBatch
<1>5. ASSUME NEW k \in Calls, NEW c \in Codes, WriteBack(k, c)
      PROVE  IInv'
  BY <1>5, WriteBackStep
<1>6. ASSUME NEW k \in Calls,
             \/ LiveAnswers(k) \/ LiveFails(k) \/ ReadLastGood(k)
             \/ LastCloseAnswers(k) \/ Return(k)
      PROVE  IInv'
  BY <1>6, LiveAnswersStep, LiveFailsStep, ReadLastGoodStep, LastCloseStep, ReturnStep
<1>7. CASE UNCHANGED vars
  BY <1>7, OtherSteps DEF vars
<1> QED
  BY <1>1, <1>2, <1>3, <1>4, <1>5, <1>6, <1>7 DEF Next

\* Every state of the adapter satisfies the invariant, however calls, the owner and
\* the expiry of quotes are interleaved.
THEOREM AdapterInvariant == Spec => []IInv
BY InitIInv, NextIInv, PTL DEF Spec

\* get_quote and get_quotes_batch take each quote from the first source that has
\* one, and report a code as missing only when the whole chain refused it.
THEOREM FallbackIsExhausted == Spec => []FallbackExhausted
<1>1. IInv => FallbackExhausted
  <2> SUFFICES ASSUME IInv, NEW k \in Calls, Done(k), ~call[k].cut,
                      NEW c \in call[k].wanted, NEW s \in Chain, s < call[k].got[c].from
               PROVE  <<c, s>> \in call[k].refused
    BY DEF FallbackExhausted
  <2>1. PICK r \in CallRecords, known \in {live} : r = call[k] /\ Sound(r, known)
    BY OfCall
  <2>2. r.src = Over /\ s < Over
    BY <2>1 DEF Done, Chain, TWSE, LastGood, Over
  <2> QED
    BY <2>1, <2>2 DEF Sound, Refused
<1> QED
  BY <1>1, AdapterInvariant, PTL

\* What _write_back kept for a code, and the last good source gives back for it, is
\* a quote that a source of the market once had for it.
THEOREM LastGoodWasOnceLive == Spec => []LastGoodWasLive
<1>1. IInv => LastGoodWasLive
  <2> SUFFICES ASSUME IInv, NEW k \in Calls, NEW c \in call[k].wanted,
                      call[k].got[c] = [from |-> LastGood, price |-> "good"]
               PROVE  c \in live
    BY DEF LastGoodWasLive
  <2>1. PICK r \in CallRecords : r = call[k] /\ WasLive(r, live)
    BY OfCall DEF Sound
  <2>2. r.got[c].from = LastGood /\ r.got[c].price = "good" /\ LastGood \in Chain
    BY <2>1 DEF Chain, TWSE, LastGood
  <2> QED
    BY <2>1, <2>2 DEF WasLive
<1> QED
  BY <1>1, AdapterInvariant, PTL
=============================================================================
