------------------------- MODULE NotificationsProofs -------------------------
(***************************************************************************)
(* What is proved of the notifier and the hub, for every number of         *)
(* threads, batches, channels and limits: a notifier lets a stock and      *)
(* detector pass again only after the cool-down; and, while one thread     *)
(* sends, the hub's channels accept no more messages in a window than it   *)
(* allows.                                                                 *)
(*                                                                         *)
(* The cool-down rests on what a sender knows while the hub is at work:    *)
(* the signal at the head of its batch passed the test, and the clock has  *)
(* only gone on since (CoolOK).  The rate rests on the hub's stamps: each  *)
(* delivery still in the window has its own (Stamped), in the list that is *)
(* about to replace them as well, so that a thread the hub has let through *)
(* finds room for one more (Roomy).                                        *)
(***************************************************************************)
EXTENDS Notifications, FiniteSetTheorems, SequenceTheorems, TLAPS

-----------------------------------------------------------------------------
(* Types *)

Places == {"idle", "signal", "answered", "limit", "replace", "count", "channel"}
Waiting == Places \ {"idle", "signal"}
Events == [key : Keys, at : Int]
Stamps == [of : {"send", "broadcast"} \X Nat, at : Int]

NotifierTypes ==
  /\ pc \in [Senders -> Places]
  /\ todo \in [Senders -> Seq(Signals)]
  /\ lastSent \in [Senders -> [Keys -> Int]]
  /\ minute \in [Senders -> [start : Int, count : Nat]]
  /\ sent \in [Senders -> Seq(Events)]

HubTypes ==
  /\ stamps \in SUBSET Stamps /\ IsFiniteSet(stamps)
  /\ pruned \in [Senders -> SUBSET Stamps] /\ \A s \in Senders : IsFiniteSet(pruned[s])
  /\ channel \in [Senders -> Nat]
  /\ delivered \in Seq(Events)

TypeOK ==
  /\ clock \in Nat /\ batches \in Nat /\ broadcasts \in Nat
  /\ NotifierTypes /\ HubTypes
  /\ \A s \in Senders : pc[s] \in Waiting => todo[s] # << >>

\* A new notifier has sent nothing.
LEMMA NewNotifierTypes ==
  /\ NewNotifier.cache \in [Keys -> Int]
  /\ NewNotifier.minute \in [start : Int, count : Nat]
BY DEF NewNotifier

\* The current minute counts from a time on.
LEMMA CurrentMinuteType ==
  ASSUME TypeOK, NEW s \in Senders
  PROVE  CurrentMinute(s) \in [start : Int, count : Nat]
BY DEF TypeOK, NotifierTypes, CurrentMinute

\* The head of a batch is a signal of a pair, and the rest a batch.
LEMMA HeadAndTail ==
  ASSUME NEW b \in Seq(Signals), b # << >>
  PROVE  Head(b) \in Signals /\ Head(b).key \in Keys /\ Tail(b) \in Seq(Signals)
BY HeadTailProperties, NotifyAssumption

\* Everything begins with values of its type.
LEMMA TypesBegin == NotifyInit => TypeOK
<1> SUFFICES ASSUME NotifyInit PROVE TypeOK
  OBVIOUS
<1>1. NotifierTypes
  BY NewNotifierTypes DEF NotifyInit, NotifierTypes, Places
<1>2. HubTypes
  BY FS_EmptySet DEF NotifyInit, HubTypes
<1> QED
  BY <1>1, <1>2, NotifyAssumption DEF NotifyInit, TypeOK, Waiting, Places

\* What a step of the hub on behalf of a sender leaves alone.
HubKeeps(s) ==
  /\ UNCHANGED <<clock, todo, notifierVars, bounds>>
  /\ pc[s] \in Waiting
  /\ \E p \in Waiting : pc' = [pc EXCEPT ![s] = p]

\* The steps of the hub are such, from one place of its own to another.
LEMMA HubStepKeeps ==
  ASSUME TypeOK, NEW s \in Senders,
         Prune(s) \/ Replace(s) \/ Decide(s) \/ Deliver(s) \/ FallBack(s)
  PROVE  HubKeeps(s)
<1> USE DEF HubKeeps, At, Goto, Waiting, Places
<1>1. CASE Prune(s)
  BY <1>1 DEF Prune
<1>2. CASE Replace(s)
  BY <1>2 DEF Replace
<1>3. CASE Decide(s)
  BY <1>3 DEF Decide
<1>4. CASE Deliver(s)
  BY <1>4 DEF Deliver
<1>5. CASE FallBack(s)
  <2>1. UNCHANGED pc => pc' = [pc EXCEPT ![s] = "channel"]
    BY <1>5 DEF FallBack, TypeOK, NotifierTypes
  <2> QED
    BY <1>5, <2>1 DEF FallBack
<1> QED
  BY <1>1, <1>2, <1>3, <1>4, <1>5

\* The hub's own variables keep their types in its steps.
LEMMA HubStepTypes ==
  ASSUME TypeOK, NEW s \in Senders,
         Prune(s) \/ Replace(s) \/ Decide(s) \/ Deliver(s) \/ FallBack(s)
  PROVE  TypeOK'
<1>1. HubKeeps(s)
  BY HubStepKeeps
<1>2. NotifierTypes'
  BY <1>1 DEF HubKeeps, notifierVars, TypeOK, NotifierTypes, Waiting
<1>3. \A t \in Senders : pc'[t] \in Waiting => todo'[t] # << >>
  BY <1>1 DEF HubKeeps, TypeOK, NotifierTypes
<1>4. HubTypes'
  <2>1. CASE Prune(s)
    <3>1. PICK kept : kept = {stamp \in stamps : InWindow(stamp.at)}
      OBVIOUS
    <3>2. kept \in SUBSET Stamps /\ IsFiniteSet(kept)
      <4>1. kept \in SUBSET stamps
        BY <3>1
      <4> QED
        BY <4>1, FS_Subset DEF TypeOK, HubTypes
    <3>3. pruned' = [pruned EXCEPT ![s] = kept] /\ UNCHANGED <<stamps, channel, delivered>>
      BY <2>1, <3>1 DEF Prune
    <3> QED
      BY <3>2, <3>3 DEF TypeOK, HubTypes
  <2>2. CASE Replace(s)
    BY <2>2, FS_EmptySet DEF Replace, TypeOK, HubTypes
  <2>3. CASE Decide(s)
    BY <2>3 DEF Decide, TypeOK, HubTypes
  <2>4. CASE Deliver(s)
    <3>1. PICK stamp : stamp = Stamp("send", Len(delivered) + 1)
      OBVIOUS
    <3>2. stamp \in Stamps
      BY <3>1 DEF Stamp, Stamps, TypeOK, HubTypes
    <3>3. stamps' = stamps \union {stamp}
      BY <2>4, <3>1 DEF Deliver, RecordSend
    <3>4. IsFiniteSet(stamps')
      BY <3>3, FS_AddElement DEF TypeOK, HubTypes
    <3>5. [key |-> Head(todo[s]).key, at |-> clock] \in Events
      BY <1>1, HeadAndTail DEF HubKeeps, TypeOK, NotifierTypes, Events
    <3>6. delivered' \in Seq(Events)
      BY <2>4, <3>5, AppendProperties DEF Deliver, TypeOK, HubTypes
    <3> QED
      BY <2>4, <3>2, <3>3, <3>4, <3>6 DEF Deliver, TypeOK, HubTypes
  <2>5. CASE FallBack(s)
    BY <2>5 DEF FallBack, TypeOK, HubTypes
  <2> QED
    BY <2>1, <2>2, <2>3, <2>4, <2>5
<1> QED
  BY <1>1, <1>2, <1>3, <1>4 DEF HubKeeps, bounds, TypeOK

\* A step of the notifier leaves the hub alone.
LEMMA NotifierStepTypes ==
  ASSUME TypeOK, NEW s \in Senders,
         \/ Filter(s) \/ Accept(s) \/ Conclude(s) \/ Finish(s)
         \/ \E b \in Batches : ProcessSignals(s, b) \/ NotifySignals(s, b)
  PROVE  TypeOK'
<1>1. /\ todo[s] \in Seq(Signals)
      /\ todo[s] # << >> => /\ Head(todo[s]).key \in Keys
                            /\ Tail(todo[s]) \in Seq(Signals)
  BY HeadAndTail DEF TypeOK, NotifierTypes
<1>2. CurrentMinute(s) \in [start : Int, count : Nat]
  BY CurrentMinuteType
<1>3. CASE Filter(s)
  <2>1. /\ minute' \in [Senders -> [start : Int, count : Nat]]
        /\ todo' = [todo EXCEPT ![s] = Tail(todo[s])] /\ todo[s] # << >>
        /\ At(s, "signal")
        /\ UNCHANGED <<clock, stamps, pc, channel, pruned, lastSent, sent, delivered, bounds>>
    BY <1>2, <1>3 DEF Filter, TypeOK, NotifierTypes
  <2>2. NotifierTypes'
    BY <1>1, <2>1 DEF TypeOK, NotifierTypes
  <2>3. HubTypes'
    BY <2>1 DEF TypeOK, HubTypes
  <2>4. \A t \in Senders : pc'[t] \in Waiting => todo'[t] # << >>
    BY <2>1 DEF TypeOK, NotifierTypes, At, Waiting
  <2> QED
    BY <2>1, <2>2, <2>3, <2>4 DEF TypeOK, bounds
<1>4. CASE Accept(s)
  <2>1. PICK p \in Waiting : pc' = [pc EXCEPT ![s] = p]
    <3>1. PICK p : p = IF Channels = 0 THEN "answered" ELSE "limit"
      OBVIOUS
    <3>2. pc' = [pc EXCEPT ![s] = p]
      BY <1>4, <3>1 DEF Accept, Goto
    <3>3. p \in Waiting
      BY <3>1 DEF Waiting, Places
    <3> QED
      BY <3>2, <3>3
  <2>2. /\ minute' = [minute EXCEPT ![s] = CurrentMinute(s)] /\ todo[s] # << >>
        /\ UNCHANGED <<clock, stamps, todo, channel, pruned, lastSent, sent, delivered, bounds>>
    BY <1>4 DEF Accept
  <2>3. NotifierTypes'
    BY <1>2, <2>1, <2>2 DEF TypeOK, NotifierTypes, Waiting
  <2>4. HubTypes'
    BY <2>2 DEF TypeOK, HubTypes
  <2>5. \A t \in Senders : pc'[t] \in Waiting => todo'[t] # << >>
    BY <2>1, <2>2 DEF TypeOK, NotifierTypes
  <2> QED
    BY <2>2, <2>3, <2>4, <2>5 DEF TypeOK, bounds
<1>5. CASE Conclude(s)
  <2>1. todo[s] # << >>
    BY <1>5 DEF Conclude, At, TypeOK, Waiting, Places
  <2>2. PICK key \in Keys : key = Head(todo[s]).key
    BY <1>1, <2>1
  <2>3. /\ lastSent' = [lastSent EXCEPT ![s][key] = clock]
        /\ sent' = [sent EXCEPT ![s] = Append(sent[s], [key |-> key, at |-> clock])]
        /\ minute' = [minute EXCEPT ![s].count = minute[s].count + 1]
        /\ todo' = [todo EXCEPT ![s] = Tail(todo[s])]
        /\ pc' = [pc EXCEPT ![s] = "signal"]
        /\ UNCHANGED <<clock, stamps, channel, pruned, delivered, bounds>>
    BY <1>5, <2>2 DEF Conclude, Goto, TypeOK, NotifierTypes
  <2>4. [key |-> key, at |-> clock] \in Events
    BY DEF Events, TypeOK
  <2>5. Append(sent[s], [key |-> key, at |-> clock]) \in Seq(Events)
    BY <2>4, AppendProperties DEF TypeOK, NotifierTypes
  <2>6. PICK m : m = [minute[s] EXCEPT !.count = minute[s].count + 1]
    OBVIOUS
  <2>7. m \in [start : Int, count : Nat] /\ minute' = [minute EXCEPT ![s] = m]
    <3>1. minute[s] \in [start : Int, count : Nat]
      BY DEF TypeOK, NotifierTypes
    <3>2. m \in [start : Int, count : Nat]
      BY <2>6, <3>1
    <3>3. minute' = [minute EXCEPT ![s] = m]
      BY <2>3, <2>6
    <3> QED
      BY <3>2, <3>3
  <2>8. PICK l : l = [lastSent[s] EXCEPT ![key] = clock]
    OBVIOUS
  <2>9. l \in [Keys -> Int] /\ lastSent' = [lastSent EXCEPT ![s] = l]
    BY <2>3, <2>8 DEF TypeOK, NotifierTypes
  <2>10. NotifierTypes'
    <3>1. pc' \in [Senders -> Places] /\ todo' \in [Senders -> Seq(Signals)]
      BY <1>1, <2>1, <2>3 DEF TypeOK, NotifierTypes, Places
    <3>2. lastSent' \in [Senders -> [Keys -> Int]]
      BY <2>9 DEF TypeOK, NotifierTypes
    <3>3. minute' \in [Senders -> [start : Int, count : Nat]]
      BY <2>7 DEF TypeOK, NotifierTypes
    <3>4. sent' \in [Senders -> Seq(Events)]
      BY <2>3, <2>5 DEF TypeOK, NotifierTypes
    <3> QED
      BY <3>1, <3>2, <3>3, <3>4 DEF NotifierTypes
  <2>11. HubTypes'
    BY <2>3 DEF TypeOK, HubTypes
  <2>12. \A t \in Senders : pc'[t] \in Waiting => todo'[t] # << >>
    BY <2>3 DEF TypeOK, NotifierTypes, Waiting
  <2> QED
    BY <2>3, <2>10, <2>11, <2>12 DEF TypeOK, bounds
<1>6. CASE Finish(s)
  <2>1. /\ pc' = [pc EXCEPT ![s] = "idle"]
        /\ UNCHANGED <<clock, stamps, todo, channel, pruned, notifierVars, delivered, bounds>>
    BY <1>6 DEF Finish, Goto
  <2>2. NotifierTypes' /\ HubTypes'
    BY <2>1 DEF TypeOK, NotifierTypes, HubTypes, notifierVars, Places
  <2>3. \A t \in Senders : pc'[t] \in Waiting => todo'[t] # << >>
    BY <2>1 DEF TypeOK, NotifierTypes, Waiting
  <2> QED
    BY <2>1, <2>2, <2>3 DEF TypeOK, bounds
<1>7. ASSUME NEW b \in Batches, ProcessSignals(s, b) \/ NotifySignals(s, b)
      PROVE  TypeOK'
  <2>1. b \in Seq(Signals)
    BY NotifyAssumption
  <2>2. /\ pc' = [pc EXCEPT ![s] = "signal"] /\ todo' = [todo EXCEPT ![s] = b]
        /\ batches' = batches + 1 /\ UNCHANGED <<clock, stamps, channel, pruned, delivered, broadcasts>>
    BY <1>7 DEF ProcessSignals, NotifySignals, Goto
  <2>3. /\ lastSent' \in [Senders -> [Keys -> Int]]
        /\ minute' \in [Senders -> [start : Int, count : Nat]]
        /\ sent' \in [Senders -> Seq(Events)]
    <3>1. CASE ProcessSignals(s, b)
      BY <3>1 DEF ProcessSignals, notifierVars, TypeOK, NotifierTypes
    <3>2. CASE NotifySignals(s, b)
      <4>1. /\ lastSent' = [lastSent EXCEPT ![s] = NewNotifier.cache]
            /\ minute' = [minute EXCEPT ![s] = NewNotifier.minute]
            /\ sent' = [sent EXCEPT ![s] = << >>]
        BY <3>2 DEF NotifySignals
      <4> QED
        BY <4>1, NewNotifierTypes DEF TypeOK, NotifierTypes
    <3> QED
      BY <1>7, <3>1, <3>2
  <2>4. NotifierTypes' /\ HubTypes'
    BY <2>1, <2>2, <2>3 DEF TypeOK, NotifierTypes, HubTypes, Places
  <2>5. \A t \in Senders : pc'[t] \in Waiting => todo'[t] # << >>
    BY <2>2 DEF TypeOK, NotifierTypes, Waiting
  <2> QED
    BY <2>2, <2>4, <2>5 DEF TypeOK
<1> QED
  BY <1>3, <1>4, <1>5, <1>6, <1>7

\* Every step keeps the types.
LEMMA TypesGoOn == TypeOK /\ [NotifyNext]_notifyVars => TypeOK'
<1> SUFFICES ASSUME TypeOK, [NotifyNext]_notifyVars PROVE TypeOK'
  OBVIOUS
<1>1. CASE Tick
  BY <1>1 DEF Tick, TypeOK, NotifierTypes, HubTypes, notifierVars, bounds
<1>2. CASE Broadcast
  <2>1. PICK stamp : stamp = Stamp("broadcast", broadcasts + 1)
    OBVIOUS
  <2>2. stamp \in Stamps
    BY <2>1 DEF Stamp, Stamps, TypeOK
  <2>3. /\ stamps' = stamps \union {stamp} /\ broadcasts' = broadcasts + 1
        /\ UNCHANGED <<clock, pc, todo, channel, pruned, notifierVars, delivered, batches>>
    BY <1>2, <2>1 DEF Broadcast
  <2>4. IsFiniteSet(stamps')
    BY <2>3, FS_AddElement DEF TypeOK, HubTypes
  <2> QED
    BY <2>2, <2>3, <2>4 DEF TypeOK, NotifierTypes, HubTypes, notifierVars
<1>3. ASSUME NEW s \in Senders,
             \/ Proceed(s)
             \/ \E b \in Batches : ProcessSignals(s, b) \/ NotifySignals(s, b)
      PROVE  TypeOK'
  BY <1>3, HubStepTypes, NotifierStepTypes DEF Proceed
<1>4. CASE UNCHANGED notifyVars
  BY <1>4 DEF notifyVars, TypeOK, NotifierTypes, HubTypes
<1> QED
  BY <1>1, <1>2, <1>3, <1>4 DEF NotifyNext

\* Every variable keeps to its type, and a sender that waits for the hub has the
\* signal it sends at the head of its batch.
THEOREM NotifyTypes == NotifySpec => []TypeOK
BY TypesBegin, TypesGoOn, PTL DEF NotifySpec

-----------------------------------------------------------------------------
(* The cool-down of a notifier *)

\* The pairs a notifier counted as sent, those it remembers of them, and the one
\* it has let through to the hub.
CoolOK(s) ==
  /\ \A i, j \in DOMAIN sent[s] :
       i < j /\ sent[s][i].key = sent[s][j].key => sent[s][j].at - sent[s][i].at >= Cooldown
  /\ \A i \in DOMAIN sent[s] : sent[s][i].at <= lastSent[s][sent[s][i].key]
  /\ pc[s] \in Waiting => clock - lastSent[s][Head(todo[s]).key] >= Cooldown

CoolInv == TypeOK /\ \A s \in Senders : CoolOK(s)

\* A sender that does nothing only sees the clock go on.
LEMMA CoolWhileWaiting ==
  ASSUME TypeOK, NEW s \in Senders, CoolOK(s), TypeOK', clock' >= clock,
         sent'[s] = sent[s], lastSent'[s] = lastSent[s], todo'[s] = todo[s],
         pc'[s] \in Waiting => pc[s] \in Waiting
  PROVE  CoolOK(s)'
<1>1. pc[s] \in Waiting => lastSent[s][Head(todo[s]).key] \in Int
  BY HeadAndTail DEF TypeOK, NotifierTypes
<1>2. clock \in Int /\ clock' \in Int /\ Cooldown \in Int
  BY NotifyAssumption DEF TypeOK
<1> QED
  BY <1>1, <1>2 DEF CoolOK

\* The signal that was let through is sent a cool-down after the last of its pair.
LEMMA ConcludeCools ==
  ASSUME TypeOK, NEW s \in Senders, CoolOK(s), Conclude(s)
  PROVE  CoolOK(s)'
<1>1. pc[s] \in Waiting /\ todo[s] # << >>
  BY DEF Conclude, At, TypeOK, Waiting, Places
<1>2. PICK key \in Keys : key = Head(todo[s]).key
  BY <1>1, HeadAndTail DEF TypeOK, NotifierTypes
<1>3. PICK new : new = [key |-> key, at |-> clock]
  OBVIOUS
<1>4. PICK old \in Seq(Events) : old = sent[s]
  BY DEF TypeOK, NotifierTypes
<1>5. PICK last \in [Keys -> Int] : last = lastSent[s]
  BY DEF TypeOK, NotifierTypes
<1>6. PICK now \in Nat : now = clock
  BY DEF TypeOK
<1>7. /\ lastSent'[s] = [last EXCEPT ![key] = now]
      /\ sent'[s] = Append(old, new)
      /\ pc'[s] = "signal"
  BY <1>2, <1>3, <1>4, <1>5, <1>6 DEF Conclude, Goto, TypeOK, NotifierTypes
<1>8. new \in Events /\ new.key = key /\ new.at = now
  BY <1>3, <1>6 DEF Events
<1>9. PICK all : all = Append(old, new)
  OBVIOUS
<1>10. /\ all \in Seq(Events) /\ Len(all) = Len(old) + 1 /\ all[Len(old) + 1] = new
       /\ \A i \in 1 .. Len(old) : all[i] = old[i]
  BY <1>8, <1>9, AppendProperties
<1>11. \A i \in 1 .. Len(old) : old[i].key \in Keys /\ old[i].at \in Int
  <2> TAKE i \in 1 .. Len(old)
  <2>1. old[i] \in Events
    BY ElementOfSeq
  <2> QED
    BY <2>1 DEF Events
<1>12. /\ \A i, j \in 1 .. Len(old) :
            i < j /\ old[i].key = old[j].key => old[j].at - old[i].at >= Cooldown
       /\ \A i \in 1 .. Len(old) : old[i].at <= last[old[i].key]
       /\ now - last[key] >= Cooldown
  BY <1>1, <1>2, <1>4, <1>5, <1>6 DEF CoolOK
<1>13. Cooldown \in Nat /\ last[key] \in Int /\ last[key] <= now
  BY <1>12, NotifyAssumption
<1>14. ASSUME NEW i \in 1 .. Len(all), NEW j \in 1 .. Len(all), i < j, all[i].key = all[j].key
       PROVE  all[j].at - all[i].at >= Cooldown
  <2>1. i \in 1 .. Len(old) /\ all[i] = old[i]
    BY <1>10, <1>14
  <2>2. CASE j \in 1 .. Len(old)
    BY <1>10, <1>12, <1>14, <2>1, <2>2
  <2>3. CASE j = Len(old) + 1
    <3>1. all[j].at = now /\ old[i].key = key
      BY <1>8, <1>10, <1>14, <2>1, <2>3
    <3>2. old[i].at <= last[key] /\ old[i].at \in Int
      BY <1>11, <1>12, <2>1, <3>1
    <3> QED
      BY <1>12, <1>13, <2>1, <3>1, <3>2
  <2> QED
    BY <1>10, <2>2, <2>3
<1>15. ASSUME NEW i \in 1 .. Len(all)
       PROVE  all[i].at <= [last EXCEPT ![key] = now][all[i].key]
  <2>1. CASE i \in 1 .. Len(old) /\ old[i].key # key
    BY <1>10, <1>11, <1>12, <2>1
  <2>2. CASE i \in 1 .. Len(old) /\ old[i].key = key
    BY <1>10, <1>11, <1>12, <1>13, <2>2
  <2>3. CASE i = Len(old) + 1
    BY <1>8, <1>10, <2>3
  <2> QED
    BY <1>10, <2>1, <2>2, <2>3
<1>16. PICK l : l = [last EXCEPT ![key] = now]
  OBVIOUS
<1>17. sent'[s] = all /\ lastSent'[s] = l /\ pc'[s] \notin Waiting /\ DOMAIN all = 1 .. Len(all)
  BY <1>7, <1>9, <1>10, <1>16 DEF Waiting
<1>18. \A i \in 1 .. Len(all) : all[i].at <= l[all[i].key]
  BY <1>15, <1>16
<1> QED
  BY <1>14, <1>17, <1>18 DEF CoolOK

\* Nobody has sent anything yet.
LEMMA CoolBegins == NotifyInit => CoolInv
<1> SUFFICES ASSUME NotifyInit PROVE CoolInv
  OBVIOUS
<1>1. \A s \in Senders : CoolOK(s)
  BY DEF NotifyInit, CoolOK, Waiting
<1> QED
  BY <1>1, TypesBegin DEF CoolInv

\* A step of a sender keeps what it knows, and what the others know.
LEMMA SenderCools ==
  ASSUME CoolInv, TypeOK', NEW s \in Senders,
         \/ Proceed(s)
         \/ \E b \in Batches : ProcessSignals(s, b) \/ NotifySignals(s, b)
  PROVE  \A t \in Senders : CoolOK(t)'
<1> USE DEF CoolInv
<1>1. clock' = clock /\ clock \in Nat
  BY HubStepKeeps DEF Proceed, HubKeeps, Filter, Accept, Conclude, Finish,
     ProcessSignals, NotifySignals, TypeOK
<1>2. ASSUME NEW t \in Senders, t # s
      PROVE  /\ sent'[t] = sent[t] /\ lastSent'[t] = lastSent[t] /\ todo'[t] = todo[t]
             /\ pc'[t] = pc[t]
  <2>1. CASE Filter(s) \/ Accept(s) \/ Finish(s)
    BY <1>2, <2>1 DEF Filter, Accept, Finish, Goto, notifierVars, TypeOK, NotifierTypes
  <2>2. CASE Conclude(s)
    BY <1>2, <2>2 DEF Conclude, Goto, TypeOK, NotifierTypes
  <2>3. CASE Prune(s) \/ Replace(s) \/ Decide(s) \/ Deliver(s) \/ FallBack(s)
    <3>1. HubKeeps(s)
      BY <2>3, HubStepKeeps
    <3> QED
      BY <1>2, <3>1 DEF HubKeeps, notifierVars, TypeOK, NotifierTypes
  <2>4. ASSUME NEW b \in Batches, ProcessSignals(s, b) \/ NotifySignals(s, b)
        PROVE  /\ sent'[t] = sent[t] /\ lastSent'[t] = lastSent[t] /\ todo'[t] = todo[t]
               /\ pc'[t] = pc[t]
    BY <1>2, <2>4 DEF ProcessSignals, NotifySignals, Goto, notifierVars, TypeOK, NotifierTypes
  <2> QED
    BY <2>1, <2>2, <2>3, <2>4 DEF Proceed
<1>3. ASSUME NEW t \in Senders, t # s PROVE CoolOK(t)'
  <2>1. sent'[t] = sent[t] /\ lastSent'[t] = lastSent[t] /\ todo'[t] = todo[t] /\ pc'[t] = pc[t]
    BY <1>2, <1>3
  <2> QED
    BY <1>1, <2>1, CoolWhileWaiting
<1>4. CoolOK(s)'
  <2>1. CASE Filter(s)
    <3>1. pc'[s] = "signal" /\ sent'[s] = sent[s] /\ lastSent'[s] = lastSent[s]
      BY <2>1 DEF Filter, At
    <3> QED
      BY <3>1 DEF CoolOK, Waiting
  <2>2. CASE Accept(s)
    <3>1. /\ clock - lastSent[s][Head(todo[s]).key] >= Cooldown
          /\ sent'[s] = sent[s] /\ lastSent'[s] = lastSent[s] /\ todo'[s] = todo[s]
      BY <2>2 DEF Accept, Worthy
    <3> QED
      BY <1>1, <3>1 DEF CoolOK
  <2>3. CASE Conclude(s)
    BY <2>3, ConcludeCools
  <2>4. CASE Finish(s)
    <3>1. pc'[s] = "idle" /\ sent'[s] = sent[s] /\ lastSent'[s] = lastSent[s]
      BY <2>4 DEF Finish, Goto, notifierVars, TypeOK, NotifierTypes
    <3> QED
      BY <3>1 DEF CoolOK, Waiting
  <2>5. CASE Prune(s) \/ Replace(s) \/ Decide(s) \/ Deliver(s) \/ FallBack(s)
    <3>1. HubKeeps(s)
      BY <2>5, HubStepKeeps
    <3>2. pc[s] \in Waiting /\ sent'[s] = sent[s] /\ lastSent'[s] = lastSent[s] /\ todo'[s] = todo[s]
      BY <3>1 DEF HubKeeps, notifierVars
    <3> QED
      BY <1>1, <3>2, CoolWhileWaiting
  <2>6. ASSUME NEW b \in Batches, ProcessSignals(s, b) PROVE CoolOK(s)'
    <3>1. pc'[s] = "signal" /\ sent'[s] = sent[s] /\ lastSent'[s] = lastSent[s]
      BY <2>6 DEF ProcessSignals, Goto, notifierVars, TypeOK, NotifierTypes
    <3> QED
      BY <3>1 DEF CoolOK, Waiting
  <2>7. ASSUME NEW b \in Batches, NotifySignals(s, b) PROVE CoolOK(s)'
    <3>1. pc'[s] = "signal" /\ sent'[s] = << >>
      BY <2>7 DEF NotifySignals, Goto, TypeOK, NotifierTypes
    <3> QED
      BY <3>1 DEF CoolOK, Waiting
  <2> QED
    BY <2>1, <2>2, <2>3, <2>4, <2>5, <2>6, <2>7 DEF Proceed
<1> QED
  BY <1>3, <1>4

\* Every step keeps what the senders know.
LEMMA CoolGoesOn == CoolInv /\ [NotifyNext]_notifyVars => CoolInv'
<1> SUFFICES ASSUME CoolInv, [NotifyNext]_notifyVars PROVE CoolInv'
  OBVIOUS
<1>1. TypeOK /\ TypeOK'
  BY TypesGoOn DEF CoolInv
<1>2. ASSUME NEW s \in Senders, clock' >= clock, UNCHANGED <<pc, todo, lastSent, sent>>
      PROVE  CoolOK(s)'
  BY <1>1, <1>2, CoolWhileWaiting DEF CoolInv
<1>3. CASE Tick \/ Broadcast \/ UNCHANGED notifyVars
  <2>1. clock' >= clock /\ UNCHANGED <<pc, todo, lastSent, sent>>
    BY <1>1, <1>3 DEF Tick, Broadcast, notifyVars, notifierVars, TypeOK
  <2> QED
    BY <1>1, <1>2, <2>1 DEF CoolInv
<1>4. ASSUME NEW s \in Senders,
             \/ Proceed(s)
             \/ \E b \in Batches : ProcessSignals(s, b) \/ NotifySignals(s, b)
      PROVE  CoolInv'
  BY <1>1, <1>4, SenderCools DEF CoolInv
<1> QED
  BY <1>3, <1>4 DEF NotifyNext

\* A notifier counts the same stock and detector as sent again only a cool-down
\* after the last time, however many threads notify and however long the hub and
\* its channels take.
THEOREM NotifierCools == NotifySpec => []NotifierCoolsDown
<1>1. NotifySpec => []CoolInv
  BY CoolBegins, CoolGoesOn, PTL DEF NotifySpec
<1>2. CoolInv => NotifierCoolsDown
  BY DEF CoolInv, CoolOK, NotifierCoolsDown
<1> QED
  BY <1>1, <1>2, PTL

-----------------------------------------------------------------------------
(* The rate of the hub *)

\* One thread sends, whatever else is broadcast; with two, the property fails.
OneSender == \A s, t \in Senders : s = t

Recent(j) == delivered[j].at > clock - HubWindow
StampOf(j) == [of |-> <<"send", j>>, at |-> delivered[j].at]

InOrder ==
  /\ \A i, j \in DOMAIN delivered : i <= j => delivered[i].at <= delivered[j].at
  /\ \A i \in DOMAIN delivered : delivered[i].at <= clock

\* Each delivery in the window has its stamp, also in the list that is about to
\* replace the stamps.
Stamped ==
  \A j \in DOMAIN delivered : Recent(j) =>
    /\ StampOf(j) \in stamps
    /\ \A s \in Senders : pc[s] = "replace" => StampOf(j) \in pruned[s]

\* A thread that tries the channels leaves room for its own delivery.
Roomy ==
  \A s \in Senders : pc[s] = "channel" =>
    /\ HubMax >= 1
    /\ \A j \in DOMAIN delivered : j <= Len(delivered) - HubMax + 1 => ~Recent(j)

RateInv == TypeOK /\ HubRate /\ InOrder /\ Stamped /\ Roomy

\* From a delivery in the window on, each has its stamp: there are as many.
LEMMA ManyStamps ==
  ASSUME TypeOK, InOrder, Stamped, NEW j \in DOMAIN delivered, Recent(j)
  PROVE  Len(delivered) - j + 1 <= Cardinality(stamps)
<1>1. /\ Len(delivered) \in Nat /\ j \in 1 .. Len(delivered)
      /\ \A k \in 1 .. Len(delivered) : delivered[k].at \in Int
      /\ clock \in Int /\ HubWindow \in Int /\ IsFiniteSet(stamps)
  <2>1. \A k \in 1 .. Len(delivered) : delivered[k] \in Events
    BY ElementOfSeq DEF TypeOK, HubTypes
  <2> QED
    BY <2>1, NotifyAssumption DEF TypeOK, HubTypes, Events
<1>2. \A k \in j .. Len(delivered) : Recent(k)
  BY <1>1 DEF InOrder, Recent
<1>3. \A k \in j .. Len(delivered) : StampOf(k) \in stamps
  BY <1>1, <1>2 DEF Stamped
<1> DEFINE f == [k \in j .. Len(delivered) |-> StampOf(k)]
<1>4. \A k, l \in j .. Len(delivered) : StampOf(k) = StampOf(l) => k = l
  BY DEF StampOf
<1>5. f \in Injection(j .. Len(delivered), stamps)
  BY <1>3, <1>4 DEF Injection, IsInjective
<1>6. Cardinality(j .. Len(delivered)) <= Cardinality(stamps)
  BY <1>1, <1>5, FS_Injection
<1>7. Cardinality(j .. Len(delivered)) = Len(delivered) - j + 1
  BY <1>1, FS_Interval
<1> QED
  BY <1>6, <1>7

\* Nothing has been delivered yet.
LEMMA RateBegins == NotifyInit => RateInv
<1> SUFFICES ASSUME NotifyInit PROVE RateInv
  OBVIOUS
<1>1. TypeOK
  BY TypesBegin
<1>2. DOMAIN delivered = {} /\ \A s \in Senders : pc[s] = "idle"
  BY DEF NotifyInit
<1> QED
  BY <1>1, <1>2 DEF RateInv, HubRate, InOrder, Stamped, Roomy

\* What neither delivers nor takes a stamp away keeps the rate: the clock only
\* moves deliveries out of the window.
LEMMA RateWhileQuiet ==
  ASSUME RateInv, TypeOK', UNCHANGED <<delivered, pruned>>, clock' >= clock,
         stamps \subseteq stamps',
         \A s \in Senders : pc'[s] \in {"replace", "channel"} => pc[s] = pc'[s]
  PROVE  RateInv'
<1>1. /\ \A j \in DOMAIN delivered : delivered[j].at \in Int
      /\ clock \in Int /\ clock' \in Int /\ HubWindow \in Int
  <2>1. \A j \in DOMAIN delivered : delivered[j] \in Events
    BY ElementOfSeq DEF RateInv, TypeOK, HubTypes
  <2> QED
    BY <2>1, NotifyAssumption DEF RateInv, TypeOK, Events
<1>2. \A j \in DOMAIN delivered : /\ Recent(j)' => Recent(j)
                                  /\ StampOf(j)' = StampOf(j)
  BY <1>1 DEF Recent, StampOf
<1>3. HubRate'
  BY DEF RateInv, HubRate, Burst
<1>4. InOrder'
  BY <1>1 DEF RateInv, InOrder
<1>5. Stamped'
  BY <1>2 DEF RateInv, Stamped
<1>6. Roomy'
  BY <1>2 DEF RateInv, Roomy
<1> QED
  BY <1>3, <1>4, <1>5, <1>6 DEF RateInv

\* The list the hub builds keeps the stamps of the deliveries in the window.
LEMMA PruneKeepsRate ==
  ASSUME RateInv, TypeOK', OneSender, NEW s \in Senders, Prune(s)
  PROVE  RateInv'
<1>1. /\ pruned' = [pruned EXCEPT ![s] = {stamp \in stamps : InWindow(stamp.at)}]
      /\ pc' = [pc EXCEPT ![s] = "replace"]
      /\ UNCHANGED <<clock, stamps, delivered>>
  BY DEF Prune, Goto
<1>2. \A t \in Senders : t = s
  BY DEF OneSender
<1>3. pruned'[s] = {stamp \in stamps : InWindow(stamp.at)} /\ pc'[s] = "replace"
  BY <1>1 DEF RateInv, TypeOK, NotifierTypes, HubTypes
<1>4. \A j \in DOMAIN delivered :
        /\ Recent(j)' <=> Recent(j)
        /\ StampOf(j)' = StampOf(j)
        /\ Recent(j) => InWindow(StampOf(j).at)
  BY <1>1 DEF Recent, StampOf, InWindow
<1>5. Stamped'
  BY <1>1, <1>2, <1>3, <1>4 DEF RateInv, Stamped
<1>6. HubRate' /\ InOrder'
  BY <1>1 DEF RateInv, HubRate, Burst, InOrder
<1>7. Roomy'
  BY <1>2, <1>3 DEF Roomy
<1> QED
  BY <1>5, <1>6, <1>7 DEF RateInv

\* Nothing was delivered since it was built, so it may replace the stamps.
LEMMA ReplaceKeepsRate ==
  ASSUME RateInv, TypeOK', OneSender, NEW s \in Senders, Replace(s)
  PROVE  RateInv'
<1>1. /\ stamps' = pruned[s] /\ pc[s] = "replace"
      /\ pc' = [pc EXCEPT ![s] = "count"]
      /\ UNCHANGED <<clock, delivered>>
  BY DEF Replace, Goto, At
<1>2. \A t \in Senders : t = s
  BY DEF OneSender
<1>3. pc'[s] = "count"
  BY <1>1 DEF RateInv, TypeOK, NotifierTypes
<1>4. \A j \in DOMAIN delivered : (Recent(j)' <=> Recent(j)) /\ StampOf(j)' = StampOf(j)
  BY <1>1 DEF Recent, StampOf
<1>5. Stamped'
  BY <1>1, <1>2, <1>3, <1>4 DEF RateInv, Stamped
<1>6. HubRate' /\ InOrder'
  BY <1>1 DEF RateInv, HubRate, Burst, InOrder
<1>7. Roomy'
  BY <1>2, <1>3 DEF Roomy
<1> QED
  BY <1>5, <1>6, <1>7 DEF RateInv

\* Fewer stamps than HubMax leave room for one more delivery.
LEMMA DecideKeepsRate ==
  ASSUME RateInv, TypeOK', OneSender, NEW s \in Senders, Decide(s)
  PROVE  RateInv'
<1>1. UNCHANGED <<clock, stamps, pruned, delivered>>
  BY DEF Decide
<1>2. \A t \in Senders : t = s
  BY DEF OneSender
<1>3. CASE Cardinality(stamps) >= HubMax
  <2>1. pc'[s] = "answered"
    BY <1>3 DEF Decide, Goto, RateInv, TypeOK, NotifierTypes
  <2> QED
    BY <1>1, <1>2, <2>1, RateWhileQuiet DEF RateInv, TypeOK
<1>4. CASE ~(Cardinality(stamps) >= HubMax)
  <2>1. pc'[s] = "channel"
    BY <1>4 DEF Decide, Goto, RateInv, TypeOK, NotifierTypes
  <2>2. Cardinality(stamps) \in Nat /\ HubMax \in Nat /\ Len(delivered) \in Nat
    BY FS_CardinalityType, NotifyAssumption DEF RateInv, TypeOK, HubTypes
  <2>3. ASSUME NEW j \in DOMAIN delivered, j <= Len(delivered) - HubMax + 1
        PROVE  ~Recent(j)
    <3>1. j \in Nat
      BY DEF RateInv, TypeOK, HubTypes
    <3>2. Recent(j) => Len(delivered) - j + 1 <= Cardinality(stamps)
      BY ManyStamps DEF RateInv
    <3> QED
      BY <1>4, <2>2, <2>3, <3>1, <3>2
  <2>4. \A j \in DOMAIN delivered : (Recent(j)' <=> Recent(j)) /\ StampOf(j)' = StampOf(j)
    BY <1>1 DEF Recent, StampOf
  <2>5. Roomy'
    BY <1>1, <1>4, <2>2, <2>3, <2>4 DEF Roomy
  <2>6. Stamped'
    BY <1>1, <1>2, <2>1, <2>4 DEF RateInv, Stamped
  <2>7. HubRate' /\ InOrder'
    BY <1>1 DEF RateInv, HubRate, Burst, InOrder
  <2> QED
    BY <2>5, <2>6, <2>7 DEF RateInv
<1> QED
  BY <1>3, <1>4

\* The delivery uses that room.
LEMMA DeliverKeepsRate ==
  ASSUME RateInv, TypeOK', OneSender, NEW s \in Senders, Deliver(s)
  PROVE  RateInv'
<1>1. PICK new : new = [key |-> Head(todo[s]).key, at |-> clock]
  OBVIOUS
<1>2. PICK n \in Nat : n = Len(delivered)
  BY DEF RateInv, TypeOK, HubTypes
<1>3. new \in Events /\ new.at = clock
  <2>1. todo[s] # << >> /\ todo[s] \in Seq(Signals)
    BY DEF Deliver, At, RateInv, TypeOK, NotifierTypes, Waiting, Places
  <2>2. Head(todo[s]).key \in Keys /\ clock \in Int
    BY <2>1, HeadAndTail DEF RateInv, TypeOK
  <2> QED
    BY <1>1, <2>2 DEF Events
<1>4. /\ delivered' = Append(delivered, new)
      /\ stamps' = stamps \union {[of |-> <<"send", n + 1>>, at |-> clock]}
      /\ pc[s] = "channel" /\ pc' = [pc EXCEPT ![s] = "answered"]
      /\ UNCHANGED <<clock, pruned>>
  BY <1>1, <1>2 DEF Deliver, RecordSend, Stamp, At, Goto
<1>5. /\ DOMAIN delivered = 1 .. n /\ DOMAIN delivered' = 1 .. n + 1
      /\ delivered'[n + 1] = new
      /\ \A i \in 1 .. n : delivered'[i] = delivered[i]
  BY <1>2, <1>3, <1>4, AppendProperties DEF RateInv, TypeOK, HubTypes
<1>6. pc'[s] = "answered" /\ \A t \in Senders : t = s
  BY <1>4 DEF OneSender, RateInv, TypeOK, NotifierTypes
<1>7. /\ \A i \in 1 .. n : delivered[i].at \in Int
      /\ clock \in Int /\ HubWindow \in Nat /\ HubMax \in Nat
  <2>1. \A i \in 1 .. n : delivered[i] \in Events
    BY <1>2, ElementOfSeq DEF RateInv, TypeOK, HubTypes
  <2> QED
    BY <2>1, NotifyAssumption DEF RateInv, TypeOK, Events
<1>8. /\ HubMax >= 1
      /\ \A j \in 1 .. n : j <= n - HubMax + 1 => ~(delivered[j].at > clock - HubWindow)
  BY <1>2, <1>4, <1>5 DEF RateInv, Roomy, Recent
<1>9. HubRate'
  <2>1. ASSUME NEW i \in 1 .. n + 1, NEW j \in 1 .. i,
               delivered'[j].at > delivered'[i].at - HubWindow
        PROVE  j \in i - HubMax + 1 .. i
    <3>1. CASE i \in 1 .. n
      <4>1. delivered'[i] = delivered[i] /\ delivered'[j] = delivered[j]
        BY <1>5, <3>1
      <4>2. j \in Burst(delivered, i, HubWindow)
        BY <2>1, <4>1 DEF Burst
      <4> QED
        BY <1>5, <3>1, <4>2 DEF RateInv, HubRate
    <3>2. CASE i = n + 1
      <4>1. j \in 1 .. n => delivered[j].at > clock - HubWindow
        BY <1>3, <1>5, <2>1, <3>2
      <4>2. j \in 1 .. n => ~(j <= n - HubMax + 1)
        BY <1>8, <4>1
      <4> QED
        BY <1>7, <1>8, <3>2, <4>2
    <3> QED
      BY <3>1, <3>2
  <2> QED
    BY <1>5, <2>1 DEF HubRate, Burst
<1>10. InOrder'
  <2>1. \A i \in 1 .. n : delivered[i].at <= clock
    BY <1>5 DEF RateInv, InOrder
  <2>2. \A i, j \in 1 .. n : i <= j => delivered[i].at <= delivered[j].at
    BY <1>5 DEF RateInv, InOrder
  <2>3. \A i \in 1 .. n + 1 : delivered'[i].at <= clock'
    BY <1>3, <1>4, <1>5, <1>7, <2>1
  <2>4. \A i, j \in 1 .. n + 1 : i <= j => delivered'[i].at <= delivered'[j].at
    BY <1>3, <1>5, <1>7, <2>1, <2>2
  <2> QED
    BY <1>5, <2>3, <2>4 DEF InOrder
<1>11. Stamped'
  <2>1. \A j \in 1 .. n : (Recent(j)' <=> Recent(j)) /\ StampOf(j)' = StampOf(j)
    BY <1>4, <1>5 DEF Recent, StampOf
  <2>2. StampOf(n + 1)' = [of |-> <<"send", n + 1>>, at |-> clock]
    BY <1>3, <1>5 DEF StampOf
  <2>3. \A j \in 1 .. n : Recent(j) => StampOf(j) \in stamps
    BY <1>5 DEF RateInv, Stamped
  <2>4. \A j \in 1 .. n + 1 : Recent(j)' => StampOf(j)' \in stamps'
    BY <1>4, <2>1, <2>2, <2>3
  <2> QED
    BY <1>5, <1>6, <2>4 DEF Stamped
<1>12. Roomy'
  BY <1>6 DEF Roomy
<1> QED
  BY <1>9, <1>10, <1>11, <1>12 DEF RateInv

\* With one sender every step keeps the rate.
LEMMA RateGoesOn == OneSender /\ RateInv /\ [NotifyNext]_notifyVars => RateInv'
<1> SUFFICES ASSUME OneSender, RateInv, [NotifyNext]_notifyVars PROVE RateInv'
  OBVIOUS
<1>1. TypeOK /\ TypeOK' /\ clock \in Int
  BY TypesGoOn DEF RateInv, TypeOK
<1>2. CASE Tick \/ Broadcast \/ UNCHANGED notifyVars
  <2>1. /\ UNCHANGED <<delivered, pruned, pc>> /\ clock' >= clock /\ stamps \subseteq stamps'
    BY <1>1, <1>2 DEF Tick, Broadcast, notifyVars
  <2> QED
    BY <1>1, <2>1, RateWhileQuiet
<1>3. ASSUME NEW s \in Senders,
             \/ Filter(s) \/ Accept(s) \/ Conclude(s) \/ Finish(s) \/ FallBack(s)
             \/ \E b \in Batches : ProcessSignals(s, b) \/ NotifySignals(s, b)
      PROVE  RateInv'
  <2>1. UNCHANGED <<delivered, pruned, clock, stamps>>
    BY <1>3 DEF Filter, Accept, Conclude, Finish, FallBack, ProcessSignals, NotifySignals
  <2>2. \A t \in Senders : pc'[t] \in {"replace", "channel"} => pc[t] = pc'[t]
    BY <1>1, <1>3 DEF Filter, Accept, Conclude, Finish, FallBack, ProcessSignals, NotifySignals,
       Goto, TypeOK, NotifierTypes
  <2> QED
    BY <1>1, <2>1, <2>2, RateWhileQuiet
<1>4. ASSUME NEW s \in Senders, Prune(s) \/ Replace(s) \/ Decide(s) \/ Deliver(s)
      PROVE  RateInv'
  BY <1>1, <1>4, PruneKeepsRate, ReplaceKeepsRate, DecideKeepsRate, DeliverKeepsRate
<1> QED
  BY <1>2, <1>3, <1>4 DEF NotifyNext, Proceed

\* RateInv holds of every behaviour with one sender.
LEMMA RateInvariance == OneSender /\ NotifySpec => []RateInv
<1>1. ASSUME OneSender PROVE NotifySpec => []RateInv
  <2>1. RateInv /\ [NotifyNext]_notifyVars => RateInv'
    BY <1>1, RateGoesOn
  <2> QED
    BY <2>1, RateBegins, PTL DEF NotifySpec
<1> QED
  BY <1>1

\* While one thread at a time sends, the channels accept at most HubMax messages
\* in any window, however long each delivery takes and whatever is broadcast
\* meanwhile.
THEOREM OneSenderRate == OneSender /\ NotifySpec => []HubRate
<1>1. RateInv => HubRate
  BY DEF RateInv
<1> QED
  BY <1>1, RateInvariance, PTL

=============================================================================
