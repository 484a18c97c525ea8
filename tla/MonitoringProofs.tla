--------------------------- MODULE MonitoringProofs ---------------------------
(***************************************************************************)
(* Proofs about monitoring: the worker samples at the rate of the window   *)
(* as it is and only commands put a sample off, the history is the window  *)
(* of the accepted samples that push promises, the trends drawn from it    *)
(* cover it and share a scale, and a rate is never more than was carried.  *)
(***************************************************************************)
EXTENDS MCMonitoring, SequenceTheorems, NaturalsInduction, WellFoundedInduction,
        FiniteSetTheorems, TLAPS

\* The safety half of MonitoringSpec.
MonitoringSafety == MonitoringInit /\ [][MonitoringNext]_monitoringVars

-----------------------------------------------------------------------------
(* The worker.                                                             *)

IsActivity(c) == c.kind = "SetActivity"

\* The last activity on its way to the worker, or the one it has, is that of
\* the window.
KnowsWindow ==
  \/ activity = shown /\ \A i \in DOMAIN commands : ~IsActivity(commands[i])
  \/ \E i \in DOMAIN commands :
       /\ commands[i] = SetActivity(shown)
       /\ \A j \in DOMAIN commands : j > i => ~IsActivity(commands[j])

\* Every command since the last sample has cost one period at most, and the
\* rest of its age is the current wait.
AgeIsAccounted == postponed < MaxPostponed => age <= postponed * HiddenDelay + waited

WorkerIInv ==
  /\ TypeOK
  /\ running => /\ KnowsWindow
                /\ delay = FirstDelay \/ delay = SampleInterval(activity, interval)
                /\ AgeIsAccounted

LEMMA DelaysFit ==
  /\ \A a \in Activity, i \in Intervals :
       SampleInterval(a, i) \in {FirstDelay, BackgroundDelay, HiddenDelay} \cup Intervals
  /\ \A d \in {FirstDelay, BackgroundDelay, HiddenDelay} \cup Intervals :
       d \in Nat /\ 0 < d /\ d <= HiddenDelay
  /\ MaxAge \in Nat
<1>1. \A a \in Activity, i \in Intervals :
        SampleInterval(a, i) \in {FirstDelay, BackgroundDelay, HiddenDelay} \cup Intervals
  BY DEF SampleInterval, Activity
<1>2. \A d \in {FirstDelay, BackgroundDelay, HiddenDelay} \cup Intervals :
        d \in Nat /\ 0 < d /\ d <= HiddenDelay
  <2>1. \A n \in Nat \ {0} : n \in Nat /\ 0 < n
    OBVIOUS
  <2>2. {FirstDelay, BackgroundDelay, HiddenDelay} \cup Intervals \subseteq Nat \ {0}
    BY MonitorAssumption
  <2>3. \A d \in {FirstDelay, BackgroundDelay, HiddenDelay} \cup Intervals : d <= HiddenDelay
    BY <2>2, MonitorAssumption
  <2> QED  BY <2>1, <2>2, <2>3
<1>3. (MaxPostponed + 1) * HiddenDelay \in Nat
  BY MonitorAssumption
<1>4. MaxAge \in Nat
  BY <1>3 DEF MaxAge
<1> QED  BY <1>1, <1>2, <1>4

LEMMA CommandKinds ==
  /\ \A a : IsActivity(SetActivity(a)) /\ SetActivity(a).activity = a
  /\ \A i : ~IsActivity(SetInterval(i))
  /\ ~IsActivity(Stop)
  /\ \A a \in Activity : SetActivity(a) \in Command
  /\ \A i \in Intervals : SetInterval(i) \in Command
  /\ Stop \in Command
BY DEF IsActivity, SetActivity, SetInterval, Stop, Command

\* A command sent behind the others.
LEMMA SentCommand ==
  ASSUME TypeOK, NEW c \in Command, commands' = Append(commands, c)
  PROVE  /\ commands' \in Seq(Command)
         /\ Len(commands) \in Nat
         /\ DOMAIN commands = 1 .. Len(commands)
         /\ DOMAIN commands' = 1 .. Len(commands) + 1
         /\ commands'[Len(commands) + 1] = c
         /\ \A i \in DOMAIN commands : commands'[i] = commands[i]
<1>1. commands \in Seq(Command)
  BY DEF TypeOK
<1>2. /\ commands' \in Seq(Command) /\ Len(commands') = Len(commands) + 1
      /\ commands'[Len(commands) + 1] = c
      /\ \A i \in 1 .. Len(commands) : commands'[i] = commands[i]
  BY <1>1, AppendProperties
<1>3. DOMAIN commands = 1 .. Len(commands) /\ DOMAIN commands' = 1 .. Len(commands) + 1
  BY <1>1, <1>2, LenProperties
<1> QED  BY <1>1, <1>2, <1>3

\* The first command taken.
LEMMA TakenCommand ==
  ASSUME TypeOK, commands # <<>>, commands' = Tail(commands)
  PROVE  /\ commands' \in Seq(Command)
         /\ Head(commands) = commands[1] /\ Head(commands) \in Command
         /\ Len(commands) \in Nat /\ Len(commands) > 0
         /\ DOMAIN commands = 1 .. Len(commands)
         /\ DOMAIN commands' = 1 .. Len(commands) - 1
         /\ \A i \in DOMAIN commands' : commands'[i] = commands[i + 1]
<1>1. commands \in Seq(Command)
  BY DEF TypeOK
<1>2. /\ commands' \in Seq(Command) /\ Len(commands') = Len(commands) - 1
      /\ \A i \in 1 .. Len(commands') : commands'[i] = commands[i + 1]
      /\ Head(commands) \in Command
  BY <1>1, HeadTailProperties
<1>3. DOMAIN commands = 1 .. Len(commands) /\ DOMAIN commands' = 1 .. Len(commands) - 1
  BY <1>1, <1>2, LenProperties
<1>4. Len(commands) \in Nat /\ Len(commands) > 0
  BY <1>1, EmptySeq
<1>5. Head(commands) = commands[1]
  BY <1>1
<1> QED  BY <1>1, <1>2, <1>3, <1>4, <1>5

\* What the window sends keeps the worker informed.
LEMMA SendingKeepsKnowledge ==
  ASSUME TypeOK, KnowsWindow, NEW c \in Command, commands' = Append(commands, c),
         activity' = activity,
         IF IsActivity(c) THEN c = SetActivity(shown') ELSE shown' = shown
  PROVE  KnowsWindow'
<1> DEFINE n == Len(commands) + 1
<1>1. /\ Len(commands) \in Nat
      /\ DOMAIN commands = 1 .. Len(commands) /\ DOMAIN commands' = 1 .. n
      /\ commands'[n] = c
      /\ \A i \in DOMAIN commands : commands'[i] = commands[i]
  BY SentCommand
<1>2. CASE IsActivity(c)
  <2>1. n \in DOMAIN commands' /\ commands'[n] = SetActivity(shown)'
    BY <1>1, <1>2 DEF SetActivity
  <2>2. \A j \in DOMAIN commands' : ~(j > n)
    BY <1>1
  <2> QED  BY <2>1, <2>2 DEF KnowsWindow
<1>3. CASE ~IsActivity(c)
  <2>1. CASE activity = shown /\ \A i \in DOMAIN commands : ~IsActivity(commands[i])
    <3>1. \A i \in DOMAIN commands' : ~IsActivity(commands'[i])
      BY <1>1, <1>3, <2>1
    <3> QED  BY <1>3, <2>1, <3>1 DEF KnowsWindow, IsActivity
  <2>2. ASSUME NEW i \in DOMAIN commands, commands[i] = SetActivity(shown),
               \A j \in DOMAIN commands : j > i => ~IsActivity(commands[j])
        PROVE  KnowsWindow'
    <3>1. i \in DOMAIN commands' /\ commands'[i] = SetActivity(shown)'
      BY <1>1, <1>3, <2>2 DEF SetActivity
    <3>2. \A j \in DOMAIN commands' : j > i => ~IsActivity(commands'[j])
      BY <1>1, <1>3, <2>2
    <3> QED  BY <3>1, <3>2 DEF KnowsWindow, IsActivity
  <2> QED  BY <2>1, <2>2 DEF KnowsWindow
<1> QED  BY <1>2, <1>3

\* A worker that takes over the activity it receives stays informed.
LEMMA ReceivingKeepsKnowledge ==
  ASSUME TypeOK, KnowsWindow, NEW c, Receive(c),
         activity' = IF IsActivity(c) THEN c.activity ELSE activity
  PROVE  KnowsWindow'
<1>1. /\ commands[1] = c
      /\ Len(commands) \in Nat /\ Len(commands) > 0
      /\ DOMAIN commands = 1 .. Len(commands)
      /\ DOMAIN commands' = 1 .. Len(commands) - 1
      /\ \A i \in DOMAIN commands' : commands'[i] = commands[i + 1]
      /\ shown' = shown
  BY TakenCommand DEF Receive, uiVars
<1>2. CASE activity = shown /\ \A i \in DOMAIN commands : ~IsActivity(commands[i])
  <2>1. ~IsActivity(c) /\ \A i \in DOMAIN commands' : ~IsActivity(commands'[i])
    BY <1>1, <1>2
  <2> QED  BY <1>1, <1>2, <2>1 DEF KnowsWindow, IsActivity
<1>3. ASSUME NEW i \in DOMAIN commands, commands[i] = SetActivity(shown),
             \A j \in DOMAIN commands : j > i => ~IsActivity(commands[j])
      PROVE  KnowsWindow'
  <2>1. CASE i = 1
    <3>1. activity' = shown'
      BY <1>1, <1>3, <2>1, CommandKinds
    <3>2. \A j \in DOMAIN commands' : ~IsActivity(commands'[j])
      BY <1>1, <1>3, <2>1
    <3> QED  BY <3>1, <3>2 DEF KnowsWindow, IsActivity
  <2>2. CASE i # 1
    <3>1. i - 1 \in DOMAIN commands' /\ commands'[i - 1] = SetActivity(shown)'
      BY <1>1, <1>3, <2>2 DEF SetActivity
    <3>2. \A j \in DOMAIN commands' : j > i - 1 => ~IsActivity(commands'[j])
      BY <1>1, <1>3
    <3> QED  BY <3>1, <3>2 DEF KnowsWindow, IsActivity
  <2> QED  BY <2>1, <2>2
<1> QED  BY <1>2, <1>3 DEF KnowsWindow

LEMMA WorkerInitially == Init => WorkerIInv
<1> SUFFICES ASSUME Init PROVE WorkerIInv
  OBVIOUS
<1> USE DEF Init
<1>1. /\ commands \in Seq(Command) /\ DOMAIN commands = {1}
      /\ commands[1] = SetActivity(shown)
  BY CommandKinds DEF Activity
<1>2. KnowsWindow
  <2>1. \A j \in DOMAIN commands : ~(j > 1)
    BY <1>1
  <2> QED  BY <1>1, <2>1 DEF KnowsWindow
<1>3. posted \in Seq(BOOLEAN) /\ Len(posted) = 0
  BY EmptySeq
<1>4. TypeOK
  <2>1. /\ 0 \in 0 .. delay /\ 0 \in 0 .. MaxAge /\ 0 \in 0 .. MaxPostponed
        /\ 0 <= MaxPosted
        /\ delay \in {FirstDelay, BackgroundDelay, HiddenDelay} \cup Intervals
    BY DelaysFit, MonitorAssumption
  <2>2. shown \in Activity /\ activity \in Activity
    BY DEF Activity
  <2> QED  BY <1>1, <1>3, <2>1, <2>2 DEF TypeOK
<1>5. AgeIsAccounted
  <2>1. 0 * HiddenDelay = 0
    BY DelaysFit
  <2> QED  BY <2>1 DEF AgeIsAccounted
<1> QED  BY <1>2, <1>4, <1>5 DEF WorkerIInv

\* Another command received: one period more, and the wait starts over.
LEMMA PostponingIsAccounted ==
  ASSUME TypeOK, AgeIsAccounted, Postpone, age' = age, waited' = 0
  PROVE  AgeIsAccounted' /\ postponed' \in 0 .. MaxPostponed
<1>1. /\ age \in Nat /\ waited \in Nat /\ waited <= HiddenDelay /\ HiddenDelay \in Nat
      /\ postponed \in Nat /\ postponed <= MaxPostponed /\ MaxPostponed \in Nat
  <2>1. delay \in Nat /\ delay <= HiddenDelay /\ MaxAge \in Nat
    BY DelaysFit DEF TypeOK
  <2>2. HiddenDelay \in Nat /\ MaxPostponed \in Nat
    BY MonitorAssumption
  <2> QED  BY <2>1, <2>2 DEF TypeOK
<1>2. CASE postponed < MaxPostponed
  <2>1. postponed' = postponed + 1
    BY <1>2 DEF Postpone
  <2>2. (postponed + 1) * HiddenDelay = postponed * HiddenDelay + HiddenDelay
    BY <1>1
  <2>3. postponed * HiddenDelay \in Nat
    BY <1>1
  <2>4. age <= postponed * HiddenDelay + waited
    BY <1>2 DEF AgeIsAccounted
  <2>5. age <= postponed * HiddenDelay + HiddenDelay
    <3> DEFINE P == postponed * HiddenDelay
    <3> HIDE DEF P
    <3> QED  BY <1>1, <2>3, <2>4
  <2>6. postponed' * HiddenDelay + 0 = postponed * HiddenDelay + HiddenDelay
    BY <2>1, <2>2, <2>3, <1>1
  <2> QED  BY <1>1, <1>2, <2>1, <2>5, <2>6 DEF AgeIsAccounted
<1>3. CASE ~(postponed < MaxPostponed)
  BY <1>1, <1>3 DEF Postpone, AgeIsAccounted
<1> QED  BY <1>2, <1>3

\* A sample: everything starts over with the activity that took it.
LEMMA SamplingKeepsInvariant ==
  ASSUME TypeOK, SampleAs(activity'), UNCHANGED uiVars, activity' \in Activity,
         commands' \in Seq(Command), running => KnowsWindow', running
  PROVE  WorkerIInv'
<1>1. posted \in Seq(BOOLEAN) /\ Len(posted) \in Nat /\ Len(posted) <= MaxPosted
      /\ MaxPosted \in Nat /\ MaxPostponed \in Nat
  BY MonitorAssumption DEF TypeOK
<1>2. posted' \in Seq(BOOLEAN) /\ Len(posted') <= MaxPosted
  <2>1. CASE posted' = posted
    BY <1>1, <2>1
  <2>2. CASE Len(posted) < MaxPosted /\ posted' = Append(posted, StillOpen)
    <3>1. StillOpen \in BOOLEAN
      BY DEF StillOpen
    <3> DEFINE b == StillOpen
    <3> HIDE DEF b
    <3>2. posted' \in Seq(BOOLEAN) /\ Len(posted') = Len(posted) + 1
      BY <1>1, <2>2, <3>1, AppendProperties DEF b
    <3> QED  BY <1>1, <2>2, <3>2
  <2> QED  BY <2>1, <2>2 DEF SampleAs
<1>3. /\ delay' \in {FirstDelay, BackgroundDelay, HiddenDelay} \cup Intervals
      /\ waited' \in 0 .. delay'
      /\ running' \in BOOLEAN
      /\ running' => delay' = SampleInterval(activity, interval)' /\ waited' = 0
      /\ interval' = interval
  <2>1. SampleInterval(activity', interval) \in {FirstDelay, BackgroundDelay, HiddenDelay} \cup Intervals
    BY DelaysFit DEF TypeOK
  <2>2. \A d \in {FirstDelay, BackgroundDelay, HiddenDelay} \cup Intervals : 0 \in 0 .. d
    BY DelaysFit
  <2>3. CASE delay' = SampleInterval(activity', interval) /\ waited' = 0 /\ running' = TRUE
    BY <2>1, <2>2, <2>3 DEF SampleAs, SampleInterval
  <2>4. CASE running' = FALSE /\ UNCHANGED <<delay, waited>>
    BY <2>4 DEF SampleAs, TypeOK
  <2> QED  BY <2>3, <2>4 DEF SampleAs, Wait
<1>4. /\ age' = 0 /\ postponed' = 0 /\ sampled' = TRUE
      /\ 0 \in 0 .. MaxAge /\ 0 \in 0 .. MaxPostponed
      /\ shown' \in Activity /\ fresh' \in BOOLEAN /\ exiting' \in BOOLEAN /\ interval' \in Intervals
  BY <1>1, <1>3, DelaysFit DEF SampleAs, uiVars, TypeOK
<1>5. TypeOK'
  BY <1>2, <1>3, <1>4 DEF TypeOK
<1>6. running' => AgeIsAccounted'
  <2>1. 0 * HiddenDelay = 0
    BY DelaysFit
  <2> QED  BY <1>3, <1>4, <2>1 DEF AgeIsAccounted
<1> QED  BY <1>3, <1>5, <1>6 DEF WorkerIInv

LEMMA WorkerStepKeepsInvariant ==
  ASSUME WorkerIInv, [Next]_vars
  PROVE  WorkerIInv'
<1> USE DEF uiVars, workerVars
<1>0. TypeOK /\ {activity, shown} \subseteq Activity /\ "Interactive" \in Activity
  BY DEF WorkerIInv, TypeOK, Activity
<1>1. CASE WindowChanges
  <2>1. PICK a \in Activity :
          /\ shown' = a
          /\ fresh' = (fresh /\ a = shown)
          /\ posted' = [i \in DOMAIN posted |-> posted[i] /\ a = shown]
          /\ commands' = Append(commands, SetActivity(a))
    BY <1>1 DEF WindowChanges
  <2>2. KnowsWindow => KnowsWindow'
    BY <1>0, <1>1, <2>1, CommandKinds, SendingKeepsKnowledge DEF WindowChanges
  <2>3. posted' \in Seq(BOOLEAN) /\ Len(posted') <= MaxPosted
    <3>1. posted \in Seq(BOOLEAN) /\ DOMAIN posted = 1 .. Len(posted) /\ Len(posted) \in Nat
      BY <1>0 DEF TypeOK
    <3>2. \A i \in DOMAIN posted : (posted[i] /\ a = shown) \in BOOLEAN
      OBVIOUS
    <3>3. posted' \in Seq(BOOLEAN) /\ Len(posted') = Len(posted)
      BY <2>1, <3>1, <3>2
    <3> QED  BY <1>0, <3>3 DEF TypeOK
  <2>4. commands' \in Seq(Command)
    BY <1>0, <2>1, CommandKinds, SentCommand
  <2>5. TypeOK'
    BY <1>0, <1>1, <2>1, <2>3, <2>4 DEF WindowChanges, TypeOK
  <2> QED  BY <1>1, <2>2, <2>5 DEF WindowChanges, WorkerIInv, AgeIsAccounted
<1>2. CASE SelectInterval
  <2>1. PICK i \in Intervals : commands' = Append(commands, SetInterval(i))
    BY <1>2 DEF SelectInterval
  <2>2. KnowsWindow => KnowsWindow'
    BY <1>0, <1>2, <2>1, CommandKinds, SendingKeepsKnowledge DEF SelectInterval
  <2>3. commands' \in Seq(Command)
    BY <1>0, <2>1, CommandKinds, SentCommand
  <2>4. TypeOK'
    BY <1>0, <1>2, <2>3 DEF SelectInterval, TypeOK
  <2> QED  BY <1>2, <2>2, <2>4 DEF SelectInterval, WorkerIInv, AgeIsAccounted
<1>3. CASE Deliver
  <2>1. posted' \in Seq(BOOLEAN) /\ Len(posted') <= MaxPosted
    <3>1. posted \in Seq(BOOLEAN) /\ posted # <<>> /\ Len(posted) <= MaxPosted
      BY <1>0, <1>3 DEF Deliver, TypeOK
    <3>2. posted' = Tail(posted)
      BY <1>3 DEF Deliver
    <3>3. Tail(posted) \in Seq(BOOLEAN) /\ Len(Tail(posted)) = Len(posted) - 1
      BY <3>1, HeadTailProperties
    <3>4. Len(posted) \in Nat /\ MaxPosted \in Nat
      BY <3>1, MonitorAssumption
    <3> QED  BY <3>1, <3>2, <3>3, <3>4
  <2>2. fresh' \in BOOLEAN
    BY <1>3 DEF Deliver
  <2>3. TypeOK'
    BY <1>0, <1>3, <2>1, <2>2 DEF Deliver, TypeOK
  <2> QED  BY <1>3, <2>3 DEF Deliver, WorkerIInv, AgeIsAccounted, KnowsWindow
<1>4. CASE Exit
  <2>1. KnowsWindow => KnowsWindow'
    BY <1>0, <1>4, CommandKinds, SendingKeepsKnowledge DEF Exit
  <2>2. commands' \in Seq(Command)
    BY <1>0, <1>4, CommandKinds, SentCommand DEF Exit
  <2>3. TypeOK'
    BY <1>0, <1>4, <2>2 DEF Exit, TypeOK
  <2> QED  BY <1>4, <2>1, <2>3 DEF Exit, WorkerIInv, AgeIsAccounted
<1>5. CASE ReceiveSameActivity
  <2>1. running /\ Receive(SetActivity(activity)) /\ commands # <<>>
    BY <1>5 DEF ReceiveSameActivity, Receive
  <2>2. KnowsWindow'
    BY <1>0, <1>5, <2>1, CommandKinds, ReceivingKeepsKnowledge DEF ReceiveSameActivity, WorkerIInv
  <2>3. AgeIsAccounted' /\ postponed' \in 0 .. MaxPostponed
    BY <1>0, <1>5, <2>1, PostponingIsAccounted DEF ReceiveSameActivity, WorkerIInv, Wait
  <2>4. commands' \in Seq(Command)
    BY <1>0, <2>1, TakenCommand DEF Receive
  <2>5. 0 \in 0 .. delay
    BY <1>0, DelaysFit DEF TypeOK
  <2>6. TypeOK'
    BY <1>0, <1>5, <2>1, <2>3, <2>4, <2>5 DEF ReceiveSameActivity, Receive, Wait, TypeOK
  <2> QED  BY <1>5, <2>1, <2>2, <2>3, <2>6 DEF ReceiveSameActivity, Wait, WorkerIInv
<1>6. CASE ReceiveQuietActivity
  <2>1. PICK a \in Activity \ {"Interactive", activity} :
          /\ Receive(SetActivity(a))
          /\ activity' = a
          /\ Postpone /\ Wait(SampleInterval(a, interval))
          /\ UNCHANGED <<running, interval, age, sampled, posted>>
    BY <1>6 DEF ReceiveQuietActivity
  <2>2. running /\ commands # <<>>
    BY <2>1 DEF Receive
  <2>3. KnowsWindow'
    BY <1>0, <2>1, <2>2, CommandKinds, ReceivingKeepsKnowledge DEF WorkerIInv
  <2>4. AgeIsAccounted' /\ postponed' \in 0 .. MaxPostponed
    BY <1>0, <2>1, <2>2, PostponingIsAccounted DEF WorkerIInv, Wait
  <2>5. commands' \in Seq(Command)
    BY <1>0, <2>1, <2>2, TakenCommand DEF Receive
  <2>6. /\ delay' \in {FirstDelay, BackgroundDelay, HiddenDelay} \cup Intervals
        /\ delay' = SampleInterval(activity, interval)'
        /\ waited' \in 0 .. delay'
    <3>1. SampleInterval(a, interval) \in {FirstDelay, BackgroundDelay, HiddenDelay} \cup Intervals
      BY <1>0, DelaysFit DEF TypeOK
    <3>2. 0 \in 0 .. SampleInterval(a, interval)
      BY <3>1, DelaysFit
    <3> QED  BY <2>1, <3>1, <3>2 DEF Wait, SampleInterval
  <2>7. TypeOK'
    BY <1>0, <2>1, <2>4, <2>5, <2>6 DEF Receive, TypeOK
  <2> QED  BY <2>1, <2>2, <2>3, <2>4, <2>6, <2>7 DEF WorkerIInv
<1>7. CASE ReceiveInteractive
  <2>1. running /\ commands # <<>> /\ Receive(SetActivity("Interactive")) /\ activity' = "Interactive"
    BY <1>7 DEF ReceiveInteractive, Receive
  <2>2. KnowsWindow'
    BY <1>0, <2>1, CommandKinds, ReceivingKeepsKnowledge DEF WorkerIInv
  <2>3. commands' \in Seq(Command)
    BY <1>0, <2>1, TakenCommand DEF Receive
  <2>4. SampleAs(activity') /\ UNCHANGED uiVars
    BY <1>7, <2>1 DEF ReceiveInteractive, Receive
  <2> QED  BY <1>0, <2>1, <2>2, <2>3, <2>4, SamplingKeepsInvariant
<1>8. CASE ReceiveInterval
  <2>1. PICK i \in Intervals :
          /\ Receive(SetInterval(i))
          /\ interval' = i
          /\ Postpone /\ Wait(SampleInterval(activity, i))
          /\ UNCHANGED <<running, activity, age, sampled, posted>>
    BY <1>8 DEF ReceiveInterval
  <2>2. running /\ commands # <<>>
    BY <2>1 DEF Receive
  <2>3. KnowsWindow'
    BY <1>0, <2>1, <2>2, CommandKinds, ReceivingKeepsKnowledge DEF WorkerIInv
  <2>4. AgeIsAccounted' /\ postponed' \in 0 .. MaxPostponed
    BY <1>0, <2>1, <2>2, PostponingIsAccounted DEF WorkerIInv, Wait
  <2>5. commands' \in Seq(Command)
    BY <1>0, <2>1, <2>2, TakenCommand DEF Receive
  <2>6. /\ delay' \in {FirstDelay, BackgroundDelay, HiddenDelay} \cup Intervals
        /\ delay' = SampleInterval(activity, interval)'
        /\ waited' \in 0 .. delay'
    <3>1. SampleInterval(activity, i) \in {FirstDelay, BackgroundDelay, HiddenDelay} \cup Intervals
      BY <1>0, DelaysFit
    <3>2. 0 \in 0 .. SampleInterval(activity, i)
      BY <3>1, DelaysFit
    <3> QED  BY <2>1, <3>1, <3>2 DEF Wait, SampleInterval
  <2>7. TypeOK'
    BY <1>0, <2>1, <2>4, <2>5, <2>6 DEF Receive, TypeOK
  <2> QED  BY <2>1, <2>2, <2>3, <2>4, <2>6, <2>7 DEF WorkerIInv
<1>9. CASE ReceiveStop
  <2>1. commands' \in Seq(Command)
    BY <1>0, <1>9, TakenCommand DEF ReceiveStop, Receive
  <2> QED  BY <1>0, <1>9, <2>1 DEF ReceiveStop, Receive, TypeOK, WorkerIInv
<1>10. CASE TimeoutSample
  <2>1. /\ running /\ SampleAs(activity') /\ UNCHANGED uiVars /\ activity' = activity
        /\ commands' = commands
    BY <1>10 DEF TimeoutSample
  <2>2. KnowsWindow'
    BY <2>1 DEF WorkerIInv, KnowsWindow, IsActivity, SetActivity
  <2> QED  BY <1>0, <2>1, <2>2, SamplingKeepsInvariant DEF TypeOK
<1>11. CASE Tick
  <2>1. /\ waited \in Nat /\ delay \in Nat /\ age \in 0 .. MaxAge /\ MaxAge \in Nat
        /\ waited \in 0 .. delay /\ postponed \in Nat /\ HiddenDelay \in Nat
    <3>1. delay \in Nat /\ MaxAge \in Nat
      BY <1>0, DelaysFit DEF TypeOK
    <3>2. HiddenDelay \in Nat
      BY MonitorAssumption
    <3> QED  BY <1>0, <3>1, <3>2 DEF TypeOK
  <2>2. waited' \in 0 .. delay /\ waited' = waited + 1
    BY <1>11, <2>1 DEF Tick
  <2>3. age' \in 0 .. MaxAge /\ age' <= age + 1
    BY <1>11, <2>1 DEF Tick
  <2>4. TypeOK'
    BY <1>0, <1>11, <2>2, <2>3 DEF Tick, TypeOK
  <2>5. AgeIsAccounted => AgeIsAccounted'
    <3> DEFINE P == postponed * HiddenDelay
    <3>1. P \in Nat
      BY <2>1
    <3>2. postponed' = postponed /\ age' \in Nat /\ age \in Nat
      BY <1>11, <2>1, <2>3 DEF Tick
    <3>3. age <= P + waited => age' <= P + waited'
      <4> HIDE DEF P
      <4> QED  BY <2>1, <2>2, <2>3, <3>1, <3>2
    <3> QED  BY <3>2, <3>3 DEF AgeIsAccounted
  <2>6. KnowsWindow => KnowsWindow'
    BY <1>11 DEF Tick, KnowsWindow, IsActivity, SetActivity
  <2> QED  BY <1>11, <2>4, <2>5, <2>6 DEF Tick, WorkerIInv
<1>12. CASE UNCHANGED vars
  BY <1>12 DEF vars, WorkerIInv, TypeOK, KnowsWindow, IsActivity, AgeIsAccounted, SetActivity
<1> QED
  BY <1>1, <1>2, <1>3, <1>4, <1>5, <1>6, <1>7, <1>8, <1>9, <1>10, <1>11, <1>12 DEF Next, Work

LEMMA WorkerIsOnTime == WorkerIInv => TypeOK /\ WorkerFollowsWindow /\ PostponedByCommandsOnly
<1> SUFFICES ASSUME WorkerIInv PROVE TypeOK /\ WorkerFollowsWindow /\ PostponedByCommandsOnly
  OBVIOUS
<1>1. TypeOK
  BY DEF WorkerIInv
<1>2. WorkerFollowsWindow
  <2>1. commands = <<>> => DOMAIN commands = {}
    OBVIOUS
  <2> QED  BY <2>1 DEF WorkerFollowsWindow, WorkerIInv, KnowsWindow
<1>3. PostponedByCommandsOnly
  <2> SUFFICES ASSUME running, postponed < MaxPostponed
               PROVE  age <= (postponed + 1) * HiddenDelay
    BY DEF PostponedByCommandsOnly
  <2>1. /\ waited \in Nat /\ delay \in Nat /\ age \in Nat /\ waited <= HiddenDelay
        /\ postponed \in Nat /\ HiddenDelay \in Nat
    <3>1. delay \in Nat /\ delay <= HiddenDelay /\ MaxAge \in Nat
      BY <1>1, DelaysFit DEF TypeOK
    <3>2. HiddenDelay \in Nat
      BY MonitorAssumption
    <3> QED  BY <1>1, <3>1, <3>2 DEF TypeOK
  <2>2. (postponed + 1) * HiddenDelay = postponed * HiddenDelay + HiddenDelay
    BY <2>1
  <2>3. age <= postponed * HiddenDelay + waited
    BY DEF WorkerIInv, AgeIsAccounted
  <2> DEFINE P == postponed * HiddenDelay
  <2>4. P \in Nat
    BY <2>1
  <2>5. age <= P + HiddenDelay
    <3>1. age <= P + waited
      BY <2>3
    <3> HIDE DEF P
    <3> QED  BY <2>1, <2>4, <3>1
  <2> QED  BY <2>2, <2>5
<1> QED  BY <1>1, <1>2, <1>3

LEMMA WorkerInvariance == MonitoringSafety => []WorkerIInv
<1>1. MonitoringInit => WorkerIInv
  BY WorkerInitially DEF MonitoringInit
<1>2. WorkerIInv /\ [MonitoringNext]_monitoringVars => WorkerIInv'
  <2>1. [MonitoringNext]_monitoringVars => [Next]_vars
    BY DEF MonitoringNext, monitoringVars
  <2> QED  BY <2>1, WorkerStepKeepsInvariant
<1> QED  BY <1>1, <1>2, PTL DEF MonitoringSafety

\* When the channel is drained the worker samples at the rate of the window as
\* it is, and a sample is put off by a period of the hidden window for every
\* command received and by nothing else: recv_timeout and the continue of an
\* activity that is the same.
THEOREM WorkerAlwaysKeepsPace == MonitoringSpec => []WorkerKeepsPace
<1>1. WorkerIInv => WorkerKeepsPace
  BY WorkerIsOnTime DEF WorkerKeepsPace
<1>2. MonitoringSpec => MonitoringSafety
  BY PTL DEF MonitoringSpec, MonitoringSafety
<1> QED  BY <1>1, <1>2, WorkerInvariance, PTL

-----------------------------------------------------------------------------
(* The history.                                                            *)

\* Induction, as far as the provers can use it.
LEMMA LeastNatural ==
  ASSUME NEW S \in SUBSET Nat, S # {}
  PROVE  \E n \in S : \A m \in S : n <= m
<1> DEFINE R == OpToRel(<, Nat)
<1>1. IsWellFoundedOn(R, Nat)
  BY NatLessThanWellFounded
<1>2. PICK n \in S : \A m \in S : ~(<<m, n>> \in R)
  BY <1>1, WFMin
<1>3. \A m \in S : ~(m < n)
  BY <1>2 DEF OpToRel
<1> QED  BY <1>3

Now(a) == a[Len(a)].at

\* The samples of a that push promises to keep.
Kept(a, i) ==
  Now(a) >= Retention => a[i].at + Retention >= Now(a) /\ i > Len(a) - MaxSamples

Sorted(a) == \A i, j \in DOMAIN a : i < j => a[i].at <= a[j].at

\* The history is what is left of the accepted samples without the first k.
IsWithout(k) ==
  /\ k \in 0 .. Len(accepted)
  /\ snapshots = SubSeq(accepted, k + 1, Len(accepted))
  /\ \A i \in DOMAIN accepted : Kept(accepted, i) <=> i > k

HistoryIInv ==
  /\ accepted \in Seq(History!Snapshot)
  /\ Sorted(accepted)
  /\ \E k \in Nat : IsWithout(k)

\* A sequence without its first k items.
LEMMA WithoutProperties ==
  ASSUME NEW S, NEW a \in Seq(S), NEW k \in 0 .. Len(a)
  PROVE  /\ SubSeq(a, k + 1, Len(a)) \in Seq(S)
         /\ Len(SubSeq(a, k + 1, Len(a))) = Len(a) - k
         /\ \A i \in 1 .. Len(a) - k : SubSeq(a, k + 1, Len(a))[i] = a[k + i]
<1> DEFINE n == Len(a)
<1>1. n \in Nat /\ k \in Nat /\ k <= n /\ \A i \in 1 .. n : a[i] \in S
  BY ElementOfSeq
<1>2. \A i \in k + 1 .. n : a[i] \in S
  BY <1>1
<1>3. k + 1 \in Int /\ n \in Int
  BY <1>1
<1> DEFINE b == SubSeq(a, k + 1, n)
<1>4. /\ b \in Seq(S)
      /\ Len(b) = IF k + 1 <= n THEN n - (k + 1) + 1 ELSE 0
      /\ \A i \in 1 .. n - (k + 1) + 1 : b[i] = a[(k + 1) + i - 1]
  <2> HIDE DEF n
  <2> QED  BY <1>2, <1>3, SubSeqProperties
<1>5. Len(b) = n - k
  <2> HIDE DEF b, n
  <2> QED  BY <1>1, <1>4
<1>6. \A i \in 1 .. n - k : b[i] = a[k + i]
  <2> HIDE DEF b, n
  <2>1. n - (k + 1) + 1 = n - k /\ \A i \in 1 .. n - k : (k + 1) + i - 1 = k + i
    BY <1>1
  <2> QED  BY <1>4, <2>1
<1> QED  BY <1>4, <1>5, <1>6

LEMMA WithoutAppend ==
  ASSUME NEW S, NEW a \in Seq(S), NEW k \in 0 .. Len(a), NEW x \in S
  PROVE  Append(SubSeq(a, k + 1, Len(a)), x)
           = SubSeq(Append(a, x), k + 1, Len(Append(a, x)))
<1> DEFINE n == Len(a)
           b == SubSeq(a, k + 1, n)
           c == Append(a, x)
           d == SubSeq(c, k + 1, Len(c))
<1>1. n \in Nat /\ k \in Nat /\ k <= n
  OBVIOUS
<1>2. b \in Seq(S) /\ Len(b) = n - k /\ \A i \in 1 .. n - k : b[i] = a[k + i]
  BY WithoutProperties
<1>3. c \in Seq(S) /\ Len(c) = n + 1 /\ c[n + 1] = x /\ \A i \in 1 .. n : c[i] = a[i]
  BY AppendProperties
<1>4. k \in 0 .. Len(c)
  BY <1>1, <1>3
<1>5. /\ d \in Seq(S) /\ Len(d) = Len(c) - k
      /\ \A i \in 1 .. Len(c) - k : d[i] = c[k + i]
  <2> HIDE DEF c
  <2> QED  BY <1>3, <1>4, WithoutProperties
<1>6. /\ Append(b, x) \in Seq(S) /\ Len(Append(b, x)) = n - k + 1
      /\ Append(b, x)[n - k + 1] = x
      /\ \A i \in 1 .. n - k : Append(b, x)[i] = b[i]
  <2> HIDE DEF b
  <2> QED  BY <1>2, AppendProperties
<1> HIDE DEF n, b, c, d
<1>7. Len(d) = n - k + 1
  BY <1>1, <1>3, <1>5
<1>8. \A i \in 1 .. n - k + 1 : Append(b, x)[i] = d[i]
  <2> TAKE i \in 1 .. n - k + 1
  <2>1. d[i] = c[k + i]
    BY <1>1, <1>3, <1>5
  <2>2. CASE i = n - k + 1
    <3>1. k + i = n + 1
      BY <1>1, <2>2
    <3> QED  BY <1>3, <1>6, <2>1, <2>2, <3>1
  <2>3. CASE i # n - k + 1
    <3>1. i \in 1 .. n - k /\ k + i \in 1 .. n
      BY <1>1, <2>3
    <3> QED  BY <1>2, <1>3, <1>6, <2>1, <3>1
  <2> QED  BY <2>2, <2>3
<1>9. Append(b, x) = d
  BY <1>5, <1>6, <1>7, <1>8, SeqEqual
<1> QED  BY <1>9 DEF b, c, d, n

LEMMA WithoutWithout ==
  ASSUME NEW S, NEW a \in Seq(S), NEW k \in 0 .. Len(a), NEW m \in 0 .. Len(a) - k
  PROVE  LET b == SubSeq(a, k + 1, Len(a))
         IN  SubSeq(b, m + 1, Len(b)) = SubSeq(a, (k + m) + 1, Len(a))
<1> DEFINE n == Len(a)
           b == SubSeq(a, k + 1, n)
           c == SubSeq(b, m + 1, Len(b))
           d == SubSeq(a, (k + m) + 1, n)
<1>1. n \in Nat /\ k \in Nat /\ k <= n /\ m \in Nat /\ m <= n - k
  OBVIOUS
<1>2. b \in Seq(S) /\ Len(b) = n - k /\ \A i \in 1 .. n - k : b[i] = a[k + i]
  BY WithoutProperties
<1>3. m \in 0 .. Len(b) /\ k + m \in 0 .. n
  BY <1>1, <1>2
<1>4. c \in Seq(S) /\ Len(c) = Len(b) - m /\ \A i \in 1 .. Len(b) - m : c[i] = b[m + i]
  <2> HIDE DEF b
  <2> QED  BY <1>2, <1>3, WithoutProperties
<1>5. d \in Seq(S) /\ Len(d) = n - (k + m) /\ \A i \in 1 .. n - (k + m) : d[i] = a[(k + m) + i]
  BY <1>3, WithoutProperties
<1> HIDE DEF n, b, c, d
<1>6. Len(c) = Len(d)
  BY <1>1, <1>2, <1>4, <1>5
<1>7. \A i \in 1 .. Len(c) : c[i] = d[i]
  <2> TAKE i \in 1 .. Len(c)
  <2>1. i \in 1 .. Len(b) - m /\ m + i \in 1 .. n - k /\ i \in 1 .. n - (k + m)
    BY <1>1, <1>2, <1>4
  <2>2. k + (m + i) = (k + m) + i
    BY <1>1, <2>1
  <2> QED  BY <1>2, <1>4, <1>5, <2>1, <2>2
<1>8. c = d
  BY <1>4, <1>5, <1>6, <1>7, SeqEqual
<1> QED  BY <1>8 DEF b, c, d, n

\* The first loop of push stops: at the first sample that is young enough, or
\* at the end.
LEMMA RecentDrops ==
  ASSUME NEW S, NEW s \in Seq(S), NEW cutoff \in Int, \A x \in S : x.at \in Int
  PROVE  \E n \in 0 .. Len(s) :
           /\ History!Recent(s, cutoff) = SubSeq(s, n + 1, Len(s))
           /\ \A i \in 1 .. n : s[i].at < cutoff
           /\ n < Len(s) => s[n + 1].at >= cutoff
<1> DEFINE Stops(n) == /\ \A i \in 1 .. n : s[i].at < cutoff
                       /\ n < Len(s) => s[n + 1].at >= cutoff
           Young == {n \in 0 .. Len(s) : n < Len(s) => s[n + 1].at >= cutoff}
<1>1. Len(s) \in Nat /\ Len(s) \in Young
  OBVIOUS
<1>2. PICK n \in Young : \A m \in Young : n <= m
  <2>1. Young \in SUBSET Nat /\ Young # {}
    BY <1>1
  <2> HIDE DEF Young
  <2> QED  BY <2>1, LeastNatural
<1>3. Stops(n)
  <2>1. SUFFICES ASSUME NEW i \in 1 .. n PROVE s[i].at < cutoff
    BY <1>2
  <2>2. i - 1 \in 0 .. Len(s) /\ i - 1 < Len(s) /\ i - 1 < n /\ i \in 1 .. Len(s)
    BY <1>1, <1>2
  <2>3. i - 1 \notin Young
    BY <1>2, <2>2
  <2>4. ~(s[(i - 1) + 1].at >= cutoff)
    BY <2>2, <2>3
  <2>5. (i - 1) + 1 = i /\ s[i] \in S
    BY <2>2, ElementOfSeq
  <2> QED  BY <2>4, <2>5
<1> DEFINE c == CHOOSE m \in 0 .. Len(s) : Stops(m)
<1>4. c \in 0 .. Len(s) /\ Stops(c)
  <2>1. \E m \in 0 .. Len(s) : Stops(m)
    BY <1>2, <1>3
  <2> HIDE DEF Stops
  <2> QED  BY <2>1
<1>5. History!Recent(s, cutoff) = SubSeq(s, c + 1, Len(s))
  BY DEF History!Recent, History!Without
<1> HIDE DEF c
<1> QED  BY <1>4, <1>5

\* A sample that is accepted is appended to the accepted ones, which stay sorted.
LEMMA AcceptedStaySorted ==
  ASSUME HistoryIInv, NEW k \in Nat, IsWithout(k), NEW at \in History!Time, NEW r \in Readings,
         History!InOrder(at)
  PROVE  LET x == [at |-> at, reading |-> r]
             a == Append(accepted, x)
         IN /\ x \in History!Snapshot /\ at \in Nat
            /\ a \in Seq(History!Snapshot) /\ Len(a) = Len(accepted) + 1
            /\ a[Len(accepted) + 1] = x /\ \A i \in 1 .. Len(accepted) : a[i] = accepted[i]
            /\ Sorted(a)
            /\ accepted # <<>> => Now(accepted) <= at /\ Now(accepted) \in Nat
            /\ \A i \in 1 .. Len(a) : a[i].at \in Nat
<1> DEFINE n == Len(accepted)
           x == [at |-> at, reading |-> r]
           a == Append(accepted, x)
<1>1. accepted \in Seq(History!Snapshot) /\ n \in Nat /\ DOMAIN accepted = 1 .. n
  BY DEF HistoryIInv
<1>2. x \in History!Snapshot
  BY DEF History!Snapshot
<1>3. \A y \in History!Snapshot : y.at \in Nat
  BY PartsAssumption DEF History!Snapshot, History!Time, History!HistoryAssumption
<1>4. a \in Seq(History!Snapshot) /\ Len(a) = n + 1 /\ a[n + 1] = x /\ \A i \in 1 .. n : a[i] = accepted[i]
  <2> HIDE DEF x
  <2> QED  BY <1>1, <1>2, AppendProperties
<1>5. \A i \in 1 .. n + 1 : a[i].at \in Nat
  <2> HIDE DEF a
  <2> QED  BY <1>3, <1>4, ElementOfSeq
<1>6. ASSUME accepted # <<>>
      PROVE  Now(accepted) <= at /\ Now(accepted) \in Nat
  <2>1. n # 0 /\ n \in DOMAIN accepted
    BY <1>1, <1>6, EmptySeq
  <2>2. Now(accepted) \in Nat
    BY <1>1, <1>3, <2>1, ElementOfSeq DEF Now
  <2>3. Kept(accepted, n)
    <3>1. {Retention, MaxSamples} \subseteq Nat \ {0}
      BY PartsAssumption DEF History!HistoryAssumption
    <3>2. Retention \in Nat /\ MaxSamples \in Nat \ {0}
      BY <3>1
    <3> QED  BY <1>1, <2>2, <3>2 DEF Kept, Now
  <2>4. n > k /\ k \in 0 .. n /\ snapshots = SubSeq(accepted, k + 1, n)
    BY <2>1, <2>3 DEF IsWithout
  <2>5. k + (n - k) = n /\ n - k # 0 /\ n - k \in 1 .. n - k
    <3>1. \A u, v \in Nat : u > v => v + (u - v) = u /\ u - v # 0 /\ u - v \in 1 .. u - v
      OBVIOUS
    <3>2. n \in Nat /\ k \in Nat /\ n > k
      BY <1>1, <2>4
    <3> HIDE DEF n
    <3> QED  BY <3>1, <3>2
  <2>6. /\ snapshots \in Seq(History!Snapshot) /\ Len(snapshots) = n - k
        /\ snapshots[n - k] = accepted[k + (n - k)]
    BY <1>1, <2>4, <2>5, WithoutProperties
  <2>7. snapshots # <<>> /\ snapshots[Len(snapshots)] = accepted[n]
    BY <2>5, <2>6, EmptySeq
  <2>8. accepted[n].at <= at
    BY <2>7 DEF History!InOrder, History!Last
  <2> QED  BY <2>2, <2>8 DEF Now
<1>7. Sorted(a)
  <2> HIDE DEF a
  <2> SUFFICES ASSUME NEW i \in 1 .. n + 1, NEW j \in 1 .. n + 1, i < j
               PROVE  a[i].at <= a[j].at
    BY <1>4 DEF Sorted
  <2>1. i \in 1 .. n /\ i \in DOMAIN accepted
    BY <1>1
  <2>2. CASE j \in 1 .. n
    BY <1>1, <1>4, <2>1, <2>2 DEF HistoryIInv, Sorted
  <2>3. CASE j = n + 1
    <3>1. n \in DOMAIN accepted /\ accepted # <<>>
      BY <1>1, <2>1, EmptySeq
    <3>2. accepted[i].at <= accepted[n].at
      <4>1. CASE i = n
        BY <1>4, <1>5, <2>1, <4>1
      <4>2. CASE i < n
        BY <3>1, <2>1, <4>2 DEF HistoryIInv, Sorted
      <4> QED  BY <1>1, <2>1, <4>1, <4>2
    <3>3. accepted[n].at <= at
      BY <1>6, <3>1 DEF Now
    <3>4. a[i].at = accepted[i].at /\ a[j].at = at
      BY <1>4, <2>1, <2>3
    <3>5. accepted[i].at \in Nat /\ accepted[n].at \in Nat /\ at \in Nat
      BY <1>1, <1>2, <1>3, <2>1, <3>1, ElementOfSeq
    <3> QED  BY <3>2, <3>3, <3>4, <3>5
  <2> QED  BY <1>1, <2>2, <2>3
<1>8. at \in Nat
  BY <1>2, <1>3
<1> QED  BY <1>2, <1>4, <1>5, <1>6, <1>7, <1>8

\* The two loops of push leave the promised window of what was accepted.
LEMMA PushKeepsWindow ==
  ASSUME HistoryIInv, NEW at \in History!Time, NEW r \in Readings, History!Push(at, r)
  PROVE  HistoryIInv'
<1> DEFINE n == Len(accepted)
           x == [at |-> at, reading |-> r]
           a == Append(accepted, x)
           N == n + 1
<1>0. PICK k \in Nat : IsWithout(k)
  BY DEF HistoryIInv
<1>1. Retention \in Nat \ {0} /\ MaxSamples \in Nat \ {0}
  <2>1. {Retention, MaxSamples} \subseteq Nat \ {0}
    BY PartsAssumption DEF History!HistoryAssumption
  <2> QED  BY <2>1
<1>2. /\ accepted \in Seq(History!Snapshot) /\ n \in Nat /\ DOMAIN accepted = 1 .. n
      /\ k \in 0 .. n /\ snapshots = SubSeq(accepted, k + 1, n)
      /\ \A i \in 1 .. n : Kept(accepted, i) <=> i > k
  <2>1. accepted \in Seq(History!Snapshot) /\ n \in Nat /\ DOMAIN accepted = 1 .. n
    BY DEF HistoryIInv
  <2> QED  BY <1>0, <2>1 DEF IsWithout
<1>3. /\ x \in History!Snapshot /\ x.at = at /\ at \in Nat
      /\ a \in Seq(History!Snapshot) /\ Len(a) = N
      /\ a[N] = x /\ \A i \in 1 .. n : a[i] = accepted[i]
      /\ Sorted(a)
      /\ accepted # <<>> => Now(accepted) <= at /\ Now(accepted) \in Nat
      /\ \A i \in 1 .. N : a[i].at \in Nat
  BY <1>0, AcceptedStaySorted DEF History!Push
<1>4. accepted' = a /\ snapshots' = History!Trim(Append(snapshots, x), at)
  BY DEF History!Push
<1>5. Append(snapshots, x) = SubSeq(a, k + 1, N)
  <2> HIDE DEF x
  <2>1. Append(SubSeq(accepted, k + 1, Len(accepted)), x)
          = SubSeq(Append(accepted, x), k + 1, Len(Append(accepted, x)))
    BY <1>2, <1>3, WithoutAppend
  <2> QED  BY <1>2, <1>3, <2>1
<1>6. DOMAIN a = 1 .. N /\ N \in Nat /\ Now(a) = at
  BY <1>2, <1>3 DEF Now
<1> DEFINE t == SubSeq(a, k + 1, N)
<1> HIDE DEF x, a
<1>7. SUFFICES \E m \in 0 .. N : /\ snapshots' = SubSeq(a, m + 1, N)
                                 /\ \A i \in 1 .. N : Kept(a, i) <=> i > m
  <2>1. PICK m \in 0 .. N : /\ snapshots' = SubSeq(a, m + 1, N)
                            /\ \A i \in 1 .. N : Kept(a, i) <=> i > m
    BY <1>7
  <2>2. m \in Nat /\ IsWithout(m)'
    <3>1. \A i \in 1 .. N : Kept(accepted', i) <=> i > m
      BY <1>4, <2>1
    <3>2. Len(accepted') = N /\ DOMAIN accepted' = 1 .. N
      BY <1>3, <1>4, <1>6
    <3>3. snapshots' = SubSeq(accepted', m + 1, Len(accepted')) /\ m \in 0 .. Len(accepted')
      BY <1>4, <2>1, <3>2
    <3>4. \A i \in DOMAIN accepted' : Kept(accepted', i) <=> i > m
      BY <3>1, <3>2
    <3>5. IsWithout(m)'
      BY <3>3, <3>4 DEF IsWithout
    <3>6. m \in Nat
      BY <1>6, <2>1
    <3> QED  BY <3>5, <3>6
  <2>3. accepted' \in Seq(History!Snapshot) /\ Sorted(accepted')
    BY <1>3, <1>4
  <2> QED  BY <2>2, <2>3 DEF HistoryIInv, Sorted
<1>8. CASE at < Retention
  <2>1. \A i \in 1 .. N : Kept(a, i)
    BY <1>1, <1>3, <1>6, <1>8 DEF Kept
  <2>2. k = 0
    <3>1. ASSUME n # 0 PROVE k = 0
      <4>1. accepted # <<>> /\ 1 \in 1 .. n
        BY <1>2, <3>1, EmptySeq
      <4>2. Now(accepted) < Retention
        BY <1>1, <1>3, <1>8, <4>1
      <4>3. Kept(accepted, 1)
        BY <1>1, <1>3, <4>1, <4>2 DEF Kept
      <4> QED  BY <1>2, <4>1, <4>3
    <3> QED  BY <1>2, <3>1
  <2>3. snapshots' = SubSeq(a, 0 + 1, N)
    BY <1>4, <1>5, <1>8, <2>2 DEF History!Trim
  <2>4. \A i \in 1 .. N : Kept(a, i) <=> i > 0
    BY <2>1
  <2> QED  BY <1>6, <2>3, <2>4
<1>9. CASE ~(at < Retention)
  <2> DEFINE cutoff == at - Retention
             rec == History!Recent(t, cutoff)
  <2>1. k \in 0 .. Len(a) /\ k \in Nat /\ k <= n
    BY <1>2, <1>3
  <2>2. /\ t \in Seq(History!Snapshot) /\ Len(t) = N - k
        /\ \A i \in 1 .. N - k : t[i] = a[k + i]
    BY <1>3, <2>1, WithoutProperties
  <2>3. PICK d \in 0 .. Len(t) :
          /\ rec = SubSeq(t, d + 1, Len(t))
          /\ \A i \in 1 .. d : t[i].at < cutoff
          /\ d < Len(t) => t[d + 1].at >= cutoff
    <3>1. cutoff \in Int /\ \A y \in History!Snapshot : y.at \in Int
      BY <1>1, <1>3, PartsAssumption DEF History!Snapshot, History!Time, History!HistoryAssumption
    <3> HIDE DEF t, cutoff
    <3> QED  BY <2>2, <3>1, RecentDrops
  <2>4. d \in Nat /\ d < N - k
    <3>1. d \in Nat /\ d <= N - k
      BY <1>6, <2>1, <2>2, <2>3
    <3>2. ASSUME d = N - k PROVE FALSE
      <4>1. t[N - k] = a[N] /\ N - k \in 1 .. d
        <5>1. k + (N - k) = N /\ N - k \in 1 .. N - k
          BY <1>6, <2>1
        <5> QED  BY <2>2, <3>2, <5>1
      <4>2. a[N].at < cutoff
        BY <2>3, <4>1
      <4> QED  BY <1>1, <1>3, <4>2
    <3> QED  BY <3>1, <3>2, <1>6, <2>1
  <2>5. rec = SubSeq(a, (k + d) + 1, N) /\ k + d \in 0 .. N /\ Len(rec) = N - (k + d)
    <3>1. k + d \in 0 .. Len(a) /\ d \in 0 .. Len(a) - k
      BY <1>3, <1>6, <2>1, <2>4
    <3>2. rec = SubSeq(a, (k + d) + 1, Len(a))
      BY <1>3, <2>1, <2>3, <3>1, WithoutWithout
    <3>3. Len(SubSeq(a, (k + d) + 1, Len(a))) = Len(a) - (k + d)
      BY <1>3, <3>1, WithoutProperties
    <3> QED  BY <1>3, <3>1, <3>2, <3>3
  <2>6. \A i \in 1 .. N : a[i].at + Retention >= at => i > k + d \/ (i <= k /\ accepted # <<>>)
    <3> SUFFICES ASSUME NEW i \in 1 .. N, ~(i > k + d), i > k
                 PROVE  ~(a[i].at + Retention >= at)
      BY <1>2, <2>1, EmptySeq
    <3>1. i - k \in 1 .. d /\ i - k \in 1 .. N - k /\ k + (i - k) = i
      BY <1>6, <2>1, <2>4
    <3>2. a[i].at < at - Retention
      BY <2>2, <2>3, <3>1
    <3> QED  BY <1>1, <1>3, <3>2
  <2>7. \A i \in 1 .. N : i > k + d => a[i].at + Retention >= at
    <3> SUFFICES ASSUME NEW i \in 1 .. N, i > k + d
                 PROVE  a[i].at + Retention >= at
      OBVIOUS
    <3>1. d < Len(t) /\ d + 1 \in 1 .. N - k /\ k + (d + 1) \in 1 .. N
      BY <1>6, <2>1, <2>2, <2>4
    <3>2. a[k + (d + 1)].at >= at - Retention
      BY <2>2, <2>3, <3>1
    <3>3. a[k + (d + 1)].at <= a[i].at
      <4>1. CASE i = k + (d + 1)
        BY <1>3, <4>1
      <4>2. CASE k + (d + 1) < i
        BY <1>3, <1>6, <3>1, <4>2 DEF Sorted
      <4>3. i = k + (d + 1) \/ k + (d + 1) < i
        <5>1. i \in Nat /\ k \in Nat /\ d \in Nat /\ i > k + d
          BY <1>6, <2>1, <2>4
        <5> QED  BY <5>1
      <4> QED  BY <4>1, <4>2, <4>3
    <3> QED  BY <1>1, <1>3, <3>1, <3>2, <3>3
  <2>8. \A i \in 1 .. N : i <= k => ~Kept(a, i)
    <3> SUFFICES ASSUME NEW i \in 1 .. N, i <= k
                 PROVE  ~Kept(a, i)
      OBVIOUS
    <3>1. i \in 1 .. n /\ accepted # <<>>
      BY <1>2, <2>1, EmptySeq
    <3>2. ~Kept(accepted, i)
      BY <1>2, <2>1, <3>1
    <3>3. a[i] = accepted[i] /\ a[i].at \in Nat
      BY <1>3, <3>1
    <3> QED  BY <1>1, <1>2, <1>3, <1>6, <3>1, <3>2, <3>3 DEF Kept
  <2>9. \A i \in 1 .. N : Kept(a, i) <=> i > k + d /\ i > N - MaxSamples
    <3> TAKE i \in 1 .. N
    <3>1. Kept(a, i) <=> a[i].at + Retention >= at /\ i > N - MaxSamples
      BY <1>1, <1>3, <1>6, <1>9 DEF Kept
    <3>2. i <= k => ~(i > k + d)
      BY <2>1, <2>4
    <3> QED  BY <2>6, <2>7, <2>8, <3>1, <3>2
  <2>10. CASE Len(rec) > MaxSamples
    <3>1. N - MaxSamples > k + d /\ N - MaxSamples \in 0 .. N
      BY <1>1, <1>6, <2>1, <2>4, <2>5, <2>10
    <3>2. snapshots' = SubSeq(rec, (Len(rec) - MaxSamples) + 1, Len(rec))
      BY <1>4, <1>5, <1>9, <2>10 DEF History!Trim, History!Newest, History!Without
    <3>3. SubSeq(rec, (Len(rec) - MaxSamples) + 1, Len(rec)) = SubSeq(a, (N - MaxSamples) + 1, N)
      <4> DEFINE m == Len(rec) - MaxSamples
      <4>1. m \in 0 .. Len(a) - (k + d) /\ k + d \in 0 .. Len(a) /\ (k + d) + m = N - MaxSamples
        BY <1>1, <1>3, <1>6, <2>1, <2>4, <2>5, <2>10
      <4> HIDE DEF rec, m
      <4>2. SubSeq(rec, m + 1, Len(rec)) = SubSeq(a, ((k + d) + m) + 1, Len(a))
        BY <1>3, <2>5, <4>1, WithoutWithout
      <4> QED  BY <1>3, <4>1, <4>2 DEF m
    <3>4. \A i \in 1 .. N : Kept(a, i) <=> i > N - MaxSamples
      BY <1>1, <1>6, <2>1, <2>4, <2>9, <3>1
    <3> QED  BY <3>1, <3>2, <3>3, <3>4
  <2>11. CASE ~(Len(rec) > MaxSamples)
    <3>1. N - MaxSamples <= k + d
      BY <1>1, <1>6, <2>1, <2>4, <2>5, <2>11
    <3>2. snapshots' = rec
      BY <1>4, <1>5, <1>9, <2>11 DEF History!Trim
    <3>3. \A i \in 1 .. N : Kept(a, i) <=> i > k + d
      BY <1>1, <1>6, <2>1, <2>4, <2>9, <3>1
    <3> QED  BY <2>5, <3>2, <3>3
  <2> QED  BY <2>10, <2>11
<1> QED  BY <1>8, <1>9, <1>1, <1>3

LEMMA HistoryInitially == History!Init => HistoryIInv
<1> SUFFICES ASSUME History!Init PROVE HistoryIInv
  OBVIOUS
<1>1. accepted = <<>> /\ snapshots = <<>> /\ accepted \in Seq(History!Snapshot) /\ Len(accepted) = 0
  BY EmptySeq DEF History!Init
<1>2. DOMAIN accepted = {}
  BY <1>1
<1>3. SubSeq(accepted, 0 + 1, 0) = <<>>
  BY SubSeqEmpty
<1>4. IsWithout(0)
  BY <1>1, <1>2, <1>3 DEF IsWithout
<1> QED  BY <1>1, <1>2, <1>4 DEF HistoryIInv, Sorted

LEMMA HistoryInvariance == MonitoringSafety => []HistoryIInv
<1>1. MonitoringInit => HistoryIInv
  BY HistoryInitially DEF MonitoringInit
<1>2. ASSUME HistoryIInv, [MonitoringNext]_monitoringVars
      PROVE  HistoryIInv'
  <2>1. CASE UNCHANGED historyVars
    BY <1>2, <2>1 DEF historyVars, HistoryIInv, Sorted, IsWithout, Kept, Now
  <2>2. ASSUME NEW at \in History!Time, NEW r \in Readings, History!Push(at, r)
        PROVE  HistoryIInv'
    BY <1>2, <2>2, PushKeepsWindow
  <2>3. CASE History!Next
    <3>1. PICK at \in History!Time : History!Refuse(at) \/ \E r \in Readings : History!Push(at, r)
      BY <2>3 DEF History!Next
    <3>2. CASE History!Refuse(at)
      BY <2>1, <3>2 DEF History!Refuse, History!vars, historyVars
    <3> QED  BY <2>2, <3>1, <3>2
  <2> QED  BY <1>2, <2>1, <2>3 DEF MonitoringNext, monitoringVars
<1> QED  BY <1>1, <1>2, PTL DEF MonitoringSafety

\* HistoryIInv, read off: the bounds of the retained window.
LEMMA HistoryIsTheWindow ==
  ASSUME HistoryIInv
  PROVE  History!TypeOK /\ History!HistoryIsWindow
<1> DEFINE n == Len(accepted)
<1>0. PICK k \in Nat : IsWithout(k)
  BY DEF HistoryIInv
<1>1. accepted \in Seq(History!Snapshot) /\ n \in Nat /\ DOMAIN accepted = 1 .. n
  BY DEF HistoryIInv
<1>2. k \in 0 .. n /\ snapshots = SubSeq(accepted, k + 1, n) /\ k <= n
  BY <1>0, <1>1 DEF IsWithout
<1>3. /\ snapshots \in Seq(History!Snapshot) /\ Len(snapshots) = n - k
      /\ \A i \in 1 .. n - k : snapshots[i] = accepted[k + i]
  BY <1>1, <1>2, WithoutProperties
<1>4. History!TypeOK
  <2>1. DOMAIN snapshots = 1 .. n - k
    BY <1>3, LenProperties
  <2>2. SUFFICES ASSUME NEW i \in 1 .. n - k, NEW j \in 1 .. n - k, i < j
                 PROVE  snapshots[i].at <= snapshots[j].at
    BY <1>1, <1>3, <2>1 DEF History!TypeOK
  <2>3. k + i \in 1 .. n /\ k + j \in 1 .. n /\ k + i < k + j
    <3>1. n \in Nat /\ k \in Nat /\ k <= n
      BY <1>1, <1>2
    <3> HIDE DEF n
    <3> QED  BY <2>2, <3>1
  <2>4. accepted[k + i].at <= accepted[k + j].at
    BY <1>1, <2>3 DEF HistoryIInv, Sorted
  <2> QED  BY <1>3, <2>4
<1>5. ASSUME accepted # <<>>
      PROVE  LET now == History!Last(accepted).at
                 kept == {i \in DOMAIN accepted :
                            now >= Retention => /\ accepted[i].at + Retention >= now
                                                /\ i > Len(accepted) - MaxSamples}
             IN /\ Len(snapshots) = History!Cardinality(kept)
                /\ snapshots = History!Newest(accepted, History!Cardinality(kept))
  <2> DEFINE now == History!Last(accepted).at
             kept == {i \in DOMAIN accepted :
                        now >= Retention => /\ accepted[i].at + Retention >= now
                                            /\ i > Len(accepted) - MaxSamples}
  <2>1. now = Now(accepted)
    BY DEF History!Last, Now
  <2>2. kept = (k + 1) .. n
    <3>1. \A i : i \in kept <=> i \in 1 .. n /\ Kept(accepted, i)
      BY <1>1, <2>1 DEF Kept
    <3>2. \A i : i \in kept <=> i \in 1 .. n /\ i > k
      BY <1>0, <1>1, <3>1 DEF IsWithout
    <3>3. \A i : i \in (k + 1) .. n <=> i \in 1 .. n /\ i > k
      BY <1>1, <1>2
    <3> HIDE DEF kept
    <3> QED  BY <3>2, <3>3
  <2>3. Cardinality((k + 1) .. n) = n - k
    <3>1. k + 1 \in Int /\ n \in Int
      BY <1>1
    <3>2. Cardinality((k + 1) .. n) = IF k + 1 > n THEN 0 ELSE n - (k + 1) + 1
      BY <3>1, FS_Interval
    <3> HIDE DEF n
    <3> QED  BY <1>1, <1>2, <3>2
  <2>4. History!Cardinality(kept) = n - k
    BY <2>2, <2>3 DEF History!Cardinality, Cardinality
  <2>5. n - (n - k) = k
    BY <1>1, <1>2
  <2>6. History!Newest(accepted, n - k) = snapshots
    BY <1>2, <2>5 DEF History!Newest, History!Without
  <2> HIDE DEF kept, now
  <2>7. Len(snapshots) = History!Cardinality(kept) /\ snapshots = History!Newest(accepted, History!Cardinality(kept))
    BY <1>3, <2>4, <2>6
  <2> QED  BY <2>7 DEF kept, now
<1> QED  BY <1>4, <1>5 DEF History!HistoryIsWindow

-----------------------------------------------------------------------------
(* The trends.                                                             *)

LEMMA DivisionRounds ==
  ASSUME NEW a \in Nat, NEW m \in Nat \ {0}
  PROVE  a \div m \in Nat /\ m * (a \div m) <= a /\ a < m * (a \div m) + m
OBVIOUS

\* Multiples grow with the factor.
LEMMA MultiplesGrow ==
  ASSUME NEW m \in Nat \ {0}, NEW p \in Nat, NEW q \in Nat, m * p < m * q + m
  PROVE  p <= q
OBVIOUS

\* Where c more are divided by m, the quotient grows by c \div m or by one more.
LEMMA QuotientGrowth ==
  ASSUME NEW x \in Nat, NEW c \in Nat, NEW m \in Nat \ {0}
  PROVE  (x + c) \div m - x \div m \in {c \div m, c \div m + 1}
<1> DEFINE p == x \div m
           q == (x + c) \div m
           g == c \div m
<1>1. p \in Nat /\ m * p <= x /\ x < m * p + m
  BY DivisionRounds
<1>2. q \in Nat /\ m * q <= x + c /\ x + c < m * q + m
  <2>1. x + c \in Nat
    OBVIOUS
  <2> QED  BY <2>1, DivisionRounds
<1>3. g \in Nat /\ m * g <= c /\ c < m * g + m
  BY DivisionRounds
<1> HIDE DEF p, q, g
<1> DEFINE P == m * p
           Q == m * q
           G == m * g
<1>4. P \in Nat /\ Q \in Nat /\ G \in Nat
  BY <1>1, <1>2, <1>3
<1>5. m * (p + g) = P + G /\ m * (p + g + 1) = P + G + m
  BY <1>1, <1>3
<1>6. p + g <= q
  <2>1. P + G < Q + m
    <3>1. P <= x /\ G <= c /\ x + c < Q + m
      BY <1>1, <1>2, <1>3
    <3> HIDE DEF P, Q, G
    <3> QED  BY <1>4, <3>1
  <2>2. p + g \in Nat
    BY <1>1, <1>3
  <2> QED  BY <1>2, <1>5, <2>1, <2>2, MultiplesGrow
<1>7. q <= p + g + 1
  <2>1. Q < P + G + m + m
    <3>1. x < P + m /\ c < G + m /\ Q <= x + c
      BY <1>1, <1>2, <1>3
    <3> HIDE DEF P, Q, G
    <3> QED  BY <1>4, <3>1
  <2>2. p + g + 1 \in Nat /\ m * q < m * (p + g + 1) + m
    BY <1>1, <1>3, <1>5, <2>1
  <2> QED  BY <1>2, <2>2, MultiplesGrow
<1>8. q - p \in {g, g + 1}
  BY <1>1, <1>2, <1>3, <1>6, <1>7
<1> QED  BY <1>8 DEF p, q, g

\* trend_points: the first, the last, and even steps between them.
LEMMA IndicesSpread ==
  ASSUME NEW n \in Nat \ {0}, NEW limit \in Nat \ {0}
  PROVE  LET indices == History!TrendIndices(n, limit)
             out == History!Smaller(limit, n)
         IN /\ indices \in Seq(Nat) /\ Len(indices) = out
            /\ out \in Nat \ {0} /\ DOMAIN indices = 1 .. out
            /\ \A k \in 1 .. out : indices[k] <= n - 1
            /\ indices[out] = n - 1
            /\ limit > 1 => indices[1] = 0
            /\ \A k, l \in 1 .. out - 1 :
                 /\ indices[k + 1] - indices[k] >= 1
                 /\ (indices[k + 1] - indices[k]) - (indices[l + 1] - indices[l]) <= 1
<1> DEFINE indices == History!TrendIndices(n, limit)
           out == History!Smaller(limit, n)
<1>1. out \in Nat \ {0} /\ out <= n /\ out <= limit /\ History!Smaller(n, limit) = out
  BY DEF History!Smaller
<1>2. n - 1 \in Nat
  OBVIOUS
<1>3. CASE out = 1
  <2>1. indices = <<n - 1>>
    BY <1>1, <1>3 DEF History!TrendIndices
  <2>2. limit > 1 => n = 1
    BY <1>3 DEF History!Smaller
  <2>3. /\ indices \in Seq(Nat) /\ Len(indices) = 1 /\ DOMAIN indices = 1 .. 1
        /\ indices[1] = n - 1
    BY <1>2, <2>1
  <2>4. (1 .. out - 1) = {}
    BY <1>3
  <2> HIDE DEF indices, out
  <2>5. /\ Len(indices) = out /\ DOMAIN indices = 1 .. out
        /\ indices[out] = n - 1
        /\ \A k \in 1 .. out : indices[k] <= n - 1
        /\ limit > 1 => indices[1] = 0
    BY <1>2, <1>3, <2>2, <2>3
  <2> QED  BY <1>1, <2>3, <2>4, <2>5 DEF indices, out
<1>4. CASE out # 1
  <2> DEFINE c == n - 1
             m == out - 1
             q(k) == ((k - 1) * c) \div m
  <2>1. c \in Nat /\ m \in Nat \ {0} /\ m <= c /\ out = m + 1
    BY <1>1, <1>4
  <2>2. indices = [k \in 1 .. out |-> q(k)]
    BY <1>1, <1>4 DEF History!TrendIndices
  <2> HIDE DEF c, m, out, indices
  <2>3. \A k \in 1 .. out : (k - 1) * c \in Nat /\ q(k) \in Nat
    <3> TAKE k \in 1 .. out
    <3>1. k - 1 \in Nat
      BY <1>1
    <3>2. (k - 1) * c \in Nat
      BY <2>1, <3>1
    <3> QED  BY <2>1, <3>2, DivisionRounds
  <2>4. indices \in Seq(Nat) /\ Len(indices) = out /\ DOMAIN indices = 1 .. out
    <3>1. \A k \in 1 .. out : q(k) \in Nat
      BY <2>3
    <3> HIDE DEF q
    <3> QED  BY <1>1, <2>2, <3>1
  <2>5. q(1) = 0 /\ q(out) = c
    <3>1. (1 - 1) * c = 0 /\ 0 \div m = 0
      BY <2>1
    <3>2. (out - 1) * c = m * c /\ (m * c) \div m = c
      <4>1. out - 1 = m
        BY <2>1
      <4>2. m * c \in Nat
        BY <2>1
      <4>3. (m * c) \div m \in Nat /\ m * ((m * c) \div m) <= m * c /\ m * c < m * ((m * c) \div m) + m
        BY <2>1, <4>2, DivisionRounds
      <4>4. c <= (m * c) \div m
        BY <2>1, <4>3, MultiplesGrow
      <4>5. (m * c) \div m <= c
        <5>1. m * ((m * c) \div m) < m * c + m
          <6> DEFINE A == m * ((m * c) \div m)
                     B == m * c
          <6>1. A \in Nat /\ B \in Nat /\ A <= B
            BY <2>1, <4>2, <4>3
          <6> HIDE DEF A, B
          <6>2. A < B + m
            BY <2>1, <6>1
          <6> QED  BY <6>2 DEF A, B
        <5> QED  BY <2>1, <4>3, <5>1, MultiplesGrow
      <4> QED  BY <2>1, <4>1, <4>3, <4>4, <4>5
    <3> QED  BY <3>1, <3>2
  <2>6. \A k \in 1 .. out - 1 : q(k + 1) - q(k) \in {c \div m, c \div m + 1}
    <3> TAKE k \in 1 .. out - 1
    <3>1. k - 1 \in Nat /\ (k + 1) - 1 = (k - 1) + 1
      BY <1>1
    <3>2. ((k - 1) + 1) * c = (k - 1) * c + c /\ (k - 1) * c \in Nat
      BY <2>1, <3>1
    <3> QED  BY <2>1, <3>1, <3>2, QuotientGrowth
  <2>7. c \div m \in Nat \ {0}
    <3>1. c \div m \in Nat /\ c < m * (c \div m) + m
      BY <2>1, DivisionRounds
    <3>2. ASSUME c \div m = 0 PROVE FALSE
      BY <2>1, <3>1, <3>2
    <3> QED  BY <3>1, <3>2
  <2>8. \A k \in 1 .. out : q(k) <= c
    <3> TAKE k \in 1 .. out
    <3>1. k - 1 \in Nat /\ k - 1 <= m
      BY <1>1, <2>1
    <3>2. (k - 1) * c <= m * c
      BY <2>1, <3>1
    <3>3. m * q(k) <= (k - 1) * c /\ q(k) \in Nat
      BY <2>1, <2>3, DivisionRounds
    <3>4. m * q(k) < m * c + m
      <4> DEFINE A == m * q(k)
                 B == (k - 1) * c
                 C == m * c
      <4>1. A \in Nat /\ B \in Nat /\ C \in Nat /\ A <= B /\ B <= C
        BY <2>1, <2>3, <3>2, <3>3
      <4> HIDE DEF A, B, C
      <4>2. A < C + m
        BY <2>1, <4>1
      <4> QED  BY <4>2 DEF A, C
    <3> QED  BY <2>1, <3>3, <3>4, MultiplesGrow
  <2> DEFINE g == c \div m
  <2> HIDE DEF q, g
  <2>9. \A k \in 1 .. out - 1 : indices[k + 1] - indices[k] \in {g, g + 1}
    <3> TAKE k \in 1 .. out - 1
    <3>1. k \in 1 .. out /\ k + 1 \in 1 .. out
      BY <1>1
    <3> QED  BY <2>2, <2>6, <3>1 DEF g
  <2>10. g \in Nat /\ g >= 1
    BY <2>7 DEF g
  <2>11. \A k, l \in 1 .. out - 1 :
                 /\ indices[k + 1] - indices[k] >= 1
                 /\ (indices[k + 1] - indices[k]) - (indices[l + 1] - indices[l]) <= 1
    <3>1. \A x, y \in {g, g + 1} : x >= 1 /\ x - y <= 1
      BY <2>10
    <3> QED  BY <2>9, <3>1
  <2>12. /\ \A k \in 1 .. out : indices[k] <= c
         /\ indices[out] = c /\ indices[1] = 0
    <3>1. 1 \in 1 .. out /\ out \in 1 .. out
      BY <1>1
    <3> QED  BY <2>2, <2>5, <2>8, <3>1
  <2> QED  BY <1>1, <2>4, <2>11, <2>12 DEF indices, out, c
<1> QED  BY <1>3, <1>4

\* A trend shows what it promises of the history, whatever the limit.
LEMMA TrendsCoverHistory ==
  ASSUME History!TypeOK
  PROVE  History!TrendCoversHistory
<1> SUFFICES ASSUME NEW limit \in 1 .. TrendPointLimit, snapshots # <<>>
             PROVE  LET indices == History!TrendIndices(Len(snapshots), limit)
                        gaps == {indices[k + 1] - indices[k] : k \in 1 .. (Len(indices) - 1)}
                    IN /\ Len(indices) = History!Smaller(limit, Len(snapshots))
                       /\ History!Last(indices) = Len(snapshots) - 1
                       /\ limit > 1 => Head(indices) = 0
                       /\ \A g, h \in gaps : g >= 1 /\ g - h <= 1
  BY DEF History!TrendCoversHistory
<1> DEFINE n == Len(snapshots)
           indices == History!TrendIndices(n, limit)
           out == History!Smaller(limit, n)
<1>1. n \in Nat \ {0} /\ limit \in Nat \ {0}
  BY EmptySeq DEF History!TypeOK
<1>2. /\ indices \in Seq(Nat) /\ Len(indices) = out /\ out \in Nat \ {0}
      /\ indices[out] = n - 1
      /\ limit > 1 => indices[1] = 0
      /\ \A k, l \in 1 .. out - 1 :
           /\ indices[k + 1] - indices[k] >= 1
           /\ (indices[k + 1] - indices[k]) - (indices[l + 1] - indices[l]) <= 1
  <2> HIDE DEF n
  <2> QED  BY <1>1, IndicesSpread
<1> HIDE DEF indices, out, n
<1>3. History!Last(indices) = n - 1
  BY <1>2 DEF History!Last
<1>4. Head(indices) = indices[1]
  BY <1>2, EmptySeq
<1> DEFINE gaps == {indices[k + 1] - indices[k] : k \in 1 .. (Len(indices) - 1)}
<1>5. \A g, h \in gaps : g >= 1 /\ g - h <= 1
  BY <1>2
<1> QED  BY <1>2, <1>3, <1>4, <1>5 DEF n, out, indices

\* A maximum of finitely many numbers, found from below.
LEMMA SomeBound ==
  ASSUME NEW n \in Nat, NEW f \in [1 .. n -> Nat]
  PROVE  \E u \in Nat : \A i \in 1 .. n : f[i] <= u
<1> DEFINE Bounded(k) == \E u \in Nat : \A i \in 1 .. n : i <= k => f[i] <= u
           Worse == {k \in 0 .. n : ~Bounded(k)}
<1>1. SUFFICES Worse = {}
  <2>1. Bounded(n)
    <3>1. n \in 0 .. n
      OBVIOUS
    <3> HIDE DEF Bounded
    <3> QED  BY <1>1, <3>1
  <2>2. \A i \in 1 .. n : i <= n
    OBVIOUS
  <2> QED  BY <2>1, <2>2
<1>2. SUFFICES ASSUME Worse # {} PROVE FALSE
  OBVIOUS
<1>3. PICK k \in Worse : \A m \in Worse : k <= m
  <2>1. Worse \in SUBSET Nat
    OBVIOUS
  <2> HIDE DEF Worse
  <2> QED  BY <1>2, <2>1, LeastNatural
<1>4. k # 0
  <2>1. Bounded(0)
    <3>1. \A i \in 1 .. n : i <= 0 => f[i] <= 0
      OBVIOUS
    <3> QED  BY <3>1
  <2> QED  BY <1>3, <2>1
<1>5. k - 1 \in 0 .. n /\ k \in 1 .. n /\ ~(k <= k - 1)
  BY <1>3, <1>4
<1>6. Bounded(k - 1)
  BY <1>3, <1>5
<1>7. PICK u \in Nat : \A i \in 1 .. n : i <= k - 1 => f[i] <= u
  BY <1>6
<1>8. \E w \in Nat : u <= w /\ f[k] <= w
  <2>1. f[k] \in Nat
    BY <1>5
  <2>2. \A x, y \in Nat : \E w \in Nat : x <= w /\ y <= w
    <3>1. \A x, y \in Nat : x <= y \/ y <= x
      OBVIOUS
    <3>2. \A x \in Nat : x <= x
      OBVIOUS
    <3> QED  BY <3>1, <3>2
  <2> QED  BY <1>7, <2>1, <2>2
<1>9. PICK w \in Nat : u <= w /\ f[k] <= w
  BY <1>8
<1>10. \A i \in 1 .. n : i <= k => f[i] <= w
  <2> SUFFICES ASSUME NEW i \in 1 .. n, i <= k PROVE f[i] <= w
    OBVIOUS
  <2>1. CASE i = k
    BY <1>9, <2>1
  <2>2. CASE i # k
    <3>1. k \in Nat /\ f[i] \in Nat /\ i \in Nat
      <4> HIDE DEF Bounded
      <4>1. k \in 1 .. n
        BY <1>5
      <4>2. f[i] \in Nat
        OBVIOUS
      <4> HIDE DEF Worse
      <4> QED  BY <4>1, <4>2
    <3>2. i <= k - 1
      BY <1>10, <2>2, <3>1
    <3>3. f[i] <= u
      BY <1>7, <3>2
    <3> QED  BY <1>7, <1>9, <3>1, <3>3
  <2> QED  BY <2>1, <2>2
<1>11. Bounded(k)
  BY <1>10
<1> QED  BY <1>3, <1>11

LEMMA BoundedHasMaximum ==
  ASSUME NEW S \in SUBSET Nat, S # {}, NEW u \in Nat, \A x \in S : x <= u
  PROVE  \E x \in S : \A y \in S : x >= y
<1> DEFINE Bounds == {w \in Nat : \A x \in S : x <= w}
<1>1. PICK w \in Bounds : \A v \in Bounds : w <= v
  <2>1. Bounds \in SUBSET Nat /\ Bounds # {}
    OBVIOUS
  <2> HIDE DEF Bounds
  <2> QED  BY <2>1, LeastNatural
<1>2. w \in S
  <2> SUFFICES ASSUME w \notin S PROVE FALSE
    OBVIOUS
  <2>1. \A x \in S : x \in Nat /\ x < w
    BY <1>1
  <2>2. w - 1 \in Nat /\ \A x \in S : x <= w - 1
    <3>1. w \in Nat
      OBVIOUS
    <3>2. PICK x \in S : TRUE
      OBVIOUS
    <3>3. x \in Nat /\ x < w
      BY <2>1
    <3> QED  BY <2>1, <3>1, <3>3
  <2>3. w - 1 \in Bounds
    BY <2>2
  <2> QED  BY <1>1, <2>3
<1> QED  BY <1>1, <1>2

\* What is drawn is numbers of samples.
LEMMA PointsAreSamples ==
  ASSUME History!TypeOK
  PROVE  LET points == History!TrendPoints(TrendPointLimit)
         IN \E m \in Nat :
              /\ DOMAIN points = 1 .. m
              /\ \A k \in 1 .. m :
                   /\ points[k].reading.received \in Int \cup {Missing, Infinite}
                   /\ points[k].reading.transmitted \in Int \cup {Missing, Infinite}
<1> DEFINE n == Len(snapshots)
           indices == History!TrendIndices(n, TrendPointLimit)
           points == History!TrendPoints(TrendPointLimit)
<1>1. snapshots \in Seq(History!Snapshot) /\ n \in Nat
  BY DEF History!TypeOK
<1>2. TrendPointLimit \in Nat \ {0}
  <2>1. {TrendPointLimit} \subseteq Nat \ {0}
    BY PartsAssumption DEF History!HistoryAssumption
  <2> QED  BY <2>1
<1>3. DOMAIN points = DOMAIN indices /\ \A k \in DOMAIN indices : points[k] = snapshots[indices[k] + 1]
  BY DEF History!TrendPoints
<1> HIDE DEF points
<1>4. CASE n = 0
  <2>1. History!Smaller(n, TrendPointLimit) = 0
    BY <1>2, <1>4 DEF History!Smaller
  <2>2. DOMAIN indices = 1 .. 0
    BY <2>1 DEF History!TrendIndices
  <2> QED  BY <1>3, <2>2 DEF points
<1>5. CASE n # 0
  <2> DEFINE m == History!Smaller(TrendPointLimit, n)
  <2>1. /\ indices \in Seq(Nat) /\ m \in Nat /\ DOMAIN indices = 1 .. m
        /\ \A k \in 1 .. m : indices[k] <= n - 1
    <3> HIDE DEF n
    <3> QED  BY <1>1, <1>2, <1>5, IndicesSpread
  <2> HIDE DEF m, indices
  <2>2. ASSUME NEW k \in 1 .. m
        PROVE  /\ points[k].reading.received \in Int \cup {Missing, Infinite}
               /\ points[k].reading.transmitted \in Int \cup {Missing, Infinite}
    <3>1. indices[k] \in Nat /\ indices[k] <= n - 1
      BY <2>1
    <3>2. indices[k] + 1 \in 1 .. n
      BY <1>1, <3>1
    <3>3. points[k] \in History!Snapshot
      BY <1>1, <1>3, <2>1, <3>2, ElementOfSeq
    <3>4. points[k].reading \in Readings
      BY <3>3 DEF History!Snapshot
    <3> QED  BY <3>4, PartsAssumption DEF History!ReadingAssumption
  <2> QED  BY <1>3, <2>1, <2>2 DEF points
<1> QED  BY <1>4, <1>5

\* The scale is the largest valid value, or zero.
LEMMA ScaleIsLargest ==
  ASSUME NEW m \in Nat, NEW rx, NEW tx, DOMAIN rx = 1 .. m, DOMAIN tx = 1 .. m,
         \A k \in 1 .. m : /\ rx[k] \in Int \cup {Missing, Infinite}
                           /\ tx[k] \in Int \cup {Missing, Infinite}
  PROVE  LET scale == History!Scale(rx, tx)
             values == {v \in {rx[k] : k \in 1 .. m} \cup {tx[k] : k \in 1 .. m} : History!Valid(v)}
         IN /\ scale \in Nat
            /\ \A v \in values : v \in Int /\ History!AtLeastZero(v) \in Nat
            /\ \A v \in values : History!AtLeastZero(v) <= scale
            /\ scale = 0 \/ \E v \in values : History!AtLeastZero(v) = scale
<1> DEFINE values == {v \in {rx[k] : k \in 1 .. m} \cup {tx[k] : k \in 1 .. m} : History!Valid(v)}
           V == {History!AtLeastZero(v) : v \in values} \cup {0}
           Height(v) == IF History!Valid(v) THEN History!AtLeastZero(v) ELSE 0
           fr == [k \in 1 .. m |-> Height(rx[k])]
           ft == [k \in 1 .. m |-> Height(tx[k])]
<1>1. \A v \in Int \cup {Missing, Infinite} : Height(v) \in Nat
  BY DEF History!Valid, History!AtLeastZero
<1>2. \A v \in values : v \in Int /\ History!AtLeastZero(v) \in Nat /\ Height(v) = History!AtLeastZero(v)
  BY DEF History!Valid, History!AtLeastZero
<1> HIDE DEF Height
<1>3. PICK u \in Nat : \A k \in 1 .. m : fr[k] <= u
  <2>1. fr \in [1 .. m -> Nat]
    BY <1>1
  <2> HIDE DEF fr
  <2> QED  BY <2>1, SomeBound
<1>4. PICK w \in Nat : \A k \in 1 .. m : ft[k] <= w
  <2>1. ft \in [1 .. m -> Nat]
    BY <1>1
  <2> HIDE DEF ft
  <2> QED  BY <2>1, SomeBound
<1>5. \A v \in values : History!AtLeastZero(v) <= u + w
  <2> SUFFICES ASSUME NEW v \in values PROVE History!AtLeastZero(v) <= u + w
    OBVIOUS
  <2>1. Height(v) <= u \/ Height(v) <= w
    BY <1>3, <1>4
  <2>2. Height(v) = History!AtLeastZero(v) /\ Height(v) \in Nat
    BY <1>2
  <2> HIDE DEF values
  <2> QED  BY <2>1, <2>2
<1>6. V \in SUBSET Nat /\ V # {} /\ u + w \in Nat /\ \A x \in V : x <= u + w
  BY <1>2, <1>5
<1>7. \E x \in V : \A y \in V : x >= y
  <2> HIDE DEF V
  <2> QED  BY <1>6, BoundedHasMaximum
<1> DEFINE scale == History!Scale(rx, tx)
<1>8. scale = History!Max(V)
  <2>1. History!Range(rx) = {rx[k] : k \in 1 .. m} /\ History!Range(tx) = {tx[k] : k \in 1 .. m}
    BY DEF History!Range
  <2> QED  BY <2>1 DEF History!Scale
<1>9. scale \in V /\ \A y \in V : scale >= y
  <2> HIDE DEF V, scale
  <2> QED  BY <1>7, <1>8 DEF History!Max
<1> HIDE DEF scale
<1>10. scale \in Nat /\ \A v \in values : History!AtLeastZero(v) <= scale
  BY <1>2, <1>6, <1>9
<1>11. scale = 0 \/ \E v \in values : History!AtLeastZero(v) = scale
  BY <1>9
<1> QED  BY <1>2, <1>10, <1>11 DEF scale

\* Fractions of one denominator are ordered as their numerators.
LEMMA FractionsAreOrdered ==
  ASSUME NEW a \in Nat, NEW b \in Nat, NEW s \in Nat, s # 0
  PROVE  a <= b <=> a * s <= b * s
OBVIOUS

LEMMA TrendsAreOnOneScale ==
  ASSUME History!TypeOK
  PROVE  History!TrendsShareScale
<1> DEFINE points == History!TrendPoints(TrendPointLimit)
           trends == History!NetworkTrends
           series == {"received", "transmitted"}
           drawn == {d \in series \X DOMAIN points : History!Valid(points[d[2]].reading[d[1]])}
           value(d) == History!AtLeastZero(points[d[2]].reading[d[1]])
           height(d) == trends[d[1]][d[2]]
           rx == [k \in DOMAIN points |-> points[k].reading.received]
           tx == [k \in DOMAIN points |-> points[k].reading.transmitted]
           scale == History!Scale(rx, tx)
           Drawn(v) == IF scale = 0 THEN <<0, 1>> ELSE <<History!Smaller(History!AtLeastZero(v), scale), scale>>
<1>1. PICK m \in Nat :
        /\ DOMAIN points = 1 .. m
        /\ \A k \in 1 .. m : /\ points[k].reading.received \in Int \cup {Missing, Infinite}
                             /\ points[k].reading.transmitted \in Int \cup {Missing, Infinite}
  BY PointsAreSamples
<1>2. trends = [received |-> History!NormalizeBy(scale, rx), transmitted |-> History!NormalizeBy(scale, tx)]
  BY DEF History!NetworkTrends
<1> HIDE DEF points, trends
<1>3. \A k \in 1 .. m : rx[k] = points[k].reading["received"] /\ tx[k] = points[k].reading["transmitted"]
  BY <1>1
<1> DEFINE values == {v \in {rx[k] : k \in 1 .. m} \cup {tx[k] : k \in 1 .. m} : History!Valid(v)}
<1>4. /\ scale \in Nat
      /\ \A v \in values : v \in Int /\ History!AtLeastZero(v) \in Nat
      /\ \A v \in values : History!AtLeastZero(v) <= scale
      /\ scale = 0 \/ \E v \in values : History!AtLeastZero(v) = scale
  <2>1. /\ DOMAIN rx = 1 .. m /\ DOMAIN tx = 1 .. m
        /\ \A k \in 1 .. m : /\ rx[k] \in Int \cup {Missing, Infinite}
                             /\ tx[k] \in Int \cup {Missing, Infinite}
    BY <1>1
  <2> HIDE DEF rx, tx
  <2> QED  BY <2>1, ScaleIsLargest
<1>5. /\ DOMAIN rx = 1 .. m /\ DOMAIN tx = 1 .. m
      /\ \A d \in series \X (1 .. m) : d[1] \in series /\ d[2] \in 1 .. m
  <2>1. DOMAIN rx = 1 .. m /\ DOMAIN tx = 1 .. m
    BY <1>1
  <2>2. \A d \in series \X (1 .. m) : d[1] \in series /\ d[2] \in 1 .. m
    OBVIOUS
  <2> QED  BY <2>1, <2>2
<1> HIDE DEF rx, tx, scale
<1>6. /\ \A k \in 1 .. m : trends["received"][k] = IF History!Valid(rx[k]) THEN Drawn(rx[k]) ELSE Missing
      /\ \A k \in 1 .. m : trends["transmitted"][k] = IF History!Valid(tx[k]) THEN Drawn(tx[k]) ELSE Missing
  <2>1. trends["received"] = History!NormalizeBy(scale, rx) /\ trends["transmitted"] = History!NormalizeBy(scale, tx)
    BY <1>2
  <2> QED  BY <1>5, <2>1 DEF History!NormalizeBy
<1> DEFINE read(d) == points[d[2]].reading[d[1]]
<1>7. \A d \in series \X (1 .. m) :
        /\ History!Valid(read(d)) => height(d) = Drawn(read(d)) /\ read(d) \in values
        /\ ~History!Valid(read(d)) => height(d) = Missing
  <2> SUFFICES ASSUME NEW d \in series \X (1 .. m)
               PROVE  /\ History!Valid(read(d)) => height(d) = Drawn(read(d)) /\ read(d) \in values
                      /\ ~History!Valid(read(d)) => height(d) = Missing
    OBVIOUS
  <2> DEFINE k == d[2]
  <2>1. k \in 1 .. m /\ (d[1] = "received" \/ d[1] = "transmitted")
    BY <1>5
  <2> HIDE DEF k, Drawn
  <2>2. CASE d[1] = "received"
    <3>1. read(d) = rx[k]
      BY <1>3, <2>1, <2>2 DEF k
    <3>2. height(d) = trends["received"][k]
      BY <2>2 DEF k
    <3> QED  BY <1>6, <2>1, <3>1, <3>2
  <2>3. CASE d[1] = "transmitted"
    <3>1. read(d) = tx[k]
      BY <1>3, <2>1, <2>3 DEF k
    <3>2. height(d) = trends["transmitted"][k]
      BY <2>3 DEF k
    <3> QED  BY <1>6, <2>1, <3>1, <3>2
  <2> QED  BY <2>1, <2>2, <2>3
<1>8. \A d : d \in drawn <=> d \in series \X (1 .. m) /\ History!Valid(read(d))
  BY <1>1
<1>9. \A v \in values : Drawn(v) = IF scale = 0 THEN <<0, 1>> ELSE <<History!AtLeastZero(v), scale>>
  <2> SUFFICES ASSUME NEW v \in values
               PROVE  scale # 0 => History!Smaller(History!AtLeastZero(v), scale) = History!AtLeastZero(v)
    OBVIOUS
  <2>1. History!AtLeastZero(v) \in Nat /\ History!AtLeastZero(v) <= scale
    BY <1>4
  <2> QED  BY <1>4, <2>1 DEF History!Smaller
<1> HIDE DEF Drawn, values
<1>10. \A d \in drawn : /\ value(d) \in Nat /\ value(d) <= scale
                        /\ height(d) = IF scale = 0 THEN <<0, 1>> ELSE <<value(d), scale>>
  <2> SUFFICES ASSUME NEW d \in drawn
               PROVE  /\ value(d) \in Nat /\ value(d) <= scale
                      /\ height(d) = IF scale = 0 THEN <<0, 1>> ELSE <<value(d), scale>>
    OBVIOUS
  <2> HIDE DEF drawn, height, series
  <2>1. d \in series \X (1 .. m) /\ History!Valid(read(d))
    BY <1>8
  <2>2. height(d) = Drawn(read(d)) /\ read(d) \in values
    <3> HIDE DEF read
    <3> QED  BY <1>7, <2>1
  <2>3. value(d) = History!AtLeastZero(read(d))
    OBVIOUS
  <2> HIDE DEF read, value
  <2> QED  BY <1>4, <1>9, <2>2, <2>3
<1>11. \A d \in (series \X DOMAIN points) \ drawn : height(d) = Missing
  <2> HIDE DEF drawn, height, read, series, value
  <2> SUFFICES ASSUME NEW d \in series \X (1 .. m), d \notin drawn
               PROVE  height(d) = Missing
    BY <1>1
  <2> QED  BY <1>7, <1>8
<1>12. scale = 0 \/ \E d \in drawn : value(d) = scale
  <2> SUFFICES ASSUME NEW v \in values, History!AtLeastZero(v) = scale
               PROVE  \E d \in drawn : value(d) = scale
    BY <1>4
  <2>1. CASE v \in {rx[k] : k \in 1 .. m}
    <3>1. PICK k \in 1 .. m : v = rx[k]
      BY <2>1
    <3> DEFINE d == <<"received", k>>
    <3>2. d \in series \X (1 .. m) /\ d[1] = "received" /\ d[2] = k
      OBVIOUS
    <3> HIDE DEF d
    <3>3. read(d) = v
      BY <1>3, <3>1, <3>2
    <3>4. History!Valid(v)
      BY DEF values
    <3> QED  BY <1>8, <3>2, <3>3, <3>4
  <2>2. CASE v \in {tx[k] : k \in 1 .. m}
    <3>1. PICK k \in 1 .. m : v = tx[k]
      BY <2>2
    <3> DEFINE d == <<"transmitted", k>>
    <3>2. d \in series \X (1 .. m) /\ d[1] = "transmitted" /\ d[2] = k
      OBVIOUS
    <3> HIDE DEF d
    <3>3. read(d) = v
      BY <1>3, <3>1, <3>2
    <3>4. History!Valid(v)
      BY DEF values
    <3> QED  BY <1>8, <3>2, <3>3, <3>4
  <2> QED  BY <2>1, <2>2 DEF values
<1> HIDE DEF drawn, value, height
<1>13. \A d \in drawn : height(d)[1] \in 0 .. height(d)[2]
  <2> SUFFICES ASSUME NEW d \in drawn PROVE height(d)[1] \in 0 .. height(d)[2]
    OBVIOUS
  <2>1. CASE scale = 0
    BY <1>10, <2>1
  <2>2. CASE scale # 0
    <3>1. height(d)[1] = value(d) /\ height(d)[2] = scale /\ value(d) \in Nat /\ value(d) <= scale
      BY <1>10, <2>2
    <3> QED  BY <1>4, <3>1
  <2> QED  BY <2>1, <2>2
<1>14. \A d, e \in drawn :
         value(d) <= value(e) <=> height(d)[1] * height(e)[2] <= height(e)[1] * height(d)[2]
  <2> SUFFICES ASSUME NEW d \in drawn, NEW e \in drawn
               PROVE  value(d) <= value(e) <=> height(d)[1] * height(e)[2] <= height(e)[1] * height(d)[2]
    OBVIOUS
  <2>1. CASE scale = 0
    <3>1. value(d) = 0 /\ value(e) = 0
      BY <1>10, <2>1
    <3>2. height(d) = <<0, 1>> /\ height(e) = <<0, 1>>
      BY <1>10, <2>1
    <3> QED  BY <3>1, <3>2
  <2>2. CASE scale # 0
    <3>1. height(d)[1] = value(d) /\ height(d)[2] = scale /\ height(e)[1] = value(e) /\ height(e)[2] = scale
      BY <1>10, <2>2
    <3>2. value(d) \in Nat /\ value(e) \in Nat
      BY <1>10
    <3> QED  BY <1>4, <2>2, <3>1, <3>2, FractionsAreOrdered
  <2> QED  BY <2>1, <2>2
<1>15. (\E d \in drawn : value(d) > 0) => \E d \in drawn : height(d)[1] = height(d)[2]
  <2> SUFFICES ASSUME NEW d \in drawn, value(d) > 0
               PROVE  \E e \in drawn : height(e)[1] = height(e)[2]
    OBVIOUS
  <2>1. scale # 0
    BY <1>4, <1>10
  <2>2. PICK e \in drawn : value(e) = scale
    BY <1>12, <2>1
  <2>3. height(e) = <<value(e), scale>>
    BY <1>10, <2>1
  <2> QED  BY <2>2, <2>3
<1> QED  BY <1>11, <1>13, <1>14, <1>15 DEF History!TrendsShareScale, drawn, value, height, points, trends

\* The history is the newest of the accepted samples inside the retention time,
\* whatever earlier pushes dropped; a trend runs from its oldest to its latest
\* in even steps; and the two series of the network share a scale: push, its
\* two loops, trend_points and normalize_network_trends.
THEOREM HistoryIsAlwaysTrue == MonitoringSpec => []HistoryIsTrue
<1>1. HistoryIInv => HistoryIsTrue
  BY HistoryIsTheWindow, TrendsCoverHistory, TrendsAreOnOneScale DEF HistoryIsTrue
<1>2. MonitoringSpec => MonitoringSafety
  BY PTL DEF MonitoringSpec, MonitoringSafety
<1> QED  BY <1>1, <1>2, HistoryInvariance, PTL

-----------------------------------------------------------------------------
(* The network.                                                            *)

Limited == [Network!Directions -> 0..(MaxOctets + 1)]

\* Network!Counted for the counters o.
CountedBy(o, S, d) == UNION {{i} \X (1..o[i][d]) : i \in S}

\* What the interfaces of the last reading count now is no more than they had
\* counted then and the network has carried since, whichever of them came back
\* or started again in between.
NetworkIInv ==
  Counts =>
    /\ Network!TypeOK /\ Network!NeverOverReports
    /\ octets \in [Interfaces -> Limited]
    /\ previous # None => \A d \in Network!Directions :
         Cardinality(CountedBy(octets, previous.signature, d)) <= previous.sum[d] + traffic[d]

LEMMA SameFiniteSets ==
  /\ \A S : Network!IsFiniteSet(S) <=> IsFiniteSet(S)
  /\ \A S : Network!Cardinality(S) = Cardinality(S)
BY DEF Network!IsFiniteSet, IsFiniteSet, Network!Cardinality, Cardinality

LEMMA NetworkFits ==
  /\ IsFiniteSet(Interfaces) /\ CounterGap \in Nat \ {0} /\ MaxOctets \in Nat /\ MaxChanges \in Nat
  /\ Network!Zero \in Limited /\ Limited \subseteq Network!Counts
<1>1. /\ IsFiniteSet(Interfaces) /\ CounterGap \in Nat \ {0}
      /\ MaxOctets \in Nat /\ MaxChanges \in Nat
  BY PartsAssumption, SameFiniteSets DEF Network!NetworkAssumption
<1>2. 0 \in 0..(MaxOctets + 1) /\ 0..(MaxOctets + 1) \subseteq Nat
  BY <1>1
<1>3. Network!Zero \in Limited
  BY <1>2 DEF Network!Zero, Limited
<1>4. Limited \subseteq Network!Counts
  BY <1>2 DEF Network!Counts, Limited
<1> QED  BY <1>1, <1>3, <1>4

LEMMA CountedMembers ==
  ASSUME NEW o, NEW S, NEW d, NEW p
  PROVE  p \in CountedBy(o, S, d) <=> \E i \in S : \E n \in 1..o[i][d] : p = <<i, n>>
BY DEF CountedBy

\* The octets of finitely many interfaces are finitely many.
LEMMA CountedIsFinite ==
  ASSUME NEW o \in [Interfaces -> Limited], NEW S \in SUBSET Interfaces,
         NEW d \in Network!Directions
  PROVE  /\ IsFiniteSet(CountedBy(o, S, d))
         /\ Cardinality(CountedBy(o, S, d)) \in Nat
<1> DEFINE all == Interfaces \X (1..(MaxOctets + 1))
<1>1. IsFiniteSet(all)
  <2>1. IsFiniteSet(1..(MaxOctets + 1))
    BY NetworkFits, FS_Interval
  <2> QED  BY <2>1, NetworkFits, FS_Product
<1>2. CountedBy(o, S, d) \subseteq all
  <2> SUFFICES ASSUME NEW p \in CountedBy(o, S, d) PROVE p \in all
    OBVIOUS
  <2>1. PICK i \in S, n \in Int : n \in 1..o[i][d] /\ p = <<i, n>>
    BY CountedMembers
  <2>2. o[i][d] \in 0..(MaxOctets + 1)
    BY DEF Limited
  <2>3. n \in 1..(MaxOctets + 1)
    BY <2>1, <2>2, NetworkFits
  <2> QED  BY <2>1, <2>3
<1> HIDE DEF all
<1>3. IsFiniteSet(CountedBy(o, S, d))
  BY <1>1, <1>2, FS_Subset
<1> QED  BY <1>3, FS_CardinalityType

LEMMA NetworkSteps ==
  ASSUME NetworkIInv, Counts, Network!Next
  PROVE  /\ Network!TypeOK' /\ Network!NeverOverReports'
         /\ octets' \in [Interfaces -> Limited]
         /\ previous' # None => \A d \in Network!Directions :
              Cardinality(CountedBy(octets', previous'.signature, d))
                <= previous'.sum[d] + traffic'[d]
<1>0. /\ Network!TypeOK /\ Network!NeverOverReports /\ octets \in [Interfaces -> Limited]
      /\ previous # None => \A d \in Network!Directions :
           Cardinality(CountedBy(octets, previous.signature, d)) <= previous.sum[d] + traffic[d]
  BY DEF NetworkIInv
<1>t. /\ included \subseteq Interfaces
      /\ previous # None => previous.sum \in Network!Counts /\ previous.signature \subseteq Interfaces
      /\ elapsed \in 0..(CounterGap + 1) /\ traffic \in Network!Counts /\ changes \in 0..MaxChanges
  BY <1>0 DEF Network!TypeOK
<1>s. UNCHANGED rate => Network!NeverOverReports' /\
       (\/ rate' = Network!Plain(rate'.status) /\ rate'.status \in {"WarmingUp", "TemporarilyUnavailable"}
        \/ /\ rate'.status = "Available" /\ rate'.seconds \in 1..CounterGap
           /\ rate'.delta \in Network!Counts /\ rate'.carried \in Network!Counts)
  BY <1>0 DEF Network!TypeOK, Network!NeverOverReports, Network!Plain
<1>1. CASE Network!Transfer
  <2>1. PICK i \in Interfaces, e \in Network!Directions :
          /\ octets[i][e] < MaxOctets
          /\ octets' = [octets EXCEPT ![i][e] = @ + 1]
          /\ traffic' = [traffic EXCEPT ![e] = @ + 1]
          /\ UNCHANGED <<included, previous, elapsed, rate, changes>>
    BY <1>1 DEF Network!Transfer
  <2>2. octets[i] \in Limited /\ octets[i][e] \in 0..(MaxOctets + 1)
        /\ octets[i][e] + 1 \in 0..(MaxOctets + 1)
    BY <1>0, <2>1, NetworkFits DEF Limited
  <2>3. [octets[i] EXCEPT ![e] = @ + 1] \in Limited
    BY <2>2 DEF Limited
  <2>4. octets' = [octets EXCEPT ![i] = [octets[i] EXCEPT ![e] = @ + 1]]
    BY <1>0, <2>1
  <2>5. octets' \in [Interfaces -> Limited]
    BY <1>0, <2>3, <2>4
  <2>6. traffic' \in Network!Counts
    BY <1>t, <2>1 DEF Network!Counts
  <2>7. Network!TypeOK' /\ Network!NeverOverReports'
    BY <1>t, <1>s, <2>1, <2>5, <2>6, NetworkFits DEF Network!TypeOK
  <2>8. ASSUME previous # None, NEW d \in Network!Directions
        PROVE  Cardinality(CountedBy(octets', previous.signature, d))
                 <= previous.sum[d] + traffic'[d]
    <3> DEFINE S == previous.signature
               old == CountedBy(octets, S, d)
               new == CountedBy(octets', S, d)
               more == IF d = e THEN old \cup {<<i, octets[i][e] + 1>>} ELSE old
    <3>1. S \subseteq Interfaces /\ IsFiniteSet(old) /\ Cardinality(old) \in Nat
          /\ Cardinality(old) <= previous.sum[d] + traffic[d]
          /\ previous.sum[d] \in Nat /\ traffic[d] \in Nat
      BY <1>0, <1>t, <2>8, CountedIsFinite DEF Network!Counts
    <3>2. traffic'[d] = IF d = e THEN traffic[d] + 1 ELSE traffic[d]
      BY <1>t, <2>1, <2>8 DEF Network!Counts
    <3>3. new \subseteq more
      <4> SUFFICES ASSUME NEW p \in new PROVE p \in more
        OBVIOUS
      <4>1. PICK j \in S, n \in Int : n \in 1..octets'[j][d] /\ p = <<j, n>>
        BY CountedMembers
      <4>2. octets'[j][d] = IF j = i /\ d = e THEN octets[i][e] + 1 ELSE octets[j][d]
        BY <1>0, <2>4, <2>8, <3>1 DEF Limited
      <4>3. CASE j = i /\ d = e /\ n = octets[i][e] + 1
        BY <4>1, <4>3
      <4>4. CASE n \in 1..octets[j][d]
        BY <4>1, <4>4, CountedMembers
      <4> QED  BY <2>2, <4>1, <4>2, <4>3, <4>4
    <3>4. /\ IsFiniteSet(more)
          /\ Cardinality(more) <= IF d = e THEN Cardinality(old) + 1 ELSE Cardinality(old)
          /\ Cardinality(more) \in Nat
      <4>1. LET larger == old \cup {<<i, octets[i][e] + 1>>}
            IN  /\ IsFiniteSet(larger) /\ Cardinality(larger) \in Nat
                /\ Cardinality(larger) <= Cardinality(old) + 1
        <5> HIDE DEF old
        <5>1. /\ IsFiniteSet(old \cup {<<i, octets[i][e] + 1>>})
              /\ Cardinality(old \cup {<<i, octets[i][e] + 1>>})
                   = IF <<i, octets[i][e] + 1>> \in old THEN Cardinality(old) ELSE Cardinality(old) + 1
          BY <3>1, FS_AddElement
        <5> QED  BY <3>1, <5>1
      <4> HIDE DEF old
      <4> QED  BY <3>1, <4>1
    <3>5. Cardinality(new) <= Cardinality(more) /\ Cardinality(new) \in Nat
      BY <3>3, <3>4, FS_Subset, FS_CardinalityType
    <3> HIDE DEF old, new, more
    <3>6. Cardinality(new) <= previous.sum[d] + traffic'[d]
      BY <3>1, <3>2, <3>4, <3>5
    <3> QED  BY <3>6 DEF new
  <2> QED  BY <2>1, <2>5, <2>7, <2>8
<1>2. CASE Network!ComesOrGoes \/ Network!Tick \/ Network!Late
  <2>1. UNCHANGED <<octets, previous, traffic, rate>>
    BY <1>2 DEF Network!ComesOrGoes, Network!Tick, Network!Late
  <2>2. included' \subseteq Interfaces /\ elapsed' \in 0..(CounterGap + 1)
        /\ changes' \in 0..MaxChanges
    BY <1>2, <1>t, NetworkFits DEF Network!ComesOrGoes, Network!Tick, Network!Late, Network!Change
  <2>3. Network!TypeOK' /\ Network!NeverOverReports'
    BY <1>0, <1>t, <1>s, <2>1, <2>2 DEF Network!TypeOK
  <2>4. \A S, d : CountedBy(octets', S, d) = CountedBy(octets, S, d)
    BY <2>1
  <2> QED  BY <1>0, <2>1, <2>3, <2>4
<1>3. CASE Network!Reset
  <2>1. PICK i \in Interfaces : octets' = [octets EXCEPT ![i] = Network!Zero]
    BY <1>3 DEF Network!Reset
  <2>2. UNCHANGED <<included, previous, elapsed, traffic, rate>> /\ changes' \in 0..MaxChanges
    BY <1>3, <1>t, NetworkFits DEF Network!Reset, Network!Change
  <2>3. octets' \in [Interfaces -> Limited]
    BY <1>0, <2>1, NetworkFits
  <2>4. Network!TypeOK' /\ Network!NeverOverReports'
    BY <1>t, <1>s, <2>2, <2>3, NetworkFits DEF Network!TypeOK
  <2>5. ASSUME previous # None, NEW d \in Network!Directions
        PROVE  Cardinality(CountedBy(octets', previous.signature, d))
                 <= previous.sum[d] + traffic[d]
    <3> DEFINE S == previous.signature
               old == CountedBy(octets, S, d)
               new == CountedBy(octets', S, d)
    <3>1. S \subseteq Interfaces /\ IsFiniteSet(old) /\ Cardinality(old) \in Nat
          /\ Cardinality(old) <= previous.sum[d] + traffic[d]
          /\ previous.sum[d] \in Nat /\ traffic[d] \in Nat
      BY <1>0, <1>t, <2>5, CountedIsFinite DEF Network!Counts
    <3>2. new \subseteq old
      <4> SUFFICES ASSUME NEW p \in new PROVE p \in old
        OBVIOUS
      <4>1. PICK j \in S, n \in Int : n \in 1..octets'[j][d] /\ p = <<j, n>>
        BY CountedMembers
      <4>2. octets'[j] = IF j = i THEN Network!Zero ELSE octets[j]
        BY <1>0, <2>1, <3>1
      <4>3. j # i
        BY <2>5, <4>1, <4>2 DEF Network!Zero
      <4> QED  BY <4>1, <4>2, <4>3, CountedMembers
    <3>3. Cardinality(new) <= Cardinality(old) /\ Cardinality(new) \in Nat
      BY <3>1, <3>2, FS_Subset, FS_CardinalityType
    <3> HIDE DEF old, new
    <3>4. Cardinality(new) <= previous.sum[d] + traffic[d]
      BY <3>1, <3>3
    <3> QED  BY <3>4 DEF new
  <2> QED  BY <2>2, <2>3, <2>4, <2>5
<1>r. /\ Network!Reading.signature = included
      /\ \A d \in Network!Directions :
           /\ Network!Reading.sum[d] = Cardinality(CountedBy(octets, included, d))
           /\ Network!Reading.sum[d] \in Nat
      /\ Network!Reading.sum \in Network!Counts
  <2>1. \A d \in Network!Directions : Cardinality(CountedBy(octets, included, d)) \in Nat
    BY <1>0, <1>t, CountedIsFinite
  <2> QED  BY <2>1, SameFiniteSets DEF Network!Reading, Network!Counts, Network!Counted, CountedBy
<1>4. CASE Network!Sample
  <2>1. /\ rate' = Network!SampleOf(Network!Reading)
        /\ previous' = Network!Reading /\ elapsed' = 0 /\ traffic' = Network!Zero
        /\ UNCHANGED <<octets, included, changes>>
    BY <1>4 DEF Network!Sample
  <2>2. \A S, d : CountedBy(octets', S, d) = CountedBy(octets, S, d)
    BY <2>1
  <2>3. \A d \in Network!Directions : Cardinality(CountedBy(octets', previous'.signature, d))
                                        <= previous'.sum[d] + traffic'[d]
    <3> SUFFICES ASSUME NEW d \in Network!Directions
                 PROVE  Cardinality(CountedBy(octets, included, d)) <= Network!Reading.sum[d] + 0
      BY <1>r, <2>1, <2>2 DEF Network!Zero
    <3> QED  BY <1>r
  <2>4. CASE rate' = Network!Plain("WarmingUp")
    <3>1. Network!NeverOverReports'
      BY <2>4 DEF Network!NeverOverReports, Network!Plain
    <3>2. Network!TypeOK'
      BY <1>0, <1>t, <1>r, <2>1, <2>4, NetworkFits DEF Network!TypeOK, Network!Plain
    <3> QED  BY <1>0, <2>1, <2>3, <3>1, <3>2
  <2>5. CASE rate' # Network!Plain("WarmingUp")
    <3> DEFINE delta == [d \in Network!Directions |-> Network!Reading.sum[d] - previous.sum[d]]
    <3>1. /\ previous # None /\ elapsed \in 1..CounterGap
          /\ previous.signature = included
          /\ \A d \in Network!Directions : previous.sum[d] <= Network!Reading.sum[d]
          /\ rate' = [status |-> "Available", seconds |-> elapsed, carried |-> traffic,
                      delta |-> delta]
      BY <1>r, <2>1, <2>5 DEF Network!SampleOf, Network!Usable, Network!Comparable
    <3>2. \A d \in Network!Directions : delta[d] \in Nat /\ delta[d] <= traffic[d]
      <4> SUFFICES ASSUME NEW d \in Network!Directions
                   PROVE  delta[d] \in Nat /\ delta[d] <= traffic[d]
        OBVIOUS
      <4>1. /\ previous.sum[d] \in Nat /\ traffic[d] \in Nat /\ Network!Reading.sum[d] \in Nat
            /\ previous.sum[d] <= Network!Reading.sum[d]
        BY <1>r, <1>t, <3>1 DEF Network!Counts
      <4>2. Network!Reading.sum[d] <= previous.sum[d] + traffic[d]
        BY <1>0, <1>r, <3>1
      <4>3. delta[d] = Network!Reading.sum[d] - previous.sum[d]
        OBVIOUS
      <4> QED  BY <4>1, <4>2, <4>3
    <3>3. delta \in Network!Counts
      BY <3>2 DEF Network!Counts
    <3> HIDE DEF delta
    <3>4. rate'.status = "Available" /\ rate'.seconds = elapsed /\ rate'.carried = traffic
          /\ rate'.delta = delta
      BY <3>1
    <3>5. Network!NeverOverReports'
      BY <3>2, <3>4 DEF Network!NeverOverReports
    <3>6. Network!TypeOK'
      BY <1>0, <1>t, <1>r, <2>1, <3>1, <3>3, <3>4, NetworkFits DEF Network!TypeOK
    <3> QED  BY <1>0, <2>1, <2>3, <3>5, <3>6
  <2> QED  BY <2>4, <2>5
<1>5. CASE Network!SampleFails
  <2>1. /\ rate' = Network!Plain("TemporarilyUnavailable") /\ previous' = None
        /\ elapsed' = 0 /\ traffic' = Network!Zero
        /\ UNCHANGED <<octets, included>> /\ changes' \in 0..MaxChanges
    BY <1>5, <1>t, NetworkFits DEF Network!SampleFails, Network!Change
  <2>2. Network!NeverOverReports'
    BY <2>1 DEF Network!NeverOverReports, Network!Plain
  <2>3. Network!TypeOK'
    BY <1>0, <1>t, <2>1, NetworkFits DEF Network!TypeOK, Network!Plain
  <2> QED  BY <1>0, <2>1, <2>2, <2>3
<1> QED  BY <1>1, <1>2, <1>3, <1>4, <1>5 DEF Network!Next

LEMMA NetworkInvariance == MonitoringSafety => []NetworkIInv
<1>1. MonitoringInit => NetworkIInv
  <2> SUFFICES ASSUME MonitoringInit, Counts PROVE NetworkIInv
    BY DEF NetworkIInv
  <2>1. Network!Init
    BY DEF MonitoringInit
  <2>2. octets \in [Interfaces -> Limited]
    <3>1. {Network!Zero, [Network!Zero EXCEPT !["received"] = 1]} \subseteq Limited
      <4>1. 1 \in 0..(MaxOctets + 1) /\ Network!Zero \in Limited
        BY NetworkFits
      <4> QED  BY <4>1 DEF Limited
    <3> QED  BY <2>1, <3>1 DEF Network!Init
  <2>3. included \subseteq Interfaces
    BY <2>1 DEF Network!Init
  <2>4. \A d \in Network!Directions : Cardinality(CountedBy(octets, included, d)) \in Nat
    BY <2>2, <2>3, CountedIsFinite
  <2>5. Network!Reading.signature = included /\ Network!Reading.sum \in Network!Counts
        /\ \A d \in Network!Directions :
             Network!Reading.sum[d] = Cardinality(CountedBy(octets, included, d))
    BY <2>4, SameFiniteSets DEF Network!Reading, Network!Counts, Network!Counted, CountedBy
  <2>6. previous # None => \A d \in Network!Directions :
          Cardinality(CountedBy(octets, previous.signature, d)) <= previous.sum[d] + traffic[d]
    BY <2>1, <2>4, <2>5 DEF Network!Init, Network!Zero
  <2>7. Network!TypeOK
    BY <2>1, <2>2, <2>3, <2>5, NetworkFits DEF Network!TypeOK, Network!Init, Network!Plain
  <2>8. Network!NeverOverReports
    BY <2>1 DEF Network!NeverOverReports, Network!Init, Network!Plain
  <2> QED  BY <2>2, <2>6, <2>7, <2>8 DEF NetworkIInv
<1>2. NetworkIInv /\ [MonitoringNext]_monitoringVars => NetworkIInv'
  <2> SUFFICES ASSUME NetworkIInv, [MonitoringNext]_monitoringVars, Counts' PROVE NetworkIInv'
    BY DEF NetworkIInv
  <2>1. Counts
    BY DEF MonitoringNext, monitoringVars, Counts
  <2>2. CASE Network!Next
    BY <2>1, <2>2, NetworkSteps DEF NetworkIInv
  <2>3. CASE UNCHANGED networkVars
    BY <2>1, <2>3 DEF NetworkIInv, networkVars, Network!TypeOK, Network!NeverOverReports,
                      Network!Plain
  <2> QED  BY <2>1, <2>2, <2>3 DEF MonitoringNext, monitoringVars, Works, Records, Counts
<1> QED  BY <1>1, <1>2, PTL DEF MonitoringSafety

\* Whichever interfaces come, go or start counting again, and however late a sample
\* is, a rate that is shown (sample_network, calculate_network_throughput) is never
\* larger than what the network has carried in its time.
THEOREM RatesNeverOverReport == MonitoringSpec => []NeverOverReports
<1>1. NetworkIInv => NeverOverReports
  BY DEF NetworkIInv, NeverOverReports
<1>2. MonitoringSpec => MonitoringSafety
  BY PTL DEF MonitoringSpec, MonitoringSafety
<1> QED  BY <1>1, <1>2, NetworkInvariance, PTL

===============================================================================
