---------------------------- MODULE MonitorWorker ----------------------------
(***************************************************************************)
(* The thread "system-monitor": it waits for a command or for its period   *)
(* to elapse, samples, and posts what it sampled to the event loop while   *)
(* the monitor page shows.  Time is counted in units of a few seconds.     *)
(***************************************************************************)
EXTENDS Naturals, Sequences

CONSTANTS
  Intervals,       \* sampling periods the user may choose, in units of time
  BackgroundDelay, \* 10 s
  HiddenDelay,     \* 20 s
  FirstDelay,      \* 250 ms
  MaxGap,          \* MAX_COUNTER_SAMPLE_GAP, 30 s
  MaxCommands,     \* bound: commands in the channel
  MaxPostponed,    \* bound: commands since the last sample are counted up to it
  MaxPosted        \* bound: snapshots on their way to the event loop

ASSUME MonitorAssumption ==
  /\ Intervals # {} /\ Intervals \subseteq Nat \ {0}
  /\ {BackgroundDelay, HiddenDelay, FirstDelay, MaxGap} \subseteq Nat \ {0}
  /\ \A i \in Intervals : i <= HiddenDelay
  /\ BackgroundDelay <= HiddenDelay /\ FirstDelay <= HiddenDelay
  /\ {MaxCommands, MaxPostponed, MaxPosted} \subseteq Nat \ {0}

\* bound: the age of the last sample is counted up to it
MaxAge == (MaxPostponed + 1) * HiddenDelay + 1

Activity == {"Interactive", "Background", "Hidden"}

SetActivity(a) == [kind |-> "SetActivity", activity |-> a]
SetInterval(i) == [kind |-> "SetInteractiveInterval", interval |-> i]
Stop           == [kind |-> "Stop"]
Command == {SetActivity(a) : a \in Activity} \cup {SetInterval(i) : i \in Intervals} \cup {Stop}

VARIABLES
  shown,     \* event loop: monitor_activity of the window as it is now
  fresh,     \* event loop: the page shows a snapshot taken since it was opened
  exiting,   \* event loop: it has ended, and the worker is being dropped
  commands,  \* the channel to the worker
  running,   \* worker: its loop has not been left
  activity,  \* worker
  interval,  \* worker: interactive_interval
  delay,     \* worker: what recv_timeout waits for
  waited,    \* worker: for how long it has
  age,       \* history: time since the last sample
  sampled,   \* history: a sample has been taken
  postponed, \* history: commands received since the last sample
  posted     \* closures of upgrade_in_event_loop not run yet: for each, whether
             \* its snapshot was taken since the page was opened

uiVars == <<shown, fresh, exiting>>
workerVars == <<running, activity, interval, delay, waited, age, sampled, postponed>>
vars == <<uiVars, commands, workerVars, posted>>

TypeOK ==
  /\ shown \in Activity /\ fresh \in BOOLEAN /\ exiting \in BOOLEAN
  /\ commands \in Seq(Command)
  /\ running \in BOOLEAN /\ activity \in Activity /\ interval \in Intervals
  /\ delay \in {FirstDelay, BackgroundDelay, HiddenDelay} \cup Intervals
  /\ waited \in 0..delay
  /\ age \in 0..MaxAge /\ postponed \in 0..MaxPostponed
  /\ sampled \in BOOLEAN
  /\ posted \in Seq(BOOLEAN) /\ Len(posted) <= MaxPosted

\* MonitorActivity::sample_interval
SampleInterval(a, i) ==
  CASE a = "Interactive" -> i
    [] a = "Background"  -> BackgroundDelay
    [] a = "Hidden"      -> HiddenDelay

Init ==
  /\ shown = "Background" /\ fresh = FALSE /\ exiting = FALSE
  /\ commands = <<SetActivity("Background")>>
  /\ running = TRUE /\ activity = "Background" /\ interval \in Intervals
  /\ delay = FirstDelay /\ waited = 0
  /\ age = 0 /\ sampled = FALSE /\ postponed = 0
  /\ posted = <<>>

-----------------------------------------------------------------------------
(* The event loop. *)

MaySend == ~exiting /\ Len(commands) < MaxCommands

\* notify_monitor_activity, after any change of the window, whether or not the
\* activity differs.
WindowChanges ==
  /\ MaySend
  /\ \E a \in Activity :
       /\ shown' = a
       /\ fresh' = (fresh /\ a = shown)
       /\ posted' = [i \in DOMAIN posted |-> posted[i] /\ a = shown]
       /\ commands' = Append(commands, SetActivity(a))
  /\ UNCHANGED <<exiting, workerVars>>

\* select_monitor_sample_interval
SelectInterval ==
  /\ MaySend
  /\ \E i \in Intervals : commands' = Append(commands, SetInterval(i))
  /\ UNCHANGED <<uiVars, workerVars, posted>>

\* A posted closure looks at the window again before it touches it.
\* should_update_trends is monitor_activity = Interactive.
Deliver ==
  /\ ~exiting /\ posted # <<>>
  /\ posted' = Tail(posted)
  /\ fresh' = (fresh \/ (shown = "Interactive" /\ Head(posted)))
  /\ UNCHANGED <<shown, exiting, commands, workerVars>>

ExitFaulty ==
  /\ ~exiting
  /\ exiting' = TRUE
  /\ UNCHANGED <<shown, fresh, commands, workerVars, posted>>

\* The event loop has returned; Drop for MonitorWorker sends Stop and joins.
Exit ==
  /\ ~exiting
  /\ exiting' = TRUE
  /\ commands' = Append(commands, Stop)
  /\ UNCHANGED <<shown, fresh, workerVars, posted>>

-----------------------------------------------------------------------------
(* The worker. *)

Wait(d) == delay' = d /\ waited' = 0

\* The page has not been left by an event the worker has yet to receive.
StillOpen == \A i \in DOMAIN commands' :
  commands'[i].kind = "SetActivity" => commands'[i].activity = "Interactive"

\* The loop from sampler.sample() on.  Instant never goes back, so that the
\* history accepts every sample.  Posting fails once the event loop has ended.
SampleAs(a) ==
  /\ age' = 0 /\ sampled' = TRUE /\ postponed' = 0
  /\ UNCHANGED interval
  /\ \/ /\ a # "Interactive"
        /\ running' = TRUE /\ Wait(SampleInterval(a, interval))
        /\ UNCHANGED posted
     \/ /\ a = "Interactive" /\ ~exiting /\ Len(posted) < MaxPosted
        /\ posted' = Append(posted, StillOpen)
        /\ running' = TRUE /\ Wait(SampleInterval(a, interval))
     \/ /\ a = "Interactive" /\ exiting
        /\ running' = FALSE
        /\ UNCHANGED <<delay, waited, posted>>

Postpone == postponed' = IF postponed < MaxPostponed THEN postponed + 1 ELSE postponed

Receive(c) ==
  /\ running /\ commands # <<>> /\ Head(commands) = c
  /\ commands' = Tail(commands)
  /\ UNCHANGED uiVars

\* SetActivity of the activity it has: continue, with the wait starting over.
ReceiveSameActivity ==
  /\ Receive(SetActivity(activity))
  /\ Postpone /\ Wait(delay)
  /\ UNCHANGED <<running, activity, interval, age, sampled, posted>>

ReceiveQuietActivityFaulty ==
  \E a \in Activity \ {"Interactive", activity} :
    /\ Receive(SetActivity(a))
    /\ activity' = a
    /\ Postpone /\ Wait(delay)
    /\ UNCHANGED <<running, interval, age, sampled, posted>>

\* SetActivity of an activity that shows nothing: its period starts now.
ReceiveQuietActivity ==
  \E a \in Activity \ {"Interactive", activity} :
    /\ Receive(SetActivity(a))
    /\ activity' = a
    /\ Postpone /\ Wait(SampleInterval(a, interval))
    /\ UNCHANGED <<running, interval, age, sampled, posted>>

ReceiveInteractiveFaulty ==
  /\ activity # "Interactive"
  /\ Receive(SetActivity("Interactive"))
  /\ activity' = "Interactive"
  /\ Postpone /\ Wait(SampleInterval("Interactive", interval))
  /\ UNCHANGED <<running, interval, age, sampled, posted>>

\* SetActivity(Interactive): sample at once.
ReceiveInteractive ==
  /\ activity # "Interactive"
  /\ Receive(SetActivity("Interactive"))
  /\ activity' = "Interactive"
  /\ SampleAs("Interactive")

ReceiveInterval ==
  \E i \in Intervals :
    /\ Receive(SetInterval(i))
    /\ interval' = i
    /\ Postpone /\ Wait(SampleInterval(activity, i))
    /\ UNCHANGED <<running, activity, age, sampled, posted>>

ReceiveStop ==
  /\ Receive(Stop)
  /\ running' = FALSE
  /\ UNCHANGED <<activity, interval, delay, waited, age, sampled, postponed, posted>>

TimeoutSampleFaulty ==
  /\ running /\ commands = <<>> /\ waited = delay
  /\ UNCHANGED <<uiVars, commands, activity>>
  /\ IF activity = "Hidden"
       THEN Wait(delay) /\ UNCHANGED <<running, interval, age, sampled, postponed, posted>>
       ELSE SampleAs(activity)

\* recv_timeout times out.
TimeoutSample ==
  /\ running /\ commands = <<>> /\ waited = delay
  /\ UNCHANGED <<uiVars, commands, activity>>
  /\ SampleAs(activity)

\* Time passes while the worker has nothing to do.
Tick ==
  /\ running /\ commands = <<>> /\ waited < delay
  /\ waited' = waited + 1
  /\ age' = IF age < MaxAge THEN age + 1 ELSE age
  /\ UNCHANGED <<uiVars, commands, running, activity, interval, delay, sampled, postponed, posted>>

-----------------------------------------------------------------------------

Work ==
  \/ ReceiveSameActivity \/ ReceiveQuietActivity \/ ReceiveInteractive
  \/ ReceiveInterval \/ ReceiveStop \/ TimeoutSample

Next == WindowChanges \/ SelectInterval \/ Deliver \/ Exit \/ Work \/ Tick

\* The worker runs, the event loop runs what is posted, and time passes.
Spec == Init /\ [][Next]_vars /\ WF_vars(Work) /\ WF_vars(Deliver) /\ WF_vars(Tick)

-----------------------------------------------------------------------------
(* Properties. *)

\* When the channel is drained the worker samples at the rate of the window as
\* it is, and with the period the user chose last.
WorkerFollowsWindow ==
  running /\ commands = <<>> =>
    /\ activity = shown
    /\ delay # FirstDelay => delay = SampleInterval(activity, interval)

\* Each command received puts the next sample off by at most one period, and
\* nothing else does.
PostponedByCommandsOnly ==
  running /\ postponed < MaxPostponed => age <= (postponed + 1) * HiddenDelay

\* Opening the monitor page shows a snapshot taken since it was opened, unless
\* the page is left or the program ends first.
OpenPageIsRefreshed ==
  (shown = "Interactive") ~> (fresh \/ shown # "Interactive" \/ exiting)

\* Dropping the worker ends: the join is not waited for in vain.
WorkerEnds == exiting ~> ~running

\* The counters of the last sample can still be used when the next is taken.
\* docs/plans/2026-07-31-p3-task5-performance-design.md:12 chose the hidden
\* period below the limit of 30 s to that end.
GapIsUsable == age <= MaxGap

\* docs/plans/2026-08-02-accurate-temperature-engine-design.md:40: temperatures,
\* which every sample reads, are read no more often than the shortest interval.
TemperatureRests ==
  [][sampled /\ (ReceiveInteractive \/ TimeoutSample) => \E i \in Intervals : i <= age]_vars

=============================================================================
