---------------------------- MODULE MCMonitoring ----------------------------
(***************************************************************************)
(* Monitoring in three parts: the worker that decides when to sample, the  *)
(* history and trends of what it samples, and the network rates in a       *)
(* sample.  A behaviour shows one part; the others rest in an initial      *)
(* state.                                                                  *)
(***************************************************************************)
EXTENDS MonitorWorker, Integers

CONSTANTS
  None, Missing, Infinite,
  Readings, Retention, MaxSamples, TrendPointLimit, MaxTime, MaxPushes,  \* MetricHistory
  Interfaces, CounterGap, MaxOctets, MaxChanges  \* NetworkSampler, its MaxGap

VARIABLES
  part,
  snapshots, accepted,  \* MetricHistory
  octets, included, previous, elapsed, traffic, rate, changes  \* NetworkSampler

\* Three readings: one side idle, one side unknown, both meaningful.
MCReadings == {
  [received |-> 3, transmitted |-> 0],
  [received |-> Missing, transmitted |-> 5],
  [received |-> -1, transmitted |-> Infinite]}

History == INSTANCE MetricHistory
Network == INSTANCE NetworkSampler WITH MaxGap <- CounterGap, shown <- rate

ASSUME PartsAssumption ==
  /\ History!HistoryAssumption /\ History!ReadingAssumption
  /\ Network!NetworkAssumption

historyVars == <<snapshots, accepted>>
networkVars == <<octets, included, previous, elapsed, traffic, rate, changes>>
monitoringVars == <<part, vars, historyVars, networkVars>>

Works   == part = "worker"
Records == part = "history"
Counts  == part = "network"

\* Where a part is not the one shown, one initial state of it is enough.
MonitoringInit ==
  /\ part \in {"worker", "history", "network"}
  /\ Init /\ (~Works => \A i \in Intervals : interval <= i)
  /\ History!Init
  /\ Network!Init
  /\ ~Counts => /\ included = {} /\ previous = None
                /\ \A i \in Interfaces : octets[i]["received"] = 0

MonitoringNext ==
  \/ Works   /\ Next         /\ UNCHANGED <<part, historyVars, networkVars>>
  \/ Records /\ History!Next /\ UNCHANGED <<part, vars, networkVars>>
  \/ Counts  /\ Network!Next /\ UNCHANGED <<part, vars, historyVars>>

\* The fairness of the specifications, each for its own part.
MonitoringSpec ==
  /\ MonitoringInit /\ [][MonitoringNext]_monitoringVars
  /\ WF_vars(Works /\ Work) /\ WF_vars(Works /\ Deliver) /\ WF_vars(Works /\ Tick)
  /\ WF_networkVars(Counts /\ Network!Sample) /\ WF_networkVars(Counts /\ Network!Tick)

-----------------------------------------------------------------------------
(* Properties: those of the three modules. *)

\* The worker samples at the rate of the window, and nothing but a command puts
\* a sample off.
WorkerKeepsPace == Works => TypeOK /\ WorkerFollowsWindow /\ PostponedByCommandsOnly

\* The history is the newest of the accepted samples inside the retention time;
\* its trends run from the oldest to the latest and share a scale.
HistoryIsTrue ==
  Records => /\ History!TypeOK
             /\ History!HistoryIsWindow
             /\ History!TrendCoversHistory
             /\ History!TrendsShareScale

\* No rate is larger than what the network carried.
NeverOverReports == Counts => Network!TypeOK /\ Network!NeverOverReports

\* A page that is opened is refreshed, the drop of the worker ends, and rates
\* come back after every disturbance.
MonitoringGoesOn == OpenPageIsRefreshed /\ WorkerEnds /\ []<>(Counts => Network!RateShows)

==============================================================================
