--------------------------- MODULE NetworkSampler ---------------------------
(***************************************************************************)
(* The network rates of SystemSampler: differences of counters summed over *)
(* the physical interfaces that are up, while interfaces come and go, reset*)
(* their counters, and samples fail or come late.  The rate is kept as the *)
(* difference and the time it is divided by.                               *)
(***************************************************************************)
EXTENDS Integers, FiniteSets

CONSTANTS
  Interfaces,  \* the network interfaces of the machine
  None,        \* no previous counters
  MaxGap,      \* MAX_COUNTER_SAMPLE_GAP
  MaxOctets,   \* bound: octets an interface counts, per direction
  MaxChanges   \* bound: resets, interfaces that come or go, failed or late readings

NetworkAssumption ==
  /\ IsFiniteSet(Interfaces)
  /\ MaxGap \in Nat \ {0}
  /\ MaxOctets \in Nat /\ MaxChanges \in Nat

Directions == {"received", "transmitted"}
Counts == [Directions -> Nat]
Zero == [d \in Directions |-> 0]

VARIABLES
  octets,   \* external: the counters of each interface
  included, \* external: interfaces that are up, physical and no loopback
  previous, \* previous_network
  elapsed,  \* time since it
  traffic,  \* history: what all interfaces have carried since then
  shown,    \* the value sample_network returned last
  changes   \* history

vars == <<octets, included, previous, elapsed, traffic, shown, changes>>

Plain(status) == [status |-> status, delta |-> Zero, carried |-> Zero, seconds |-> 0]

TypeOK ==
  /\ octets \in [Interfaces -> Counts] /\ included \subseteq Interfaces
  /\ previous # None => previous.sum \in Counts /\ previous.signature \subseteq Interfaces
  /\ elapsed \in 0..(MaxGap + 1) /\ traffic \in Counts /\ changes \in 0..MaxChanges
  /\ \/ shown = Plain(shown.status) /\ shown.status \in {"WarmingUp", "TemporarilyUnavailable"}
     \/ /\ shown.status = "Available" /\ shown.seconds \in 1..MaxGap
        /\ shown.delta \in Counts /\ shown.carried \in Counts

\* The octets the interfaces in S have counted in the direction d, one by one.
Counted(S, d) == UNION {{i} \X (1..octets[i][d]) : i \in S}

\* read_network_counters, which adds up the counters.  The signature of the interfaces is their set: that
\* two sets have the same 64-bit hash is left out.
Reading ==
  [sum |-> [d \in Directions |-> Cardinality(Counted(included, d))],
   signature |-> included]

\* SystemSampler::new
Init ==
  /\ octets \in [Interfaces -> {Zero, [Zero EXCEPT !["received"] = 1]}]
  /\ included \in SUBSET Interfaces
  /\ previous \in {None, Reading}
  /\ elapsed = 0 /\ traffic = Zero /\ shown = Plain("WarmingUp") /\ changes = 0

-----------------------------------------------------------------------------
(* The machine. *)

Transfer ==
  \E i \in Interfaces, d \in Directions :
    /\ octets[i][d] < MaxOctets
    /\ octets' = [octets EXCEPT ![i][d] = @ + 1]
    /\ traffic' = [traffic EXCEPT ![d] = @ + 1]
    /\ UNCHANGED <<included, previous, elapsed, shown, changes>>

Change == changes < MaxChanges /\ changes' = changes + 1

ComesOrGoes ==
  /\ Change
  /\ \E i \in Interfaces :
       included' = IF i \in included THEN included \ {i} ELSE included \cup {i}
  /\ UNCHANGED <<octets, previous, elapsed, traffic, shown>>

\* The driver starts again: its counters begin at zero.
Reset ==
  /\ Change
  /\ \E i \in Interfaces : octets' = [octets EXCEPT ![i] = Zero]
  /\ UNCHANGED <<included, previous, elapsed, traffic, shown>>

Tick ==
  /\ elapsed < MaxGap /\ elapsed' = elapsed + 1
  /\ UNCHANGED <<octets, included, previous, traffic, shown, changes>>

\* The next sample comes too late.
Late ==
  /\ Change
  /\ elapsed' = MaxGap + 1
  /\ UNCHANGED <<octets, included, previous, traffic, shown>>

-----------------------------------------------------------------------------
(* sample_network *)

\* sample_gap_is_usable
Usable(gap) == gap \in 1..MaxGap

ComparableFaulty(old, new) == \A d \in Directions : old.sum[d] <= new.sum[d]

\* calculate_network_throughput: the same interfaces, and no counter went back.
Comparable(old, new) ==
  old.signature = new.signature /\ \A d \in Directions : old.sum[d] <= new.sum[d]

SampleOf(reading) ==
  IF previous # None /\ Usable(elapsed) /\ Comparable(previous, reading)
  THEN [status |-> "Available", seconds |-> elapsed, carried |-> traffic,
        delta |-> [d \in Directions |-> reading.sum[d] - previous.sum[d]]]
  ELSE Plain("WarmingUp")

SampleFaulty ==
  /\ shown' = SampleOf(Reading)
  /\ previous' = IF previous = None \/ shown'.status = "Available" THEN Reading ELSE previous
  /\ traffic' = IF previous' = previous THEN traffic ELSE Zero
  /\ elapsed' = IF previous' = previous THEN elapsed ELSE 0
  /\ UNCHANGED <<octets, included, changes>>

Sample ==
  /\ shown' = SampleOf(Reading)
  /\ previous' = Reading /\ elapsed' = 0 /\ traffic' = Zero
  /\ UNCHANGED <<octets, included, changes>>

\* The counters cannot be read: the baseline is forgotten.
SampleFails ==
  /\ Change
  /\ shown' = Plain("TemporarilyUnavailable") /\ previous' = None
  /\ elapsed' = 0 /\ traffic' = Zero
  /\ UNCHANGED <<octets, included>>

Next == Transfer \/ ComesOrGoes \/ Reset \/ Tick \/ Late \/ Sample \/ SampleFails

\* The monitor samples; time passes.
Spec == Init /\ [][Next]_vars /\ WF_vars(Sample) /\ WF_vars(Tick)

-----------------------------------------------------------------------------
(* Properties. *)

\* A rate is never larger than what the network carried in its time, whichever
\* interfaces came, went or started counting again in between.
NeverOverReports ==
  shown.status = "Available" => \A d \in Directions : shown.delta[d] <= shown.carried[d]

\* When interfaces stay and readings succeed, rates are shown again and again:
\* every disturbance costs a sample or two, none costs all of them.
RateShows == shown.status = "Available"
WarmsUp == []<>RateShows

=============================================================================
