---------------------------- MODULE MetricHistory ----------------------------
(***************************************************************************)
(* The history of samples kept by the monitor thread, and the trends drawn *)
(* from it.  An Instant counts from the boot of the machine, which is 0.   *)
(***************************************************************************)
EXTENDS Integers, Sequences, SequencesExt, FiniteSets

CONSTANTS
  Readings,        \* what a sample may hold for the network, see ReadingAssumption
  Missing,         \* None: the counter was not available
  Infinite,        \* a number that is not finite
  Retention,       \* DEFAULT_HISTORY_RETENTION, 5 min
  MaxSamples,      \* DEFAULT_HISTORY_MAX_SAMPLES, 301
  TrendPointLimit, \* TREND_POINT_LIMIT, 48
  MaxTime,         \* bound: latest time of a sample
  MaxPushes        \* bound: samples offered

HistoryAssumption ==
  {Retention, MaxSamples, TrendPointLimit, MaxTime, MaxPushes} \subseteq Nat \ {0}

ReadingAssumption ==
  \A r \in Readings : {r.received, r.transmitted} \subseteq Int \cup {Missing, Infinite}

Time == 0..MaxTime
Snapshot == [at : Time, reading : Readings]

VARIABLES
  snapshots, \* MetricHistory::snapshots, oldest first
  accepted   \* history: every sample push accepted

vars == <<snapshots, accepted>>

TypeOK ==
  /\ snapshots \in Seq(Snapshot) /\ accepted \in Seq(Snapshot)
  /\ \A i, j \in DOMAIN snapshots : i < j => snapshots[i].at <= snapshots[j].at

Init == snapshots = <<>> /\ accepted = <<>>

\* s without its first n samples.
Without(s, n) == SubSeq(s, n + 1, Len(s))

\* A sample as old as the cutoff goes as well.
RecentFaulty(s, cutoff) ==
  Without(s, CHOOSE n \in 0..Len(s) : /\ \A i \in 1..n : s[i].at <= cutoff
                                      /\ n < Len(s) => s[n + 1].at > cutoff)

\* The first loop of push: the front goes as long as it is older than the cutoff.
Recent(s, cutoff) ==
  Without(s, CHOOSE n \in 0..Len(s) : /\ \A i \in 1..n : s[i].at < cutoff
                                      /\ n < Len(s) => s[n + 1].at >= cutoff)

\* The n newest samples of s.
Newest(s, n) == Without(s, Len(s) - n)

\* The two loops of push.  checked_sub finds no cutoff on a machine that was
\* booted less than Retention ago: neither loop runs.
Trim(s, now) ==
  IF now < Retention THEN s
  ELSE LET r == Recent(s, now - Retention)
       IN IF Len(r) > MaxSamples THEN Newest(r, MaxSamples) ELSE r

\* A sample older than the latest is refused.
InOrder(at) == snapshots # <<>> => Last(snapshots).at <= at

Push(at, r) ==
  /\ InOrder(at)
  /\ LET x == [at |-> at, reading |-> r]
     IN /\ snapshots' = Trim(Append(snapshots, x), at)
        /\ accepted' = Append(accepted, x)

Refuse(at) == ~InOrder(at) /\ UNCHANGED vars

Next ==
  /\ Len(accepted) < MaxPushes
  /\ \E at \in Time : Refuse(at) \/ \E r \in Readings : Push(at, r)

Spec == Init /\ [][Next]_vars

-----------------------------------------------------------------------------
(* trend_points *)

Smaller(a, b) == IF a < b THEN a ELSE b

TrendIndicesFaulty(n, limit) ==
  LET out == Smaller(n, limit)
  IN IF out = 1 THEN <<n - 1>> ELSE [k \in 1..out |-> ((k - 1) * n) \div out]

\* The indices of the samples shown (0-based), for n samples and at most limit
\* points.
TrendIndices(n, limit) ==
  LET out == Smaller(n, limit)
  IN IF out = 1 THEN <<n - 1>>
     ELSE [k \in 1..out |-> ((k - 1) * (n - 1)) \div (out - 1)]

TrendPoints(limit) ==
  LET indices == TrendIndices(Len(snapshots), limit)
  IN [k \in DOMAIN indices |-> snapshots[indices[k] + 1]]

(* normalize_network_trends: a fraction is a pair of numerator and denominator. *)

Valid(v) == v \notin {Missing, Infinite}
AtLeastZero(v) == IF v < 0 THEN 0 ELSE v

ScaleFaulty(received, transmitted) ==
  LET values == {v \in Range(received) : Valid(v)}
  IN Max({AtLeastZero(v) : v \in values} \cup {0})

\* The largest valid value of both series.
Scale(received, transmitted) ==
  LET values == {v \in Range(received) \cup Range(transmitted) : Valid(v)}
  IN Max({AtLeastZero(v) : v \in values} \cup {0})

NormalizeBy(scale, values) ==
  [k \in DOMAIN values |->
     IF ~Valid(values[k]) THEN Missing
     ELSE IF scale = 0 THEN <<0, 1>>
     ELSE <<Smaller(AtLeastZero(values[k]), scale), scale>>]

NetworkTrends ==
  LET points == TrendPoints(TrendPointLimit)
      received == [k \in DOMAIN points |-> points[k].reading.received]
      transmitted == [k \in DOMAIN points |-> points[k].reading.transmitted]
      scale == Scale(received, transmitted)
  IN [received |-> NormalizeBy(scale, received),
      transmitted |-> NormalizeBy(scale, transmitted)]

-----------------------------------------------------------------------------
(* Properties. *)

\* The history is the accepted samples of the last Retention, and of these no
\* more than MaxSamples, the newest, whatever was dropped at earlier pushes;
\* on a machine just booted it is all of them.
HistoryIsWindow ==
  accepted # <<>> =>
    LET now == Last(accepted).at
        kept == {i \in DOMAIN accepted :
                   now >= Retention => /\ accepted[i].at + Retention >= now
                                       /\ i > Len(accepted) - MaxSamples}
    IN /\ Len(snapshots) = Cardinality(kept)
       /\ snapshots = Newest(accepted, Cardinality(kept))

\* A trend of two points or more begins with the oldest sample and ends with
\* the latest, shows no sample twice, and skips evenly: two neighbouring gaps
\* differ by at most one sample.  A trend of one point shows the latest.
TrendCoversHistory ==
  \A limit \in 1..TrendPointLimit : snapshots # <<>> =>
    LET indices == TrendIndices(Len(snapshots), limit)
        gaps == {indices[k + 1] - indices[k] : k \in 1..(Len(indices) - 1)}
    IN /\ Len(indices) = Smaller(limit, Len(snapshots))
       /\ Last(indices) = Len(snapshots) - 1
       /\ limit > 1 => Head(indices) = 0
       /\ \A g, h \in gaps : g >= 1 /\ g - h <= 1

\* The two series of the network are drawn on one scale: a larger value of
\* either is never drawn lower, nothing leaves the frame, the largest value
\* fills it, and a missing value is drawn nowhere.
TrendsShareScale ==
  LET points == TrendPoints(TrendPointLimit)
      trends == NetworkTrends
      series == {"received", "transmitted"}
      drawn == {d \in series \X DOMAIN points : Valid(points[d[2]].reading[d[1]])}
      value(d) == AtLeastZero(points[d[2]].reading[d[1]])
      height(d) == trends[d[1]][d[2]]
  IN /\ \A d \in (series \X DOMAIN points) \ drawn : height(d) = Missing
     /\ \A d \in drawn : height(d)[1] \in 0..height(d)[2]
     /\ \A d, e \in drawn :
          value(d) <= value(e) <=> height(d)[1] * height(e)[2] <= height(e)[1] * height(d)[2]
     /\ (\E d \in drawn : value(d) > 0) => \E d \in drawn : height(d)[1] = height(d)[2]

\* The history never holds more than MaxSamples, as
\* docs/reports/2026-07-31-p3-monitoring-core-batch-2.md:9 says.
NeverTooLong == Len(snapshots) <= MaxSamples

=============================================================================
