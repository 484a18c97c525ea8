----------------------------- MODULE GpuSensors -----------------------------
(***************************************************************************)
(* Which graphics card the temperature and the video memory that are shown *)
(* belong to.  The cards are enumerated once, when the sampler is made; at *)
(* each sample any sensor may fail to answer.  A temperature is kept as    *)
(* the card it was measured on, a use of memory as a small number.         *)
(***************************************************************************)
EXTENDS Integers, Sequences

CONSTANTS
  Machines,     \* sequences of Card
  Uses,         \* the memory a card may have in use, Absent: it has no counter
  Absent,       \* no counter instance of this card
  NoCard,       \* nothing is shown
  MaxReplugs    \* bound: times a card comes back under another LUID

Vendor == {"Intel", "NVIDIA", "AMD"}

\* vendor "other" is not supported; sensor is what the sensor service finds on it.
Card == [vendor : Vendor \cup {"other"}, software : BOOLEAN, integrated : BOOLEAN,
         dedicated : Nat, shared : Nat, budget : Nat, native : {"GPU", "board", "none"},
         sensor : {"GPU Core", "GPU Edge", "none"}]

GpuAssumption ==
  /\ \A m \in Machines : m \in Seq(Card)
  /\ NoCard \notin Nat
  /\ Uses \ {Absent} \subseteq Nat /\ MaxReplugs \in Nat

VARIABLES
  cards,       \* external: the machine
  luid,        \* external: the locally unique id of each card now
  known,       \* DxgiVideoAdapter: luid of each card when it was enumerated
  target,      \* TemperatureSampler: the selected card
  handles,     \* sensors of IntelLevelZeroTemperature or devices of NVML: their cards
  shown,       \* the card whose temperature is shown
  source,      \* TemperatureReading.source: where it comes from
  memory,      \* the card whose memory is shown, and how much of it
  used,        \* external: the memory each card used at the last sample
  replugs      \* history

vars == <<cards, luid, known, target, handles, shown, source, memory, used, replugs>>

Indices == DOMAIN cards
TypeOK ==
  /\ cards \in Machines /\ luid \in [Indices -> Nat] /\ known \in [Indices -> Nat]
  /\ target \in Indices \cup {NoCard} /\ handles \subseteq Indices
  /\ shown \in Indices \cup {NoCard} /\ source \in {"native", "service", "none"}
  /\ memory.card \in Indices \cup {NoCard} /\ memory.used \in Nat
  /\ used \in [Indices -> Uses] /\ replugs \in 0..MaxReplugs
  /\ target # NoCard => shown = NoCard \/ cards[shown].vendor = cards[target].vendor
  /\ target = NoCard => shown = NoCard
  /\ (shown = NoCard) = (source = "none")

\* Iterator::max_by_key: the keys end with the index, so no two are equal.
MaxByKey(indices, precedes(_, _)) ==
  IF indices = {} THEN NoCard
  ELSE CHOOSE best \in indices : \A i \in indices \ {best} : precedes(i, best)

\* The keys of select_gpu_temperature_target and of select_video_adapter, and
\* the lower index where they are equal.
ColderFaulty(i, b) ==
  \/ cards[i].dedicated < cards[b].dedicated
  \/ cards[i].dedicated = cards[b].dedicated /\ i > b

Colder(i, b) ==
  \/ cards[i].integrated /\ ~cards[b].integrated
  \/ /\ cards[i].integrated = cards[b].integrated
     /\ \/ cards[i].dedicated < cards[b].dedicated
        \/ cards[i].dedicated = cards[b].dedicated /\ i > b

SelectTarget ==
  MaxByKey({i \in Indices : ~cards[i].software /\ cards[i].vendor \in Vendor}, Colder)

Size(i) == IF cards[i].dedicated > 0 THEN cards[i].dedicated ELSE cards[i].budget
HasOwn(i) == IF cards[i].dedicated > 0 THEN 1 ELSE 0

LessUsed(use, i, b) ==
  \/ use[i] < use[b]
  \/ /\ use[i] = use[b]
     /\ \/ HasOwn(i) < HasOwn(b)
        \/ HasOwn(i) = HasOwn(b) /\ Size(i) < Size(b)
        \/ HasOwn(i) = HasOwn(b) /\ Size(i) = Size(b) /\ i > b

SelectVideoAdapter(use) ==
  MaxByKey({i \in Indices : ~cards[i].software}, LAMBDA i, b : LessUsed(use, i, b))

MatchesTargetFaulty(i, t) == cards[i].vendor = "Intel"

\* intel_level_zero_device_matches_target
MatchesTarget(i, t) ==
  cards[i].vendor = "Intel" /\ cards[i].integrated = cards[t].integrated

\* IntelLevelZeroTemperature::new opens the sensors of the best kind on all the
\* Intel cards of the class of the target, NvidiaNvmlTemperature::new all the
\* devices of the driver.
NativeHandles(t) ==
  IF t = NoCard THEN {}
  ELSE LET of(kind) == {i \in Indices : MatchesTarget(i, t) /\ cards[i].native = kind}
       IN CASE cards[t].vendor = "Intel" -> IF of("GPU") # {} THEN of("GPU") ELSE of("board")
            [] cards[t].vendor = "NVIDIA" /\ ~cards[t].integrated ->
                 {i \in Indices : cards[i].vendor = "NVIDIA" /\ cards[i].native = "GPU"}
            [] OTHER -> {}

Init ==
  /\ cards \in Machines
  /\ luid = [i \in Indices |-> i] /\ known = luid
  /\ target = SelectTarget
  /\ handles \in {{}, NativeHandles(target)} \* the library may be missing
  /\ shown = NoCard /\ source = "none" /\ memory = [card |-> NoCard, used |-> 0]
  /\ used \in [Indices -> Uses] /\ replugs = 0

-----------------------------------------------------------------------------

\* SelectGpus: of the cards of a vendor that answer those with the best sensor; the
\* hottest of them is sent.
ServedFaulty(vendor, answering) == {i \in answering : cards[i].sensor # "none"}

Served(vendor, answering) ==
  LET of(sensor) == {i \in answering : cards[i].vendor = vendor /\ cards[i].sensor = sensor}
  IN IF of("GPU Core") # {} THEN of("GPU Core") ELSE of("GPU Edge")

\* TemperatureSampler::sample, with the sensors in answering: the hottest of
\* the native readings, else what the service has for the vendor.
SampleTemperature ==
  /\ \E answering \in SUBSET Indices :
       LET native == handles \cap answering
           served == IF target = NoCard THEN {} ELSE Served(cards[target].vendor, answering)
       IN \/ native # {} /\ shown' \in native /\ source' = "native"
          \/ native = {} /\ served # {} /\ shown' \in served /\ source' = "service"
          \/ native = {} /\ served = {} /\ shown' = NoCard /\ source' = "none"
  /\ UNCHANGED <<cards, luid, known, target, handles, memory, used, replugs>>

\* PdhVideoMemory::sample: the counters are found by the LUID enumerated first.
UsageByLuid(use) ==
  [i \in Indices |-> IF luid[i] = known[i] /\ use[i] # Absent THEN use[i] ELSE 0]

Total(i) ==
  LET total == cards[i].dedicated + cards[i].shared
  IN IF total > 0 THEN total ELSE cards[i].budget

SampleVideoMemoryFaulty ==
  /\ used' \in [Indices -> Uses]
  /\ LET usage == UsageByLuid(used')
         best == SelectVideoAdapter(UsageByLuid(used))
     IN memory' = IF best = NoCard THEN [card |-> NoCard, used |-> 0]
                  ELSE [card |-> best,
                        used |-> IF usage[best] > Total(best) THEN Total(best) ELSE usage[best]]
  /\ UNCHANGED <<cards, luid, known, target, handles, shown, source, replugs>>

SampleVideoMemory ==
  /\ used' \in [Indices -> Uses]
  /\ LET usage == UsageByLuid(used')
         best == SelectVideoAdapter(usage)
     IN memory' = IF best = NoCard THEN [card |-> NoCard, used |-> 0]
                  ELSE [card |-> best,
                        used |-> IF usage[best] > Total(best) THEN Total(best) ELSE usage[best]]
  /\ UNCHANGED <<cards, luid, known, target, handles, shown, source, replugs>>

\* The driver starts again or the card is plugged in again.
Replug ==
  /\ replugs < MaxReplugs /\ replugs' = replugs + 1
  /\ \E i \in Indices : luid' = [luid EXCEPT ![i] = Len(cards) + replugs + 1]
  /\ UNCHANGED <<cards, known, target, handles, shown, source, memory, used>>

Next == SampleTemperature \/ SampleVideoMemory \/ Replug

Spec == Init /\ [][Next]_vars

-----------------------------------------------------------------------------
(* Properties. *)

Real(i) == ~cards[i].software /\ cards[i].vendor \in Vendor
HasDedicated == \E i \in Indices : Real(i) /\ ~cards[i].integrated

\* A dedicated card is watched where there is one.
DedicatedIsTarget == HasDedicated => ~cards[target].integrated

\* The temperature shown is that of the card that is watched, if it is the only
\* one of its vendor: the sensors are those of a vendor.
ShownIsTarget ==
  \/ shown \in {target, NoCard}
  \/ \E i \in Indices \ {target} : cards[i].vendor = cards[target].vendor

\* A temperature read from Level Zero is one of the class that is watched, however
\* many cards of Intel there are.
NativeIsOfClass ==
  source = "native" /\ cards[target].vendor = "Intel" =>
    cards[shown].integrated = cards[target].integrated

\* docs/plans/2026-08-02-gpu-temperature-selection-design.md:15: where there is a
\* dedicated card, temperatures of integrated ones are ignored.
DedicatedIsShown == HasDedicated /\ shown # NoCard => ~cards[shown].integrated

\* While the cards keep their LUIDs, the memory shown is that of the card that
\* uses most of it, and never more than the card has.
MemoryFollowsUse ==
  (memory.card # NoCard /\ luid = known) =>
    /\ \A i \in Indices : cards[i].software \/ used[i] = Absent
                          \/ memory.used = Total(memory.card) \/ used[i] <= memory.used
    /\ memory.used <= Total(memory.card)

\* docs/plans/2026-07-30-gpu-metrics-design.md:61: without a counter instance of
\* the card its memory is unavailable, it is not shown as empty.
NoCounterIsUnavailable ==
  memory.card # NoCard => used[memory.card] # Absent /\ luid[memory.card] = known[memory.card]

=============================================================================
