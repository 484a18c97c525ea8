------------------------------ MODULE MCSensors ------------------------------
(***************************************************************************)
(* Temperatures in four parts: the service with two clients, one of them   *)
(* without a graphics card to watch; one client and a service that may     *)
(* never answer; one client and a service that is scheduled in time, with  *)
(* more that may fail; and the cards whose readings are shown.  A          *)
(* behaviour shows one part; the others rest in an initial state.          *)
(***************************************************************************)
EXTENDS SensorService

CONSTANTS Machines, Uses, Absent, NoCard, MaxReplugs  \* GpuSensors

VARIABLES
  part,
  cards, luid, known, target, handles, watched, source, memory, used, replugs \* GpuSensors

Silent == INSTANCE SensorService
  WITH Clients <- Target, Attempts <- 3, SampleGap <- 4, MaxFaults <- 1

Prompted == INSTANCE SensorService
  WITH Clients <- Target, Attempts <- 3, SampleGap <- 2, MaxFaults <- 2,
       InitErrors <- {"pawnio_not_installed", "pawnio_device_unavailable",
                      "sensor_initialization_failed"},
       Prompt <- TRUE

MCMeasurements == {[cpu |-> TRUE, gpu |-> FALSE]}

-----------------------------------------------------------------------------
(* Machines with up to three cards, two of one vendor among them.           *)

MCCard(vendor, integrated, dedicated, shared, native, sensor) ==
  [vendor |-> vendor, software |-> FALSE, integrated |-> integrated, dedicated |-> dedicated,
   shared |-> shared, budget |-> 2, native |-> native, sensor |-> sensor]

Iris == MCCard("Intel", TRUE, 0, 0, "GPU", "GPU Core")
Arc(native) == MCCard("Intel", FALSE, 1, 0, native, "GPU Core")
GeForce(size) == MCCard("NVIDIA", FALSE, size, 1, "GPU", "GPU Core")
Radeon(integrated) == MCCard("AMD", integrated, 3, 0, "none", "GPU Edge")
Basic == [MCCard("other", FALSE, 3, 0, "none", "none") EXCEPT !.software = TRUE]

MCMachines ==
  {<<Iris>>, <<Basic>>, <<Radeon(TRUE), GeForce(1)>>, <<Iris, GeForce(2), Basic>>,
   <<Radeon(FALSE), Iris>>, <<GeForce(3), Iris, Radeon(FALSE)>>,
   <<Arc("board"), Radeon(TRUE)>>, <<GeForce(3), Radeon(FALSE)>>,
   <<Iris, Arc("board")>>, <<GeForce(2), GeForce(3)>>,
   <<Radeon(TRUE), Radeon(FALSE)>>}

Gpu == INSTANCE GpuSensors WITH shown <- watched

ASSUME CardsAssumption == Gpu!GpuAssumption

-----------------------------------------------------------------------------

gpuVars == <<cards, luid, known, target, handles, watched, source, memory, used, replugs>>
sensorsVars == <<part, vars, gpuVars>>

Shares  == part = "two clients"
Silences == part = "silent service"
Prompts == part = "prompt service"
Shows   == part = "cards"

SensorsInit ==
  /\ part \in {"two clients", "silent service", "prompt service", "cards"}
  /\ \/ Shares /\ Init
     \/ Shows /\ Init /\ scm = "Stopped"
     \/ Silences /\ Silent!Init
     \/ Prompts /\ Prompted!Init
  /\ Gpu!Init
  /\ ~Shows => cards = <<Basic>> /\ used[1] = Absent

SensorsNext ==
  /\ UNCHANGED part
  /\ \/ Shares   /\ Next          /\ UNCHANGED gpuVars
     \/ Silences /\ Silent!Next   /\ UNCHANGED gpuVars
     \/ Prompts  /\ Prompted!Next /\ UNCHANGED gpuVars
     \/ Shows    /\ Gpu!Next      /\ UNCHANGED vars

\* Of a silent service nothing is assumed, of a prompt one what ServedSpec says.
SensorsSpec ==
  /\ SensorsInit /\ [][SensorsNext]_sensorsVars
  /\ \A c \in Target :
       /\ WF_vars(Silences /\ Silent!ClientStep(c))
       /\ WF_vars(Prompts /\ Prompted!ClientStep(c))
       /\ WF_vars(Prompts /\ Prompted!Sample(c))
  /\ WF_vars(Prompts /\ Prompted!ServiceStep)
  /\ WF_vars(Prompts /\ Prompted!Update)
  /\ WF_vars(Prompts /\ Prompted!Tick)

-----------------------------------------------------------------------------
(* Properties: those of the two modules, where they are promised.          *)

\* What is shown as a temperature was measured, and not long ago, and no read is
\* left pending on a buffer that is gone.
ReadingsAreTrue ==
  /\ Shares   => TypeOK /\ ShownWasMeasured /\ BuffersOutliveReads
  /\ Silences => Silent!TypeOK /\ Silent!ShownWasMeasured /\ Silent!BuffersOutliveReads
  /\ Prompts  => Prompted!TypeOK /\ Prompted!ShownWasMeasured /\ Prompted!BuffersOutliveReads

\* A dedicated card is watched where there is one, the temperature shown is its own
\* where its vendor has no other, and of its class when Level Zero gives it, and the
\* memory shown is that of the card that uses most of it.
CardsAreTrue ==
  Shows => /\ Gpu!TypeOK
           /\ Gpu!DedicatedIsTarget
           /\ Gpu!ShownIsTarget
           /\ Gpu!NativeIsOfClass
           /\ Gpu!MemoryFollowsUse

\* A prompt service does not stop for want of clients while one samples on.
UsedStaysUp == [][Prompts => Prompted!StopsUnused]_vars

\* A sample ends whatever the service does, and with a prompt service
\* temperatures come back after every fault.
TemperaturesComeBack == (Silences => Silent!SampleEnds) /\ (Prompts => Prompted!Recovers)

==============================================================================
