---------------------------- MODULE SensorsProofs ----------------------------
(***************************************************************************)
(* What MCSensors says, for every value of the constants.  Of the service: *)
(* the theorems of SensorServiceProofs for the three uses it is put to.    *)
(* Of the cards: the target and the adapter that are selected are the      *)
(* greatest of their order, and what is shown is theirs.                   *)
(***************************************************************************)
EXTENDS MCSensors, SensorServiceProofs, NaturalsInduction, WellFoundedInduction

SilentProofs == INSTANCE SensorServiceProofs
  WITH Clients <- Target, Attempts <- 3, SampleGap <- 4, MaxFaults <- 1

PromptedProofs == INSTANCE SensorServiceProofs
  WITH Clients <- Target, Attempts <- 3, SampleGap <- 2, MaxFaults <- 2,
       InitErrors <- {"pawnio_not_installed", "pawnio_device_unavailable",
                      "sensor_initialization_failed"},
       Prompt <- TRUE

\* The constants of both uses are as the module wants them.
LEMMA UsesFit == SilentProofs!SensorAssumption /\ PromptedProofs!SensorAssumption
BY SensorAssumption DEF SilentProofs!SensorAssumption, PromptedProofs!SensorAssumption

-----------------------------------------------------------------------------
(* The steps of MCSensors are those the lemmas are about.                  *)

LEMMA SilentClient ==
  ASSUME NEW c \in Target, Silent!Sample(c) \/ Silent!ClientStep(c)
  PROVE  SilentProofs!Sample(c) \/ SilentProofs!ClientStep(c)
<1>1. Silent!Sample(c) => SilentProofs!Sample(c)
  BY DEF Silent!Sample, Silent!serviceVars, Silent!pipeVars, SilentProofs!Sample,
         SilentProofs!serviceVars, SilentProofs!pipeVars
<1>2. Silent!OpenPipe(c) => SilentProofs!OpenPipe(c)
  BY DEF Silent!OpenPipe, Silent!PipeFree, SilentProofs!OpenPipe, SilentProofs!PipeFree
<1>3. Silent!OpenFails(c) => SilentProofs!OpenFails(c)
  BY DEF Silent!OpenFails, Silent!PipeFree, Silent!AttemptFails, Silent!FinishWithout,
         Silent!Finish, Silent!CountTimeout, Silent!PipeExists, Silent!NoTimeout,
         Silent!serviceVars, Silent!pipeVars, SilentProofs!OpenFails,
         SilentProofs!PipeFree, SilentProofs!AttemptFails, SilentProofs!FinishWithout,
         SilentProofs!Finish, SilentProofs!CountTimeout, SilentProofs!PipeExists,
         SilentProofs!NoTimeout, SilentProofs!serviceVars, SilentProofs!pipeVars
<1>4. Silent!ReadLength(c) => SilentProofs!ReadLength(c)
  BY DEF Silent!ReadLength, Silent!serviceVars, Silent!pipeVars, SilentProofs!ReadLength,
         SilentProofs!serviceVars, SilentProofs!pipeVars
<1>5. Silent!ReadPayload(c) => SilentProofs!ReadPayload(c)
  BY DEF Silent!ReadPayload, Silent!Stale, Silent!Finish, Silent!StatusOf,
         Silent!NoError, Silent!CpuOf, Silent!GpuOf, Silent!AttemptFails,
         Silent!FinishWithout, Silent!NoTimeout, Silent!Completed, Silent!CloseHandle,
         Silent!serviceVars, SilentProofs!ReadPayload, SilentProofs!Stale,
         SilentProofs!Finish, SilentProofs!StatusOf, SilentProofs!NoError,
         SilentProofs!CpuOf, SilentProofs!GpuOf, SilentProofs!AttemptFails,
         SilentProofs!FinishWithout, SilentProofs!NoTimeout, SilentProofs!Completed,
         SilentProofs!CloseHandle, SilentProofs!serviceVars
<1>6. Silent!ReadFails(c) => SilentProofs!ReadFails(c)
  BY DEF Silent!ReadFails, Silent!Starved, Silent!AttemptFails, Silent!FinishWithout,
         Silent!Finish, Silent!NoTimeout, Silent!Completed, Silent!CloseHandle,
         Silent!serviceVars, SilentProofs!ReadFails, SilentProofs!Starved,
         SilentProofs!AttemptFails, SilentProofs!FinishWithout, SilentProofs!Finish,
         SilentProofs!NoTimeout, SilentProofs!Completed, SilentProofs!CloseHandle,
         SilentProofs!serviceVars
<1>7. Silent!ReadTimesOut(c) => SilentProofs!ReadTimesOut(c)
  BY DEF Silent!ReadTimesOut, Silent!Starved, Silent!CountTimeout, Silent!serviceVars,
         Silent!pipeVars, SilentProofs!ReadTimesOut, SilentProofs!Starved,
         SilentProofs!CountTimeout, SilentProofs!serviceVars, SilentProofs!pipeVars
<1>8. Silent!EnsureFails(c) => SilentProofs!EnsureFails(c)
  BY DEF Silent!EnsureFails, Silent!FinishWithout, Silent!Finish, Silent!CanFail,
         Silent!serviceVars, Silent!pipeVars, SilentProofs!EnsureFails,
         SilentProofs!FinishWithout, SilentProofs!Finish, SilentProofs!CanFail,
         SilentProofs!serviceVars, SilentProofs!pipeVars
<1>9. Silent!StartService(c) => SilentProofs!StartService(c)
  BY DEF Silent!StartService, Silent!serviceVars, Silent!pipeVars,
         SilentProofs!StartService, SilentProofs!serviceVars, SilentProofs!pipeVars
<1>10. Silent!ReadEnds(c) => SilentProofs!ReadEnds(c)
  BY DEF Silent!ReadEnds, Silent!Completed, Silent!serviceVars, Silent!pipeVars,
         SilentProofs!ReadEnds, SilentProofs!Completed, SilentProofs!serviceVars,
         SilentProofs!pipeVars
<1>11. Silent!AwaitCancelled(c) => SilentProofs!AwaitCancelled(c)
  BY DEF Silent!AwaitCancelled, Silent!AttemptFails, Silent!FinishWithout, Silent!Finish,
         Silent!NoTimeout, Silent!CloseHandle, Silent!serviceVars,
         SilentProofs!AwaitCancelled, SilentProofs!AttemptFails, SilentProofs!FinishWithout,
         SilentProofs!Finish, SilentProofs!NoTimeout, SilentProofs!CloseHandle,
         SilentProofs!serviceVars
<1> QED  BY <1>1, <1>2, <1>3, <1>4, <1>5, <1>6, <1>7, <1>8, <1>9, <1>10, <1>11
         DEF Silent!ClientStep, SilentProofs!ClientStep

LEMMA SilentNext ==
  ASSUME [Silent!Next]_vars
  PROVE  [SilentProofs!Next]_SilentProofs!vars
<1>1. Silent!OnStart => SilentProofs!OnStart
  BY DEF Silent!OnStart, Silent!clientVars, Silent!readVars, Silent!pipeVars,
         SilentProofs!OnStart, SilentProofs!clientVars, SilentProofs!readVars,
         SilentProofs!pipeVars
<1>2. Silent!Initialize => SilentProofs!Initialize
  BY DEF Silent!Initialize, Silent!NoError, Silent!CanFail, Silent!Failure,
         Silent!clientVars, Silent!readVars, Silent!pipeVars, SilentProofs!Initialize,
         SilentProofs!NoError, SilentProofs!CanFail, SilentProofs!Failure,
         SilentProofs!clientVars, SilentProofs!readVars, SilentProofs!pipeVars
<1>3. Silent!CreatePipe => SilentProofs!CreatePipe
  BY DEF Silent!CreatePipe, Silent!Expired, Silent!clientVars, Silent!readVars,
         Silent!pipeVars, SilentProofs!CreatePipe, SilentProofs!Expired,
         SilentProofs!clientVars, SilentProofs!readVars, SilentProofs!pipeVars
<1>4. Silent!IdleStop => SilentProofs!IdleStop
  BY DEF Silent!IdleStop, Silent!Expired, Silent!CloseAll, Silent!clientVars,
         Silent!readVars, SilentProofs!IdleStop, SilentProofs!Expired,
         SilentProofs!CloseAll, SilentProofs!clientVars, SilentProofs!readVars
<1>5. Silent!Accept => SilentProofs!Accept
  BY DEF Silent!Accept, Silent!clientVars, Silent!readVars, Silent!pipeVars,
         SilentProofs!Accept, SilentProofs!clientVars, SilentProofs!readVars,
         SilentProofs!pipeVars
<1>6. Silent!WriteLength => SilentProofs!WriteLength
  BY DEF Silent!WriteLength, Silent!clientVars, Silent!readVars,
         SilentProofs!WriteLength, SilentProofs!clientVars, SilentProofs!readVars
<1>7. Silent!WritePayload => SilentProofs!WritePayload
  BY DEF Silent!WritePayload, Silent!clientVars, Silent!readVars,
         SilentProofs!WritePayload, SilentProofs!clientVars, SilentProofs!readVars
<1>8. Silent!WriteFails => SilentProofs!WriteFails
  BY DEF Silent!WriteFails, Silent!clientVars, Silent!readVars, Silent!pipeVars,
         SilentProofs!WriteFails, SilentProofs!clientVars, SilentProofs!readVars,
         SilentProofs!pipeVars
<1>9. Silent!StopBegins => SilentProofs!StopBegins
  BY DEF Silent!StopBegins, Silent!serviceVars, Silent!clientVars, Silent!readVars,
         Silent!pipeVars, SilentProofs!StopBegins, SilentProofs!serviceVars,
         SilentProofs!clientVars, SilentProofs!readVars, SilentProofs!pipeVars
<1>10. Silent!StopEnds => SilentProofs!StopEnds
  BY DEF Silent!StopEnds, Silent!clientVars, Silent!readVars, Silent!pipeVars,
         SilentProofs!StopEnds, SilentProofs!clientVars, SilentProofs!readVars,
         SilentProofs!pipeVars
<1>11. Silent!Update => SilentProofs!Update
  BY DEF Silent!Update, Silent!NoError, Silent!Failure, Silent!CanFail,
         Silent!clientVars, Silent!readVars, Silent!pipeVars, SilentProofs!Update,
         SilentProofs!NoError, SilentProofs!Failure, SilentProofs!CanFail,
         SilentProofs!clientVars, SilentProofs!readVars, SilentProofs!pipeVars
<1>12. Silent!RunFails => SilentProofs!RunFails
  BY DEF Silent!RunFails, Silent!CanFail, Silent!CloseAll, Silent!clientVars,
         Silent!readVars, SilentProofs!RunFails, SilentProofs!CanFail,
         SilentProofs!CloseAll, SilentProofs!clientVars, SilentProofs!readVars
<1>13. Silent!Crash => SilentProofs!Crash
  BY DEF Silent!Crash, Silent!CanFail, Silent!CloseAll, Silent!clientVars,
         Silent!readVars, SilentProofs!Crash, SilentProofs!CanFail,
         SilentProofs!CloseAll, SilentProofs!clientVars, SilentProofs!readVars
<1>14. Silent!Tick => SilentProofs!Tick
  BY DEF Silent!Tick, Silent!Busy, Silent!Pass, Silent!Older, Silent!readVars,
         SilentProofs!Tick, SilentProofs!Busy, SilentProofs!Pass, SilentProofs!Older,
         SilentProofs!readVars
<1>15. Silent!Suspend => SilentProofs!Suspend
  BY DEF Silent!Suspend, Silent!CanFail, Silent!Pass, Silent!Older, Silent!readVars,
         SilentProofs!Suspend, SilentProofs!CanFail, SilentProofs!Pass,
         SilentProofs!Older, SilentProofs!readVars
<1>16. Silent!StartEnds => SilentProofs!StartEnds
  BY DEF Silent!StartEnds, Silent!serviceVars, Silent!clientVars, Silent!readVars,
         Silent!pipeVars, SilentProofs!StartEnds, SilentProofs!serviceVars,
         SilentProofs!clientVars, SilentProofs!readVars, SilentProofs!pipeVars
<1>17. Silent!ServiceStep => SilentProofs!ServiceStep
  BY <1>1, <1>2, <1>3, <1>4, <1>5, <1>6, <1>7, <1>8, <1>9, <1>10, <1>16
     DEF Silent!ServiceStep, SilentProofs!ServiceStep
<1>18. Silent!Next => SilentProofs!Next
  BY <1>11, <1>12, <1>13, <1>14, <1>15, <1>17, SilentClient DEF Silent!Next, SilentProofs!Next
<1>19. UNCHANGED vars => UNCHANGED SilentProofs!vars
  BY DEF vars, serviceVars, readVars, pipeVars, SilentProofs!vars, SilentProofs!serviceVars, SilentProofs!readVars, SilentProofs!pipeVars
<1> QED  BY <1>18, <1>19

LEMMA PromptedClient ==
  ASSUME NEW c \in Target, Prompted!Sample(c) \/ Prompted!ClientStep(c)
  PROVE  PromptedProofs!Sample(c) \/ PromptedProofs!ClientStep(c)
<1>1. Prompted!Sample(c) => PromptedProofs!Sample(c)
  BY DEF Prompted!Sample, Prompted!serviceVars, Prompted!pipeVars, PromptedProofs!Sample,
         PromptedProofs!serviceVars, PromptedProofs!pipeVars
<1>2. Prompted!OpenPipe(c) => PromptedProofs!OpenPipe(c)
  BY DEF Prompted!OpenPipe, Prompted!PipeFree, PromptedProofs!OpenPipe,
         PromptedProofs!PipeFree
<1>3. Prompted!OpenFails(c) => PromptedProofs!OpenFails(c)
  BY DEF Prompted!OpenFails, Prompted!PipeFree, Prompted!AttemptFails,
         Prompted!FinishWithout, Prompted!Finish, Prompted!CountTimeout,
         Prompted!PipeExists, Prompted!NoTimeout, Prompted!serviceVars,
         Prompted!pipeVars, PromptedProofs!OpenFails, PromptedProofs!PipeFree,
         PromptedProofs!AttemptFails, PromptedProofs!FinishWithout,
         PromptedProofs!Finish, PromptedProofs!CountTimeout, PromptedProofs!PipeExists,
         PromptedProofs!NoTimeout, PromptedProofs!serviceVars, PromptedProofs!pipeVars
<1>4. Prompted!ReadLength(c) => PromptedProofs!ReadLength(c)
  BY DEF Prompted!ReadLength, Prompted!serviceVars, Prompted!pipeVars,
         PromptedProofs!ReadLength, PromptedProofs!serviceVars, PromptedProofs!pipeVars
<1>5. Prompted!ReadPayload(c) => PromptedProofs!ReadPayload(c)
  BY DEF Prompted!ReadPayload, Prompted!Stale, Prompted!Finish, Prompted!StatusOf,
         Prompted!NoError, Prompted!CpuOf, Prompted!GpuOf, Prompted!AttemptFails,
         Prompted!FinishWithout, Prompted!NoTimeout, Prompted!Completed,
         Prompted!CloseHandle, Prompted!serviceVars, PromptedProofs!ReadPayload,
         PromptedProofs!Stale, PromptedProofs!Finish, PromptedProofs!StatusOf,
         PromptedProofs!NoError, PromptedProofs!CpuOf, PromptedProofs!GpuOf,
         PromptedProofs!AttemptFails, PromptedProofs!FinishWithout,
         PromptedProofs!NoTimeout, PromptedProofs!Completed, PromptedProofs!CloseHandle,
         PromptedProofs!serviceVars
<1>6. Prompted!ReadFails(c) => PromptedProofs!ReadFails(c)
  BY DEF Prompted!ReadFails, Prompted!Starved, Prompted!AttemptFails,
         Prompted!FinishWithout, Prompted!Finish, Prompted!NoTimeout, Prompted!Completed,
         Prompted!CloseHandle, Prompted!serviceVars, PromptedProofs!ReadFails,
         PromptedProofs!Starved, PromptedProofs!AttemptFails,
         PromptedProofs!FinishWithout, PromptedProofs!Finish, PromptedProofs!NoTimeout,
         PromptedProofs!Completed, PromptedProofs!CloseHandle, PromptedProofs!serviceVars
<1>7. Prompted!ReadTimesOut(c) => PromptedProofs!ReadTimesOut(c)
  BY DEF Prompted!ReadTimesOut, Prompted!Starved, Prompted!CountTimeout,
         Prompted!serviceVars, Prompted!pipeVars, PromptedProofs!ReadTimesOut,
         PromptedProofs!Starved, PromptedProofs!CountTimeout, PromptedProofs!serviceVars,
         PromptedProofs!pipeVars
<1>8. Prompted!EnsureFails(c) => PromptedProofs!EnsureFails(c)
  BY DEF Prompted!EnsureFails, Prompted!FinishWithout, Prompted!Finish, Prompted!CanFail,
         Prompted!serviceVars, Prompted!pipeVars, PromptedProofs!EnsureFails,
         PromptedProofs!FinishWithout, PromptedProofs!Finish, PromptedProofs!CanFail,
         PromptedProofs!serviceVars, PromptedProofs!pipeVars
<1>9. Prompted!StartService(c) => PromptedProofs!StartService(c)
  BY DEF Prompted!StartService, Prompted!serviceVars, Prompted!pipeVars,
         PromptedProofs!StartService, PromptedProofs!serviceVars, PromptedProofs!pipeVars
<1>10. Prompted!ReadEnds(c) => PromptedProofs!ReadEnds(c)
  BY DEF Prompted!ReadEnds, Prompted!Completed, Prompted!serviceVars, Prompted!pipeVars,
         PromptedProofs!ReadEnds, PromptedProofs!Completed, PromptedProofs!serviceVars,
         PromptedProofs!pipeVars
<1>11. Prompted!AwaitCancelled(c) => PromptedProofs!AwaitCancelled(c)
  BY DEF Prompted!AwaitCancelled, Prompted!AttemptFails, Prompted!FinishWithout,
         Prompted!Finish, Prompted!NoTimeout, Prompted!CloseHandle, Prompted!serviceVars,
         PromptedProofs!AwaitCancelled, PromptedProofs!AttemptFails,
         PromptedProofs!FinishWithout, PromptedProofs!Finish, PromptedProofs!NoTimeout,
         PromptedProofs!CloseHandle, PromptedProofs!serviceVars
<1> QED  BY <1>1, <1>2, <1>3, <1>4, <1>5, <1>6, <1>7, <1>8, <1>9, <1>10, <1>11
         DEF Prompted!ClientStep, PromptedProofs!ClientStep

LEMMA PromptedNext ==
  ASSUME [Prompted!Next]_vars
  PROVE  [PromptedProofs!Next]_PromptedProofs!vars
<1>1. Prompted!OnStart => PromptedProofs!OnStart
  BY DEF Prompted!OnStart, Prompted!clientVars, Prompted!readVars, Prompted!pipeVars,
         PromptedProofs!OnStart, PromptedProofs!clientVars, PromptedProofs!readVars,
         PromptedProofs!pipeVars
<1>2. Prompted!Initialize => PromptedProofs!Initialize
  BY DEF Prompted!Initialize, Prompted!NoError, Prompted!CanFail, Prompted!Failure,
         Prompted!clientVars, Prompted!readVars, Prompted!pipeVars,
         PromptedProofs!Initialize, PromptedProofs!NoError, PromptedProofs!CanFail,
         PromptedProofs!Failure, PromptedProofs!clientVars, PromptedProofs!readVars,
         PromptedProofs!pipeVars
<1>3. Prompted!CreatePipe => PromptedProofs!CreatePipe
  BY DEF Prompted!CreatePipe, Prompted!Expired, Prompted!clientVars, Prompted!readVars,
         Prompted!pipeVars, PromptedProofs!CreatePipe, PromptedProofs!Expired,
         PromptedProofs!clientVars, PromptedProofs!readVars, PromptedProofs!pipeVars
<1>4. Prompted!IdleStop => PromptedProofs!IdleStop
  BY DEF Prompted!IdleStop, Prompted!Expired, Prompted!CloseAll, Prompted!clientVars,
         Prompted!readVars, PromptedProofs!IdleStop, PromptedProofs!Expired,
         PromptedProofs!CloseAll, PromptedProofs!clientVars, PromptedProofs!readVars
<1>5. Prompted!Accept => PromptedProofs!Accept
  BY DEF Prompted!Accept, Prompted!clientVars, Prompted!readVars, Prompted!pipeVars,
         PromptedProofs!Accept, PromptedProofs!clientVars, PromptedProofs!readVars,
         PromptedProofs!pipeVars
<1>6. Prompted!WriteLength => PromptedProofs!WriteLength
  BY DEF Prompted!WriteLength, Prompted!clientVars, Prompted!readVars,
         PromptedProofs!WriteLength, PromptedProofs!clientVars, PromptedProofs!readVars
<1>7. Prompted!WritePayload => PromptedProofs!WritePayload
  BY DEF Prompted!WritePayload, Prompted!clientVars, Prompted!readVars,
         PromptedProofs!WritePayload, PromptedProofs!clientVars, PromptedProofs!readVars
<1>8. Prompted!WriteFails => PromptedProofs!WriteFails
  BY DEF Prompted!WriteFails, Prompted!clientVars, Prompted!readVars, Prompted!pipeVars,
         PromptedProofs!WriteFails, PromptedProofs!clientVars, PromptedProofs!readVars,
         PromptedProofs!pipeVars
<1>9. Prompted!StopBegins => PromptedProofs!StopBegins
  BY DEF Prompted!StopBegins, Prompted!serviceVars, Prompted!clientVars,
         Prompted!readVars, Prompted!pipeVars, PromptedProofs!StopBegins,
         PromptedProofs!serviceVars, PromptedProofs!clientVars, PromptedProofs!readVars,
         PromptedProofs!pipeVars
<1>10. Prompted!StopEnds => PromptedProofs!StopEnds
  BY DEF Prompted!StopEnds, Prompted!clientVars, Prompted!readVars, Prompted!pipeVars,
         PromptedProofs!StopEnds, PromptedProofs!clientVars, PromptedProofs!readVars,
         PromptedProofs!pipeVars
<1>11. Prompted!Update => PromptedProofs!Update
  BY DEF Prompted!Update, Prompted!NoError, Prompted!Failure, Prompted!CanFail,
         Prompted!clientVars, Prompted!readVars, Prompted!pipeVars,
         PromptedProofs!Update, PromptedProofs!NoError, PromptedProofs!Failure,
         PromptedProofs!CanFail, PromptedProofs!clientVars, PromptedProofs!readVars,
         PromptedProofs!pipeVars
<1>12. Prompted!RunFails => PromptedProofs!RunFails
  BY DEF Prompted!RunFails, Prompted!CanFail, Prompted!CloseAll, Prompted!clientVars,
         Prompted!readVars, PromptedProofs!RunFails, PromptedProofs!CanFail,
         PromptedProofs!CloseAll, PromptedProofs!clientVars, PromptedProofs!readVars
<1>13. Prompted!Crash => PromptedProofs!Crash
  BY DEF Prompted!Crash, Prompted!CanFail, Prompted!CloseAll, Prompted!clientVars,
         Prompted!readVars, PromptedProofs!Crash, PromptedProofs!CanFail,
         PromptedProofs!CloseAll, PromptedProofs!clientVars, PromptedProofs!readVars
<1>14. Prompted!Tick => PromptedProofs!Tick
  BY DEF Prompted!Tick, Prompted!Busy, Prompted!Pass, Prompted!Older, Prompted!readVars,
         PromptedProofs!Tick, PromptedProofs!Busy, PromptedProofs!Pass,
         PromptedProofs!Older, PromptedProofs!readVars
<1>15. Prompted!Suspend => PromptedProofs!Suspend
  BY DEF Prompted!Suspend, Prompted!CanFail, Prompted!Pass, Prompted!Older,
         Prompted!readVars, PromptedProofs!Suspend, PromptedProofs!CanFail,
         PromptedProofs!Pass, PromptedProofs!Older, PromptedProofs!readVars
<1>16. Prompted!StartEnds => PromptedProofs!StartEnds
  BY DEF Prompted!StartEnds, Prompted!serviceVars, Prompted!clientVars, Prompted!readVars,
         Prompted!pipeVars, PromptedProofs!StartEnds, PromptedProofs!serviceVars,
         PromptedProofs!clientVars, PromptedProofs!readVars, PromptedProofs!pipeVars
<1>17. Prompted!ServiceStep => PromptedProofs!ServiceStep
  BY <1>1, <1>2, <1>3, <1>4, <1>5, <1>6, <1>7, <1>8, <1>9, <1>10, <1>16
     DEF Prompted!ServiceStep, PromptedProofs!ServiceStep
<1>18. Prompted!Next => PromptedProofs!Next
  BY <1>11, <1>12, <1>13, <1>14, <1>15, <1>17, PromptedClient DEF Prompted!Next, PromptedProofs!Next
<1>19. UNCHANGED vars => UNCHANGED PromptedProofs!vars
  BY DEF vars, serviceVars, readVars, pipeVars, PromptedProofs!vars, PromptedProofs!serviceVars, PromptedProofs!readVars, PromptedProofs!pipeVars
<1> QED  BY <1>18, <1>19

-----------------------------------------------------------------------------
(* The theorem.                                                            *)

SensorsIInv ==
  /\ Shares   => ServiceIInv
  /\ Silences => SilentProofs!ServiceIInv
  /\ Prompts  => PromptedProofs!ServiceIInv

LEMMA SensorsStart == SensorsInit => SensorsIInv
<1> SUFFICES ASSUME SensorsInit PROVE SensorsIInv
  OBVIOUS
<1>1. CASE Shares /\ Init
  BY <1>1, ServiceInit DEF SensorsIInv, Shares, Silences, Prompts
<1>2. CASE Silences /\ Silent!Init
  <2>1. SilentProofs!Init
    BY <1>2 DEF Silent!Init, Silent!NoError, Silent!Failure, Silent!Unknown,
           SilentProofs!Init, SilentProofs!NoError, SilentProofs!Failure,
           SilentProofs!Unknown
  <2>2. SilentProofs!ServiceIInv
    BY <2>1, UsesFit, SilentProofs!ServiceInit
  <2> QED  BY <1>2, <2>2 DEF SensorsIInv, Shares, Silences, Prompts
<1>3. CASE Prompts /\ Prompted!Init
  <2>1. PromptedProofs!Init
    BY <1>3 DEF Prompted!Init, Prompted!NoError, Prompted!Failure, Prompted!Unknown,
           PromptedProofs!Init, PromptedProofs!NoError, PromptedProofs!Failure,
           PromptedProofs!Unknown
  <2>2. PromptedProofs!ServiceIInv
    BY <2>1, UsesFit, PromptedProofs!ServiceInit
  <2> QED  BY <1>3, <2>2 DEF SensorsIInv, Shares, Silences, Prompts
<1>4. CASE Shows
  BY <1>4 DEF SensorsIInv, Shows, Shares, Silences, Prompts
<1> QED  BY <1>1, <1>2, <1>3, <1>4 DEF SensorsInit

LEMMA SensorsInvariance == SensorsIInv /\ [SensorsNext]_sensorsVars => SensorsIInv'
<1> SUFFICES ASSUME SensorsIInv, [SensorsNext]_sensorsVars PROVE SensorsIInv'
  OBVIOUS
<1>1. part' = part
  BY DEF SensorsNext, sensorsVars
<1>2. CASE Shares
  <2>1. [Next]_vars
    BY <1>2 DEF SensorsNext, sensorsVars, Shares, Silences, Prompts, Shows
  <2>2. ServiceIInv'
    BY <1>2, <2>1, ServiceInvariance DEF SensorsIInv
  <2> QED  BY <1>1, <1>2, <2>2 DEF SensorsIInv, Shares, Silences, Prompts
<1>3. CASE Silences
  <2>1. [Silent!Next]_vars
    BY <1>3 DEF SensorsNext, sensorsVars, Shares, Silences, Prompts, Shows
  <2>2. SilentProofs!ServiceIInv'
    BY <1>3, <2>1, SilentNext, UsesFit, SilentProofs!ServiceInvariance DEF SensorsIInv
  <2> QED  BY <1>1, <1>3, <2>2 DEF SensorsIInv, Shares, Silences, Prompts
<1>4. CASE Prompts
  <2>1. [Prompted!Next]_vars
    BY <1>4 DEF SensorsNext, sensorsVars, Shares, Silences, Prompts, Shows
  <2>2. PromptedProofs!ServiceIInv'
    BY <1>4, <2>1, PromptedNext, UsesFit, PromptedProofs!ServiceInvariance DEF SensorsIInv
  <2> QED  BY <1>1, <1>4, <2>2 DEF SensorsIInv, Shares, Silences, Prompts
<1>5. CASE ~Shares /\ ~Silences /\ ~Prompts
  BY <1>1, <1>5 DEF SensorsIInv, Shares, Silences, Prompts
<1> QED  BY <1>2, <1>3, <1>4, <1>5

LEMMA SensorsIInvSuffices == SensorsIInv => ReadingsAreTrue
<1> SUFFICES ASSUME SensorsIInv PROVE ReadingsAreTrue
  OBVIOUS
<1>1. Shares => TypeOK /\ ShownWasMeasured /\ BuffersOutliveReads
  BY DEF SensorsIInv, ServiceIInv
<1>2. Silences => /\ SilentProofs!TypeOK /\ SilentProofs!ShownWasMeasured
                  /\ SilentProofs!BuffersOutliveReads
  BY DEF SensorsIInv, SilentProofs!ServiceIInv
<1>3. Prompts => /\ PromptedProofs!TypeOK /\ PromptedProofs!ShownWasMeasured
                 /\ PromptedProofs!BuffersOutliveReads
  BY DEF SensorsIInv, PromptedProofs!ServiceIInv
<1>4. SilentProofs!TypeOK => Silent!TypeOK
  BY DEF Silent!TypeOK, Silent!NoError, Silent!Snapshot, Silent!Errors, Silent!Ages,
           Silent!Status, Silent!Source, SilentProofs!TypeOK, SilentProofs!NoError,
           SilentProofs!Snapshot, SilentProofs!Errors, SilentProofs!Ages,
           SilentProofs!Status, SilentProofs!Source
<1>5. PromptedProofs!TypeOK => Prompted!TypeOK
  BY DEF Prompted!TypeOK, Prompted!NoError, Prompted!Snapshot, Prompted!Errors,
           Prompted!Ages, Prompted!Status, Prompted!Source, PromptedProofs!TypeOK,
           PromptedProofs!NoError, PromptedProofs!Snapshot, PromptedProofs!Errors,
           PromptedProofs!Ages, PromptedProofs!Status, PromptedProofs!Source
<1>6. /\ SilentProofs!ShownWasMeasured => Silent!ShownWasMeasured
      /\ PromptedProofs!ShownWasMeasured => Prompted!ShownWasMeasured
  BY DEF Silent!ShownWasMeasured, SilentProofs!ShownWasMeasured,
         Prompted!ShownWasMeasured, PromptedProofs!ShownWasMeasured
<1>7. /\ SilentProofs!BuffersOutliveReads => Silent!BuffersOutliveReads
      /\ PromptedProofs!BuffersOutliveReads => Prompted!BuffersOutliveReads
  BY DEF Silent!BuffersOutliveReads, SilentProofs!BuffersOutliveReads,
         Prompted!BuffersOutliveReads, PromptedProofs!BuffersOutliveReads
<1> QED  BY <1>1, <1>2, <1>3, <1>4, <1>5, <1>6, <1>7 DEF ReadingsAreTrue

\* With any number of clients, a service that may never answer or one that is
\* scheduled in time, and whatever fails or is suspended: what a client
\* (SensorServiceClient::read, TemperatureSampler::sample) shows as a temperature was
\* measured, and not long ago, and no read is left pending on a buffer that is gone.
THEOREM ReadingsAreAlwaysTrue == SensorsSpec => []ReadingsAreTrue
<1> DEFINE Safety == SensorsInit /\ [][SensorsNext]_sensorsVars
<1>1. Safety => []ReadingsAreTrue
  BY SensorsStart, SensorsInvariance, SensorsIInvSuffices, PTL
<1>2. SensorsSpec => Safety
  BY PTL DEF SensorsSpec
<1> QED  BY <1>1, <1>2, PTL

-----------------------------------------------------------------------------
(* The time for which the prompt service is not used.                      *)

UsedSensorsIInv == SensorsIInv /\ (Prompts => PromptedProofs!UsedIInv)

LEMMA UsedSensorsInvariance ==
  UsedSensorsIInv /\ [SensorsNext]_sensorsVars => UsedSensorsIInv'
<1> SUFFICES ASSUME UsedSensorsIInv, [SensorsNext]_sensorsVars PROVE UsedSensorsIInv'
  OBVIOUS
<1>1. SensorsIInv /\ SensorsIInv' /\ part' = part
  BY SensorsInvariance DEF UsedSensorsIInv, SensorsNext, sensorsVars
<1>2. CASE Prompts
  <2>1. [Prompted!Next]_vars
    BY <1>2 DEF SensorsNext, sensorsVars, Shares, Silences, Prompts, Shows
  <2>2. PromptedProofs!ServiceIInv /\ PromptedProofs!UsedIInv
    BY <1>1, <1>2 DEF UsedSensorsIInv, SensorsIInv
  <2>3. PromptedProofs!UsedIInv'
    BY <2>1, <2>2, PromptedNext, UsesFit, PromptedProofs!UsedInvariance
  <2> QED  BY <1>1, <2>3 DEF UsedSensorsIInv
<1>3. CASE ~Prompts
  BY <1>1, <1>3 DEF UsedSensorsIInv, Prompts
<1> QED  BY <1>2, <1>3

\* A service that is scheduled in time (SnapshotPipeServer) and waits longer than the
\* two units a client may let pass between two samples does not stop for want of
\* clients while one that shows its measurement samples on, as long as nothing has
\* failed.
THEOREM UsedAlwaysStaysUp ==
  ASSUME 2 < IdleTimeout
  PROVE  SensorsSpec => UsedStaysUp
<1> DEFINE Safety == SensorsInit /\ [][SensorsNext]_sensorsVars
<1>1. SensorsInit => UsedSensorsIInv
  <2> SUFFICES ASSUME SensorsInit PROVE UsedSensorsIInv
    OBVIOUS
  <2>1. CASE Prompts
    <3>1. Prompted!Init
      BY <2>1 DEF SensorsInit, Prompts, Shares, Shows, Silences
    <3>2. PromptedProofs!Init
      BY <3>1 DEF Prompted!Init, Prompted!NoError, Prompted!Failure, Prompted!Unknown,
           PromptedProofs!Init, PromptedProofs!NoError, PromptedProofs!Failure,
           PromptedProofs!Unknown
    <3>3. PromptedProofs!UsedIInv
      BY <3>2, UsesFit, PromptedProofs!UsedInit
    <3> QED  BY <3>3, SensorsStart DEF UsedSensorsIInv
  <2>2. CASE ~Prompts
    BY <2>2, SensorsStart DEF UsedSensorsIInv
  <2> QED  BY <2>1, <2>2
<1>2. UsedSensorsIInv => [Prompts => Prompted!StopsUnused]_vars
  <2> SUFFICES ASSUME UsedSensorsIInv, Prompts PROVE Prompted!StopsUnused
    OBVIOUS
  <2>1. PromptedProofs!ServiceIInv /\ PromptedProofs!UsedIInv
    BY DEF UsedSensorsIInv, SensorsIInv
  <2>2. PromptedProofs!StopsUnused
    BY <2>1, UsesFit, PromptedProofs!UsedIsNotStopped
  <2> QED  BY <2>2 DEF Prompted!StopsUnused, Prompted!IdleStop, Prompted!Expired, Prompted!CloseAll,
           Prompted!clientVars, Prompted!readVars, PromptedProofs!StopsUnused,
           PromptedProofs!IdleStop, PromptedProofs!Expired, PromptedProofs!CloseAll,
           PromptedProofs!clientVars, PromptedProofs!readVars
<1>3. Safety => UsedStaysUp
  BY <1>1, <1>2, UsedSensorsInvariance, PTL DEF UsedStaysUp
<1>4. SensorsSpec => Safety
  BY PTL DEF SensorsSpec
<1> QED  BY <1>3, <1>4, PTL

-----------------------------------------------------------------------------
(* The cards.                                                              *)

\* A non-empty set of natural numbers has a least element.
LEMMA HasLeast ==
  ASSUME NEW K \in SUBSET Nat, K # {}
  PROVE  \E k \in K : \A j \in K : k <= j
<1>1. PICK k \in K : \A j \in K : ~(<<j, k>> \in OpToRel(<, Nat))
  BY NatLessThanWellFounded, WFMin
<1>2. \A j \in K : k <= j
  <2> SUFFICES ASSUME NEW j \in K PROVE k <= j
    OBVIOUS
  <2>1. <<j, k>> \in OpToRel(<, Nat) <=> j < k
    BY DEF OpToRel
  <2>2. ~(j < k)
    BY <1>1, <2>1, Zenon
  <2> QED  BY <2>2
<1> QED  BY <1>2

\* max_by_key finds a greatest element: finitely many that are ordered have one.
LEMMA HasGreatest ==
  ASSUME NEW n \in Nat, NEW S \in SUBSET (1..n), S # {}, NEW R,
         \A i, j \in S : i # j => <<i, j>> \in R \/ <<j, i>> \in R,
         \A i, j, k \in S : <<i, j>> \in R /\ <<j, k>> \in R => <<i, k>> \in R
  PROVE  \E best \in S : \A i \in S \ {best} : <<i, best>> \in R
<1> DEFINE upTo(k) == S \cap (1..k)
           IsBest(b, k) == b \in upTo(k) /\ \A i \in upTo(k) \ {b} : <<i, b>> \in R
           K == {k \in 0..n : upTo(k) # {} /\ \A b \in S : ~IsBest(b, k)}
<1>1. K = {}
  <2> SUFFICES ASSUME K # {} PROVE FALSE
    OBVIOUS
  <2>1. PICK k \in K : \A j \in K : k <= j
    <3>1. K \in SUBSET Nat
      OBVIOUS
    <3> HIDE DEF K
    <3> QED  BY <3>1, HasLeast
  <2>2. k \in 1..n /\ k - 1 \in 0..n /\ k - 1 \notin K
    <3>1. k \in 0..n /\ upTo(k) # {}
      OBVIOUS
    <3>2. k # 0
      BY <3>1
    <3> HIDE DEF K
    <3>3. k - 1 \notin K
      BY <2>1, <3>1, <3>2
    <3> QED  BY <3>1, <3>2, <3>3
  <2>3. \A i \in upTo(k) : i \in upTo(k - 1) \/ i = k
    BY <2>2
  <2>4. CASE upTo(k - 1) = {}
    <3>1. k \in upTo(k)
      BY <2>1, <2>3, <2>4
    <3>2. IsBest(k, k)
      BY <2>3, <2>4, <3>1
    <3> QED  BY <2>1, <3>1, <3>2
  <2>5. CASE upTo(k - 1) # {}
    <3>1. PICK b \in S : IsBest(b, k - 1)
      BY <2>2, <2>5
    <3>2. b \in upTo(k) /\ b # k
      BY <2>2, <3>1
    <3>3. CASE k \notin S
      BY <2>1, <2>3, <3>1, <3>2, <3>3
    <3>4. CASE k \in S /\ <<k, b>> \in R
      BY <2>1, <2>3, <3>1, <3>2, <3>4
    <3>5. CASE k \in S /\ <<b, k>> \in R
      <4>1. \A i \in upTo(k) \ {k} : <<i, k>> \in R
        BY <2>3, <3>1, <3>5
      <4>2. IsBest(k, k)
        BY <2>2, <3>5, <4>1
      <4> QED  BY <2>1, <3>5, <4>2
    <3> QED  BY <3>2, <3>3, <3>4, <3>5
  <2> QED  BY <2>4, <2>5
<1>2. upTo(n) = S /\ n \notin K
  BY <1>1
<1> QED  BY <1>2

\* What is known of the cards of a machine.
CardsFit ==
  /\ cards \in Machines /\ cards \in Seq(Gpu!Card)
  /\ Len(cards) \in Nat /\ Gpu!Indices = 1..Len(cards)
  /\ \A i \in Gpu!Indices :
       /\ cards[i] \in Gpu!Card
       /\ cards[i].dedicated \in Nat /\ cards[i].shared \in Nat /\ cards[i].budget \in Nat
       /\ cards[i].integrated \in BOOLEAN /\ cards[i].software \in BOOLEAN

LEMMA MachinesFit == cards \in Machines => CardsFit
<1> SUFFICES ASSUME cards \in Machines PROVE CardsFit
  OBVIOUS
<1>1. cards \in Seq(Gpu!Card)
  BY CardsAssumption DEF Gpu!GpuAssumption
<1>2. Len(cards) \in Nat /\ Gpu!Indices = 1..Len(cards)
  BY <1>1 DEF Gpu!Indices
<1>3. \A i \in Gpu!Indices : cards[i] \in Gpu!Card
  BY <1>1, <1>2
<1> QED  BY <1>1, <1>2, <1>3 DEF CardsFit, Gpu!Card

Supported == {i \in Gpu!Indices : Gpu!Real(i)}
Hardware == {i \in Gpu!Indices : ~cards[i].software}

LEMMA TargetIsGreatest ==
  ASSUME CardsFit
  PROVE  IF Supported = {} THEN Gpu!SelectTarget = NoCard
         ELSE /\ Gpu!SelectTarget \in Supported
              /\ \A i \in Supported \ {Gpu!SelectTarget} : Gpu!Colder(i, Gpu!SelectTarget)
<1>1. CASE Supported = {}
  BY <1>1 DEF Gpu!SelectTarget, Gpu!MaxByKey, Supported, Gpu!Real
<1>2. CASE Supported # {}
  <2> DEFINE R == {p \in Supported \X Supported : Gpu!Colder(p[1], p[2])}
  <2>1. Supported \in SUBSET (1..Len(cards)) /\ Len(cards) \in Nat
    BY DEF CardsFit, Supported
  <2>2. \A i, j \in Supported : <<i, j>> \in R <=> Gpu!Colder(i, j)
    OBVIOUS
  <2> HIDE DEF R
  <2>i. \A i \in Supported : /\ cards[i].dedicated \in Nat /\ i \in Nat
                    /\ (cards[i].integrated = TRUE \/ cards[i].integrated = FALSE)
    BY <2>1 DEF CardsFit
  <2> DEFINE Smaller(i, j) == \/ cards[i].dedicated < cards[j].dedicated
                              \/ cards[i].dedicated = cards[j].dedicated /\ i > j
  <2>e. \A i, j : cards[i].integrated = cards[j].integrated => (Gpu!Colder(i, j) <=> Smaller(i, j))
    BY Zenon DEF Gpu!Colder
  <2>n. \A i \in Supported : cards[i].dedicated \in Nat /\ i \in Nat
    BY <2>1 DEF CardsFit
  <2>3. \A i, j \in Supported : i # j => <<i, j>> \in R \/ <<j, i>> \in R
    <3> SUFFICES ASSUME NEW i \in Supported, NEW j \in Supported, i # j
                 PROVE  Gpu!Colder(i, j) \/ Gpu!Colder(j, i)
      BY <2>2
    <3>1. CASE cards[i].integrated = cards[j].integrated
      <4>1. Smaller(i, j) \/ Smaller(j, i)
        <5>1. /\ cards[i].dedicated \in Nat /\ cards[j].dedicated \in Nat
              /\ i \in Nat /\ j \in Nat
          BY <2>n
        <5> QED  BY ONLY <5>1, i # j
      <4> QED  BY <2>e, <3>1, <4>1, Zenon
    <3>2. CASE cards[i].integrated # cards[j].integrated
      BY <2>i, <3>2 DEF Gpu!Colder
    <3> QED  BY <3>1, <3>2
  <2>4. \A i, j, k \in Supported : <<i, j>> \in R /\ <<j, k>> \in R => <<i, k>> \in R
    <3> SUFFICES ASSUME NEW i \in Supported, NEW j \in Supported, NEW k \in Supported, Gpu!Colder(i, j), Gpu!Colder(j, k)
                 PROVE  Gpu!Colder(i, k)
      BY <2>2
    <3>1. CASE cards[i].integrated = cards[j].integrated /\ cards[j].integrated = cards[k].integrated
      <4>1. Smaller(i, j) /\ Smaller(j, k) => Smaller(i, k)
        <5>1. /\ cards[i].dedicated \in Nat /\ cards[j].dedicated \in Nat /\ cards[k].dedicated \in Nat
              /\ i \in Nat /\ j \in Nat /\ k \in Nat
          BY <2>n
        <5> QED  BY ONLY <5>1
      <4> QED  BY <2>e, <3>1, <4>1, Zenon
    <3>2. CASE cards[i].integrated # cards[j].integrated \/ cards[j].integrated # cards[k].integrated
      <4>1. cards[i].integrated = TRUE /\ cards[k].integrated = FALSE
        BY <2>i, <3>2 DEF Gpu!Colder
      <4> QED  BY <4>1 DEF Gpu!Colder
    <3> QED  BY <3>1, <3>2
  <2>5. \E best \in Supported : \A i \in Supported \ {best} : <<i, best>> \in R
    <3>1. PICK n \in Nat : Supported \in SUBSET (1..n)
      BY <2>1
    <3> QED  BY <1>2, <2>3, <2>4, <3>1, HasGreatest, Zenon
  <2>6. \E best \in Supported : \A i \in Supported \ {best} : Gpu!Colder(i, best)
    BY <2>2, <2>5
  <2>7. Gpu!SelectTarget = CHOOSE best \in Supported : \A i \in Supported \ {best} : Gpu!Colder(i, best)
    BY <1>2 DEF Gpu!SelectTarget, Gpu!MaxByKey, Supported, Gpu!Real
  <2> QED  BY <1>2, <2>6, <2>7
<1> QED  BY <1>1, <1>2

LEMMA AdapterIsGreatest ==
  ASSUME CardsFit, NEW use \in [Gpu!Indices -> Nat]
  PROVE  IF Hardware = {} THEN Gpu!SelectVideoAdapter(use) = NoCard
         ELSE /\ Gpu!SelectVideoAdapter(use) \in Hardware
              /\ \A i \in Hardware : use[i] <= use[Gpu!SelectVideoAdapter(use)]
<1>1. CASE Hardware = {}
  BY <1>1 DEF Gpu!SelectVideoAdapter, Gpu!MaxByKey, Hardware
<1>2. CASE Hardware # {}
  <2> DEFINE R == {p \in Hardware \X Hardware : Gpu!LessUsed(use, p[1], p[2])}
  <2>1. Hardware \in SUBSET (1..Len(cards)) /\ Len(cards) \in Nat
    BY DEF CardsFit, Hardware
  <2>2. \A i, j \in Hardware : <<i, j>> \in R <=> Gpu!LessUsed(use, i, j)
    OBVIOUS
  <2> HIDE DEF R
  <2>3. \A i \in Hardware : use[i] \in Nat /\ Gpu!Size(i) \in Nat /\ Gpu!HasOwn(i) \in Nat /\ i \in Nat
    BY <2>1 DEF CardsFit, Gpu!Size, Gpu!HasOwn
  <2>4. \A i, j \in Hardware : i # j => <<i, j>> \in R \/ <<j, i>> \in R
    BY <2>2, <2>3 DEF Gpu!LessUsed
  <2>5. \A i, j, k \in Hardware : <<i, j>> \in R /\ <<j, k>> \in R => <<i, k>> \in R
    BY <2>2, <2>3 DEF Gpu!LessUsed
  <2>6. \E best \in Hardware : \A i \in Hardware \ {best} : <<i, best>> \in R
    <3>1. PICK n \in Nat : Hardware \in SUBSET (1..n)
      BY <2>1
    <3> QED  BY <1>2, <2>4, <2>5, <3>1, HasGreatest, Zenon
  <2>7. \E best \in Hardware : \A i \in Hardware \ {best} : Gpu!LessUsed(use, i, best)
    BY <2>2, <2>6
  <2> DEFINE best == CHOOSE best \in Hardware : \A i \in Hardware \ {best} : Gpu!LessUsed(use, i, best)
  <2>8. Gpu!SelectVideoAdapter(use) = best
    BY <1>2 DEF Gpu!SelectVideoAdapter, Gpu!MaxByKey, Hardware
  <2>9. best \in Hardware /\ \A i \in Hardware \ {best} : Gpu!LessUsed(use, i, best)
    BY <2>7
  <2> HIDE DEF best
  <2>10. \A i \in Hardware : use[i] <= use[best]
    BY <2>3, <2>9 DEF Gpu!LessUsed
  <2> QED  BY <1>2, <2>8, <2>9, <2>10
<1> QED  BY <1>1, <1>2

CardsIInv ==
  Shows =>
    /\ Gpu!TypeOK /\ Gpu!ShownIsTarget /\ Gpu!NativeIsOfClass /\ Gpu!MemoryFollowsUse
    /\ target = Gpu!SelectTarget /\ handles \subseteq Gpu!NativeHandles(target)
    /\ known = [i \in Gpu!Indices |-> i]

\* The sensors opened, and the readings of the service, are those of cards of the
\* vendor of the target; those of Level Zero of its class too.
LEMMA SensorsAreOfVendor ==
  ASSUME CardsFit, target \in Gpu!Indices
  PROVE  /\ \A i \in Gpu!NativeHandles(target) :
              /\ i \in Gpu!Indices /\ cards[i].vendor = cards[target].vendor
              /\ cards[target].vendor = "Intel" => cards[i].integrated = cards[target].integrated
         /\ \A answering \in SUBSET Gpu!Indices :
              \A i \in Gpu!Served(cards[target].vendor, answering) :
                i \in Gpu!Indices /\ cards[i].vendor = cards[target].vendor
<1>1. target # NoCard
  BY CardsAssumption DEF CardsFit, Gpu!GpuAssumption
<1>2. \A answering \in SUBSET Gpu!Indices :
        \A i \in Gpu!Served(cards[target].vendor, answering) :
          i \in Gpu!Indices /\ cards[i].vendor = cards[target].vendor
  BY DEF Gpu!Served
<1>3. CASE cards[target].vendor = "Intel"
  BY <1>1, <1>2, <1>3 DEF Gpu!NativeHandles, Gpu!MatchesTarget
<1>4. CASE cards[target].vendor = "NVIDIA" /\ ~cards[target].integrated
  BY <1>1, <1>2, <1>4 DEF Gpu!NativeHandles
<1>5. CASE ~(cards[target].vendor = "Intel")
           /\ ~(cards[target].vendor = "NVIDIA" /\ ~cards[target].integrated)
  BY <1>1, <1>2, <1>5 DEF Gpu!NativeHandles
<1> QED  BY <1>3, <1>4, <1>5

LEMMA CardsStart == SensorsInit => CardsIInv
<1> SUFFICES ASSUME SensorsInit PROVE CardsIInv
  OBVIOUS
<1>1. Gpu!Init
  BY DEF SensorsInit
<1>2. CardsFit
  BY <1>1, MachinesFit DEF Gpu!Init
<1>3. target = Gpu!SelectTarget /\ target \in Gpu!Indices \cup {NoCard}
  BY <1>1, <1>2, TargetIsGreatest DEF Gpu!Init, Supported
<1>4. handles \subseteq Gpu!NativeHandles(target) /\ handles \subseteq Gpu!Indices
  <2>1. handles \subseteq Gpu!NativeHandles(target)
    BY <1>1 DEF Gpu!Init
  <2>2. target = NoCard => Gpu!NativeHandles(target) = {}
    BY DEF Gpu!NativeHandles
  <2> QED  BY <1>2, <1>3, <2>1, <2>2, SensorsAreOfVendor
<1>5. luid \in [Gpu!Indices -> Nat] /\ known \in [Gpu!Indices -> Nat]
      /\ known = [i \in Gpu!Indices |-> i]
  BY <1>1, <1>2 DEF Gpu!Init, CardsFit
<1>6. Gpu!TypeOK
  BY <1>1, <1>3, <1>4, <1>5, CardsAssumption DEF Gpu!Init, Gpu!TypeOK, Gpu!GpuAssumption
<1>7. Gpu!ShownIsTarget /\ Gpu!NativeIsOfClass /\ Gpu!MemoryFollowsUse
  BY <1>1 DEF Gpu!Init, Gpu!ShownIsTarget, Gpu!NativeIsOfClass, Gpu!MemoryFollowsUse
<1> QED  BY <1>3, <1>4, <1>5, <1>6, <1>7 DEF CardsIInv

LEMMA TemperatureIsOfVendor ==
  ASSUME CardsIInv, Shows, Gpu!SampleTemperature
  PROVE  \/ watched' = NoCard /\ source' = "none"
         \/ /\ watched' \in Gpu!Indices /\ watched' # NoCard /\ target # NoCard
            /\ source' \in {"native", "service"}
            /\ cards[watched'].vendor = cards[target].vendor
            /\ source' = "native" /\ cards[target].vendor = "Intel" =>
                 cards[watched'].integrated = cards[target].integrated
<1>1. CardsFit /\ target = Gpu!SelectTarget /\ handles \subseteq Gpu!NativeHandles(target)
      /\ handles \subseteq Gpu!Indices /\ NoCard \notin Gpu!Indices
  <2>1. CardsFit /\ handles \subseteq Gpu!Indices
    BY MachinesFit DEF CardsIInv, Gpu!TypeOK
  <2> QED  BY <2>1, CardsAssumption DEF CardsIInv, CardsFit, Gpu!GpuAssumption
<1>2. target = NoCard \/ target \in Gpu!Indices
  BY <1>1, TargetIsGreatest DEF Supported
<1>3. CASE target = NoCard
  BY <1>1, <1>3 DEF Gpu!SampleTemperature, Gpu!NativeHandles
<1>4. CASE target \in Gpu!Indices
  <2>1. PICK answering \in SUBSET Gpu!Indices :
          \/ watched' = NoCard /\ source' = "none"
          \/ watched' \in handles /\ source' = "native"
          \/ watched' \in Gpu!Served(cards[target].vendor, answering) /\ source' = "service"
    <3>1. target # NoCard
      BY <1>1, <1>4
    <3> QED  BY <3>1 DEF Gpu!SampleTemperature
  <2>2. CASE watched' = NoCard /\ source' = "none"
    BY <2>2
  <2>3. CASE watched' \in handles /\ source' = "native"
    BY <1>1, <1>4, <2>3, SensorsAreOfVendor
  <2>4. CASE watched' \in Gpu!Served(cards[target].vendor, answering) /\ source' = "service"
    <3>1. watched' \in Gpu!Indices /\ cards[watched'].vendor = cards[target].vendor
      BY <1>1, <1>4, <2>4, SensorsAreOfVendor
    <3> QED  BY <1>1, <1>4, <2>4, <3>1
  <2> QED  BY <2>1, <2>2, <2>3, <2>4
<1> QED  BY <1>2, <1>3, <1>4

LEMMA MemoryIsOfLargest ==
  ASSUME CardsIInv, Shows, Gpu!SampleVideoMemory
  PROVE  /\ memory'.card \in Gpu!Indices \cup {NoCard} /\ memory'.used \in Nat
         /\ Gpu!MemoryFollowsUse'
<1>1. CardsFit /\ luid \in [Gpu!Indices -> Nat] /\ known = [i \in Gpu!Indices |-> i]
  BY MachinesFit DEF CardsIInv, Gpu!TypeOK
<1>2. used' \in [Gpu!Indices -> Uses] /\ UNCHANGED <<cards, luid, known>>
  BY DEF Gpu!SampleVideoMemory
<1> DEFINE usage == Gpu!UsageByLuid(used')
           best == Gpu!SelectVideoAdapter(usage)
<1>3. usage \in [Gpu!Indices -> Nat]
      /\ \A i \in Gpu!Indices : luid[i] = known[i] /\ used'[i] # Absent => usage[i] = used'[i]
  <2>1. \A i \in Gpu!Indices : used'[i] # Absent => used'[i] \in Nat
    BY <1>2, CardsAssumption DEF Gpu!GpuAssumption
  <2> QED  BY <2>1 DEF Gpu!UsageByLuid
<1>4. memory' = IF best = NoCard THEN [card |-> NoCard, used |-> 0]
                ELSE [card |-> best,
                      used |-> IF usage[best] > Gpu!Total(best) THEN Gpu!Total(best) ELSE usage[best]]
  BY DEF Gpu!SampleVideoMemory
<1>5. IF Hardware = {} THEN best = NoCard
      ELSE best \in Hardware /\ \A i \in Hardware : usage[i] <= usage[best]
  <2>1. \A use \in [Gpu!Indices -> Nat] :
          IF Hardware = {} THEN Gpu!SelectVideoAdapter(use) = NoCard
          ELSE /\ Gpu!SelectVideoAdapter(use) \in Hardware
               /\ \A i \in Hardware : use[i] <= use[Gpu!SelectVideoAdapter(use)]
    BY <1>1, AdapterIsGreatest
  <2> QED  BY <1>3, <2>1
<1>6. \A i \in Gpu!Indices : Gpu!Total(i) \in Nat /\ Gpu!Total(i)' = Gpu!Total(i)
  BY <1>1, <1>2 DEF CardsFit, Gpu!Total
<1>7. Gpu!Indices' = Gpu!Indices
  BY <1>2 DEF Gpu!Indices
<1> HIDE DEF usage, best
<1>8. CASE best = NoCard
  BY <1>4, <1>8 DEF Gpu!MemoryFollowsUse
<1>9. CASE best \in Hardware /\ best # NoCard /\ \A i \in Hardware : usage[i] <= usage[best]
  <2>1. best \in Gpu!Indices /\ usage[best] \in Nat /\ Gpu!Total(best) \in Nat
    BY <1>3, <1>6, <1>9 DEF Hardware
  <2>2. memory'.card = best
        /\ memory'.used = IF usage[best] > Gpu!Total(best) THEN Gpu!Total(best) ELSE usage[best]
    BY <1>4, <1>9
  <2>3. memory'.used \in Nat /\ memory'.used <= Gpu!Total(best)
    BY <2>1, <2>2
  <2>4. ASSUME luid = known, NEW i \in Gpu!Indices, ~cards[i].software, used'[i] # Absent
        PROVE  memory'.used = Gpu!Total(best) \/ used'[i] <= memory'.used
    <3>1. usage[i] = used'[i] /\ usage[i] <= usage[best] /\ usage[i] \in Nat
      BY <1>3, <1>9, <2>4 DEF Hardware
    <3> QED  BY <2>1, <2>2, <3>1
  <2>5. Gpu!MemoryFollowsUse'
    <3> SUFFICES ASSUME luid = known
                 PROVE  /\ \A i \in Gpu!Indices : cards[i].software \/ used'[i] = Absent
                             \/ memory'.used = Gpu!Total(best) \/ used'[i] <= memory'.used
                        /\ memory'.used <= Gpu!Total(best)
      <4>1. Gpu!Total(memory.card)' = Gpu!Total(best)
        BY <1>2, <2>2 DEF Gpu!Total
      <4> QED  BY <1>2, <1>7, <4>1 DEF Gpu!MemoryFollowsUse
    <3> QED  BY <2>3, <2>4
  <2> QED  BY <2>1, <2>2, <2>3, <2>5
<1> QED  BY <1>5, <1>8, <1>9

LEMMA CardsInvariance ==
  ASSUME CardsIInv, [SensorsNext]_sensorsVars
  PROVE  CardsIInv'
<1> SUFFICES ASSUME Shows' PROVE CardsIInv'
  BY DEF CardsIInv
<1>0. Shows /\ CardsFit /\ Gpu!TypeOK /\ Gpu!ShownIsTarget /\ Gpu!NativeIsOfClass
      /\ Gpu!MemoryFollowsUse /\ target = Gpu!SelectTarget /\ handles \subseteq Gpu!NativeHandles(target)
      /\ known = [i \in Gpu!Indices |-> i]
  BY MachinesFit DEF Shows, SensorsNext, sensorsVars, CardsIInv, Gpu!TypeOK
<1>k. UNCHANGED <<cards, known, target, handles>> =>
        /\ target' = Gpu!SelectTarget' /\ handles' \subseteq Gpu!NativeHandles(target)'
        /\ known' = [i \in Gpu!Indices' |-> i] /\ Gpu!Indices' = Gpu!Indices
  <2> SUFFICES ASSUME UNCHANGED <<cards, known, target, handles>>
               PROVE  /\ Gpu!SelectTarget' = Gpu!SelectTarget
                      /\ Gpu!NativeHandles(target)' = Gpu!NativeHandles(target)
                      /\ Gpu!Indices' = Gpu!Indices
    BY <1>0
  <2>1. Gpu!SelectTarget' = Gpu!SelectTarget
    <3> DEFINE Worse(c, i, b) ==
                 \/ c[i].integrated /\ ~c[b].integrated
                 \/ /\ c[i].integrated = c[b].integrated
                    /\ \/ c[i].dedicated < c[b].dedicated
                       \/ c[i].dedicated = c[b].dedicated /\ i > b
               Offered(c) == {i \in DOMAIN c : ~c[i].software /\ c[i].vendor \in Gpu!Vendor}
               Best(c) == IF Offered(c) = {} THEN NoCard
                          ELSE CHOOSE best \in Offered(c) :
                                 \A i \in Offered(c) \ {best} : Worse(c, i, best)
    <3>1. Gpu!SelectTarget = Best(cards)
      BY DEF Gpu!SelectTarget, Gpu!MaxByKey, Gpu!Colder, Gpu!Indices
    <3>2. Gpu!SelectTarget' = Best(cards')
      BY DEF Gpu!SelectTarget, Gpu!MaxByKey, Gpu!Colder, Gpu!Indices
    <3> HIDE DEF Best
    <3> QED  BY <3>1, <3>2
  <2>2. Gpu!NativeHandles(target)' = Gpu!NativeHandles(target)
    BY DEF Gpu!NativeHandles, Gpu!MatchesTarget, Gpu!Indices
  <2> QED  BY <2>1, <2>2 DEF Gpu!Indices
<1>1. CASE Gpu!SampleTemperature
  <2>1. \/ watched' = NoCard /\ source' = "none"
        \/ /\ watched' \in Gpu!Indices /\ watched' # NoCard /\ target # NoCard
           /\ source' \in {"native", "service"}
           /\ cards[watched'].vendor = cards[target].vendor
           /\ source' = "native" /\ cards[target].vendor = "Intel" =>
                cards[watched'].integrated = cards[target].integrated
    BY <1>0, <1>1, TemperatureIsOfVendor
  <2>2. UNCHANGED <<cards, luid, known, target, handles, memory, used, replugs>>
    BY <1>1 DEF Gpu!SampleTemperature
  <2>3. Gpu!TypeOK'
    BY <1>0, <1>k, <2>1, <2>2 DEF Gpu!TypeOK
  <2>5. Gpu!ShownIsTarget'
    BY <1>0, <1>k, <2>1, <2>2 DEF Gpu!ShownIsTarget
  <2>6. Gpu!NativeIsOfClass'
    BY <2>1, <2>2 DEF Gpu!NativeIsOfClass
  <2>4. Gpu!MemoryFollowsUse'
    BY <1>0, <1>k, <2>2 DEF Gpu!MemoryFollowsUse, Gpu!Total
  <2> QED  BY <1>k, <2>2, <2>3, <2>4, <2>5, <2>6 DEF CardsIInv
<1>2. CASE Gpu!SampleVideoMemory
  <2>1. /\ memory'.card \in Gpu!Indices \cup {NoCard} /\ memory'.used \in Nat
        /\ Gpu!MemoryFollowsUse'
    BY <1>0, <1>2, MemoryIsOfLargest DEF CardsIInv
  <2>2. UNCHANGED <<cards, luid, known, target, handles, watched, source, replugs>>
        /\ used' \in [Gpu!Indices -> Uses]
    BY <1>2 DEF Gpu!SampleVideoMemory
  <2>3. Gpu!TypeOK' /\ Gpu!ShownIsTarget' /\ Gpu!NativeIsOfClass'
    BY <1>0, <1>k, <2>1, <2>2 DEF Gpu!TypeOK, Gpu!ShownIsTarget, Gpu!NativeIsOfClass
  <2> QED  BY <1>k, <2>1, <2>2, <2>3 DEF CardsIInv
<1>3. CASE Gpu!Replug
  <2>1. PICK i \in Gpu!Indices : luid' = [luid EXCEPT ![i] = Len(cards) + replugs + 1]
    BY <1>3 DEF Gpu!Replug
  <2>2. UNCHANGED <<cards, known, target, handles, watched, source, memory, used>>
        /\ replugs' = replugs + 1 /\ replugs < MaxReplugs
    BY <1>3 DEF Gpu!Replug
  <2>3. replugs \in Nat /\ replugs' \in 0..MaxReplugs /\ luid' \in [Gpu!Indices -> Nat]
    BY <1>0, <2>1, <2>2, CardsAssumption DEF Gpu!TypeOK, Gpu!GpuAssumption, CardsFit
  <2>4. luid' # known'
    <3>1. luid'[i] = Len(cards) + replugs + 1 /\ known'[i] = i /\ i <= Len(cards)
      BY <1>0, <2>1, <2>2 DEF Gpu!TypeOK, CardsFit
    <3> QED  BY <1>0, <2>3, <3>1 DEF CardsFit
  <2>5. Gpu!MemoryFollowsUse'
    BY <2>4 DEF Gpu!MemoryFollowsUse
  <2>6. Gpu!TypeOK' /\ Gpu!ShownIsTarget' /\ Gpu!NativeIsOfClass'
    BY <1>0, <1>k, <2>2, <2>3 DEF Gpu!TypeOK, Gpu!ShownIsTarget, Gpu!NativeIsOfClass
  <2> QED  BY <1>k, <2>2, <2>5, <2>6 DEF CardsIInv
<1>4. CASE UNCHANGED gpuVars
  <2>1. /\ Gpu!TypeOK' /\ Gpu!ShownIsTarget' /\ Gpu!NativeIsOfClass'
        /\ Gpu!MemoryFollowsUse'
    BY <1>0, <1>k, <1>4 DEF gpuVars, Gpu!TypeOK, Gpu!ShownIsTarget, Gpu!NativeIsOfClass,
                            Gpu!MemoryFollowsUse, Gpu!Total
  <2> QED  BY <1>k, <1>4, <2>1 DEF CardsIInv, gpuVars
<1>5. Gpu!Next \/ UNCHANGED gpuVars
  BY <1>0 DEF SensorsNext, sensorsVars, Shows, Shares, Silences, Prompts
<1> QED  BY <1>1, <1>2, <1>3, <1>4, <1>5 DEF Gpu!Next

LEMMA CardsIInvSuffices == CardsIInv => CardsAreTrue
<1> SUFFICES ASSUME CardsIInv, Shows PROVE Gpu!DedicatedIsTarget
  BY DEF CardsIInv, CardsAreTrue
<1>1. CardsFit /\ target = Gpu!SelectTarget
  BY MachinesFit DEF CardsIInv, Gpu!TypeOK
<1>2. ASSUME NEW i \in Gpu!Indices, Gpu!Real(i), ~cards[i].integrated
      PROVE  ~cards[target].integrated
  <2>1. i \in Supported
    BY <1>2 DEF Supported
  <2>2. i = target \/ Gpu!Colder(i, target)
    BY <1>1, <2>1, TargetIsGreatest
  <2>3. CASE i = target
    BY <1>2, <2>3
  <2>4. CASE Gpu!Colder(i, target)
    BY <1>2, <2>4, Zenon DEF Gpu!Colder
  <2> QED  BY <2>2, <2>3, <2>4
<1> QED  BY <1>2 DEF Gpu!DedicatedIsTarget, Gpu!HasDedicated

\* On every machine a dedicated card is watched where there is one
\* (select_gpu_temperature_target), the temperature shown is its own where its vendor
\* has no other card, whichever sensors answer (SensorSelection, NVML), it is of its
\* class when Level Zero gives it, and the memory shown is that of the card that uses
\* most of it (select_video_adapter).
THEOREM CardsAreAlwaysTrue == SensorsSpec => []CardsAreTrue
<1> DEFINE Safety == SensorsInit /\ [][SensorsNext]_sensorsVars
<1>1. CardsIInv /\ [SensorsNext]_sensorsVars => CardsIInv'
  BY CardsInvariance
<1>2. Safety => []CardsAreTrue
  BY <1>1, CardsStart, CardsIInvSuffices, PTL
<1>3. SensorsSpec => Safety
  BY PTL DEF SensorsSpec
<1> QED  BY <1>2, <1>3, PTL

==============================================================================
