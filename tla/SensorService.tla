---------------------------- MODULE SensorService ----------------------------
(***************************************************************************)
(* Temperatures.  The monitor thread of each desktop session (a client)    *)
(* reads a snapshot from the named pipe of the Windows service             *)
(* ZZHSensorService, and starts the service when there is none.  The       *)
(* service keeps one snapshot of the hardware up to date, serves one       *)
(* client at a time and stops when nobody has connected for a while.       *)
(* Windows itself, its service manager and its pipes, is external.  Time   *)
(* is counted in units of about ten seconds: what a client does at one     *)
(* sample takes none.                                                      *)
(***************************************************************************)
EXTENDS Naturals, Sequences

CONSTANTS
  Clients,
  Nobody,        \* no client
  InitErrors,    \* what may keep the sensors from being opened
  Measurements,  \* what the sensors may give: [cpu, gpu |-> BOOLEAN]
  Target,        \* Clients whose machine has a graphics card to watch
  Attempts,      \* PIPE_READ_ATTEMPTS, 3
  MaxAge,        \* MAXIMUM_SNAPSHOT_AGE, 15 s
  IdleTimeout,   \* of SnapshotPipeServer, 30 s
  SampleGap,     \* longest time from one sample of a client to its next
  Prompt,        \* assumption: a service with open sensors takes up a client,
                 \* answers it within 250 ms and measures between two samples
  MaxFaults,     \* bound: crashes, failures of the service and suspensions
  MaxTimeouts    \* bound: waits of 250 ms in one sample are counted up to it

ASSUME SensorAssumption ==
  /\ InitErrors \subseteq {"pawnio_not_installed", "pawnio_device_unavailable",
                          "sensor_initialization_failed"}
  /\ Measurements \subseteq [cpu : BOOLEAN, gpu : BOOLEAN]
  /\ Nobody \notin Clients /\ Target \subseteq Clients
  /\ {Attempts, MaxAge, IdleTimeout, SampleGap} \subseteq Nat \ {0}
  /\ Prompt \in BOOLEAN /\ {MaxFaults, MaxTimeouts} \subseteq Nat

Errors == InitErrors \cup {"warming_up", "sensor_update_failed"}
NoError == "none"
Ages == 0..(MaxAge + 1) \* bound: all that is stale is of the same age
Snapshot == [error : Errors \cup {NoError}, cpu : BOOLEAN, gpu : BOOLEAN, age : Ages]
Failure(error) == [error |-> error, cpu |-> FALSE, gpu |-> FALSE, age |-> 0]

Source == {"Available", "Unsupported", "TemporarilyUnavailable"}
Status == {"Ready", "NotInstalled", "PawnIoNotInstalled", "PawnIoDeviceUnavailable",
           "InitializationFailed", "Starting", "TemporarilyUnavailable"}

VARIABLES
  scm,       \* external: the state of the service for the service manager
  server,    \* RunAsync of SnapshotPipeServer: where it is
  stopping,  \* RequestStop has queued a Stop
  fault,     \* HardwareSampler: _initializationError
  cache,     \* SensorSnapshotCache: _current
  peer,      \* the client at the other end of the pipe
  sending,   \* the snapshot being written
  idle,      \* time since lastClient
  pc,        \* clients: where read() is
  attempt,   \* clients: attempts of retry_transient begun
  again,     \* clients: the service was starting, this is the second retry_transient
  received,  \* clients: what the pipe has for it to read
  connected, \* clients: the server has not closed that pipe
  overlapped,\* clients: a ReadFile has been issued and has not completed
  shown,     \* clients: the last TemperatureSample
  rest,      \* clients: time since it
  timeouts,  \* history: waits of 250 ms that expired in this sample
  faults     \* history

serviceVars == <<server, stopping, fault, cache, peer, sending, idle>>
readVars == <<pc, attempt, again, overlapped, timeouts>>
pipeVars == <<received, connected>>
vars == <<scm, serviceVars, readVars, pipeVars, shown, rest, faults>>

TypeOK ==
  /\ scm \in {"NotInstalled", "Stopped", "StartPending", "Running", "StopPending"}
  /\ server \in {"None", "Init", "Create", "Listen", "Write", "Payload", "Ended"}
  /\ stopping \in BOOLEAN /\ fault \in InitErrors \cup {NoError}
  /\ cache \in Snapshot /\ sending \in Snapshot /\ peer \in Clients \cup {Nobody}
  /\ idle \in 0..IdleTimeout
  /\ pc \in [Clients -> {"Rest", "Open", "Length", "Payload", "Cancel", "Ensure"}]
  /\ attempt \in [Clients -> 0..Attempts]
  /\ again \in [Clients -> BOOLEAN] /\ connected \in [Clients -> BOOLEAN]
  /\ overlapped \in [Clients -> BOOLEAN]
  /\ \A c \in Clients :
       \/ received[c] \in {<<>>, <<"length">>}
       \/ received[c][Len(received[c])] \in Snapshot
  /\ shown \in [Clients -> [status : Status, cpu : Source, gpu : Source, age : Ages]]
  /\ rest \in [Clients -> 0..SampleGap]
  /\ timeouts \in [Clients -> 0..MaxTimeouts] /\ faults \in 0..MaxFaults
  /\ (server \in {"None", "Init"}) => peer = Nobody

Unknown == [status |-> "TemporarilyUnavailable", cpu |-> "TemporarilyUnavailable",
            gpu |-> "TemporarilyUnavailable", age |-> 0]

Init ==
  /\ scm \in {"NotInstalled", "Stopped"}
  /\ server = "None" /\ stopping = FALSE /\ fault = NoError
  /\ cache = Failure("warming_up") /\ sending = cache
  /\ peer = Nobody /\ idle = 0
  /\ pc = [c \in Clients |-> "Rest"] /\ attempt = [c \in Clients |-> 0]
  /\ again = [c \in Clients |-> FALSE]
  /\ received = [c \in Clients |-> <<>>] /\ connected = [c \in Clients |-> FALSE]
  /\ overlapped = [c \in Clients |-> FALSE]
  /\ shown = [c \in Clients |-> Unknown]
  /\ rest = [c \in Clients |-> 0]
  /\ timeouts = [c \in Clients |-> 0] /\ faults = 0

-----------------------------------------------------------------------------
(* The client: SensorServiceClient::read and TemperatureSampler::sample. *)

CanFail == faults < MaxFaults /\ faults' = faults + 1

\* A snapshot without an error and without a processor temperature says
\* cpu_package_unavailable, which the client takes for Unsupported.
CpuOf(s) ==
  CASE s.error # NoError -> "TemporarilyUnavailable"
    [] s.error = NoError /\ s.cpu -> "Available"
    [] OTHER -> "Unsupported"

GpuOf(c, s) ==
  CASE c \notin Target -> "Unsupported"
    [] c \in Target /\ s.error # NoError -> "TemporarilyUnavailable"
    [] c \in Target /\ s.error = NoError /\ s.gpu -> "Available"
    [] OTHER -> "Unsupported"

StatusOf(s) ==
  CASE s.error = NoError -> "Ready"
    [] s.error = "pawnio_not_installed" -> "PawnIoNotInstalled"
    [] s.error = "pawnio_device_unavailable" -> "PawnIoDeviceUnavailable"
    [] s.error = "sensor_initialization_failed" -> "InitializationFailed"
    [] OTHER -> "TemporarilyUnavailable"

Finish(c, sample) ==
  /\ pc' = [pc EXCEPT ![c] = "Rest"]
  /\ attempt' = [attempt EXCEPT ![c] = 0] /\ again' = [again EXCEPT ![c] = FALSE]
  /\ timeouts' = [timeouts EXCEPT ![c] = 0]
  /\ shown' = [shown EXCEPT ![c] = sample]

\* read() without a snapshot; the native reader of the graphics card, when
\* there is one, decides gpu instead and is left out.
FinishWithout(c, kind) ==
  LET error == IF kind = "NotInstalled" THEN "Unsupported" ELSE "TemporarilyUnavailable"
  IN Finish(c, [status |-> kind, cpu |-> error, age |-> 0,
                gpu |-> IF c \in Target THEN error ELSE "Unsupported"])

\* The handle is closed: what was not read is lost, and the server notices.
CloseHandle(c) ==
  /\ connected' = [connected EXCEPT ![c] = FALSE]
  /\ received' = [received EXCEPT ![c] = <<>>]

KeepHandles == UNCHANGED <<received, connected>>

AttemptFailsFaulty(c) ==
  \/ /\ attempt[c] < Attempts
     /\ attempt' = [attempt EXCEPT ![c] = @ + 1]
     /\ pc' = [pc EXCEPT ![c] = "Open"]
     /\ UNCHANGED <<again, shown>>
  \/ /\ attempt[c] = Attempts
     /\ pc' = [pc EXCEPT ![c] = "Ensure"]
     /\ UNCHANGED <<attempt, again, shown>>

\* Err(()) of read_pipe_snapshot: wait 40 ms and try again, ask for the service
\* after the last attempt, give up after the last of the second round.
AttemptFails(c) ==
  \/ /\ attempt[c] < Attempts
     /\ attempt' = [attempt EXCEPT ![c] = @ + 1]
     /\ pc' = [pc EXCEPT ![c] = "Open"]
     /\ UNCHANGED <<again, shown>>
  \/ /\ attempt[c] = Attempts /\ ~again[c]
     /\ pc' = [pc EXCEPT ![c] = "Ensure"]
     /\ UNCHANGED <<attempt, again, shown>>
  \/ attempt[c] = Attempts /\ again[c] /\ FinishWithout(c, "Starting")

CountTimeout(c) ==
  timeouts' = [timeouts EXCEPT ![c] =
    IF pc'[c] = "Rest" THEN 0 ELSE IF @ < MaxTimeouts THEN @ + 1 ELSE @]

NoTimeout(c) == timeouts' = [timeouts EXCEPT ![c] = IF pc'[c] = "Rest" THEN 0 ELSE @]

Sample(c) ==
  /\ pc[c] = "Rest" /\ rest[c] > 0
  /\ pc' = [pc EXCEPT ![c] = "Open"]
  /\ attempt' = [attempt EXCEPT ![c] = 1]
  /\ rest' = [rest EXCEPT ![c] = 0]
  /\ UNCHANGED <<scm, serviceVars, again, overlapped, timeouts, pipeVars, shown, faults>>

PipeExists == server \in {"Listen", "Write", "Payload"}
PipeFree == server = "Listen" /\ peer = Nobody

\* WaitNamedPipeW and CreateFileW, then the ReadFile of the length.
OpenPipe(c) ==
  /\ pc[c] = "Open" /\ PipeFree
  /\ peer' = c
  /\ connected' = [connected EXCEPT ![c] = TRUE]
  /\ received' = [received EXCEPT ![c] = <<>>]
  /\ pc' = [pc EXCEPT ![c] = "Length"]
  /\ overlapped' = [overlapped EXCEPT ![c] = TRUE]
  /\ UNCHANGED <<scm, server, stopping, fault, cache, sending, idle, attempt, again,
                 timeouts, shown, rest, faults>>

\* There is no pipe (at once), or its one instance is taken (after 250 ms, or
\* at once when another client was faster after the wait).
OpenFails(c) ==
  /\ pc[c] = "Open" /\ ~PipeFree
  /\ AttemptFails(c)
  /\ (CountTimeout(c) /\ PipeExists) \/ NoTimeout(c)
  /\ UNCHANGED <<scm, serviceVars, overlapped, pipeVars, rest, faults>>

\* read_exact_with_timeout returns: the read has completed.
Completed(c) == overlapped' = [overlapped EXCEPT ![c] = FALSE]

ReadLength(c) ==
  /\ pc[c] = "Length" /\ received[c] # <<>>
  /\ pc' = [pc EXCEPT ![c] = "Payload"] \* with the ReadFile of the payload
  /\ UNCHANGED <<scm, serviceVars, attempt, again, overlapped, timeouts, pipeVars, shown,
                 rest, faults>>

StaleFaulty(s) == FALSE

\* snapshot_is_stale
Stale(s) == s.age > MaxAge

ReadPayload(c) ==
  /\ pc[c] = "Payload" /\ Len(received[c]) = 2
  /\ LET s == received[c][2]
     IN \/ /\ ~Stale(s)
           /\ Finish(c, [status |-> StatusOf(s), cpu |-> CpuOf(s), gpu |-> GpuOf(c, s),
                         age |-> s.age])
        \/ Stale(s) /\ AttemptFails(c) /\ NoTimeout(c)
  /\ Completed(c) /\ CloseHandle(c)
  /\ UNCHANGED <<scm, serviceVars, rest, faults>>

\* Nothing left to read that the client waits for.
Starved(c) ==
  \/ pc[c] = "Length" /\ received[c] = <<>>
  \/ pc[c] = "Payload" /\ Len(received[c]) < 2

\* The server has closed its end.
ReadFails(c) ==
  /\ Starved(c) /\ ~connected[c]
  /\ AttemptFails(c) /\ NoTimeout(c)
  /\ Completed(c) /\ CloseHandle(c)
  /\ UNCHANGED <<scm, serviceVars, rest, faults>>

\* GetOverlappedResultEx times out, and CancelIoEx asks for the end of the read.
ReadTimesOut(c) ==
  /\ Starved(c) /\ connected[c]
  /\ ~Prompt
  /\ pc' = [pc EXCEPT ![c] = "Cancel"]
  /\ CountTimeout(c)
  /\ UNCHANGED <<scm, serviceVars, attempt, again, overlapped, pipeVars, shown, rest, faults>>

\* External: the read ends, cancelled or because something came after all.
ReadEnds(c) ==
  /\ pc[c] = "Cancel" /\ overlapped[c]
  /\ Completed(c)
  /\ UNCHANGED <<scm, serviceVars, pc, attempt, again, timeouts, pipeVars, shown, rest, faults>>

\* The handle is closed without a wait for the end of the read.
AwaitCancelledFaulty(c) ==
  /\ pc[c] = "Cancel"
  /\ AttemptFails(c) /\ NoTimeout(c)
  /\ CloseHandle(c)
  /\ UNCHANGED <<scm, serviceVars, overlapped, rest, faults>>

\* GetOverlappedResult has waited for the end of the read: what it may have read
\* is given up with the attempt.
AwaitCancelled(c) ==
  /\ pc[c] = "Cancel" /\ ~overlapped[c]
  /\ AttemptFails(c) /\ NoTimeout(c)
  /\ CloseHandle(c)
  /\ UNCHANGED <<scm, serviceVars, overlapped, rest, faults>>

\* ensure_service_running
EnsureFails(c) ==
  /\ pc[c] = "Ensure"
  /\ \/ scm = "NotInstalled" /\ FinishWithout(c, "NotInstalled") /\ UNCHANGED faults
     \/ /\ scm \in {"Running", "StopPending"}
        /\ FinishWithout(c, "TemporarilyUnavailable") /\ UNCHANGED faults
     \/ CanFail /\ FinishWithout(c, "TemporarilyUnavailable")
  /\ UNCHANGED <<scm, serviceVars, overlapped, pipeVars, rest>>

StartService(c) ==
  /\ pc[c] = "Ensure" /\ scm \in {"Stopped", "StartPending"}
  /\ scm' = "StartPending"
  /\ pc' = [pc EXCEPT ![c] = "Open"]
  /\ attempt' = [attempt EXCEPT ![c] = 1] /\ again' = [again EXCEPT ![c] = TRUE]
  /\ UNCHANGED <<serviceVars, overlapped, timeouts, pipeVars, shown, rest, faults>>

ClientStep(c) ==
  \/ OpenPipe(c) \/ OpenFails(c) \/ ReadLength(c) \/ ReadPayload(c)
  \/ ReadFails(c) \/ ReadTimesOut(c) \/ ReadEnds(c) \/ AwaitCancelled(c)
  \/ EnsureFails(c) \/ StartService(c)

-----------------------------------------------------------------------------
(* The service. *)

clientVars == <<readVars, shown, rest>>
\* The far end of every pipe is closed.
CloseAll == connected' = [c \in Clients |-> FALSE] /\ UNCHANGED received

\* OnStart hands RunAsync to the thread pool.
OnStart ==
  /\ scm = "StartPending" /\ server = "None"
  /\ server' = "Init" /\ stopping' = FALSE
  /\ UNCHANGED <<scm, fault, cache, peer, sending, idle, clientVars, pipeVars, faults>>

\* It has returned: the service reports that it runs, however far RunAsync is.
StartEnds ==
  /\ scm = "StartPending" /\ server # "None"
  /\ scm' = "Running"
  /\ UNCHANGED <<serviceVars, clientVars, pipeVars, faults>>

\* RunAsync: HardwareSampler and SensorSnapshotCache are made.
Initialize ==
  /\ server = "Init"
  /\ \/ fault' = NoError /\ UNCHANGED faults
     \/ fault' \in InitErrors /\ CanFail
  /\ cache' = Failure("warming_up")
  /\ server' = "Create" /\ idle' = 0
  /\ UNCHANGED <<scm, stopping, peer, sending, clientVars, pipeVars>>

\* UpdateLoopAsync: Sample reports the initialization error, measures, or throws.
Update ==
  /\ server \notin {"None", "Init", "Ended"}
  /\ \/ fault # NoError /\ cache' = Failure(fault) /\ UNCHANGED faults
     \/ /\ fault = NoError /\ UNCHANGED faults
        /\ \E m \in Measurements :
             cache' = [error |-> NoError, cpu |-> m.cpu, gpu |-> m.gpu, age |-> 0]
     \/ fault = NoError /\ CanFail /\ cache' = Failure("sensor_update_failed")
  /\ UNCHANGED <<scm, server, stopping, fault, peer, sending, idle, clientVars, pipeVars>>

Expired == idle >= IdleTimeout

CreatePipe ==
  /\ server = "Create" /\ ~Expired
  /\ server' = "Listen" /\ peer' = Nobody
  /\ UNCHANGED <<scm, stopping, fault, cache, sending, idle, clientVars, pipeVars, faults>>

\* idle(), at the head of the loop or when the wait for a client is cancelled:
\* a client that has connected meanwhile is cut off.
IdleStop ==
  /\ server \in {"Create", "Listen"} /\ Expired
  /\ server' = "Ended" /\ stopping' = TRUE /\ peer' = Nobody
  /\ CloseAll
  /\ UNCHANGED <<scm, fault, cache, sending, idle, clientVars, faults>>

RunFailsFaulty ==
  /\ server \in {"Init", "Create", "Listen"} /\ CanFail
  /\ server' = "Ended" /\ peer' = Nobody
  /\ CloseAll
  /\ UNCHANGED <<scm, stopping, fault, cache, sending, idle, clientVars>>

\* The pipe cannot be created, for one because the client still holds the other
\* end of the only instance, or the wait for a client fails, which is outside of
\* the try: RunAsync ends and asks for a stop.
RunFails ==
  /\ server \in {"Init", "Create", "Listen"} /\ CanFail
  /\ server' = "Ended" /\ stopping' = TRUE /\ peer' = Nobody
  /\ CloseAll
  /\ UNCHANGED <<scm, fault, cache, sending, idle, clientVars>>

AcceptFaulty ==
  /\ server = "Listen" /\ peer # Nobody
  /\ server' = "Write" /\ sending' = cache
  /\ UNCHANGED <<scm, stopping, fault, cache, peer, idle, clientVars, pipeVars, faults>>

\* WaitForConnectionAsync returns; the snapshot is taken.
Accept ==
  /\ server = "Listen" /\ peer # Nobody
  /\ server' = "Write" /\ idle' = 0 /\ sending' = cache
  /\ UNCHANGED <<scm, stopping, fault, cache, peer, clientVars, pipeVars, faults>>

WriteLength ==
  /\ server = "Write" /\ connected[peer]
  /\ received' = [received EXCEPT ![peer] = <<"length">>]
  /\ server' = "Payload"
  /\ UNCHANGED <<scm, stopping, fault, cache, peer, sending, idle, connected, clientVars, faults>>

\* The pipe is disposed of after the payload; what was written can still be read.
WritePayload ==
  /\ server = "Payload" /\ connected[peer]
  /\ received' = [received EXCEPT ![peer] = Append(@, sending)]
  /\ connected' = [connected EXCEPT ![peer] = FALSE]
  /\ server' = "Create" /\ peer' = Nobody
  /\ UNCHANGED <<scm, stopping, fault, cache, sending, idle, clientVars, faults>>

\* The client has gone: IOException, keep serving.
WriteFails ==
  /\ server \in {"Write", "Payload"} /\ ~connected[peer]
  /\ server' = "Create" /\ peer' = Nobody
  /\ UNCHANGED <<scm, stopping, fault, cache, sending, idle, clientVars, pipeVars, faults>>

\* Stop, then the end of OnStop.
StopBegins ==
  /\ stopping /\ scm = "Running"
  /\ scm' = "StopPending"
  /\ UNCHANGED <<serviceVars, clientVars, pipeVars, faults>>

StopEnds ==
  /\ scm = "StopPending" /\ server = "Ended"
  /\ scm' = "Stopped" /\ server' = "None" /\ stopping' = FALSE
  /\ UNCHANGED <<fault, cache, peer, sending, idle, clientVars, pipeVars, faults>>

\* The process of the service ends.
Crash ==
  /\ server # "None" /\ CanFail
  /\ scm' = "Stopped" /\ server' = "None" /\ stopping' = FALSE /\ peer' = Nobody
  /\ CloseAll
  /\ UNCHANGED <<fault, cache, sending, idle, clientVars>>

ServiceStep ==
  \/ OnStart \/ StartEnds \/ Initialize \/ CreatePipe \/ IdleStop \/ Accept
  \/ WriteLength \/ WritePayload \/ WriteFails \/ StopBegins \/ StopEnds

-----------------------------------------------------------------------------
(* Time. *)

Older(s, d) == [s EXCEPT !.age = IF @ + d > MaxAge THEN MaxAge + 1 ELSE @ + d]

Pass(d) ==
  /\ idle' = IF idle + d > IdleTimeout THEN IdleTimeout ELSE idle + d
  /\ cache' = Older(cache, d) /\ sending' = Older(sending, d)
  /\ received' = [c \in Clients |->
       IF Len(received[c]) = 2 THEN <<"length", Older(received[c][2], d)>> ELSE received[c]]
  /\ UNCHANGED <<scm, server, stopping, fault, peer, readVars, connected, shown>>

\* What a prompt service does at once; opening the sensors may take long.
Busy ==
  \/ server \in {"Create", "Write", "Payload"} \/ peer # Nobody
  \/ server = "Listen" /\ cache.age >= MaxAge

\* Between samples.
Tick ==
  /\ Prompt => ~Busy
  /\ \A c \in Clients : pc[c] = "Rest" /\ rest[c] < SampleGap
  /\ Pass(1)
  /\ rest' = [c \in Clients |-> rest[c] + 1]
  /\ UNCHANGED faults

\* The machine sleeps, at any moment.
Suspend == CanFail /\ Pass(IdleTimeout) /\ UNCHANGED rest

Next ==
  \/ \E c \in Clients : Sample(c) \/ ClientStep(c)
  \/ ServiceStep \/ Update \/ RunFails \/ Crash \/ Tick \/ Suspend

\* The monitor thread runs: that is all the code of the client relies on.
Spec == Init /\ [][Next]_vars /\ \A c \in Clients : WF_vars(ClientStep(c))

\* The service runs too, the clock goes on and the clients keep sampling.
ServedSpec ==
  /\ Spec /\ WF_vars(ServiceStep) /\ WF_vars(Update) /\ WF_vars(Tick)
  /\ \A c \in Clients : WF_vars(Sample(c))

-----------------------------------------------------------------------------
(* Properties. *)

\* What is shown as a temperature was measured no longer than MaxAge before it
\* was shown, whatever was suspended, restarted or overtaken on the way, and
\* only together with the status Ready.
ShownWasMeasured ==
  \A c \in Clients : "Available" \in {shown[c].cpu, shown[c].gpu} =>
    shown[c].status = "Ready" /\ shown[c].age <= MaxAge

\* While a client neither reads nor waits for the end of a read it has given up,
\* no read of its is pending, whenever the answer, the timeout and the end of the
\* pipe come: the buffer and the OVERLAPPED it would write to are gone.
BuffersOutliveReads ==
  \A c \in Clients : overlapped[c] => pc[c] \in {"Length", "Payload", "Cancel"}

\* As long as nothing fails the service does not stop for want of clients while
\* one that it has served still samples at least every SampleGap.
StopsUnused == faults = 0 /\ IdleStop => \A c \in Clients : shown[c].status # "Ready"
NotIdleWhileUsed == [][StopsUnused]_vars

\* Every sample ends, though the service may never answer: each wait of the
\* monitor thread times out and the attempts are counted.
SampleEnds == \A c \in Clients : (pc[c] # "Rest") ~> (pc[c] = "Rest")

\* Where the service is installed and its sensors could be opened, a client
\* shows a temperature again and again, whatever went wrong before.
Recovers ==
  [](scm # "NotInstalled") =>
    \A c \in Clients : []<>(shown[c].status = "Ready" \/ fault # NoError)

\* docs/plans/2026-08-03-temperature-pipe-stability-design.md:11: at most three
\* reads in one sample.
ThreeReads ==
  \A c \in Clients : attempt[c] + (IF again[c] THEN Attempts ELSE 0) <= 3

\* docs/plans/2026-08-02-accurate-temperature-engine-design.md:42: the pipe
\* blocks the monitor thread for 250 ms at most.
OneTimeout == \A c \in Clients : timeouts[c] <= 1

=============================================================================
