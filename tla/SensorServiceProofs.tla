-------------------------- MODULE SensorServiceProofs --------------------------
(***************************************************************************)
(* Proofs about SensorService for every value of its constants: the types  *)
(* of its state, what the two ends of the pipe know of each other, that a  *)
(* temperature shown was measured, and that no read outlives its buffer.   *)
(***************************************************************************)
EXTENDS SensorService, SequenceTheorems, TLAPS

\* What a client may find in its pipe: nothing, the length, and the snapshot.
Reads == {<<>>, <<"length">>} \cup {<<"length", s>> : s \in Snapshot}

Samples == [status : Status, cpu : Source, gpu : Source, age : Ages]

\* Only between its start and its end does the service have a pipe; it writes to
\* a client, and the payload after the length.
PipeFits ==
  /\ received \in [Clients -> Reads]
  /\ scm \in {"NotInstalled", "Stopped"} => server = "None"
  /\ server \in {"None", "Init", "Ended"} => peer = Nobody
  /\ server \in {"Write", "Payload"} => peer \in Clients
  /\ server = "Payload" /\ connected[peer] => received[peer] = <<"length">>

ServiceIInv == TypeOK /\ PipeFits /\ ShownWasMeasured /\ BuffersOutliveReads

-----------------------------------------------------------------------------
(* Snapshots and samples.                                                  *)

LEMMA SnapshotsFit ==
  /\ \A e \in Errors : Failure(e) \in Snapshot
  /\ \A c, g \in BOOLEAN : [error |-> NoError, cpu |-> c, gpu |-> g, age |-> 0] \in Snapshot
  /\ \A s \in Snapshot, d \in Nat : Older(s, d) \in Snapshot
<1>1. MaxAge \in Nat
  BY SensorAssumption
<1>2. 0 \in Ages
  BY <1>1 DEF Ages
<1>3. ASSUME NEW s \in Snapshot, NEW d \in Nat
      PROVE  Older(s, d) \in Snapshot
  <2>1. s.age \in Nat /\ s.age <= MaxAge + 1
    BY <1>1 DEF Snapshot, Ages
  <2> DEFINE age == IF s.age + d > MaxAge THEN MaxAge + 1 ELSE s.age + d
  <2>2. age \in Ages
    BY <1>1, <2>1 DEF Ages
  <2>3. Older(s, d) = [s EXCEPT !.age = age]
    BY DEF Older
  <2> HIDE DEF age
  <2> QED  BY <2>2, <2>3 DEF Snapshot
<1> QED  BY <1>2, <1>3 DEF Failure, Snapshot, Errors

\* What a client makes of a snapshot that is not stale.
LEMMA SamplesFit ==
  ASSUME NEW c \in Clients, NEW s \in Snapshot, ~Stale(s)
  PROVE  LET sample == [status |-> StatusOf(s), cpu |-> CpuOf(s), gpu |-> GpuOf(c, s),
                        age |-> s.age]
         IN  /\ sample \in Samples
             /\ "Available" \in {sample.cpu, sample.gpu} =>
                  sample.status = "Ready" /\ sample.age <= MaxAge
<1>1. MaxAge \in Nat /\ s.age \in Ages /\ s.age \in Nat /\ s.age <= MaxAge
  BY SensorAssumption DEF Snapshot, Ages, Stale
<1>2. StatusOf(s) \in Status
  BY DEF StatusOf, Status
<1>3. CpuOf(s) \in Source /\ GpuOf(c, s) \in Source
  BY DEF CpuOf, GpuOf, Source, Snapshot
<1>4. CpuOf(s) = "Available" \/ GpuOf(c, s) = "Available" => StatusOf(s) = "Ready"
  <2>1. s.error = NoError => StatusOf(s) = "Ready"
    <3> SUFFICES ASSUME s.error = NoError PROVE StatusOf(s) = "Ready"
      OBVIOUS
    <3>1. s.error = "none"
      BY DEF NoError
    <3> QED  BY <3>1, SMT DEF StatusOf, NoError
  <2>2. s.error # NoError => CpuOf(s) # "Available"
    BY DEF CpuOf
  <2>3. s.error # NoError => GpuOf(c, s) # "Available"
    BY DEF GpuOf
  <2> QED  BY <2>1, <2>2, <2>3
<1> QED  BY <1>1, <1>2, <1>3, <1>4 DEF Samples

\* What is shown, when one client finishes a sample.
LEMMA ShownFits ==
  ASSUME shown \in [Clients -> Samples], ShownWasMeasured,
         NEW c \in Clients, NEW sample \in Samples,
         "Available" \in {sample.cpu, sample.gpu} =>
           sample.status = "Ready" /\ sample.age <= MaxAge,
         shown' = [shown EXCEPT ![c] = sample]
  PROVE  shown' \in [Clients -> Samples] /\ ShownWasMeasured'
  BY DEF ShownWasMeasured

LEMMA FinishWithoutFits ==
  ASSUME ServiceIInv, NEW c \in Clients, NEW kind \in Status, FinishWithout(c, kind)
  PROVE  /\ pc' = [pc EXCEPT ![c] = "Rest"]
         /\ attempt' \in [Clients -> 0..Attempts] /\ again' \in [Clients -> BOOLEAN]
         /\ timeouts' \in [Clients -> 0..MaxTimeouts]
         /\ shown' \in [Clients -> Samples] /\ ShownWasMeasured'
<1> DEFINE error == IF kind = "NotInstalled" THEN "Unsupported" ELSE "TemporarilyUnavailable"
           sample == [status |-> kind, cpu |-> error, age |-> 0,
                      gpu |-> IF c \in Target THEN error ELSE "Unsupported"]
<1>1. Finish(c, sample)
  BY DEF FinishWithout
<1>2. sample \in Samples /\ "Available" \notin {sample.cpu, sample.gpu}
  BY SensorAssumption DEF Samples, Source, Ages
<1> HIDE DEF sample
<1>3. shown \in [Clients -> Samples] /\ ShownWasMeasured
  BY DEF ServiceIInv, TypeOK, Samples
<1>4. shown' \in [Clients -> Samples] /\ ShownWasMeasured'
  BY <1>1, <1>2, <1>3, ShownFits DEF Finish
<1>5. /\ attempt' \in [Clients -> 0..Attempts] /\ again' \in [Clients -> BOOLEAN]
      /\ timeouts' \in [Clients -> 0..MaxTimeouts]
  BY <1>1, SensorAssumption DEF Finish, ServiceIInv, TypeOK
<1> QED  BY <1>1, <1>4, <1>5 DEF Finish

LEMMA AttemptFailsFits ==
  ASSUME ServiceIInv, NEW c \in Clients, AttemptFails(c)
  PROVE  /\ \E at \in {"Open", "Ensure", "Rest"} : pc' = [pc EXCEPT ![c] = at]
         /\ attempt' \in [Clients -> 0..Attempts] /\ again' \in [Clients -> BOOLEAN]
         /\ shown' \in [Clients -> Samples] /\ ShownWasMeasured'
<1>0. TypeOK /\ shown \in [Clients -> Samples] /\ ShownWasMeasured /\ Attempts \in Nat
  BY SensorAssumption DEF ServiceIInv, TypeOK, Samples
<1>1. CASE attempt[c] < Attempts /\ attempt' = [attempt EXCEPT ![c] = @ + 1]
           /\ pc' = [pc EXCEPT ![c] = "Open"] /\ UNCHANGED <<again, shown>>
  BY <1>0, <1>1 DEF TypeOK, ShownWasMeasured
<1>2. CASE pc' = [pc EXCEPT ![c] = "Ensure"] /\ UNCHANGED <<attempt, again, shown>>
  BY <1>0, <1>2 DEF TypeOK, ShownWasMeasured
<1>3. CASE FinishWithout(c, "Starting")
  BY <1>3, FinishWithoutFits DEF Status
<1> QED  BY <1>1, <1>2, <1>3 DEF AttemptFails

LEMMA TimeoutsFit ==
  ASSUME TypeOK, NEW c \in Clients, CountTimeout(c) \/ NoTimeout(c)
  PROVE  timeouts' \in [Clients -> 0..MaxTimeouts]
<1>0. timeouts \in [Clients -> 0..MaxTimeouts] /\ MaxTimeouts \in Nat
  BY SensorAssumption DEF TypeOK
<1>1. timeouts[c] \in 0..MaxTimeouts /\ 0 \in 0..MaxTimeouts
      /\ (timeouts[c] < MaxTimeouts => timeouts[c] + 1 \in 0..MaxTimeouts)
  BY <1>0
<1>2. \E n \in 0..MaxTimeouts : timeouts' = [timeouts EXCEPT ![c] = n]
  BY <1>1 DEF CountTimeout, NoTimeout
<1> QED  BY <1>0, <1>2

LEMMA SecondAppended ==
  ASSUME NEW S, NEW s \in Seq(S), NEW x \in S, NEW e \in S, Len(s) = 1, s[1] = x
  PROVE  Append(s, e) = <<x, e>>
<1> DEFINE t == Append(s, e)
           u == <<x, e>>
<1>1. t \in Seq(S)
  BY AppendProperties
<1>2. Len(t) = Len(s) + 1
  BY AppendProperties
<1>3. t[Len(s) + 1] = e
  BY AppendProperties
<1>4. \A i \in 1..Len(s) : t[i] = s[i]
  BY AppendProperties
<1>5. u \in Seq(S) /\ Len(u) = 2 /\ u[1] = x /\ u[2] = e
  OBVIOUS
<1> HIDE DEF t, u
<1>6. Len(t) = 2 /\ t[1] = x /\ t[2] = e
  BY <1>2, <1>3, <1>4
<1>7. t = u
  BY <1>1, <1>5, <1>6, SeqEqual
<1> QED  BY <1>7 DEF t, u

LEMMA LengthAppended == \A e : Append(<<"length">>, e) = <<"length", e>>
<1> TAKE e
<1> DEFINE s == <<"length">>
           S == {"length", e}
<1>1. s \in Seq(S) /\ e \in S /\ "length" \in S /\ Len(s) = 1 /\ s[1] = "length"
  OBVIOUS
<1> HIDE DEF s, S
<1>2. Append(s, e) = <<"length", e>>
  BY <1>1, SecondAppended
<1> QED  BY <1>2 DEF s

-----------------------------------------------------------------------------
(* Init and Next.                                                          *)

LEMMA ReadsFit ==
  \A f \in [Clients -> Reads], c \in Clients :
    /\ f[c] \in {<<>>, <<"length">>} \/ f[c][Len(f[c])] \in Snapshot
    /\ Len(f[c]) = 2 => f[c][2] \in Snapshot /\ f[c] = <<"length", f[c][2]>>
  BY DEF Reads

LEMMA ServiceInit == Init => ServiceIInv
<1> SUFFICES ASSUME Init PROVE ServiceIInv
  OBVIOUS
<1>1. Failure("warming_up") \in Snapshot
  BY SnapshotsFit DEF Errors
<1>2. /\ IdleTimeout \in Nat /\ SampleGap \in Nat /\ MaxTimeouts \in Nat /\ MaxFaults \in Nat
      /\ Attempts \in Nat /\ 0 \in Ages
  BY SensorAssumption DEF Ages
<1>3. Unknown \in Samples /\ "Available" \notin {Unknown.cpu, Unknown.gpu}
  BY <1>2 DEF Unknown, Samples, Status, Source
<1>4. TypeOK
  <2>1. shown \in [Clients -> Samples]
    BY <1>3 DEF Init
  <2>2. \A c \in Clients : received[c] = <<>>
    BY DEF Init
  <2>3. /\ cache \in Snapshot /\ sending \in Snapshot
        /\ idle \in 0..IdleTimeout /\ faults \in 0..MaxFaults
        /\ rest \in [Clients -> 0..SampleGap] /\ timeouts \in [Clients -> 0..MaxTimeouts]
        /\ attempt \in [Clients -> 0..Attempts]
    BY <1>1, <1>2 DEF Init
  <2> QED  BY <2>1, <2>2, <2>3 DEF Init, TypeOK, Samples
<1>5. PipeFits
  BY DEF Init, PipeFits, Reads
<1>6. ShownWasMeasured
  BY <1>3 DEF Init, ShownWasMeasured
<1>7. BuffersOutliveReads
  BY DEF Init, BuffersOutliveReads
<1> QED  BY <1>4, <1>5, <1>6, <1>7 DEF ServiceIInv

\* A step of the client c alone: the service and what waits in other pipes are
\* left alone.
LEMMA ClientKeeps ==
  ASSUME ServiceIInv, NEW c \in Clients,
         UNCHANGED <<scm, server, stopping, fault, cache, sending, idle>>,
         faults' \in 0..MaxFaults,
         NEW at \in {"Rest", "Open", "Length", "Payload", "Cancel", "Ensure"},
         pc' = [pc EXCEPT ![c] = at],
         attempt' \in [Clients -> 0..Attempts], again' \in [Clients -> BOOLEAN],
         timeouts' \in [Clients -> 0..MaxTimeouts], rest' \in [Clients -> 0..SampleGap],
         shown' \in [Clients -> Samples], ShownWasMeasured',
         NEW o \in BOOLEAN, overlapped' = [overlapped EXCEPT ![c] = o],
         o => at \in {"Length", "Payload", "Cancel"},
         \/ UNCHANGED <<received, connected, peer>>
         \/ /\ peer' = c /\ server = "Listen"
            /\ connected' = [connected EXCEPT ![c] = TRUE]
            /\ received' = [received EXCEPT ![c] = <<>>]
         \/ /\ peer' = peer
            /\ connected' = [connected EXCEPT ![c] = FALSE]
            /\ received' = [received EXCEPT ![c] = <<>>]
  PROVE  ServiceIInv'
<1>0. TypeOK /\ PipeFits /\ BuffersOutliveReads
  BY DEF ServiceIInv
<1>1. received' \in [Clients -> Reads] /\ connected' \in [Clients -> BOOLEAN]
  BY <1>0 DEF TypeOK, PipeFits, Reads
<1>2. PipeFits'
  <2>1. peer' \in Clients \cup {Nobody}
        /\ (server \in {"None", "Init", "Ended"} => peer' = Nobody)
        /\ (server \in {"Write", "Payload"} => peer' \in Clients)
    BY <1>0 DEF PipeFits, TypeOK
  <2>2. server = "Payload" /\ connected'[peer'] => received'[peer'] = <<"length">>
    <3> SUFFICES ASSUME server = "Payload", connected'[peer'] PROVE received'[peer'] = <<"length">>
      OBVIOUS
    <3>1. peer' = peer /\ peer \in Clients
      BY <1>0 DEF PipeFits
    <3>2. connected[peer] /\ received'[peer] = received[peer]
      BY <1>0, <3>1 DEF PipeFits, TypeOK
    <3> QED  BY <1>0, <3>1, <3>2 DEF PipeFits
  <2> QED  BY <1>0, <1>1, <2>1, <2>2 DEF PipeFits
<1>3. \A d \in Clients : \/ received'[d] \in {<<>>, <<"length">>}
                         \/ received'[d][Len(received'[d])] \in Snapshot
  BY <1>1, ReadsFit
<1>4. TypeOK'
  <2>1. pc' \in [Clients -> {"Rest", "Open", "Length", "Payload", "Cancel", "Ensure"}]
        /\ overlapped' \in [Clients -> BOOLEAN]
    BY <1>0 DEF TypeOK
  <2>2. peer' \in Clients \cup {Nobody} /\ (server \in {"None", "Init"} => peer' = Nobody)
    BY <1>0 DEF TypeOK, PipeFits
  <2> QED  BY <1>0, <1>1, <1>3, <2>1, <2>2 DEF TypeOK, Samples
<1>5. BuffersOutliveReads'
  BY <1>0 DEF TypeOK, BuffersOutliveReads
<1> QED  BY <1>2, <1>4, <1>5 DEF ServiceIInv

LEMMA ClientSteps ==
  ASSUME ServiceIInv, NEW c \in Clients, Sample(c) \/ ClientStep(c)
  PROVE  ServiceIInv'
<1>0. /\ TypeOK /\ PipeFits /\ ShownWasMeasured /\ BuffersOutliveReads
      /\ shown \in [Clients -> Samples]
      /\ IdleTimeout \in Nat /\ SampleGap \in Nat \ {0} /\ MaxTimeouts \in Nat
      /\ MaxFaults \in Nat /\ Attempts \in Nat \ {0}
  BY SensorAssumption DEF ServiceIInv, TypeOK, Samples
<1>o. overlapped' = overlapped => overlapped' = [overlapped EXCEPT ![c] = overlapped[c]]
  BY <1>0 DEF TypeOK
<1>q. overlapped[c] \in BOOLEAN /\ (overlapped[c] => pc[c] \in {"Length", "Payload", "Cancel"})
  BY <1>0 DEF TypeOK, BuffersOutliveReads
<1>m. shown' = shown => ShownWasMeasured'
  BY <1>0 DEF ShownWasMeasured
<1>f. CanFail => faults' \in 0..MaxFaults
  BY <1>0 DEF CanFail, TypeOK
<1>1. CASE Sample(c)
  <2>1. /\ attempt' \in [Clients -> 0..Attempts] /\ rest' \in [Clients -> 0..SampleGap]
    BY <1>0, <1>1 DEF Sample, TypeOK
  <2> QED  BY <1>0, <1>1, <1>o, <1>q, <1>m, <2>1, ClientKeeps
           DEF Sample, TypeOK, serviceVars, pipeVars
<1>2. CASE OpenPipe(c)
  BY <1>0, <1>2, <1>m, ClientKeeps DEF OpenPipe, PipeFree, TypeOK
<1>3. CASE OpenFails(c)
  <2>1. PICK at \in {"Open", "Ensure", "Rest"} : pc' = [pc EXCEPT ![c] = at]
    BY <1>3, AttemptFailsFits DEF OpenFails
  <2>2. ~overlapped[c]
    BY <1>3, <1>q DEF OpenFails
  <2>3. /\ attempt' \in [Clients -> 0..Attempts] /\ again' \in [Clients -> BOOLEAN]
        /\ shown' \in [Clients -> Samples] /\ ShownWasMeasured'
        /\ timeouts' \in [Clients -> 0..MaxTimeouts]
    BY <1>0, <1>3, AttemptFailsFits, TimeoutsFit DEF OpenFails
  <2> QED  BY <1>0, <1>3, <1>o, <2>1, <2>2, <2>3, ClientKeeps
           DEF OpenFails, TypeOK, serviceVars, pipeVars
<1>4. CASE ReadLength(c)
  BY <1>0, <1>4, <1>o, <1>q, <1>m, ClientKeeps DEF ReadLength, TypeOK, serviceVars, pipeVars
<1>5. CASE ReadPayload(c)
  <2> DEFINE s == received[c][2]
             sample == [status |-> StatusOf(s), cpu |-> CpuOf(s), gpu |-> GpuOf(c, s),
                        age |-> s.age]
  <2>1. s \in Snapshot
    BY <1>0, <1>5, ReadsFit DEF ReadPayload, PipeFits
  <2>2. CASE ~Stale(s) /\ Finish(c, sample)
    <3>1. sample \in Samples
          /\ ("Available" \in {sample.cpu, sample.gpu} =>
                sample.status = "Ready" /\ sample.age <= MaxAge)
      BY <2>1, <2>2, SamplesFit
    <3> HIDE DEF s, sample
    <3>2. shown' \in [Clients -> Samples] /\ ShownWasMeasured'
      BY <1>0, <2>2, <3>1, ShownFits DEF Finish
    <3>3. /\ attempt' \in [Clients -> 0..Attempts] /\ again' \in [Clients -> BOOLEAN]
          /\ timeouts' \in [Clients -> 0..MaxTimeouts]
      BY <1>0, <2>2 DEF Finish, TypeOK
    <3> QED  BY <1>0, <1>5, <2>2, <3>2, <3>3, ClientKeeps
             DEF ReadPayload, Finish, Completed, CloseHandle, TypeOK, serviceVars
  <2>3. CASE AttemptFails(c) /\ NoTimeout(c)
    <3>1. PICK at \in {"Open", "Ensure", "Rest"} : pc' = [pc EXCEPT ![c] = at]
      BY <2>3, AttemptFailsFits
    <3>2. timeouts' \in [Clients -> 0..MaxTimeouts]
      BY <1>0, <2>3, TimeoutsFit
    <3> QED  BY <1>0, <1>5, <2>3, <3>1, <3>2, AttemptFailsFits, ClientKeeps
             DEF ReadPayload, Completed, CloseHandle, TypeOK, serviceVars
  <2> QED  BY <1>5, <2>2, <2>3 DEF ReadPayload
<1>6. CASE ReadFails(c) \/ AwaitCancelled(c)
  <2>1. PICK at \in {"Open", "Ensure", "Rest"} : pc' = [pc EXCEPT ![c] = at]
    BY <1>6, AttemptFailsFits DEF ReadFails, AwaitCancelled
  <2>2. /\ attempt' \in [Clients -> 0..Attempts] /\ again' \in [Clients -> BOOLEAN]
        /\ shown' \in [Clients -> Samples] /\ ShownWasMeasured'
        /\ timeouts' \in [Clients -> 0..MaxTimeouts]
    BY <1>0, <1>6, AttemptFailsFits, TimeoutsFit DEF ReadFails, AwaitCancelled
  <2>3. overlapped' = [overlapped EXCEPT ![c] = FALSE]
    BY <1>6, <1>o DEF ReadFails, AwaitCancelled, Completed
  <2> QED  BY <1>0, <1>6, <2>1, <2>2, <2>3, ClientKeeps
           DEF ReadFails, AwaitCancelled, CloseHandle, TypeOK, serviceVars
<1>7. CASE EnsureFails(c)
  <2>1. ~overlapped[c]
    BY <1>7, <1>q DEF EnsureFails
  <2>2. \E kind \in Status : FinishWithout(c, kind)
    BY <1>7 DEF EnsureFails, Status
  <2>3. faults' \in 0..MaxFaults
    BY <1>0, <1>7, <1>f DEF EnsureFails, TypeOK
  <2> QED  BY <1>0, <1>7, <1>o, <2>1, <2>2, <2>3, FinishWithoutFits, ClientKeeps
           DEF EnsureFails, TypeOK, serviceVars, pipeVars
<1>8. CASE StartService(c)
  <2>1. ~overlapped[c] /\ (scm = "Stopped" => server = "None")
    BY <1>0, <1>8, <1>q DEF StartService, PipeFits
  <2>2. /\ scm' = "StartPending" /\ overlapped' = overlapped
        /\ UNCHANGED <<serviceVars, timeouts, pipeVars, shown, rest, faults>>
        /\ pc' = [pc EXCEPT ![c] = "Open"]
    BY <1>8 DEF StartService
  <2>3. attempt' \in [Clients -> 0..Attempts] /\ again' \in [Clients -> BOOLEAN]
    BY <1>0, <1>8 DEF StartService, TypeOK
  <2>4. TypeOK'
    BY <1>0, <2>2, <2>3 DEF TypeOK, serviceVars, pipeVars
  <2>5. PipeFits' /\ BuffersOutliveReads'
    BY <1>0, <2>1, <2>2 DEF PipeFits, BuffersOutliveReads, TypeOK, serviceVars, pipeVars
  <2> QED  BY <1>m, <2>2, <2>4, <2>5 DEF ServiceIInv
<1>9. CASE ReadTimesOut(c)
  <2>1. timeouts' \in [Clients -> 0..MaxTimeouts]
    BY <1>0, <1>9, TimeoutsFit DEF ReadTimesOut
  <2> QED  BY <1>0, <1>9, <1>o, <1>q, <1>m, <2>1, ClientKeeps
           DEF ReadTimesOut, TypeOK, serviceVars, pipeVars
<1>10. CASE ReadEnds(c)
  <2>1. pc' = [pc EXCEPT ![c] = "Cancel"] /\ overlapped' = [overlapped EXCEPT ![c] = FALSE]
    BY <1>0, <1>10 DEF ReadEnds, Completed, TypeOK
  <2> QED  BY <1>0, <1>10, <1>m, <2>1, ClientKeeps
           DEF ReadEnds, TypeOK, serviceVars, pipeVars
<1> QED  BY <1>1, <1>2, <1>3, <1>4, <1>5, <1>6, <1>7, <1>8, <1>9, <1>10 DEF ClientStep

-----------------------------------------------------------------------------
(* The service and the clock.                                              *)

\* A step of the service: the clients are left alone.
LEMMA ServiceKeeps ==
  ASSUME ServiceIInv, UNCHANGED <<clientVars>>,
         faults' \in 0..MaxFaults,
         scm' \in {"NotInstalled", "Stopped", "StartPending", "Running", "StopPending"},
         server' \in {"None", "Init", "Create", "Listen", "Write", "Payload", "Ended"},
         stopping' \in BOOLEAN, fault' \in InitErrors \cup {NoError},
         cache' \in Snapshot, sending' \in Snapshot, idle' \in 0..IdleTimeout,
         peer' \in Clients \cup {Nobody},
         received' \in [Clients -> Reads], connected' \in [Clients -> BOOLEAN],
         scm' \in {"NotInstalled", "Stopped"} => server' = "None",
         server' \in {"None", "Init", "Ended"} => peer' = Nobody,
         server' \in {"Write", "Payload"} => peer' \in Clients,
         server' = "Payload" /\ connected'[peer'] => received'[peer'] = <<"length">>
  PROVE  ServiceIInv'
<1>0. TypeOK /\ ShownWasMeasured /\ BuffersOutliveReads
  BY DEF ServiceIInv
<1>1. \A d \in Clients : \/ received'[d] \in {<<>>, <<"length">>}
                         \/ received'[d][Len(received'[d])] \in Snapshot
  BY ReadsFit
<1>2. TypeOK'
  BY <1>0, <1>1 DEF TypeOK, clientVars, readVars
<1>3. PipeFits'
  BY DEF PipeFits
<1>4. ShownWasMeasured' /\ BuffersOutliveReads'
  BY <1>0 DEF ShownWasMeasured, BuffersOutliveReads, clientVars, readVars
<1> QED  BY <1>2, <1>3, <1>4 DEF ServiceIInv

LEMMA ServiceSteps ==
  ASSUME ServiceIInv, ServiceStep \/ Update \/ RunFails \/ Crash
  PROVE  ServiceIInv'
<1>0. /\ TypeOK /\ PipeFits /\ IdleTimeout \in Nat /\ MaxFaults \in Nat
      /\ 0 \in 0..IdleTimeout
  BY SensorAssumption DEF ServiceIInv
<1>t. /\ scm \in {"NotInstalled", "Stopped", "StartPending", "Running", "StopPending"}
      /\ server \in {"None", "Init", "Create", "Listen", "Write", "Payload", "Ended"}
      /\ stopping \in BOOLEAN /\ fault \in InitErrors \cup {NoError}
      /\ cache \in Snapshot /\ sending \in Snapshot /\ peer \in Clients \cup {Nobody}
      /\ idle \in 0..IdleTimeout /\ connected \in [Clients -> BOOLEAN]
      /\ faults \in 0..MaxFaults
  BY <1>0 DEF TypeOK
<1>p. /\ received \in [Clients -> Reads]
      /\ scm \in {"NotInstalled", "Stopped"} => server = "None"
      /\ server \in {"None", "Init", "Ended"} => peer = Nobody
      /\ server \in {"Write", "Payload"} => peer \in Clients
      /\ server = "Payload" /\ connected[peer] => received[peer] = <<"length">>
  BY <1>0 DEF PipeFits
<1>f. CanFail => faults' \in 0..MaxFaults
  BY <1>0, <1>t DEF CanFail
<1>c. CloseAll => connected' \in [Clients -> BOOLEAN] /\ received' = received
  BY DEF CloseAll
<1>1. CASE OnStart
  BY <1>1, <1>t, <1>p, ServiceKeeps DEF OnStart, pipeVars
<1>2. CASE Initialize
  <2>1. cache' \in Snapshot
    BY <1>2, SnapshotsFit DEF Initialize, Errors
  <2>2. faults' \in 0..MaxFaults /\ fault' \in InitErrors \cup {NoError}
    BY <1>2, <1>t, <1>f DEF Initialize
  <2> QED  BY <1>0, <1>2, <1>t, <1>p, <2>1, <2>2, ServiceKeeps DEF Initialize, pipeVars
<1>3. CASE CreatePipe
  BY <1>3, <1>t, <1>p, ServiceKeeps DEF CreatePipe, pipeVars
<1>4. CASE IdleStop
  BY <1>4, <1>t, <1>p, <1>c, ServiceKeeps DEF IdleStop
<1>5. CASE Accept
  BY <1>0, <1>5, <1>t, <1>p, ServiceKeeps DEF Accept, pipeVars
<1>6. CASE WriteLength
  <2>1. peer \in Clients /\ received' \in [Clients -> Reads] /\ received'[peer] = <<"length">>
    BY <1>6, <1>p DEF WriteLength, Reads
  <2> QED  BY <1>6, <1>t, <1>p, <2>1, ServiceKeeps DEF WriteLength
<1>7. CASE WritePayload
  <2>1. peer \in Clients /\ received[peer] = <<"length">>
    BY <1>7, <1>p DEF WritePayload
  <2>2. Append(received[peer], sending) = <<"length", sending>>
    BY <2>1, LengthAppended
  <2>3. Append(received[peer], sending) \in Reads
    BY <1>t, <2>2 DEF Reads
  <2>4. received' \in [Clients -> Reads] /\ connected' \in [Clients -> BOOLEAN]
    BY <1>7, <1>t, <1>p, <2>3 DEF WritePayload
  <2> QED  BY <1>7, <1>t, <1>p, <2>4, ServiceKeeps DEF WritePayload
<1>8. CASE WriteFails
  BY <1>8, <1>t, <1>p, ServiceKeeps DEF WriteFails, pipeVars
<1>9. CASE StopBegins
  BY <1>9, <1>t, <1>p, ServiceKeeps DEF StopBegins, serviceVars, pipeVars
<1>10. CASE StopEnds
  BY <1>10, <1>t, <1>p, ServiceKeeps DEF StopEnds, pipeVars
<1>11. CASE Update
  <2>1. cache' \in Snapshot
    <3>1. CASE cache' = Failure(fault) /\ fault # NoError
      BY <1>t, <3>1, SnapshotsFit DEF Errors
    <3>2. CASE cache' = Failure("sensor_update_failed")
      BY <3>2, SnapshotsFit DEF Errors
    <3>3. ASSUME NEW m \in Measurements,
                 cache' = [error |-> NoError, cpu |-> m.cpu, gpu |-> m.gpu, age |-> 0]
          PROVE  cache' \in Snapshot
      BY <3>3, SnapshotsFit, SensorAssumption
    <3> QED  BY <1>11, <3>1, <3>2, <3>3 DEF Update
  <2>2. faults' \in 0..MaxFaults
    BY <1>11, <1>t, <1>f DEF Update
  <2> QED  BY <1>11, <1>t, <1>p, <2>1, <2>2, ServiceKeeps DEF Update, pipeVars
<1>12. CASE RunFails
  BY <1>12, <1>t, <1>p, <1>c, <1>f, ServiceKeeps DEF RunFails
<1>13. CASE Crash
  BY <1>13, <1>t, <1>p, <1>c, <1>f, ServiceKeeps DEF Crash
<1>14. CASE StartEnds
  BY <1>14, <1>t, <1>p, ServiceKeeps DEF StartEnds, serviceVars, pipeVars
<1> QED  BY <1>1, <1>2, <1>3, <1>4, <1>5, <1>6, <1>7, <1>8, <1>9, <1>10, <1>11, <1>12,
            <1>13, <1>14 DEF ServiceStep

\* The clock goes on: what is on its way grows older, and nothing else changes.
LEMMA TimeFits ==
  ASSUME ServiceIInv, NEW d \in Nat, Pass(d),
         rest' \in [Clients -> 0..SampleGap], faults' \in 0..MaxFaults
  PROVE  ServiceIInv'
<1>0. TypeOK /\ PipeFits /\ ShownWasMeasured /\ BuffersOutliveReads /\ IdleTimeout \in Nat
  BY SensorAssumption DEF ServiceIInv
<1>1. idle' \in 0..IdleTimeout /\ cache' \in Snapshot /\ sending' \in Snapshot
  <2>1. cache \in Snapshot /\ sending \in Snapshot /\ idle \in 0..IdleTimeout
    BY <1>0 DEF TypeOK
  <2>2. cache' = Older(cache, d) /\ sending' = Older(sending, d)
        /\ idle' = IF idle + d > IdleTimeout THEN IdleTimeout ELSE idle + d
    BY DEF Pass
  <2>3. Older(cache, d) \in Snapshot /\ Older(sending, d) \in Snapshot
    BY <2>1, SnapshotsFit
  <2> QED  BY <1>0, <2>1, <2>2, <2>3
<1>2. ASSUME NEW c \in Clients
      PROVE  received'[c] \in Reads /\ (received[c] = <<"length">> => received'[c] = <<"length">>)
  <2>0. received'[c] = IF Len(received[c]) = 2
                       THEN <<"length", Older(received[c][2], d)>> ELSE received[c]
    BY DEF Pass
  <2>1. CASE Len(received[c]) = 2
    <3>1. Older(received[c][2], d) \in Snapshot
      BY <1>0, <2>1, ReadsFit, SnapshotsFit DEF PipeFits
    <3>2. received[c] # <<"length">>
      BY <2>1
    <3> QED  BY <2>0, <2>1, <3>1, <3>2 DEF Reads
  <2>2. CASE Len(received[c]) # 2
    BY <1>0, <2>0, <2>2 DEF PipeFits
  <2> QED  BY <2>1, <2>2
<1>3. received' \in [Clients -> Reads]
  <2>1. received' = [c \in Clients |-> received'[c]]
    BY DEF Pass
  <2> QED  BY <1>2, <2>1
<1>4. \A c \in Clients : \/ received'[c] \in {<<>>, <<"length">>}
                         \/ received'[c][Len(received'[c])] \in Snapshot
  BY <1>3, ReadsFit
<1>5. TypeOK'
  BY <1>0, <1>1, <1>4 DEF TypeOK, Pass, readVars
<1>6. PipeFits'
  BY <1>0, <1>2, <1>3 DEF PipeFits, Pass
<1>7. ShownWasMeasured' /\ BuffersOutliveReads'
  BY <1>0 DEF ShownWasMeasured, BuffersOutliveReads, Pass, readVars
<1> QED  BY <1>5, <1>6, <1>7 DEF ServiceIInv

LEMMA TimeSteps ==
  ASSUME ServiceIInv, Tick \/ Suspend
  PROVE  ServiceIInv'
<1>0. /\ rest \in [Clients -> 0..SampleGap] /\ faults \in 0..MaxFaults
      /\ SampleGap \in Nat /\ IdleTimeout \in Nat /\ MaxFaults \in Nat
  BY SensorAssumption DEF ServiceIInv, TypeOK
<1>1. CASE Tick
  <2>1. \A c \in Clients : rest[c] + 1 \in 0..SampleGap
    BY <1>0, <1>1 DEF Tick
  <2>2. rest' \in [Clients -> 0..SampleGap] /\ Pass(1) /\ faults' = faults
    BY <1>1, <2>1 DEF Tick
  <2> QED  BY <1>0, <2>2, TimeFits
<1>2. CASE Suspend
  <2>1. Pass(IdleTimeout) /\ rest' = rest /\ faults' \in 0..MaxFaults
    BY <1>0, <1>2 DEF Suspend, CanFail
  <2> QED  BY <1>0, <2>1, TimeFits
<1> QED  BY <1>1, <1>2

LEMMA ServiceInvariance ==
  ASSUME ServiceIInv, [Next]_vars
  PROVE  ServiceIInv'
<1>1. CASE UNCHANGED vars
  BY <1>1 DEF ServiceIInv, TypeOK, PipeFits, ShownWasMeasured, BuffersOutliveReads,
              vars, serviceVars, readVars, pipeVars
<1>2. CASE Next
  BY <1>2, ClientSteps, ServiceSteps, TimeSteps DEF Next
<1> QED  BY <1>1, <1>2

\* The states and steps of both specifications, without their fairness.
Served == Init /\ [][Next]_vars

\* Whatever is suspended, restarted or overtaken on the way, and however the
\* service fails, a client (SensorServiceClient::read) shows as a temperature only
\* what was measured at most MaxAge before, and has no read pending while it does
\* not read.
THEOREM ReadingsStayTrue ==
  Served => [](TypeOK /\ ShownWasMeasured /\ BuffersOutliveReads)
<1>1. Init => ServiceIInv
  BY ServiceInit
<1>2. ServiceIInv /\ [Next]_vars => ServiceIInv'
  BY ServiceInvariance
<1>3. ServiceIInv => TypeOK /\ ShownWasMeasured /\ BuffersOutliveReads
  BY DEF ServiceIInv
<1> QED  BY <1>1, <1>2, <1>3, PTL DEF Served

-----------------------------------------------------------------------------
(* The time for which a service is not used.                               *)

\* As long as nothing has failed: only a client that reads has a pipe, the service
\* has been idle for no time when it answers and while an answer is on its way, and
\* no longer than a client that shows its measurement has not sampled.
UsedIInv ==
  faults = 0 =>
    /\ \A c \in Clients :
         pc[c] \notin {"Length", "Payload", "Cancel"} => received[c] = <<>> /\ ~connected[c]
    /\ server \in {"Write", "Payload"} => idle = 0
    /\ \A c \in Clients : received[c] # <<>> => idle = 0
    /\ \A c \in Clients : shown[c].status = "Ready" =>
         idle <= IF pc[c] = "Rest" THEN rest[c] ELSE SampleGap

\* What a step of the client c, before any failure, leaves alone.
StaysUsed(c, at) ==
  /\ faults = 0 /\ server' = server /\ idle' = idle
  /\ pc' = [pc EXCEPT ![c] = at]
  /\ \A d \in Clients \ {c} : /\ received'[d] = received[d] /\ connected'[d] = connected[d]
                              /\ shown'[d] = shown[d]
  /\ rest' = rest \/ (pc[c] = "Rest" /\ rest' = [rest EXCEPT ![c] = 0])
  /\ at \in {"Length", "Payload", "Cancel"} \/ (received'[c] = <<>> /\ ~connected'[c])
  /\ received'[c] = <<>> \/ received'[c] = received[c]
  /\ \/ shown'[c].status # "Ready"
     \/ at # "Rest" /\ shown'[c] = shown[c]
     \/ idle = 0

LEMMA ClientStaysUsed ==
  ASSUME ServiceIInv, UsedIInv, NEW c \in Clients,
         NEW at \in {"Rest", "Open", "Length", "Payload", "Cancel", "Ensure"}, StaysUsed(c, at)
  PROVE  UsedIInv'
<1>0. /\ pc \in [Clients -> {"Rest", "Open", "Length", "Payload", "Cancel", "Ensure"}]
      /\ rest \in [Clients -> 0..SampleGap] /\ SampleGap \in Nat /\ idle \in Nat /\ faults = 0
  BY SensorAssumption DEF ServiceIInv, TypeOK, StaysUsed
<1>1. /\ \A d \in Clients :
           pc[d] \notin {"Length", "Payload", "Cancel"} => received[d] = <<>> /\ ~connected[d]
      /\ server \in {"Write", "Payload"} => idle = 0
      /\ \A d \in Clients : received[d] # <<>> => idle = 0
      /\ \A d \in Clients : shown[d].status = "Ready" =>
           idle <= IF pc[d] = "Rest" THEN rest[d] ELSE SampleGap
  BY <1>0 DEF UsedIInv
<1>2. ASSUME NEW d \in Clients
      PROVE  /\ pc'[d] \notin {"Length", "Payload", "Cancel"} =>
                  received'[d] = <<>> /\ ~connected'[d]
             /\ received'[d] # <<>> => idle = 0
  BY <1>0, <1>1 DEF StaysUsed
<1>3. ASSUME NEW d \in Clients, shown'[d].status = "Ready"
      PROVE  idle <= IF pc'[d] = "Rest" THEN rest'[d] ELSE SampleGap
  <2>1. CASE d # c
    <3>1. pc'[d] = pc[d] /\ rest'[d] = rest[d] /\ shown'[d] = shown[d]
      BY <1>0, <2>1 DEF StaysUsed
    <3> QED  BY <1>1, <1>3, <3>1
  <2>2. CASE d = c /\ idle = 0
    <3>1. rest'[c] \in Nat
      BY <1>0 DEF StaysUsed
    <3> QED  BY <1>0, <2>2, <3>1
  <2>3. CASE d = c /\ at # "Rest" /\ shown'[c] = shown[c]
    <3>1. idle <= SampleGap
      BY <1>0, <1>1, <1>3, <2>3
    <3>2. pc'[c] # "Rest"
      BY <1>0, <2>3 DEF StaysUsed
    <3> QED  BY <2>3, <3>1, <3>2
  <2> QED  BY <1>3, <2>1, <2>2, <2>3 DEF StaysUsed
<1> QED  BY <1>1, <1>2, <1>3 DEF UsedIInv, StaysUsed

LEMMA AttemptFailsUsed ==
  ASSUME ServiceIInv, NEW c \in Clients, AttemptFails(c)
  PROVE  \E at \in {"Open", "Ensure", "Rest"} :
           /\ pc' = [pc EXCEPT ![c] = at]
           /\ \A d \in Clients \ {c} : shown'[d] = shown[d]
           /\ shown'[c].status = "Ready" => at # "Rest" /\ shown'[c] = shown[c]
<1>0. shown \in [Clients -> Samples]
  BY DEF ServiceIInv, TypeOK, Samples
<1>1. CASE FinishWithout(c, "Starting")
  BY <1>0, <1>1 DEF FinishWithout, Finish
<1>2. CASE ~FinishWithout(c, "Starting")
  BY <1>2 DEF AttemptFails
<1> QED  BY <1>1, <1>2

LEMMA ClientStepsUsed ==
  ASSUME ServiceIInv, UsedIInv, NEW c \in Clients, Sample(c) \/ ClientStep(c), faults' = 0
  PROVE  UsedIInv'
<1>0. /\ faults \in Nat /\ shown \in [Clients -> Samples]
      /\ received \in [Clients -> Reads] /\ connected \in [Clients -> BOOLEAN]
  <2>1. TypeOK /\ PipeFits /\ MaxFaults \in Nat
    BY SensorAssumption DEF ServiceIInv
  <2>2. shown \in [Clients -> Samples]
    BY <2>1 DEF TypeOK, Samples
  <2> QED  BY <2>1, <2>2 DEF TypeOK, PipeFits
<1>f. ~CanFail
  BY <1>0 DEF CanFail
<1>1. faults = 0 /\ server' = server
  BY <1>f DEF Sample, ClientStep, OpenPipe, OpenFails, ReadLength, ReadPayload, ReadFails,
              ReadTimesOut, ReadEnds, AwaitCancelled, EnsureFails, StartService, serviceVars
<1>i. idle' = idle
  BY DEF Sample, ClientStep, OpenPipe, OpenFails, ReadLength, ReadPayload, ReadFails,
         ReadTimesOut, ReadEnds, AwaitCancelled, EnsureFails, StartService, serviceVars
<1>u. pc[c] \notin {"Length", "Payload", "Cancel"} => received[c] = <<>> /\ ~connected[c]
  BY <1>1 DEF UsedIInv
<1>h. CloseHandle(c) => /\ received'[c] = <<>> /\ ~connected'[c]
                        /\ \A d \in Clients \ {c} : received'[d] = received[d]
                                                    /\ connected'[d] = connected[d]
  BY <1>0 DEF CloseHandle
<1>2. CASE Sample(c)
  <2>1. StaysUsed(c, "Open")
    BY <1>1, <1>i, <1>2, <1>u DEF Sample, pipeVars, StaysUsed
  <2> QED  BY <2>1, ClientStaysUsed
<1>3. CASE OpenPipe(c)
  <2>1. /\ received'[c] = <<>>
        /\ \A d \in Clients \ {c} : received'[d] = received[d] /\ connected'[d] = connected[d]
    BY <1>0, <1>3 DEF OpenPipe
  <2>2. StaysUsed(c, "Length")
    BY <1>1, <1>i, <1>3, <2>1 DEF OpenPipe, StaysUsed
  <2> QED  BY <2>2, ClientStaysUsed
<1>4. CASE OpenFails(c)
  <2>1. AttemptFails(c) /\ UNCHANGED <<received, connected, rest>> /\ pc[c] = "Open"
    BY <1>4 DEF OpenFails, pipeVars
  <2>2. PICK at \in {"Open", "Ensure", "Rest"} :
          /\ pc' = [pc EXCEPT ![c] = at] /\ \A d \in Clients \ {c} : shown'[d] = shown[d]
          /\ shown'[c].status = "Ready" => at # "Rest" /\ shown'[c] = shown[c]
    BY <2>1, AttemptFailsUsed
  <2>3. StaysUsed(c, at)
    BY <1>1, <1>i, <1>u, <2>1, <2>2 DEF StaysUsed
  <2> QED  BY <2>3, ClientStaysUsed
<1>5. CASE ReadLength(c)
  <2>1. StaysUsed(c, "Payload")
    BY <1>1, <1>i, <1>5 DEF ReadLength, pipeVars, StaysUsed
  <2> QED  BY <2>1, ClientStaysUsed
<1>6. CASE ReadPayload(c)
  <2>1. idle = 0
    BY <1>1, <1>6 DEF ReadPayload, UsedIInv
  <2>2. CloseHandle(c) /\ rest' = rest
    BY <1>6 DEF ReadPayload
  <2>3. PICK at \in {"Open", "Ensure", "Rest"} :
          /\ pc' = [pc EXCEPT ![c] = at] /\ \A d \in Clients \ {c} : shown'[d] = shown[d]
    BY <1>0, <1>6, AttemptFailsUsed DEF ReadPayload, Finish
  <2>4. StaysUsed(c, at)
    BY <1>1, <1>i, <1>h, <2>1, <2>2, <2>3 DEF StaysUsed
  <2> QED  BY <2>4, ClientStaysUsed
<1>7. CASE ReadFails(c) \/ AwaitCancelled(c)
  <2>1. AttemptFails(c) /\ CloseHandle(c) /\ rest' = rest
    BY <1>7 DEF ReadFails, AwaitCancelled
  <2>2. PICK at \in {"Open", "Ensure", "Rest"} :
          /\ pc' = [pc EXCEPT ![c] = at] /\ \A d \in Clients \ {c} : shown'[d] = shown[d]
          /\ shown'[c].status = "Ready" => at # "Rest" /\ shown'[c] = shown[c]
    BY <2>1, AttemptFailsUsed
  <2>3. StaysUsed(c, at)
    BY <1>1, <1>i, <1>h, <2>1, <2>2 DEF StaysUsed
  <2> QED  BY <2>3, ClientStaysUsed
<1>8. CASE EnsureFails(c)
  <2>1. PICK kind \in Status \ {"Ready"} : FinishWithout(c, kind)
    BY <1>8 DEF EnsureFails, Status
  <2>2. /\ pc' = [pc EXCEPT ![c] = "Rest"] /\ shown'[c].status # "Ready"
        /\ \A d \in Clients \ {c} : shown'[d] = shown[d]
    BY <1>0, <2>1 DEF FinishWithout, Finish
  <2>3. UNCHANGED <<received, connected, rest>> /\ pc[c] = "Ensure"
    BY <1>8 DEF EnsureFails, pipeVars
  <2>4. StaysUsed(c, "Rest")
    BY <1>1, <1>i, <1>u, <2>2, <2>3 DEF StaysUsed
  <2> QED  BY <2>4, ClientStaysUsed
<1>9. CASE StartService(c)
  <2>1. StaysUsed(c, "Open")
    BY <1>1, <1>i, <1>9, <1>u DEF StartService, pipeVars, StaysUsed
  <2> QED  BY <2>1, ClientStaysUsed
<1>10. CASE ReadTimesOut(c) \/ ReadEnds(c)
  <2>1. pc' = [pc EXCEPT ![c] = "Cancel"] /\ UNCHANGED <<received, connected, shown, rest>>
    BY <1>0, <1>10 DEF ReadTimesOut, ReadEnds, pipeVars, ServiceIInv, TypeOK
  <2>2. pc[c] # "Rest"
    BY <1>10 DEF ReadTimesOut, ReadEnds, Starved
  <2>3. StaysUsed(c, "Cancel")
    BY <1>1, <1>i, <2>1, <2>2 DEF StaysUsed
  <2> QED  BY <2>3, ClientStaysUsed
<1> QED  BY <1>2, <1>3, <1>4, <1>5, <1>6, <1>7, <1>8, <1>9, <1>10 DEF ClientStep

LEMMA UsedInvariance ==
  ASSUME Prompt, ServiceIInv, UsedIInv, [Next]_vars
  PROVE  UsedIInv'
<1> SUFFICES ASSUME faults' = 0 PROVE UsedIInv'
  BY DEF UsedIInv
<1>0. /\ TypeOK /\ PipeFits /\ faults \in Nat /\ idle \in Nat /\ IdleTimeout \in Nat \ {0}
      /\ SampleGap \in Nat /\ rest \in [Clients -> 0..SampleGap]
  BY SensorAssumption DEF ServiceIInv, TypeOK
<1>f. ~CanFail
  BY <1>0 DEF CanFail
<1>1. ASSUME NEW c \in Clients, Sample(c) \/ ClientStep(c)
      PROVE  UsedIInv'
  BY <1>1, ClientStepsUsed
<1>2. CASE ServiceStep \/ Update
  <2>0. faults = 0 /\ UNCHANGED <<pc, shown, rest>>
    BY <1>2, <1>f DEF ServiceStep, Update, OnStart, StartEnds, Initialize, CreatePipe, IdleStop,
       Accept, WriteLength, WritePayload, WriteFails, StopBegins, StopEnds, clientVars, readVars
  <2>1. /\ \A c \in Clients :
             pc[c] \notin {"Length", "Payload", "Cancel"} => received[c] = <<>> /\ ~connected[c]
        /\ server \in {"Write", "Payload"} => idle = 0
        /\ \A c \in Clients : received[c] # <<>> => idle = 0
        /\ \A c \in Clients : shown[c].status = "Ready" =>
             idle <= IF pc[c] = "Rest" THEN rest[c] ELSE SampleGap
    BY <2>0 DEF UsedIInv
  <2>2. connected \in [Clients -> BOOLEAN] /\ received \in [Clients -> Reads]
    BY <1>0 DEF TypeOK, PipeFits
  <2>3. ASSUME idle' \in {0, idle}, server' \in {"Write", "Payload"} => idle' = 0,
               \A c \in Clients : connected'[c] => connected[c],
               \A c \in Clients : received'[c] # <<>> =>
                 received'[c] = received[c] \/ (connected[c] /\ idle' = 0)
        PROVE  UsedIInv'
    <3>1. ASSUME NEW c \in Clients
          PROVE  /\ pc'[c] \notin {"Length", "Payload", "Cancel"} =>
                      received'[c] = <<>> /\ ~connected'[c]
                 /\ received'[c] # <<>> => idle' = 0
      BY <2>0, <2>1, <2>3
    <3>2. ASSUME NEW c \in Clients, shown'[c].status = "Ready"
          PROVE  idle' <= IF pc'[c] = "Rest" THEN rest'[c] ELSE SampleGap
      BY <1>0, <2>0, <2>1, <2>3, <3>2
    <3> QED  BY <2>3, <3>1, <3>2 DEF UsedIInv
  <2>4. CASE OnStart \/ StartEnds \/ Initialize \/ CreatePipe \/ Accept \/ WriteFails
             \/ StopBegins \/ StopEnds \/ Update
    <3>1. UNCHANGED <<received, connected>>
      BY <2>4 DEF Update, OnStart, StartEnds, Initialize, CreatePipe, Accept, WriteFails,
                  StopBegins, StopEnds, serviceVars, pipeVars
    <3>2. idle' \in {0, idle} /\ (server' \in {"Write", "Payload"} => idle' = 0)
      BY <2>1, <2>4 DEF Update, OnStart, StartEnds, Initialize, CreatePipe, Accept, WriteFails,
                        StopBegins, StopEnds, serviceVars
    <3> QED  BY <2>3, <3>1, <3>2
  <2>5. CASE IdleStop
    BY <2>2, <2>3, <2>5 DEF IdleStop, CloseAll
  <2>6. CASE WriteLength \/ WritePayload
    <3>1. peer \in Clients /\ connected[peer] /\ idle = 0 /\ idle' = idle
          /\ \A c \in Clients : connected'[c] => connected[c]
      BY <1>0, <2>1, <2>2, <2>6 DEF WriteLength, WritePayload, PipeFits
    <3>2. \A c \in Clients \ {peer} : received'[c] = received[c]
      BY <2>2, <2>6 DEF WriteLength, WritePayload
    <3> QED  BY <2>3, <3>1, <3>2
  <2> QED  BY <1>2, <2>4, <2>5, <2>6 DEF ServiceStep
<1>3. CASE Tick
  <2>0. /\ faults = 0 /\ server \notin {"Write", "Payload"}
        /\ \A c \in Clients : pc[c] = "Rest"
        /\ UNCHANGED <<pc, server, connected, shown>>
        /\ rest' = [c \in Clients |-> rest[c] + 1]
        /\ idle' = IF idle + 1 > IdleTimeout THEN IdleTimeout ELSE idle + 1
        /\ received' = [c \in Clients |->
             IF Len(received[c]) = 2 THEN <<"length", Older(received[c][2], 1)>>
             ELSE received[c]]
    BY <1>3 DEF Tick, Pass, Busy, readVars
  <2>1. \A c \in Clients : received[c] = <<>> /\ ~connected[c]
                           /\ (shown[c].status = "Ready" => idle <= rest[c])
    BY <2>0 DEF UsedIInv
  <2>2. \A c \in Clients : received'[c] = <<>>
    BY <2>0, <2>1
  <2>3. \A c \in Clients : shown[c].status = "Ready" => idle' <= rest'[c]
    BY <1>0, <2>0, <2>1
  <2> QED  BY <2>0, <2>1, <2>2, <2>3 DEF UsedIInv
<1>4. CASE UNCHANGED vars
  BY <1>4 DEF UsedIInv, vars, serviceVars, readVars, pipeVars
<1>5. ~RunFails /\ ~Crash /\ ~Suspend
  BY <1>f DEF RunFails, Crash, Suspend
<1> QED  BY <1>1, <1>2, <1>3, <1>4, <1>5 DEF Next

LEMMA UsedInit == Init => UsedIInv
BY DEF Init, UsedIInv, Unknown

LEMMA UsedIsNotStopped ==
  ASSUME SampleGap < IdleTimeout, ServiceIInv, UsedIInv
  PROVE  StopsUnused
<1> SUFFICES ASSUME faults = 0, IdleStop, NEW c \in Clients, shown[c].status = "Ready"
             PROVE  FALSE
  BY DEF StopsUnused
<1>1. idle \in Nat /\ rest[c] \in 0..SampleGap /\ SampleGap \in Nat /\ IdleTimeout \in Nat
  BY SensorAssumption DEF ServiceIInv, TypeOK
<1>2. idle <= SampleGap
  BY <1>1 DEF UsedIInv
<1> QED  BY <1>1, <1>2 DEF IdleStop, Expired

\* As long as nothing fails, a service that answers in time (SnapshotPipeServer) does
\* not stop for want of clients while one that shows its measurement still samples
\* more often than the service waits.
THEOREM UsedServiceStays ==
  ASSUME Prompt, SampleGap < IdleTimeout
  PROVE  Served => NotIdleWhileUsed
<1>1. Init => ServiceIInv /\ UsedIInv
  BY ServiceInit, UsedInit
<1>2. ServiceIInv /\ UsedIInv /\ [Next]_vars => (ServiceIInv /\ UsedIInv)'
  BY ServiceInvariance, UsedInvariance
<1>3. ServiceIInv /\ UsedIInv => [StopsUnused]_vars
  BY UsedIsNotStopped
<1> QED  BY <1>1, <1>2, <1>3, PTL DEF Served, NotIdleWhileUsed

==============================================================================
