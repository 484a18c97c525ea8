----------------------------- MODULE HttpConnector -----------------------------
(***************************************************************************)
(* One run of the OpenAI-compatible connector of crates/agent-http: the    *)
(* worker thread with its single-threaded runtime, the request, and the    *)
(* stream of server-sent events that a server writes as it likes, cuts     *)
(* short or never ends.  The run may be stopped or dropped at any time.    *)
(***************************************************************************)
EXTENDS Naturals, SequencesExt, RunTranscript

CONSTANTS
  Chunks,       \* what a server writes at once: its size and the events it ends
  Statuses,     \* HTTP statuses
  MaxStream,    \* max_stream_bytes
  MaxResponse,  \* max_response_bytes
  WireSize,     \* bound: chunks on their way
  ServedBound   \* bound: events after which a server writes no more

LimitsAssumption ==
  /\ {MaxStream, MaxResponse, WireSize} \subseteq Nat \ {0}
  /\ ServedBound \in Nat
  /\ \A chunk \in Chunks :
       /\ chunk.size \in Nat \ {0}
       /\ chunk.events \in Seq([kind : {"text", "empty", "done", "malformed", "error"}, text : Seq(Nat)])
       /\ \A i \in DOMAIN chunk.events : chunk.events[i].kind # "text" => chunk.events[i].text = <<>>

VARIABLES
  worker,       \* where the worker is
  sent,         \* the events it has sent
  cancelled,    \* the cancellation token
  listening,    \* the receiver exists
  connection,   \* what the server has done with the request
  wire,         \* chunks the worker has not read
  decoded,      \* events the decoder has and the loop has not taken
  streamBytes, responseBytes,  \* what counts against the two limits
  served        \* history variable: the events of all chunks written

workerVars == <<worker, sent, decoded, streamBytes, responseBytes>>
serverVars == <<connection, served>>
userVars   == <<cancelled, listening>>

vars == <<workerVars, serverVars, userVars, wire>>

Message(kind, text, code) == [kind |-> kind, text |-> text, code |-> code]
Started      == Message("Started", <<>>, "none")
Delta(text)  == Message("TextDelta", text, "none")
Failed(code) == Message("Failed", <<>>, code)
Completed    == Message("Completed", <<>>, "none")
Cancelled    == Message("Cancelled", <<>>, "none")

NoAnswer == [status |-> 0, eventStream |-> FALSE, state |-> "waiting"]

Init ==
  /\ worker = "announce"
  /\ sent = <<>>
  /\ cancelled = FALSE
  /\ listening = TRUE
  /\ connection = NoAnswer
  /\ wire = <<>> /\ decoded = <<>>
  /\ streamBytes = 0 /\ responseBytes = 0
  /\ served = <<>>

-----------------------------------------------------------------------------
(* The worker.                                                             *)

\* send() on the channel: without a receiver it has no effect.
Send(event) == sent' = IF listening THEN Append(sent, event) ELSE sent

\* The outcome of run_openai_request becomes the last event.
EndWith(event) ==
  /\ Send(event)
  /\ worker' = "done"

Announce ==
  /\ worker = "announce"
  /\ Send(Started)
  /\ worker' = IF listening THEN "runtime" ELSE "done"
  /\ UNCHANGED <<decoded, streamBytes, responseBytes, serverVars, userVars, wire>>

BuildRuntime ==
  /\ worker = "runtime"
  /\ worker' = "request"
  /\ UNCHANGED <<sent, decoded, streamBytes, responseBytes, serverVars, userVars, wire>>

RuntimeFails ==
  /\ worker = "runtime"
  /\ EndWith(Failed("Transport"))
  /\ UNCHANGED <<decoded, streamBytes, responseBytes, serverVars, userVars, wire>>

\* The token is looked at before the answer only.
SeesCancelFaulty ==
  /\ worker = "request" /\ cancelled
  /\ EndWith(Cancelled)
  /\ UNCHANGED <<decoded, streamBytes, responseBytes, serverVars, userVars, wire>>

\* Both selects race wait_until_cancelled with the server, in no fixed order.
SeesCancel ==
  /\ worker \in {"request", "stream"} /\ cancelled
  /\ EndWith(Cancelled)
  /\ UNCHANGED <<decoded, streamBytes, responseBytes, serverVars, userVars, wire>>

\* http_status_error
StatusCode(status) ==
  CASE status \in {401, 403}           -> "Unauthorized"
    [] status \in {408, 504}           -> "Timeout"
    [] status = 429                    -> "RateLimited"
    [] status = 404                    -> "Configuration"
    [] status \in {400, 409, 413, 422} -> "InvalidRequest"
    [] OTHER                           -> "Transport"

IsSuccess(status) == status \in 200..299

ReceiveAnswer ==
  /\ worker = "request"
  /\ connection.status # 0
  /\ IF ~IsSuccess(connection.status) THEN EndWith(Failed(StatusCode(connection.status)))
     ELSE IF ~connection.eventStream  THEN EndWith(Failed("Protocol"))
     ELSE worker' = "stream" /\ UNCHANGED sent
  /\ UNCHANGED <<decoded, streamBytes, responseBytes, serverVars, userVars, wire>>

RequestBreaks ==
  /\ worker = "request"
  /\ connection.status = 0 /\ connection.state = "broken"
  /\ EndWith(Failed("Transport"))
  /\ UNCHANGED <<decoded, streamBytes, responseBytes, serverVars, userVars, wire>>

\* The client has a timeout for connecting only.
TimesOutFaulty ==
  /\ worker = "request"
  /\ EndWith(Failed("Timeout"))
  /\ UNCHANGED <<decoded, streamBytes, responseBytes, serverVars, userVars, wire>>

\* The request_timeout of the client covers the answer to its last byte; it is
\* noticed when the loop asks for more.
TimesOut ==
  /\ worker \in {"request", "stream"} /\ decoded = <<>>
  /\ EndWith(Failed("Timeout"))
  /\ UNCHANGED <<decoded, streamBytes, responseBytes, serverVars, userVars, wire>>

\* The decoder reads on when it has no event left: the whole chunk counts
\* before any of its events is taken.
ReadsOn == worker = "stream" /\ decoded = <<>>

\* The first chunk beyond the limit is still taken.
PullChunkFaulty ==
  /\ ReadsOn /\ wire # <<>>
  /\ wire' = Tail(wire)
  /\ streamBytes' = streamBytes + Head(wire).size
  /\ IF streamBytes > MaxStream
       THEN EndWith(Failed("Protocol")) /\ UNCHANGED decoded
       ELSE decoded' = Head(wire).events /\ UNCHANGED <<worker, sent>>
  /\ UNCHANGED <<responseBytes, serverVars, userVars>>

PullChunk ==
  /\ ReadsOn /\ wire # <<>>
  /\ wire' = Tail(wire)
  /\ IF streamBytes + Head(wire).size > MaxStream
       THEN EndWith(Failed("Protocol")) /\ UNCHANGED <<decoded, streamBytes>>
       ELSE /\ streamBytes' = streamBytes + Head(wire).size
            /\ decoded' = Head(wire).events
            /\ UNCHANGED <<worker, sent>>
  /\ UNCHANGED <<responseBytes, serverVars, userVars>>

\* The end of the stream is taken for the end of the answer.
StreamEndsFaulty ==
  /\ ReadsOn /\ wire = <<>> /\ connection.state \in {"closed", "broken"}
  /\ EndWith(Completed)
  /\ UNCHANGED <<decoded, streamBytes, responseBytes, serverVars, userVars, wire>>

\* The stream ends, or breaks, before [DONE].
StreamEnds ==
  /\ ReadsOn /\ wire = <<>> /\ connection.state \in {"closed", "broken"}
  /\ EndWith(Failed("Transport"))
  /\ UNCHANGED <<decoded, streamBytes, responseBytes, serverVars, userVars, wire>>

Takes(kinds) ==
  /\ worker = "stream"
  /\ decoded # <<>> /\ Head(decoded).kind \in kinds
  /\ decoded' = Tail(decoded)

TakeDone ==
  /\ Takes({"done"})
  /\ EndWith(Completed)
  /\ UNCHANGED <<streamBytes, responseBytes, serverVars, userVars, wire>>

\* Malformed data, or an error reported by the provider.
TakeError ==
  /\ Takes({"malformed", "error"})
  /\ EndWith(Failed("Protocol"))
  /\ UNCHANGED <<streamBytes, responseBytes, serverVars, userVars, wire>>

\* A chunk without text: a role, a finish reason, an empty string.
SkipEmpty ==
  /\ Takes({"empty"})
  /\ UNCHANGED <<worker, sent, streamBytes, responseBytes, serverVars, userVars, wire>>

\* The limit is compared before the text is counted.
TakeTextFaulty ==
  /\ Takes({"text"})
  /\ IF responseBytes > MaxResponse
       THEN EndWith(Failed("Protocol")) /\ UNCHANGED responseBytes
       ELSE /\ responseBytes' = responseBytes + Len(Head(decoded).text)
            /\ Send(Delta(Head(decoded).text))
            /\ worker' = IF listening THEN "stream" ELSE "done"
  /\ UNCHANGED <<streamBytes, serverVars, userVars, wire>>

\* Nobody takes a delta any more: Cancelled, to nobody.
TakeText ==
  /\ Takes({"text"})
  /\ IF responseBytes + Len(Head(decoded).text) > MaxResponse
       THEN EndWith(Failed("Protocol")) /\ UNCHANGED responseBytes
       ELSE /\ responseBytes' = responseBytes + Len(Head(decoded).text)
            /\ Send(Delta(Head(decoded).text))
            /\ worker' = IF listening THEN "stream" ELSE "done"
  /\ UNCHANGED <<streamBytes, serverVars, userVars, wire>>

-----------------------------------------------------------------------------
(* The server, and whoever holds the run.                                  *)

Answer(status, eventStream) ==
  /\ worker = "request" /\ connection = NoAnswer
  /\ connection' = [status |-> status, eventStream |-> eventStream, state |-> "open"]
  /\ UNCHANGED <<workerVars, served, userVars, wire>>

WriteChunk(chunk) ==
  /\ connection.state = "open"
  /\ Len(wire) < WireSize /\ Len(served) < ServedBound
  /\ wire' = Append(wire, chunk)
  /\ served' = served \o chunk.events
  /\ UNCHANGED <<workerVars, connection, userVars>>

\* A connection may be refused, closed in good order, or break.
Disconnect(state) ==
  /\ worker \in {"request", "stream"}
  /\ connection.state \in {"open"} \cup (IF state = "broken" THEN {"waiting"} ELSE {})
  /\ connection' = [connection EXCEPT !.state = state]
  /\ UNCHANGED <<workerVars, served, userVars, wire>>

Cancel ==
  /\ cancelled' = TRUE
  /\ UNCHANGED <<listening, workerVars, serverVars, wire>>

DropRun ==
  /\ listening' = FALSE
  /\ cancelled' = TRUE
  /\ UNCHANGED <<workerVars, serverVars, wire>>

-----------------------------------------------------------------------------
WorkerStep ==
  \/ Announce \/ BuildRuntime \/ RuntimeFails \/ SeesCancel
  \/ ReceiveAnswer \/ RequestBreaks
  \/ PullChunk \/ StreamEnds \/ TakeDone \/ TakeError \/ SkipEmpty \/ TakeText

ServerStep ==
  \/ \E status \in Statuses, eventStream \in BOOLEAN : Answer(status, eventStream)
  \/ \E chunk \in Chunks : WriteChunk(chunk)
  \/ \E state \in {"closed", "broken"} : Disconnect(state)

Next == WorkerStep \/ TimesOut \/ ServerStep \/ Cancel \/ DropRun

\* The thread is scheduled; a server and a user owe nothing.
Spec == Init /\ [][Next]_vars /\ WF_vars(WorkerStep)

-----------------------------------------------------------------------------
(* Properties.                                                             *)

\* The types, with no more than max_stream_bytes ever handed to the decoder.
TypeOK ==
  /\ worker \in {"announce", "runtime", "request", "stream", "done"}
  /\ \A i \in DOMAIN sent : sent[i].kind \in EventKind /\ sent[i].code \in ConnectorErrorCode \cup {"none"}
  /\ {cancelled, listening} \subseteq BOOLEAN
  /\ connection.state \in {"waiting", "open", "closed", "broken"}
  /\ Len(wire) <= WireSize /\ ToSet(wire) \subseteq Chunks
  /\ streamBytes \in 0..MaxStream
  /\ responseBytes \in Nat

Run == INSTANCE ConnectorRun
  WITH sent <- [i \in DOMAIN sent |-> sent[i].kind], over <- worker = "done"

\* The run is a legal run, and a stopped one ends even when the server says
\* nothing more, without waiting for any timeout.
ImplementsRun == Run!Spec

\* The reducer accepts what the connector sends.
StartedFirst == Run!StartedFirst

Said == FlattenSeq([i \in DOMAIN sent |-> sent[i].text])

\* A window is never sent more text than max_response_bytes, and every byte it
\* is sent has been counted.
ResponseBounded == Len(Said) <= MaxResponse /\ Len(Said) <= responseBytes

\* What is sent is what the server wrote, from the beginning, in its order and
\* with nothing left out; and a completed answer is all of it up to [DONE].
CompletedIsWhole ==
  LET wrote == FlattenSeq([i \in DOMAIN served |-> served[i].text])
      marks == {i \in DOMAIN served : served[i].kind = "done"}
      upTo(i) == FlattenSeq([j \in 1..i |-> served[j].text])
  IN /\ IsPrefix(Said, wrote)
     /\ sent # <<>> /\ Last(sent) = Completed =>
          \E i \in marks : (\A j \in marks : i <= j) /\ Said = upTo(i)

\* Whatever the server does and does not do, the run ends as time passes: the
\* request_timeout covers the stream.
EveryRunEnds == WF_vars(TimesOut) => <>(worker = "done")

==============================================================================
