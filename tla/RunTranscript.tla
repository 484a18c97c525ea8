---------------------------- MODULE RunTranscript ----------------------------
(***************************************************************************)
(* The transport-independent contract of crates/agent-core: the events a   *)
(* connector sends about one run and the reducer that every event passes   *)
(* before it may change a conversation.  Text is abstracted to its length  *)
(* in bytes, an error to its machine-readable code and the length of its   *)
(* message, which are what the controller's decisions depend on.           *)
(***************************************************************************)
EXTENDS Naturals

RunPhase == {"AwaitingStart", "Streaming", "Completed", "Cancelled", "Failed"}

IsTerminal(phase) == phase \in {"Completed", "Cancelled", "Failed"}

ConnectorErrorCode ==
  {"Configuration", "InvalidRequest", "Unauthorized", "RateLimited", "Timeout",
   "Transport", "Protocol", "Process", "UnsupportedCapability"}

IsRetryableCode(code) == code \in {"RateLimited", "Timeout", "Transport", "Process"}

ConnectorError == [code : ConnectorErrorCode, size : Nat]

\* Option::None of the transcript's error.
NoError == [code |-> "None", size |-> 0]

-----------------------------------------------------------------------------
(* Events.  Only a TextDelta has text and only a Failed has an error.      *)

EventKind == {"Started", "TextDelta", "Completed", "Cancelled", "Failed"}

AgentEvent(ids) ==
  [kind : EventKind, id : ids, size : Nat, error : ConnectorError \cup {NoError}]

Event(kind, id)      == [kind |-> kind, id |-> id, size |-> 0, error |-> NoError]
TextDelta(id, n)     == [Event("TextDelta", id) EXCEPT !.size = n]
FailedEvent(id, err) == [Event("Failed", id) EXCEPT !.error = err]

-----------------------------------------------------------------------------
(* The reducer.                                                            *)

Transcript(ids) ==
  [id : ids, phase : RunPhase, size : Nat, error : ConnectorError \cup {NoError}]

NewTranscript(id) ==
  [id |-> id, phase |-> "AwaitingStart", size |-> 0, error |-> NoError]

\* The match arms that accept: everything else is RequestIdMismatch or
\* UnexpectedEvent and leaves the transcript as it was.
Accepts(t, e) ==
  /\ e.id = t.id
  /\ \/ t.phase = "AwaitingStart" /\ e.kind = "Started"
     \/ t.phase = "Streaming" /\ e.kind # "Started"

AfterEvent(t, e) ==
  [t EXCEPT !.phase = IF IsTerminal(e.kind) THEN e.kind ELSE "Streaming",
            !.size  = @ + e.size,
            !.error = IF e.kind = "Failed" THEN e.error ELSE @]

IsRetryable(t) == IsRetryableCode(t.error.code)

==============================================================================
