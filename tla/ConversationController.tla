------------------------ MODULE ConversationController ------------------------
(***************************************************************************)
(* The conversation state machine of apps/desktop/src/conversation.rs: a   *)
(* bounded message history, at most one active request, and the right to   *)
(* retry a request that failed with a retryable error.  The controller     *)
(* lives behind a mutex; every action is one call made under that lock.    *)
(* A call that returns an error changes nothing and is no step.            *)
(*                                                                         *)
(* Definitions whose name ends in Faulty are plausible mistakes in the     *)
(* definition they precede.  No specification uses them; each shows that a *)
(* property would notice the mistake.                                      *)
(***************************************************************************)
EXTENDS RunTranscript, Sequences, FiniteSetsExt

CONSTANTS
  Connectors,          \* the connector ids a request can be sent to
  None,                \* Option::None
  MaxRequestId,        \* u64::MAX, after which ids start again from 1
  MaxHistoryMessages,  \* MAX_HISTORY_MESSAGES
  MaxHistoryBytes,     \* MAX_HISTORY_BYTES
  MaxPromptBytes,      \* MAX_PROMPT_BYTES
  MaxResponseBytes,    \* MAX_RESPONSE_BYTES
  PlaceholderBytes,    \* length of the text shown for an empty answer
  DeltaSizes,          \* lengths of the text deltas connectors send
  Errors               \* errors connectors report

ASSUME LimitsAssumption ==
  /\ MaxRequestId \in Nat /\ MaxRequestId >= 1
  /\ MaxHistoryMessages \in Nat /\ MaxHistoryMessages >= 2
  /\ MaxHistoryBytes \in Nat
  /\ MaxPromptBytes \in Nat
  /\ MaxResponseBytes \in Nat
  /\ PlaceholderBytes \in Nat

ASSUME InputsAssumption ==
  /\ DeltaSizes \subseteq Nat
  /\ Errors \subseteq ConnectorError

RequestId == 1 .. MaxRequestId

VARIABLES
  nextRequestId,  \* the id the next request gets
  messages,       \* the history, oldest first
  active,         \* the active request, or None
  retrySeed,      \* the connector a retry goes to, or None
  canRetry,       \* whether retry() is open
  lastPhase,      \* phase the last run ended in, "None" before the first
  lastError       \* error the last run ended with, or NoError

controllerVars ==
  <<nextRequestId, messages, active, retrySeed, canRetry, lastPhase, lastError>>

-----------------------------------------------------------------------------
(* Messages and the history.                                               *)

Role == {"User", "Assistant"}

Message == [role : Role, size : Nat, pending : BOOLEAN, failed : BOOLEAN]

Prompt(n) == [role |-> "User", size |-> n, pending |-> FALSE, failed |-> FALSE]

PendingAnswer == [role |-> "Assistant", size |-> 0, pending |-> TRUE, failed |-> FALSE]

ActiveRequest == [transcript : Transcript(RequestId), index : Nat \ {0}, stop : BOOLEAN]

\* None stands for an absent connector, request and request id.
ASSUME NoneAssumption ==
  /\ None \notin Connectors
  /\ None \notin RequestId
  /\ None \notin ActiveRequest

\* The positions of the bytes of a history; their number is its size.
BytePositions(s) == UNION {{i} \X (1 .. s[i].size) : i \in DOMAIN s}

HistoryBytes(s) == Cardinality(BytePositions(s))

DropFirst(s, k) == SubSeq(s, k + 1, Len(s))

NoLeadingAnswer(s) == s # <<>> => s[1].role = "User"

\* The second limit is tested with >= instead of >.
IsTrimmedFaulty(s, limit) ==
  Len(s) <= limit /\ NoLeadingAnswer(s) /\ HistoryBytes(s) < MaxHistoryBytes

\* trim_history drops the oldest message while there are too many messages or
\* bytes, and then while an answer is at the front: it leaves the longest suffix
\* that has none of these faults.
IsTrimmed(s, limit) ==
  Len(s) <= limit /\ NoLeadingAnswer(s) /\ HistoryBytes(s) <= MaxHistoryBytes

\* Without the second loop an answer can outlive its question.
TrimFaulty(s, limit) ==
  DropFirst(s, Min({k \in 0 .. Len(s) :
    Len(s) - k <= limit /\ HistoryBytes(DropFirst(s, k)) <= MaxHistoryBytes}))

Trim(s, limit) ==
  DropFirst(s, Min({k \in 0 .. Len(s) : IsTrimmed(DropFirst(s, k), limit)}))

\* What request_from_history sends of a history: the settled, successful,
\* non-empty messages, at their positions.
IsSendable(m) == ~m.pending /\ ~m.failed /\ m.size > 0

Request(s) == Restrict(s, {i \in DOMAIN s : IsSendable(s[i])})

-----------------------------------------------------------------------------
Init ==
  /\ nextRequestId = 1
  /\ messages = <<>>
  /\ active = None
  /\ retrySeed = None
  /\ canRetry = FALSE
  /\ lastPhase = "None"
  /\ lastError = NoError

AllocateRequestIdFaulty == nextRequestId' = nextRequestId + 1

\* allocate_request_id: checked_add wraps to 1.
AllocateRequestId ==
  nextRequestId' = IF nextRequestId = MaxRequestId THEN 1 ELSE nextRequestId + 1

\* The index is taken before the prompt is counted.
BeginWithRequestFaulty(history) ==
  /\ AllocateRequestId
  /\ messages' = Append(history, PendingAnswer)
  /\ active' = [transcript |-> NewTranscript(nextRequestId),
                index |-> Len(history),
                stop |-> FALSE]
  /\ canRetry' = FALSE
  /\ lastPhase' = "AwaitingStart"
  /\ lastError' = NoError

\* begin_with_request, after the history has been prepared.
BeginWithRequest(history) ==
  /\ AllocateRequestId
  /\ messages' = Append(history, PendingAnswer)
  /\ active' = [transcript |-> NewTranscript(nextRequestId),
                index |-> Len(history) + 1,
                stop |-> FALSE]
  /\ canRetry' = FALSE
  /\ lastPhase' = "AwaitingStart"
  /\ lastError' = NoError

\* Room is made for the prompt, but not for its answer.
BeginFaulty(connector, promptBytes) ==
  /\ promptBytes \in 1 .. MaxPromptBytes
  /\ active = None
  /\ BeginWithRequest(Append(Trim(messages, MaxHistoryMessages - 1), Prompt(promptBytes)))
  /\ retrySeed' = connector

\* begin: InvalidPrompt and Busy are returned without a change.
Begin(connector, promptBytes) ==
  /\ promptBytes \in 1 .. MaxPromptBytes
  /\ active = None
  /\ BeginWithRequest(Append(Trim(messages, MaxHistoryMessages - 2), Prompt(promptBytes)))
  /\ retrySeed' = connector

\* retry: Busy and RetryUnavailable are returned without a change.
Retry ==
  /\ active = None
  /\ canRetry
  /\ retrySeed # None
  /\ BeginWithRequest(Trim(messages, MaxHistoryMessages - 1))
  /\ UNCHANGED retrySeed

\* Without the test for an active request.
ClearRetryFaulty ==
  /\ canRetry' = FALSE
  /\ retrySeed' = None
  /\ UNCHANGED <<nextRequestId, messages, active, lastPhase, lastError>>

ClearRetry ==
  /\ active = None
  /\ canRetry' = FALSE
  /\ retrySeed' = None
  /\ UNCHANGED <<nextRequestId, messages, active, lastPhase, lastError>>

RequestStop ==
  /\ active # None
  /\ ~active.stop
  /\ active' = [active EXCEPT !.stop = TRUE]
  /\ UNCHANGED <<nextRequestId, messages, retrySeed, canRetry, lastPhase, lastError>>

-----------------------------------------------------------------------------
(* The end of a run and the events that lead to it.                        *)

\* The text the answer keeps: what was streamed, else a placeholder or the
\* error's message.
AnswerBytes(t) ==
  IF t.size > 0 THEN t.size
  ELSE IF t.phase = "Failed" THEN t.error.size ELSE PlaceholderBytes

\* finish_active for a transcript that has reached a terminal phase.
Finish(t) ==
  /\ messages' =
       Trim([messages EXCEPT ![active.index].size    = AnswerBytes(t),
                             ![active.index].pending = FALSE,
                             ![active.index].failed  = (t.phase = "Failed")],
            MaxHistoryMessages)
  /\ active' = None
  /\ canRetry' = IsRetryable(t)
  /\ lastPhase' = t.phase
  /\ lastError' = t.error
  /\ UNCHANGED <<nextRequestId, retrySeed>>

FinishFailed(err) ==
  Finish([active.transcript EXCEPT !.phase = "Failed", !.error = err])

\* The connector could not be started: Started and Failed in one call.
FailToStart(err) ==
  /\ active # None
  /\ active.transcript.phase = "AwaitingStart"
  /\ FinishFailed(err)

ClosedError == [code |-> "Transport", size |-> PlaceholderBytes]

\* The event channel of request id closed before a terminal event.
ChannelClosed(id) ==
  /\ active # None
  /\ active.transcript.id = id
  /\ FinishFailed(ClosedError)

\* Whether apply_event returns Ok for e: the reducer accepts it.
EventAccepted(e) == active # None /\ Accepts(active.transcript, e)

ExceedsResponse(e) ==
  /\ e.kind = "TextDelta"
  /\ active.transcript.size + e.size > MaxResponseBytes

OversizeError == [code |-> "Protocol", size |-> PlaceholderBytes]

\* A delta that would exceed the response limit fails the run instead.
ApplyOversizeDelta(e) ==
  /\ EventAccepted(e)
  /\ ExceedsResponse(e)
  /\ FinishFailed(OversizeError)

ApplyTerminal(e) ==
  /\ EventAccepted(e)
  /\ IsTerminal(e.kind)
  /\ Finish(AfterEvent(active.transcript, e))

\* The history is trimmed while the answer is still streaming.
ApplyProgressTrimsFaulty(e) ==
  /\ EventAccepted(e)
  /\ ~IsTerminal(e.kind)
  /\ ~ExceedsResponse(e)
  /\ LET t == AfterEvent(active.transcript, e)
     IN  /\ active' = [active EXCEPT !.transcript = t]
         /\ messages' = Trim([messages EXCEPT ![active.index].size = t.size],
                             MaxHistoryMessages)
  /\ UNCHANGED <<nextRequestId, retrySeed, canRetry, lastPhase, lastError>>

\* The active request is built anew from each transcript.
ApplyProgressRebuildsFaulty(e) ==
  /\ EventAccepted(e)
  /\ ~IsTerminal(e.kind)
  /\ ~ExceedsResponse(e)
  /\ LET t == AfterEvent(active.transcript, e)
     IN  /\ active' = [transcript |-> t, index |-> active.index, stop |-> FALSE]
         /\ messages' = [messages EXCEPT ![active.index].size = t.size]
  /\ UNCHANGED <<nextRequestId, retrySeed, canRetry, lastPhase, lastError>>

\* Started, or a delta that fits: the answer shows the text received so far.
ApplyProgress(e) ==
  /\ EventAccepted(e)
  /\ ~IsTerminal(e.kind)
  /\ ~ExceedsResponse(e)
  /\ LET t == AfterEvent(active.transcript, e)
     IN  /\ active' = [active EXCEPT !.transcript = t]
         /\ messages' = [messages EXCEPT ![active.index].size = t.size]
  /\ UNCHANGED <<nextRequestId, retrySeed, canRetry, lastPhase, lastError>>

ApplyEvent(e) == ApplyOversizeDelta(e) \/ ApplyTerminal(e) \/ ApplyProgress(e)

\* The events a connector can send for a request.
EventsOf(id) ==
  {Event(kind, id) : kind \in {"Started", "Completed", "Cancelled"}}
    \cup {TextDelta(id, n) : n \in DeltaSizes}
    \cup {FailedEvent(id, err) : err \in Errors}

Next ==
  \/ \E connector \in Connectors, n \in 0 .. MaxPromptBytes + 1 : Begin(connector, n)
  \/ Retry
  \/ ClearRetry
  \/ RequestStop
  \/ \E err \in Errors : FailToStart(err)
  \/ \E id \in RequestId : ChannelClosed(id)
  \/ \E id \in RequestId : \E e \in EventsOf(id) : ApplyEvent(e)

Spec == Init /\ [][Next]_controllerVars

-----------------------------------------------------------------------------
(* Properties.                                                             *)

\* Every field of the controller has its declared type, and an allocated id
\* stays in the range of u64 even after the last one (allocate_request_id).
TypeOK ==
  /\ nextRequestId \in RequestId
  /\ messages \in Seq(Message)
  /\ active \in ActiveRequest \cup {None}
  /\ retrySeed \in Connectors \cup {None}
  /\ canRetry \in BOOLEAN
  /\ lastPhase \in RunPhase \cup {"None"}
  /\ lastError \in ConnectorError \cup {NoError}

\* The history never holds more than MAX_HISTORY_MESSAGES.  Its bytes are
\* within MAX_HISTORY_BYTES whenever no request is active; an active request
\* adds at most one prompt before, and one bounded answer at, its end
\* (begin, retry, apply_event and finish_active trim at different limits).
HistoryBounded ==
  /\ Len(messages) <= MaxHistoryMessages
  /\ active = None => HistoryBytes(messages) <= MaxHistoryBytes
  /\ active # None =>
       /\ HistoryBytes(SubSeq(messages, 1, Len(messages) - 1))
            <= MaxHistoryBytes + MaxPromptBytes
       /\ messages[Len(messages)].size <= MaxResponseBytes

\* The index kept in the active request always finds its own answer, although
\* trimming shifts the history: a message is pending exactly when it is the
\* last one and a request is active, and it shows the transcript's text.
PendingIsActive ==
  /\ \A i \in DOMAIN messages :
       messages[i].pending <=> (active # None /\ i = active.index)
  /\ active # None =>
       /\ active.index = Len(messages)
       /\ messages[active.index].role = "Assistant"
       /\ messages[active.index].size = active.transcript.size
       /\ ~IsTerminal(active.transcript.phase)

\* The retry button is honest: while can_retry is set, no request is active,
\* the last run failed with a retryable error and the connector to retry on is
\* known, so that retry() never answers RetryUnavailable.
RetryIsUsable ==
  canRetry => /\ active = None
              /\ retrySeed # None
              /\ lastPhase = "Failed"
              /\ IsRetryableCode(lastError.code)

\* Between requests the history begins with a question: trimming never leaves
\* an answer whose question is gone (second loop of trim_history).
IdleHistoryStartsWithUser == active = None => NoLeadingAnswer(messages)

\* While one request stays active, the other messages of the history are
\* neither changed nor moved: only finish_active and the next begin may trim.
SettledMessagesAreFrozen ==
  [][(active # None /\ active' # None) =>
       /\ DOMAIN messages' = DOMAIN messages
       /\ \A i \in DOMAIN messages : ~messages[i].pending => messages'[i] = messages[i]
    ]_controllerVars

\* The request sent by begin or retry ends in the question it is about: the
\* last message handed to the connector is the user's.
RequestEndsWithPrompt ==
  active # None =>
    \E i \in DOMAIN Request(messages) :
      /\ messages[i].role = "User"
      /\ \A j \in DOMAIN Request(messages) : j <= i

==============================================================================
