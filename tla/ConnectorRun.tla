----------------------------- MODULE ConnectorRun -----------------------------
(***************************************************************************)
(* What every connector promises about one run, without any of its         *)
(* mechanism: the events it sends form one legal sequence, and a run that  *)
(* nobody wants any more comes to its end.  CliConnector and HttpConnector *)
(* implement it; ConversationRuntime relies on no more than this.          *)
(***************************************************************************)
EXTENDS Sequences, RunTranscript

VARIABLES
  sent,       \* the kinds of the events sent so far
  cancelled,  \* the cancellation token
  listening,  \* the AgentRun, and with it the receiver, still exists
  over        \* the worker thread has returned

vars == <<sent, cancelled, listening, over>>

Ended == sent # <<>> /\ IsTerminal(sent[Len(sent)])

Init ==
  /\ sent = <<>>
  /\ cancelled = FALSE
  /\ listening = TRUE
  /\ over = FALSE

\* A worker that cannot even start may fail at once.
MaySend(kind) ==
  IF sent = <<>> THEN kind \in {"Started", "Failed"} ELSE kind # "Started"

\* The worker may return in the step that sends its last event.
Send(kind) ==
  /\ ~over /\ ~Ended /\ listening
  /\ MaySend(kind)
  /\ kind = "Cancelled" => cancelled
  /\ sent' = Append(sent, kind)
  /\ over' \in {FALSE, IsTerminal(kind)}
  /\ UNCHANGED <<cancelled, listening>>

\* Without a listener there is nobody left to tell.
Return ==
  /\ ~over
  /\ Ended \/ ~listening
  /\ over' = TRUE
  /\ UNCHANGED <<sent, cancelled, listening>>

Cancel ==
  /\ cancelled' = TRUE
  /\ UNCHANGED <<sent, listening, over>>

\* Dropping an AgentRun cancels its token; the end of the process ends the
\* worker with it.
Drop ==
  /\ listening' = FALSE
  /\ cancelled' = TRUE
  /\ over' \in {over, TRUE}
  /\ UNCHANGED sent

Next == Cancel \/ Drop \/ Return \/ \E kind \in EventKind : Send(kind)

\* A cancelled run ends, in whatever way.
Spec == Init /\ [][Next]_vars /\ [](cancelled => <>over)

\* The sequence of events that the reducer of agent-core accepts begins with
\* Started.
StartedFirst == sent # <<>> => sent[1] = "Started"

==============================================================================
