------------------------- MODULE ConversationRuntime -------------------------
(***************************************************************************)
(* The threads around the conversation controller                          *)
(* (apps/desktop/src/main.rs): the UI event loop, which sends, stops,      *)
(* retries, selects and reloads; one connector worker per request, which   *)
(* sends events on a channel and polls a cancellation token; and one       *)
(* consumer thread per request, which applies the events under the         *)
(* controller's lock and posts views back to the event loop.  Each action  *)
(* is what one thread does between two points where another can interfere. *)
(***************************************************************************)
EXTENDS ConversationController

CONSTANTS
  Catalogs,    \* the sets of connectors that building the profiles can yield
  DeltaBound,  \* bound: deltas a worker sends for one request
  QueueBound   \* bound: posted views the event loop may lag behind

ASSUME RuntimeAssumption ==
  /\ Catalogs \subseteq SUBSET Connectors
  /\ DeltaBound \in Nat
  /\ QueueBound \in Nat \ {0}

VARIABLES
  catalog,    \* connectors registered for the profiles
  selected,   \* the selected profile, or None
  slot,       \* active_cancel: the id whose token it holds, or None
  ui,         \* the view the window shows
  uiQueue,    \* views posted to the event loop and not yet applied
  uiPc,       \* where the UI thread is inside a callback
  exited,     \* the event loop has returned and cancel_active has run
  worker,     \* per request: the connector's worker thread
  channel,    \* per request: events sent and not yet received
  sent,       \* per request: deltas sent
  cancelled,  \* per request: the cancellation token
  consumer,   \* per request: where its agent-run thread is
  final,      \* per request: that thread returns after the next post
  outcome     \* history variable: what became of each request

uiVars == <<catalog, selected, ui, uiPc, exited>>
runVars == <<worker, channel, sent, cancelled, consumer, final>>
vars == <<controllerVars, uiVars, slot, uiQueue, runVars, outcome>>

-----------------------------------------------------------------------------
(* What view() returns, without the status line; the messages are          *)
(* abstracted to the next request id, which tells up to which request they *)
(* reach.                                                                  *)

View ==
  [busy     |-> active # None,
   stopping |-> active # None /\ active.stop,
   canRetry |-> canRetry,
   upTo     |-> nextRequestId]

ViewType ==
  [busy : BOOLEAN, stopping : BOOLEAN, canRetry : BOOLEAN, upTo : RequestId]

At(place, id) == [at |-> place, id |-> id]
UiIdle == At("idle", None)
UiReady == ~exited /\ uiPc = UiIdle

\* The profile build_runtime_profiles selects: one of the profiles, whether its
\* connector could be built or not; none only when there are no profiles.
Selection(available) == Connectors \cup (IF available = {} THEN {None} ELSE {})

RuntimeInit ==
  /\ Init
  /\ catalog \in Catalogs
  /\ selected \in Selection(catalog)
  /\ slot = None
  /\ ui = View
  /\ uiQueue = <<>>
  /\ uiPc = UiIdle
  /\ exited = FALSE
  /\ worker = [r \in RequestId |-> "none"]
  /\ channel = [r \in RequestId |-> <<>>]
  /\ sent = [r \in RequestId |-> 0]
  /\ cancelled = [r \in RequestId |-> FALSE]
  /\ consumer = [r \in RequestId |-> "none"]
  /\ final = [r \in RequestId |-> FALSE]
  /\ outcome = [r \in RequestId |-> "unused"]

-----------------------------------------------------------------------------
(* The UI thread.  A callback is guarded by what the window shows (ui),    *)
(* which is how app-window.slint enables its buttons.                      *)

\* Bound: ids are not reused while the state of an earlier run is kept.
RequestBound == worker[nextRequestId] = "none" /\ outcome[nextRequestId] = "unused"

\* begin or retry succeeded: the view is shown and the request is started next.
RequestBegun ==
  /\ RequestBound
  /\ ui' = View'
  /\ uiPc' = At("starting", nextRequestId)
  /\ outcome' = [outcome EXCEPT ![nextRequestId] = "open"]
  /\ UNCHANGED <<catalog, selected, exited, slot, uiQueue, runVars>>

Send(promptBytes) ==
  /\ UiReady /\ ~ui.busy
  /\ selected \in catalog
  /\ Begin(selected, promptBytes)
  /\ RequestBegun

RetryClicked ==
  /\ UiReady /\ ui.canRetry
  /\ Retry
  /\ RequestBegun

\* What validate_request asks of the request that begin or retry returned.
HasQuestion == \E i \in DOMAIN Request(messages) : messages[i].role = "User"

CanStart == retrySeed \in catalog /\ HasQuestion

\* The connector starts its worker, the token goes into active_cancel and the
\* consumer thread is spawned.
StartRequest ==
  /\ uiPc.at = "starting"
  /\ CanStart
  /\ slot' = uiPc.id
  /\ worker' = [worker EXCEPT ![uiPc.id] = "new"]
  /\ consumer' = [consumer EXCEPT ![uiPc.id] = "recv"]
  /\ uiPc' = UiIdle
  /\ UNCHANGED <<controllerVars, catalog, selected, ui, exited, uiQueue,
                 channel, sent, cancelled, final, outcome>>

\* The consumer thread cannot be spawned: its closure is dropped, and with it
\* the run, which cancels the worker; the slot is cleared again.
ConsumerSpawnFails ==
  /\ uiPc.at = "starting"
  /\ CanStart
  /\ slot' = None
  /\ worker' = [worker EXCEPT ![uiPc.id] = "new"]
  /\ cancelled' = [cancelled EXCEPT ![uiPc.id] = TRUE]
  /\ consumer' = [consumer EXCEPT ![uiPc.id] = "done"]
  /\ uiPc' = [uiPc EXCEPT !.at = "failing"]
  /\ UNCHANGED <<controllerVars, catalog, selected, ui, exited, uiQueue,
                 channel, sent, final, outcome>>

\* The connector is not in the catalogue, rejects the request, or cannot start
\* its worker thread.
ConnectorStartFails ==
  /\ uiPc.at = "starting"
  /\ uiPc' = [uiPc EXCEPT !.at = "failing"]
  /\ UNCHANGED <<controllerVars, catalog, selected, ui, exited, slot, uiQueue,
                 runVars, outcome>>

\* The active run has ended: remember how.
RecordOutcome == outcome' = [outcome EXCEPT ![active.transcript.id] = lastPhase']

FailConversationStart ==
  /\ uiPc.at = "failing"
  /\ \E err \in Errors : FailToStart(err)
  /\ RecordOutcome
  /\ ui' = View'
  /\ uiPc' = UiIdle
  /\ UNCHANGED <<catalog, selected, exited, slot, uiQueue, runVars>>

\* The stop callback, in its three critical sections.
StopClicked ==
  /\ UiReady /\ ui.busy
  /\ \/ RequestStop /\ uiPc' = At("stopping", active.transcript.id)
     \/ /\ active # None => active.stop
        /\ uiPc' = At("refresh", None)
        /\ UNCHANGED controllerVars
  /\ UNCHANGED <<catalog, selected, ui, exited, slot, uiQueue, runVars, outcome>>

\* The callback only marks the request as stopping.
CancelTokenFaulty ==
  /\ uiPc.at = "stopping"
  /\ uiPc' = At("refresh", None)
  /\ UNCHANGED <<controllerVars, catalog, selected, ui, exited, slot, uiQueue, runVars, outcome>>

CancelToken ==
  /\ uiPc.at = "stopping"
  /\ cancelled' = IF slot = uiPc.id THEN [cancelled EXCEPT ![slot] = TRUE] ELSE cancelled
  /\ uiPc' = At("refresh", None)
  /\ UNCHANGED <<controllerVars, catalog, selected, ui, exited, slot, uiQueue,
                 worker, channel, sent, consumer, final, outcome>>

RefreshView ==
  /\ uiPc.at = "refresh"
  /\ ui' = View
  /\ uiPc' = UiIdle
  /\ UNCHANGED <<controllerVars, catalog, selected, exited, slot, uiQueue, runVars, outcome>>

\* A menu opened before the request stays open and enabled while the window
\* shows a busy conversation: only the controller is asked whether it is.
SelectProfile(profile) ==
  /\ UiReady
  /\ ClearRetry
  /\ selected' = profile
  /\ ui' = View'
  /\ UNCHANGED <<catalog, uiPc, exited, slot, uiQueue, runVars, outcome>>

\* The retry survives the reload.
ReloadProfilesFaulty(available, profile) ==
  /\ UiReady
  /\ active = None
  /\ catalog' = available
  /\ selected' = profile
  /\ ui' = View
  /\ UNCHANGED <<controllerVars, uiPc, exited, slot, uiQueue, runVars, outcome>>

\* A profile was saved or deleted: connectors are rebuilt and one is selected.
\* The button that confirms a deletion is enabled whatever the window shows.
ReloadProfiles(available, profile) ==
  /\ UiReady
  /\ ClearRetry
  /\ catalog' = available
  /\ selected' = profile
  /\ ui' = View'
  /\ UNCHANGED <<uiPc, exited, slot, uiQueue, runVars, outcome>>

\* The newest of the posted views is applied first.
ApplyPostedViewFaulty ==
  /\ UiReady
  /\ uiQueue # <<>>
  /\ ui' = uiQueue[Len(uiQueue)]
  /\ uiQueue' = SubSeq(uiQueue, 1, Len(uiQueue) - 1)
  /\ UNCHANGED <<controllerVars, catalog, selected, uiPc, exited, slot, runVars, outcome>>

\* The event loop runs a posted apply_conversation_view.
ApplyPostedView ==
  /\ UiReady
  /\ uiQueue # <<>>
  /\ ui' = Head(uiQueue)
  /\ uiQueue' = Tail(uiQueue)
  /\ UNCHANGED <<controllerVars, catalog, selected, uiPc, exited, slot, runVars, outcome>>

\* main returns without cancelling the active request.
ExitFaulty ==
  /\ UiReady
  /\ exited' = TRUE
  /\ uiQueue' = <<>>
  /\ UNCHANGED <<controllerVars, catalog, selected, ui, uiPc, slot, runVars, outcome>>

\* The event loop returns, with it the views still posted are lost, and main
\* calls cancel_active.
Exit ==
  /\ UiReady
  /\ exited' = TRUE
  /\ uiQueue' = <<>>
  /\ slot' = None
  /\ cancelled' = IF slot # None THEN [cancelled EXCEPT ![slot] = TRUE] ELSE cancelled
  /\ UNCHANGED <<controllerVars, catalog, selected, ui, uiPc, worker,
                 channel, sent, consumer, final, outcome>>

UiCallback ==
  \/ \E n \in 1 .. MaxPromptBytes : Send(n)
  \/ RetryClicked \/ StopClicked \/ Exit
  \/ \E profile \in Connectors : SelectProfile(profile)
  \/ \E available \in Catalogs :
       \E profile \in Selection(available) : ReloadProfiles(available, profile)

UiStep ==
  \/ StartRequest \/ ConsumerSpawnFails \/ ConnectorStartFails
  \/ FailConversationStart \/ CancelToken \/ RefreshView

-----------------------------------------------------------------------------
(* The connector's worker for request r, as far as both connectors share   *)
(* it.  A send to a dropped receiver fails and ends the worker.            *)

WorkerUnchanged ==
  UNCHANGED <<controllerVars, uiVars, slot, uiQueue, cancelled, consumer, final,
              outcome>>

SendEvent(r, e) == channel' = [channel EXCEPT ![r] = Append(@, e)]

ReceiverAlive(r) == consumer[r] # "done"

WorkerStarts(r) ==
  /\ worker[r] = "new" /\ ReceiverAlive(r)
  /\ SendEvent(r, Event("Started", r))
  /\ worker' = [worker EXCEPT ![r] = "streaming"]
  /\ UNCHANGED sent
  /\ WorkerUnchanged

\* The CLI process cannot be spawned: Failed is sent before any Started.
WorkerFailsBeforeStart(r) ==
  /\ worker[r] = "new" /\ ReceiverAlive(r)
  /\ \E err \in Errors : SendEvent(r, FailedEvent(r, err))
  /\ worker' = [worker EXCEPT ![r] = "done"]
  /\ UNCHANGED sent
  /\ WorkerUnchanged

WorkerSendsDelta(r) ==
  /\ worker[r] = "streaming" /\ ReceiverAlive(r)
  /\ sent[r] < DeltaBound
  /\ \E n \in DeltaSizes : SendEvent(r, TextDelta(r, n))
  /\ sent' = [sent EXCEPT ![r] = @ + 1]
  /\ UNCHANGED worker
  /\ WorkerUnchanged

\* The id comes from a field of the connector, which the next request overwrites.
WorkerEndsFaulty(r) ==
  /\ worker[r] = "streaming" /\ ReceiverAlive(r)
  /\ SendEvent(r, Event("Completed", IF slot = None THEN r ELSE slot))
  /\ worker' = [worker EXCEPT ![r] = "done"]
  /\ UNCHANGED sent
  /\ WorkerUnchanged

WorkerEnds(r) ==
  /\ worker[r] = "streaming" /\ ReceiverAlive(r)
  /\ \/ SendEvent(r, Event("Completed", r))
     \/ \E err \in Errors : SendEvent(r, FailedEvent(r, err))
  /\ worker' = [worker EXCEPT ![r] = "done"]
  /\ UNCHANGED sent
  /\ WorkerUnchanged

WorkerSeesCancel(r) ==
  /\ worker[r] = "streaming" /\ ReceiverAlive(r)
  /\ cancelled[r]
  /\ SendEvent(r, Event("Cancelled", r))
  /\ worker' = [worker EXCEPT ![r] = "done"]
  /\ UNCHANGED sent
  /\ WorkerUnchanged

\* The worker returns, or panics, without a terminal event: its next send or
\* its cancellation poll finds nobody listening, or nothing was sent at all.
WorkerDies(r) ==
  /\ worker[r] \in {"new", "streaming"}
  /\ worker' = [worker EXCEPT ![r] = "done"]
  /\ UNCHANGED <<channel, sent>>
  /\ WorkerUnchanged

WorkerStep(r) ==
  \/ WorkerStarts(r) \/ WorkerFailsBeforeStart(r) \/ WorkerSendsDelta(r)
  \/ WorkerEnds(r) \/ WorkerSeesCancel(r) \/ WorkerDies(r)

-----------------------------------------------------------------------------
(* The consumer thread agent-run-r.                                        *)

Receives(r) == consumer[r] = "recv" /\ channel[r] # <<>>

TakeEvent(r) == channel' = [channel EXCEPT ![r] = Tail(@)]

MoveTo(r, place) == consumer' = [consumer EXCEPT ![r] = place]

\* Started is shown at once; a delta only when the throttle allows.
ConsumeProgress(r) ==
  /\ Receives(r)
  /\ ApplyProgress(Head(channel[r]))
  /\ TakeEvent(r)
  /\ \/ MoveTo(r, "view")
     \/ Head(channel[r]).kind = "TextDelta" /\ MoveTo(r, "recv")
  /\ UNCHANGED <<uiVars, slot, uiQueue, worker, sent, cancelled, final, outcome>>

\* The thread goes on receiving after a terminal event.
ConsumeTerminalFaulty(r) ==
  /\ Receives(r)
  /\ ApplyTerminal(Head(channel[r]))
  /\ RecordOutcome
  /\ TakeEvent(r)
  /\ MoveTo(r, "recv")
  /\ UNCHANGED <<uiVars, slot, uiQueue, worker, sent, cancelled, final>>

ConsumeTerminal(r) ==
  /\ Receives(r)
  /\ ApplyTerminal(Head(channel[r]))
  /\ RecordOutcome
  /\ TakeEvent(r)
  /\ MoveTo(r, "clear")
  /\ UNCHANGED <<uiVars, slot, uiQueue, worker, sent, cancelled, final>>

ConsumeOversize(r) ==
  /\ Receives(r)
  /\ ApplyOversizeDelta(Head(channel[r]))
  /\ RecordOutcome
  /\ TakeEvent(r)
  /\ cancelled' = [cancelled EXCEPT ![r] = TRUE]
  /\ MoveTo(r, "clear")
  /\ UNCHANGED <<uiVars, slot, uiQueue, worker, sent, final>>

\* The controller rejects the event: the run is cancelled and closed.
ConsumeRejected(r) ==
  /\ Receives(r)
  /\ ~EventAccepted(Head(channel[r]))
  /\ TakeEvent(r)
  /\ cancelled' = [cancelled EXCEPT ![r] = TRUE]
  /\ MoveTo(r, "close")
  /\ UNCHANGED <<controllerVars, uiVars, slot, uiQueue, worker, sent, final, outcome>>

\* A closed channel is treated as a timeout.
DisconnectedFaulty(r) ==
  /\ consumer[r] = "recv" /\ channel[r] = <<>>
  /\ worker[r] = "done"
  /\ UNCHANGED vars

Disconnected(r) ==
  /\ consumer[r] = "recv" /\ channel[r] = <<>>
  /\ worker[r] = "done"
  /\ MoveTo(r, "close")
  /\ UNCHANGED <<controllerVars, uiVars, slot, uiQueue, worker, channel, sent,
                 cancelled, final, outcome>>

FinishClosed(r) ==
  /\ consumer[r] = "close"
  /\ \/ ChannelClosed(r) /\ RecordOutcome
     \/ /\ active # None => active.transcript.id # r
        /\ UNCHANGED <<controllerVars, outcome>>
  /\ MoveTo(r, "clear")
  /\ UNCHANGED <<uiVars, slot, uiQueue, worker, channel, sent, cancelled, final>>

\* The slot is cleared without comparing ids.
ClearActiveCancellationFaulty(r) ==
  /\ consumer[r] = "clear"
  /\ slot' = None
  /\ final' = [final EXCEPT ![r] = TRUE]
  /\ MoveTo(r, "view")
  /\ UNCHANGED <<controllerVars, uiVars, uiQueue, worker, channel, sent, cancelled, outcome>>

ClearActiveCancellation(r) ==
  /\ consumer[r] = "clear"
  /\ slot' = IF slot = r THEN None ELSE slot
  /\ final' = [final EXCEPT ![r] = TRUE]
  /\ MoveTo(r, "view")
  /\ UNCHANGED <<controllerVars, uiVars, uiQueue, worker, channel, sent, cancelled, outcome>>

\* upgrade_in_event_loop: lost once the event loop has returned.
Post ==
  \/ exited /\ UNCHANGED uiQueue
  \/ ~exited /\ Len(uiQueue) < QueueBound /\ uiQueue' = Append(uiQueue, View)

\* The run is dropped, and so cancelled, after every post.
PostViewFaulty(r) ==
  /\ consumer[r] = "view"
  /\ Post
  /\ MoveTo(r, IF final[r] THEN "done" ELSE "recv")
  /\ cancelled' = [cancelled EXCEPT ![r] = TRUE]
  /\ UNCHANGED <<controllerVars, uiVars, slot, worker, channel, sent, final, outcome>>

\* dispatch_conversation_view(view()): the guard of the controller's lock is a
\* temporary of this statement, so the view is posted before anyone can change
\* the controller.  After the last post the thread returns, and dropping the run
\* cancels its token and closes the channel.
PostView(r) ==
  /\ consumer[r] = "view"
  /\ Post
  /\ MoveTo(r, IF final[r] THEN "done" ELSE "recv")
  /\ cancelled' = [cancelled EXCEPT ![r] = @ \/ final[r]]
  /\ UNCHANGED <<controllerVars, uiVars, slot, worker, channel, sent, final, outcome>>

ConsumerStep(r) ==
  \/ ConsumeProgress(r) \/ ConsumeTerminal(r) \/ ConsumeOversize(r) \/ ConsumeRejected(r)
  \/ Disconnected(r) \/ FinishClosed(r) \/ ClearActiveCancellation(r)
  \/ PostView(r)

-----------------------------------------------------------------------------
RuntimeNext ==
  \/ UiCallback \/ UiStep \/ ApplyPostedView
  \/ \E r \in RequestId : WorkerStep(r) \/ ConsumerStep(r)

\* Until the process exits, a callback of the event loop runs to its end, a
\* posted view gets its turn however often the user clicks (the loop's queue is
\* first in, first out), the consumers run, a worker gets to its first event,
\* and a worker that is cancelled notices it.  Nothing makes the user click, a
\* provider answer, or a worker that waits for its provider notice by itself
\* that nobody listens any more.
WorkerReacts(r) ==
  \/ WorkerStarts(r) \/ WorkerFailsBeforeStart(r) \/ WorkerSeesCancel(r)
  \/ ~ReceiverAlive(r) /\ (worker[r] = "new" \/ cancelled[r]) /\ WorkerDies(r)

Fairness ==
  /\ WF_vars(UiStep) /\ SF_vars(ApplyPostedView)
  /\ \A r \in RequestId :
       WF_vars(~exited /\ ConsumerStep(r)) /\ WF_vars(~exited /\ WorkerReacts(r))

RuntimeSafety == RuntimeInit /\ [][RuntimeNext]_vars

RuntimeSpec == RuntimeSafety /\ Fairness

-----------------------------------------------------------------------------
(* Properties.                                                             *)

\* The ranges of the runtime's variables.
RuntimeTypes ==
  /\ TypeOK
  /\ catalog \subseteq Connectors
  /\ selected \in Connectors \cup {None}
  /\ slot \in RequestId \cup {None}
  /\ ui \in ViewType
  /\ uiQueue \in Seq(ViewType)
  /\ uiPc \in [at : {"idle", "starting", "failing", "stopping", "refresh"},
               id : RequestId \cup {None}]
  /\ exited \in BOOLEAN
  /\ worker \in [RequestId -> {"none", "new", "streaming", "done"}]
  /\ channel \in [RequestId -> Seq(AgentEvent(RequestId))]
  /\ sent \in [RequestId -> Nat]
  /\ cancelled \in [RequestId -> BOOLEAN]
  /\ consumer \in [RequestId -> {"none", "recv", "close", "clear", "view", "done"}]
  /\ final \in [RequestId -> BOOLEAN]
  /\ outcome \in [RequestId -> {"unused", "open", "Completed", "Cancelled", "Failed"}]

\* Types of the runtime's own state; a channel carries events of its own run
\* only, although the worker of a run that was closed can still be sending when
\* the next one has started.
RuntimeTypeOK ==
  /\ RuntimeTypes
  /\ \A r \in RequestId : channel[r] \in Seq(AgentEvent({r}))

\* Stop and exit find the token they need: whenever the event loop can run a
\* callback, a request that is active has its token in active_cancel, although
\* the consumer of the previous request may clear the slot at any time
\* (clear_active_cancellation compares ids).
ActiveHasToken == UiReady /\ active # None => slot = active.transcript.id

\* A stop click reaches the worker: once the callback is over, the token of a
\* request that is still active and shows as stopping is cancelled.
StopReachesToken ==
  uiPc = UiIdle /\ active # None /\ active.stop => cancelled[active.transcript.id]

\* A consumer that may still apply events applies them to its own request: no
\* other request can have become active behind its back, so RequestIdMismatch
\* and NoActiveRequest never occur.
ConsumerOwnsActive ==
  \A r \in RequestId :
    consumer[r] \in {"recv", "close"} \/ (consumer[r] = "view" /\ ~final[r])
      => active # None /\ active.transcript.id = r

\* A retry goes to a connector that still exists: reloading profiles or
\* selecting another one forgets the retry.
RetryGoesToCatalog == canRetry => retrySeed \in catalog

\* Leaving the event loop cancels the request that is active at that moment.
ExitCancelsActive == exited /\ active # None => cancelled[active.transcript.id]

\* Whenever a request is active, the user and the end of the program can reach
\* the worker that answers it.
TokensReachWorkers == ActiveHasToken /\ StopReachesToken /\ ExitCancelsActive

\* However a worker ends, and even if it says nothing about it, its request
\* gets an outcome and the conversation is free again (the consumer finds the
\* channel closed).
EndedWorkerClosesRequest ==
  \A r \in RequestId : worker[r] = "done" ~> (outcome[r] # "open" \/ exited)

\* The runtime implements the abstract life cycle of requests.
Lifecycle ==
  INSTANCE RequestLifecycle
    WITH Ids      <- RequestId,
         stopping <- IF active # None /\ active.stop THEN active.transcript.id ELSE None,
         halted   <- exited

ImplementsLifecycle == Lifecycle!Spec

\* Its safety part, for the instances whose fairness is not checked: one open
\* request at a time, one outcome for each, and none is cancelled unasked.
ImplementsLifecycleSafety == Lifecycle!Safety

\* Views are posted, and those that the event loop sets itself overtake them:
\* the window can show an older one for a while.  Once every request has been
\* closed by its consumer and every posted view applied, it has caught up: it
\* shows no request in progress, all the messages, and a retry if there is one.
\* A request that could not be started is closed without a consumer, and what
\* the consumer of the request before it posts meanwhile can stay on screen.
WindowCatchesUp ==
  /\ UiReady /\ uiQueue = <<>>
  /\ \A r \in RequestId : outcome[r] # "unused" => consumer[r] = "done" /\ final[r]
  => /\ ui = [View EXCEPT !.canRetry = ui.canRetry]
     /\ canRetry => ui.canRetry

\* Selecting another profile removes the retry of the old one: once every posted
\* view has been applied and every consumer has returned, a retry button that
\* is still shown is one that retry() answers.
ShownRetryIsOpen ==
  /\ UiReady /\ uiQueue = <<>>
  /\ \A r \in RequestId : consumer[r] \in {"none", "done"}
  => (ui.canRetry => canRetry)

==============================================================================
