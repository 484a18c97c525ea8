--------------------------- MODULE RequestLifecycle ---------------------------
(***************************************************************************)
(* What the conversation runtime promises about requests, without threads, *)
(* channels, tokens or a history: requests are opened one at a time, each  *)
(* gets exactly one outcome, "Cancelled" is an outcome only of a request   *)
(* somebody asked to stop, and a request asked to stop gets an outcome.    *)
(***************************************************************************)
CONSTANTS
  Ids,    \* the request ids
  None

VARIABLES
  outcome,   \* what became of each request
  stopping,  \* the open request the user asked to stop, or None
  halted     \* the application has left its event loop

lifecycleVars == <<outcome, stopping, halted>>

Terminal == {"Completed", "Cancelled", "Failed"}

Init ==
  /\ outcome = [r \in Ids |-> "unused"]
  /\ stopping = None
  /\ halted = FALSE

\* A new request, while no other is open.
Open(r) ==
  /\ ~halted
  /\ \A s \in Ids : outcome[s] # "open"
  /\ outcome[r] = "unused"
  /\ outcome' = [outcome EXCEPT ![r] = "open"]
  /\ UNCHANGED <<stopping, halted>>

AskStop(r) ==
  /\ ~halted
  /\ outcome[r] = "open"
  /\ stopping = None
  /\ stopping' = r
  /\ UNCHANGED <<outcome, halted>>

Close(r, end) ==
  /\ outcome[r] = "open"
  /\ end = "Cancelled" => stopping = r \/ halted
  /\ outcome' = [outcome EXCEPT ![r] = end]
  /\ stopping' = None
  /\ UNCHANGED halted

Halt ==
  /\ ~halted
  /\ halted' = TRUE
  /\ UNCHANGED <<outcome, stopping>>

CloseStopped(r) == ~halted /\ stopping = r /\ \E end \in Terminal : Close(r, end)

Next ==
  \/ \E r \in Ids : Open(r) \/ AskStop(r) \/ \E end \in Terminal : Close(r, end)
  \/ Halt

Safety == Init /\ [][Next]_lifecycleVars

Spec ==
  /\ Safety
  /\ \A r \in Ids : WF_lifecycleVars(CloseStopped(r))

==============================================================================
