------------------------ MODULE MCConversationRuntime ------------------------
(* Values for the constants of ConversationRuntime.                         *)
EXTENDS ConversationRuntime

MCErrors ==
  {[code |-> "Timeout", size |-> 1]}

\* No profile at all, profiles whose connectors cannot be built, and all of them.
MCCatalogs == SUBSET Connectors

==============================================================================
