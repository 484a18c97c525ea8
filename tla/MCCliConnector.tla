---------------------------- MODULE MCCliConnector ----------------------------
(***************************************************************************)
(* Instances of CliConnector: what a child prints.                         *)
(***************************************************************************)
EXTENDS CliConnector

Line(kind, id, text) == [kind |-> kind, id |-> id, text |-> text]

TextOutput == {Line("text", "item-1", text) : text \in {<<>>, <<1>>, <<2>>}}

CodexItems == {"item-1"}

\* A message that grows, one that takes back what it said, the end of the turn,
\* and a line that is no UTF-8; an error is rejected as the second is.
CodexOutput ==
  {Line("item", "item-1", text) : text \in {<<1>>, <<1, 2>>, <<2>>}}
    \cup {Line(kind, "item-1", <<>>) : kind \in {"turn.completed", "unreadable"}}

==============================================================================
