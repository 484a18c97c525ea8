----------------------- MODULE MCConversationController -----------------------
(***************************************************************************)
(* Values for the constants of ConversationController, and the two loops   *)
(* of trim_history as they are written, to compare Trim with.              *)
(***************************************************************************)
EXTENDS ConversationController

CONSTANTS
  MaxLength,     \* bound: messages behind the history, where trimming is compared
  MessageSizes,  \* bound: sizes of a message in it
  Limits         \* bound: max_messages arguments

ASSUME HistoriesAssumption ==
  /\ MaxLength \in Nat
  /\ MessageSizes \subseteq Nat
  /\ Limits \subseteq Nat

MCErrors ==
  {[code |-> "Timeout", size |-> 1], [code |-> "Unauthorized", size |-> 2]}

\* One unit of RetryPrompt.cfg is 16 KiB; the limits are those of the source.
RetryErrors == {[code |-> "Timeout", size |-> 1]}

-----------------------------------------------------------------------------
\* The sum of the lengths of the texts.
SumOfSizes(s) ==
  LET sum[n \in 0 .. Len(s)] == IF n = 0 THEN 0 ELSE sum[n - 1] + s[n].size
  IN  sum[Len(s)]

\* The first loop, after k removals.  Once nothing is left its condition is false.
DropWhileTooLarge(s, limit) ==
  LET after[k \in 0 .. Len(s)] ==
        IF Len(s) - k > limit \/ SumOfSizes(DropFirst(s, k)) > MaxHistoryBytes
          THEN after[k + 1]
          ELSE DropFirst(s, k)
  IN  after[0]

\* The second loop, after k removals.
DropLeadingAnswers(s) ==
  LET after[k \in 0 .. Len(s)] ==
        IF k < Len(s) /\ s[k + 1].role = "Assistant"
          THEN after[k + 1]
          ELSE DropFirst(s, k)
  IN  after[0]

TrimLoops(s, limit) == DropLeadingAnswers(DropWhileTooLarge(s, limit))

\* Any sequence of questions and answers, although the controller alternates
\* them: the loops do not depend on it.
Histories ==
  UNION {[1..n -> {[Prompt(size) EXCEPT !.role = role] : role \in Role, size \in MessageSizes}]
           : n \in 0..MaxLength}

\* The longest faultless suffix, which Trim chooses at once, is what the two
\* loops of trim_history arrive at one message at a time, whatever the controller
\* has in its history and whatever follows it.
TrimAgreesWithLoops ==
  \A h \in Histories, limit \in Limits :
    Trim(messages \o h, limit) = TrimLoops(messages \o h, limit)

==============================================================================
