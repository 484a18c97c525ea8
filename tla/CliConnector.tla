----------------------------- MODULE CliConnector -----------------------------
(***************************************************************************)
(* One run of the connector of crates/agent-cli: the worker thread of      *)
(* run_cli_process, its two reader threads, the child process and the      *)
(* three pipes between them.  A pipe holds a bounded number of items, a    *)
(* child does what it likes and may do nothing at all, and the run may be  *)
(* stopped or dropped, or the program may end, at any time.                *)
(***************************************************************************)
EXTENDS Naturals, SequencesExt, RunTranscript

CONSTANTS
  Format,      \* "TextLines" or "CodexJsonLines"
  Output,      \* the lines a child may print
  Items,       \* ids of Codex messages
  PromptSize,  \* the prompt, in the unit of the pipes
  PipeSize,    \* what a pipe holds
  ErrorLimit,  \* STDERR_LIMIT_BYTES
  PrintBound,  \* bound: lines a child prints
  Complaints,  \* bound: writes of a child to stderr
  Helpers      \* whether a child may start a process that inherits its pipes

\* A line has the kinds of its format, and a Codex message has an id.
LinesAssumption ==
  /\ IsFiniteSet(Items)
  /\ \A line \in Output :
       /\ line.text \in Seq(Nat)
       /\ Format = "TextLines" => line.kind \in {"text", "unreadable"}
       /\ Format = "CodexJsonLines" => line.kind # "text"
       /\ line.kind = "item" => line.id \in Items

ASSUME SizesAssumption ==
  /\ LinesAssumption
  /\ Format \in {"TextLines", "CodexJsonLines"}
  /\ {PromptSize, PipeSize, ErrorLimit} \subseteq Nat \ {0}
  /\ {PrintBound, Complaints} \subseteq Nat
  /\ Helpers \in BOOLEAN

VARIABLES
  worker,     \* where run_cli_process is
  ending,     \* the terminal event it has decided on, while it tears down
  sent,       \* the events it has sent
  cancelled,  \* the cancellation token
  listening,  \* the receiver exists
  child,      \* the process
  helper,     \* a process of the child still holds the output pipes
  unwritten,  \* what is left to write of the prompt
  stdin, stdout, stderr,  \* what is in the pipes
  outReader, errReader,   \* the reader threads
  collected,  \* how much of stderr has been read
  lines,      \* the channel from the stdout reader to the worker
  snapshots,  \* per Codex message: message_snapshots
  turnCompleted,
  printed     \* history variable: the lines the child has printed

workerVars == <<worker, ending, sent, unwritten, snapshots, turnCompleted>>
readerVars == <<outReader, errReader, collected, lines>>
pipeVars   == <<stdin, stdout, stderr>>
childVars  == <<child, helper, printed>>
userVars   == <<cancelled, listening>>

vars == <<workerVars, readerVars, pipeVars, childVars, userVars>>

\* An event; cause tells the Failed events apart.
Message(kind, text, cause) == [kind |-> kind, text |-> text, cause |-> cause]
Started       == Message("Started", <<>>, "none")
Delta(text)   == Message("TextDelta", text, "none")
Failed(cause) == Message("Failed", <<>>, cause)
Completed     == Message("Completed", <<>>, "none")
Cancelled     == Message("Cancelled", <<>>, "none")
Nothing       == Message("None", <<>>, "none")

Init ==
  /\ worker = "spawn"
  /\ ending = Nothing
  /\ sent = <<>>
  /\ cancelled = FALSE
  /\ listening = TRUE
  /\ child = "none"
  /\ helper = FALSE
  /\ unwritten = PromptSize
  /\ stdin = 0 /\ stdout = <<>> /\ stderr = 0
  /\ outReader = "off" /\ errReader = "off"
  /\ collected = 0
  /\ lines = <<>>
  /\ snapshots = [id \in Items |-> <<>>]
  /\ turnCompleted = FALSE
  /\ printed = <<>>

\* send() on the channel: without a receiver it has no effect.
Send(event) == sent' = IF listening THEN Append(sent, event) ELSE sent

GoTo(place) == worker' = place

-----------------------------------------------------------------------------
(* The worker: spawn, announce, write the prompt.                          *)

SpawnFails ==
  /\ worker = "spawn"
  /\ Send(Failed("spawn"))
  /\ GoTo("done")
  /\ UNCHANGED <<ending, unwritten, snapshots, turnCompleted>>
  /\ UNCHANGED <<readerVars, pipeVars, childVars, userVars>>

SpawnChild ==
  /\ worker = "spawn"
  /\ child' = "running"
  /\ GoTo("announce")
  /\ UNCHANGED <<ending, sent, unwritten, snapshots, turnCompleted, helper, printed>>
  /\ UNCHANGED <<readerVars, pipeVars, userVars>>

\* terminate_child: kill and wait; nothing to kill in a child that has exited.
TerminateChild == child' = IF child = "running" THEN "killed" ELSE child

\* The child is left alone when nobody hears Started.
AnnounceFaulty ==
  /\ worker = "announce"
  /\ Send(Started)
  /\ GoTo(IF listening THEN "prompt" ELSE "done")
  /\ UNCHANGED <<ending, unwritten, snapshots, turnCompleted>>
  /\ UNCHANGED <<readerVars, pipeVars, childVars, userVars>>

Announce ==
  /\ worker = "announce"
  /\ Send(Started)
  /\ IF listening
       THEN GoTo("prompt") /\ UNCHANGED child
       ELSE GoTo("done") /\ TerminateChild
  /\ UNCHANGED <<ending, unwritten, snapshots, turnCompleted, helper, printed>>
  /\ UNCHANGED <<readerVars, pipeVars, userVars>>

\* write_all blocks while the pipe is full.
WritePrompt ==
  /\ worker = "prompt"
  /\ unwritten > 0 /\ child = "running" /\ stdin < PipeSize
  /\ unwritten' = unwritten - 1
  /\ stdin' = stdin + 1
  /\ UNCHANGED <<worker, ending, sent, snapshots, turnCompleted, stdout, stderr>>
  /\ UNCHANGED <<readerVars, childVars, userVars>>

\* write_all fails: the child is ended, if it still runs.
PromptFails ==
  /\ worker = "prompt" /\ unwritten > 0
  /\ TerminateChild
  /\ Send(Failed("prompt"))
  /\ GoTo("done")
  /\ UNCHANGED <<ending, unwritten, snapshots, turnCompleted, helper, printed>>
  /\ UNCHANGED <<readerVars, pipeVars, userVars>>

\* The child has gone before it got its prompt.
WriteFails == child # "running" /\ PromptFails

\* The handle of stdin is dropped and the readers are started.
PromptWritten ==
  /\ worker = "prompt"
  /\ unwritten = 0
  /\ outReader' = "reading" /\ errReader' = "reading"
  /\ GoTo("forward")
  /\ UNCHANGED <<ending, sent, unwritten, snapshots, turnCompleted, collected, lines>>
  /\ UNCHANGED <<pipeVars, childVars, userVars>>

-----------------------------------------------------------------------------
(* The output adapter.                                                     *)

\* A line that is no UTF-8, no JSON, no complete event, a failed turn, or a
\* message that takes back what it said.
Rejects(line) ==
  \/ line.kind \in {"unreadable", "error"}
  \/ line.kind = "item" /\ ~IsPrefix(snapshots[line.id], line.text)

\* What is new in an accepted line.
NewText(line) ==
  CASE line.kind = "text" -> line.text
    [] line.kind = "item" -> SubSeq(line.text, Len(snapshots[line.id]) + 1, Len(line.text))
    [] OTHER -> <<>>

HasDelta(line) == line.kind = "text" \/ NewText(line) # <<>>

\* The snapshot is not moved on.
RememberFaulty(line) ==
  /\ UNCHANGED snapshots
  /\ turnCompleted' = (turnCompleted \/ line.kind = "turn.completed")

Remember(line) ==
  /\ snapshots' = IF line.kind = "item" THEN [snapshots EXCEPT ![line.id] = line.text] ELSE snapshots
  /\ turnCompleted' = (turnCompleted \/ line.kind = "turn.completed")

-----------------------------------------------------------------------------
(* The worker: the loop over forward_output, the token and try_wait, and   *)
(* the last forward_output after the child has exited ("drain").           *)

Forwarding == worker \in {"forward", "drain"}

ForwardLine ==
  /\ Forwarding
  /\ lines # <<>> /\ ~Rejects(Head(lines))
  /\ HasDelta(Head(lines)) => listening
  /\ sent' = IF HasDelta(Head(lines)) THEN Append(sent, Delta(NewText(Head(lines)))) ELSE sent
  /\ Remember(Head(lines))
  /\ lines' = Tail(lines)
  /\ UNCHANGED <<worker, ending, unwritten, outReader, errReader, collected>>
  /\ UNCHANGED <<pipeVars, childVars, userVars>>

\* Nobody takes a delta any more.
ForwardToNobody ==
  /\ Forwarding
  /\ lines # <<>> /\ ~Rejects(Head(lines)) /\ HasDelta(Head(lines)) /\ ~listening
  /\ Remember(Head(lines))
  /\ lines' = Tail(lines)
  /\ GoTo(IF worker = "drain" THEN "done" ELSE "terminate")
  /\ UNCHANGED <<ending, sent, unwritten, outReader, errReader, collected>>
  /\ UNCHANGED <<pipeVars, childVars, userVars>>

OutputRejected ==
  /\ Forwarding
  /\ lines # <<>> /\ Rejects(Head(lines))
  /\ lines' = Tail(lines)
  /\ IF worker = "drain"
       THEN Send(Failed("output")) /\ GoTo("done") /\ UNCHANGED ending
       ELSE ending' = Failed("output") /\ GoTo("terminate") /\ UNCHANGED sent
  /\ UNCHANGED <<unwritten, snapshots, turnCompleted, outReader, errReader, collected>>
  /\ UNCHANGED <<pipeVars, childVars, userVars>>

WorkerMoves(from, to) ==
  /\ worker = from
  /\ GoTo(to)
  /\ UNCHANGED <<sent, unwritten, snapshots, turnCompleted>>
  /\ UNCHANGED <<readerVars, pipeVars, childVars, userVars>>

NothingToForward ==
  /\ lines = <<>>
  /\ WorkerMoves("forward", "token")
  /\ UNCHANGED ending

CheckToken ==
  /\ WorkerMoves("token", IF cancelled THEN "terminate" ELSE "poll")
  /\ ending' = IF cancelled THEN Cancelled ELSE ending

\* try_wait: the child runs on, has exited, or cannot be asked.
ChildRuns == child = "running" /\ WorkerMoves("poll", "forward") /\ UNCHANGED ending

PollFails == WorkerMoves("poll", "terminate") /\ ending' = Failed("poll")

\* The readers are not waited for.
ChildHasExitedFaulty == child # "running" /\ WorkerMoves("poll", "drain") /\ UNCHANGED ending

ChildHasExited == child # "running" /\ WorkerMoves("poll", "joinExited") /\ UNCHANGED ending

ReadersDone == outReader = "done" /\ errReader = "done"

JoinExited == ReadersDone /\ WorkerMoves("joinExited", "drain") /\ UNCHANGED ending

\* The readers are joined while the child still runs.
TerminateFaulty == WorkerMoves("terminate", "join") /\ UNCHANGED ending

Terminate ==
  /\ worker = "terminate"
  /\ TerminateChild
  /\ GoTo("join")
  /\ UNCHANGED <<ending, sent, unwritten, snapshots, turnCompleted, helper, printed>>
  /\ UNCHANGED <<readerVars, pipeVars, userVars>>

JoinTerminated ==
  /\ worker = "join"
  /\ ReadersDone
  /\ IF ending = Nothing THEN UNCHANGED sent ELSE Send(ending)
  /\ GoTo("done")
  /\ UNCHANGED <<ending, unwritten, snapshots, turnCompleted>>
  /\ UNCHANGED <<readerVars, pipeVars, childVars, userVars>>

\* send_process_terminal_event, after everything has been forwarded.
SendTerminalEvent ==
  /\ worker = "drain"
  /\ lines = <<>>
  /\ Send(CASE child = "failed" -> Failed("exit")
            [] Format = "CodexJsonLines" /\ ~turnCompleted -> Failed("incomplete")
            [] OTHER -> Completed)
  /\ GoTo("done")
  /\ UNCHANGED <<ending, unwritten, snapshots, turnCompleted>>
  /\ UNCHANGED <<readerVars, pipeVars, childVars, userVars>>

-----------------------------------------------------------------------------
(* The reader threads.                                                     *)

\* The write ends of the output pipes are closed.
NoWriters == child # "running" /\ ~helper

\* A line that cannot be read ends the reader, and the pipe with it.
ReadLine ==
  /\ outReader = "reading"
  /\ stdout # <<>>
  /\ stdout' = Tail(stdout)
  /\ lines' = Append(lines, Head(stdout))
  /\ outReader' = IF Head(stdout).kind = "unreadable" THEN "done" ELSE "reading"
  /\ UNCHANGED <<errReader, collected, stdin, stderr>>
  /\ UNCHANGED <<workerVars, childVars, userVars>>

StdoutEnds ==
  /\ outReader = "reading"
  /\ stdout = <<>> /\ NoWriters
  /\ outReader' = "done"
  /\ UNCHANGED <<errReader, collected, lines>>
  /\ UNCHANGED <<workerVars, pipeVars, childVars, userVars>>

\* read_to_end without a limit.
ReadStderrFaulty ==
  /\ errReader = "reading"
  /\ stderr > 0
  /\ stderr' = stderr - 1
  /\ collected' = collected + 1
  /\ UNCHANGED <<outReader, errReader, lines, stdin, stdout>>
  /\ UNCHANGED <<workerVars, childVars, userVars>>

ReadStderr ==
  /\ errReader = "reading"
  /\ stderr > 0 /\ collected < ErrorLimit
  /\ stderr' = stderr - 1
  /\ collected' = collected + 1
  /\ UNCHANGED <<outReader, errReader, lines, stdin, stdout>>
  /\ UNCHANGED <<workerVars, childVars, userVars>>

StderrEnds ==
  /\ errReader = "reading"
  /\ collected = ErrorLimit \/ (stderr = 0 /\ NoWriters)
  /\ errReader' = "done"
  /\ UNCHANGED <<outReader, collected, lines>>
  /\ UNCHANGED <<workerVars, pipeVars, childVars, userVars>>

-----------------------------------------------------------------------------
(* The child, and whoever holds the run.                                   *)

ChildReads ==
  /\ child = "running" /\ stdin > 0
  /\ stdin' = stdin - 1
  /\ UNCHANGED <<stdout, stderr>>
  /\ UNCHANGED <<workerVars, readerVars, childVars, userVars>>

\* It closes its stdin and runs on.
ChildClosesStdin == child = "running" /\ PromptFails

ChildPrints(line) ==
  /\ child = "running"
  /\ outReader # "done" /\ Len(stdout) < PipeSize /\ Len(printed) < PrintBound
  /\ stdout' = Append(stdout, line)
  /\ printed' = Append(printed, line)
  /\ UNCHANGED <<child, helper, stdin, stderr>>
  /\ UNCHANGED <<workerVars, readerVars, userVars>>

ChildComplains ==
  /\ child = "running"
  /\ errReader # "done" /\ stderr < PipeSize /\ collected + stderr < Complaints
  /\ stderr' = stderr + 1
  /\ UNCHANGED <<stdin, stdout>>
  /\ UNCHANGED <<workerVars, readerVars, childVars, userVars>>

ChildExits ==
  /\ child = "running"
  /\ child' \in {"succeeded", "failed"}
  /\ UNCHANGED <<helper, printed>>
  /\ UNCHANGED <<workerVars, readerVars, pipeVars, userVars>>

ChildStartsHelper ==
  /\ Helpers /\ child = "running" /\ ~helper
  /\ helper' = TRUE
  /\ UNCHANGED <<child, printed>>
  /\ UNCHANGED <<workerVars, readerVars, pipeVars, userVars>>

HelperExits ==
  /\ helper
  /\ helper' = FALSE
  /\ UNCHANGED <<child, printed>>
  /\ UNCHANGED <<workerVars, readerVars, pipeVars, userVars>>

Cancel ==
  /\ cancelled' = TRUE
  /\ UNCHANGED <<listening, workerVars, readerVars, pipeVars, childVars>>

DropRun ==
  /\ listening' = FALSE
  /\ cancelled' = TRUE
  /\ UNCHANGED <<workerVars, readerVars, pipeVars, childVars>>

\* main cancels the active run and returns; the threads end where they are.
ProgramEnds ==
  /\ worker' = IF worker = "done" THEN "done" ELSE "gone"
  /\ outReader' = "done" /\ errReader' = "done"
  /\ listening' = FALSE
  /\ cancelled' = TRUE
  /\ UNCHANGED <<ending, sent, unwritten, snapshots, turnCompleted, collected, lines>>
  /\ UNCHANGED <<pipeVars, childVars>>

-----------------------------------------------------------------------------
WorkerStep ==
  \/ SpawnFails \/ SpawnChild \/ Announce \/ WritePrompt \/ WriteFails \/ PromptWritten
  \/ ForwardLine \/ ForwardToNobody \/ OutputRejected \/ NothingToForward \/ CheckToken
  \/ ChildRuns \/ PollFails \/ ChildHasExited \/ JoinExited
  \/ Terminate \/ JoinTerminated \/ SendTerminalEvent

OutReaderStep == ReadLine \/ StdoutEnds
ErrReaderStep == ReadStderr \/ StderrEnds

ChildStep ==
  \/ ChildReads \/ ChildClosesStdin \/ ChildComplains \/ ChildExits
  \/ ChildStartsHelper \/ HelperExits
  \/ \E line \in Output : ChildPrints(line)

UserStep == Cancel \/ DropRun \/ ProgramEnds

Next == WorkerStep \/ OutReaderStep \/ ErrReaderStep \/ ChildStep \/ UserStep

\* Threads are scheduled; a child, a helper and a user owe nothing.
Fairness == WF_vars(WorkerStep) /\ WF_vars(OutReaderStep) /\ WF_vars(ErrReaderStep)

Safety == Init /\ [][Next]_vars

Spec == Safety /\ Fairness

-----------------------------------------------------------------------------
(* Properties.                                                             *)

Causes == {"none", "spawn", "prompt", "output", "poll", "exit", "incomplete"}

Texts == {line.text : line \in Output} \cup {<<>>}

\* The types, with stderr collected up to its limit only.
TypeOK ==
  /\ worker \in {"spawn", "announce", "prompt", "forward", "token", "poll", "joinExited",
                 "drain", "terminate", "join", "done", "gone"}
  /\ child \in {"none", "running", "succeeded", "failed", "killed"}
  /\ \A i \in DOMAIN sent : sent[i].kind \in EventKind /\ sent[i].cause \in Causes
  /\ ending.kind \in {"None", "Failed", "Cancelled"} /\ ending.cause \in Causes
  /\ {cancelled, listening, helper, turnCompleted} \subseteq BOOLEAN
  /\ unwritten \in 0..PromptSize /\ stdin \in 0..PipeSize /\ stderr \in 0..PipeSize
  /\ Len(stdout) <= PipeSize
  /\ outReader \in {"off", "reading", "done"} /\ errReader \in {"off", "reading", "done"}
  /\ collected \in 0..ErrorLimit
  /\ \A line \in ToSet(stdout) \cup ToSet(lines) \cup ToSet(printed) : line \in Output
  /\ snapshots \in [Items -> Texts]

Run == INSTANCE ConnectorRun
  WITH sent <- [i \in DOMAIN sent |-> sent[i].kind],
       over <- worker \in {"done", "gone"}

\* The run is a legal run: one sequence of events with one terminal event at its
\* end, Cancelled only when asked to stop, and an end for every cancelled run.
ImplementsRun == Run!Spec

\* Everything a completed answer had to say has been sent: each line the child
\* printed in its order, or of each Codex message the last text it had, whatever
\* was still in the pipes when the child exited; and it exited well, after its
\* turn was completed.
CompletedIsWhole ==
  sent # <<>> /\ Last(sent) = Completed =>
    LET said(from) == FlattenSeq([i \in DOMAIN sent |-> sent[i].text])
        latest(id) == LET mine == {i \in DOMAIN printed : printed[i].kind = "item" /\ printed[i].id = id}
                      IN  IF mine = {} THEN <<>> ELSE printed[Max(mine)].text
    IN /\ child = "succeeded"
       /\ IF Format = "TextLines"
            THEN said(sent) = FlattenSeq([i \in DOMAIN printed |-> printed[i].text])
            ELSE /\ \E i \in DOMAIN printed : printed[i].kind = "turn.completed"
                 /\ \A id \in Items : snapshots[id] = latest(id)
                 /\ Len(said(sent)) = FoldFunction(LAMBDA t, n : Len(t) + n, 0, snapshots)

\* A run that is over has left no process and no reader behind, however it ended,
\* unless the program itself is gone.
NothingLeftBehind ==
  worker = "done" => child # "running" /\ outReader # "reading" /\ errReader # "reading"

\* All threads end after completion, failure or cancellation.
ThreadsEnd == cancelled ~> worker \in {"done", "gone"}

\* The reducer accepts what the connector sends.
StartedFirst == Run!StartedFirst

\* A child that exits with an error is reported with its exit code and its
\* error output.
ExitCodeIsKept ==
  sent # <<>> /\ Last(sent).kind = "Failed" /\ child = "failed" =>
    Last(sent).cause \in {"exit", "output"}

\* No child outlives the program.
NoOrphan == worker = "gone" => child # "running"

==============================================================================
