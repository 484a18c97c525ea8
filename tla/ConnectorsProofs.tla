--------------------------- MODULE ConnectorsProofs ---------------------------
(***************************************************************************)
(* Proofs about the two connectors: the events of a run form one legal     *)
(* sequence, as ConnectorRun says, whatever the child or the server does   *)
(* and whenever the run is stopped or dropped; a CLI run that is over has  *)
(* left neither its child nor a reader behind; and an answer that is       *)
(* reported complete is all that the child printed or the server wrote.    *)
(***************************************************************************)
EXTENDS MCConnectors, SequenceTheorems, FiniteSetTheorems, NaturalsInduction,
        WellFoundedInduction, TLAPS

\* The safety half of ImplementsRun.
ImplementsRunSafety == Run!Init /\ [][Run!Next]_(Run!vars)

IsSequence(s) == s \in Seq({s[i] : i \in DOMAIN s})

KindsOf(s) == [i \in DOMAIN s |-> s[i].kind]

\* Nothing has been sent that ends the run, but something has.
Speaks(s) == s # <<>> /\ ~IsTerminal(s[Len(s)].kind)

Teardown == {"terminate", "join"}
AfterStart == {"prompt", "forward", "token", "poll", "joinExited", "drain"} \cup Teardown

\* The control of a CLI run, without what is in its pipes.
controlVars == <<worker, ending, sent, cancelled, listening, child, outReader, errReader>>

CliIInv ==
  /\ IsSequence(sent)
  /\ worker \in {"spawn", "announce", "done", "gone"} \cup AfterStart
  /\ {cancelled, listening} \subseteq BOOLEAN
  /\ ending \in {Nothing, Cancelled, Failed("output"), Failed("poll")}
  /\ worker \in {"spawn", "announce"} => sent = <<>>
  /\ worker \in AfterStart => Speaks(sent)
  /\ worker = "spawn" => child = "none"
  /\ worker \in {"spawn", "announce", "prompt"} => outReader = "off" /\ errReader = "off"
  /\ worker \in {"joinExited", "drain", "join", "done"} => child # "running"
  /\ worker = "drain" => ReadersDone
  /\ worker \in Teardown /\ ending = Nothing => ~listening
  /\ ending = Cancelled => cancelled
  /\ NothingLeftBehind

HttpIInv ==
  /\ IsSequence(sent)
  /\ worker \in {"announce", "runtime", "request", "stream", "done"}
  /\ {cancelled, listening} \subseteq BOOLEAN
  /\ worker = "announce" => sent = <<>>
  /\ worker \in {"runtime", "request", "stream"} => Speaks(sent)
  /\ child = "none" /\ outReader = "off" /\ errReader = "off"

ConnectorsIInv ==
  /\ connector \in {"text", "codex", "http"}
  /\ IF ByHttp THEN HttpIInv ELSE CliIInv

-----------------------------------------------------------------------------
(* Sequences of events.                                                    *)

LEMMA EmptyIsSequence == IsSequence(<<>>) /\ KindsOf(<<>>) = <<>>
<1>1. IsSequence(<<>>)
  BY EmptySeq DEF IsSequence
<1>2. KindsOf(<<>>) = <<>>
  BY EmptySeq DEF KindsOf
<1> QED  BY <1>1, <1>2

LEMMA KindsOfAppend ==
  ASSUME NEW s, IsSequence(s), NEW event
  PROVE  /\ IsSequence(Append(s, event))
         /\ KindsOf(Append(s, event)) = Append(KindsOf(s), event.kind)
         /\ Append(s, event) # <<>>
         /\ Append(s, event)[Len(Append(s, event))] = event
<1> DEFINE T == {s[i] : i \in DOMAIN s} \cup {event}
           t == Append(s, event)
           n == Len(s)
<1>1. s \in Seq(T) /\ n \in Nat /\ DOMAIN s = 1 .. n
  <2>1. s \in Seq({s[i] : i \in DOMAIN s})
    BY DEF IsSequence
  <2> QED  BY <2>1
<1>2. /\ t \in Seq(T) /\ Len(t) = n + 1 /\ t[n + 1] = event
      /\ \A i \in 1 .. n : t[i] = s[i]
  BY <1>1, AppendProperties
<1>3. DOMAIN t = 1 .. n + 1
  BY <1>1, <1>2
<1>4. IsSequence(t)
  <2> DEFINE E == {t[i] : i \in DOMAIN t}
  <2> HIDE DEF t
  <2>1. t \in [1 .. n + 1 -> T]
    BY <1>1, <1>2, LenProperties
  <2>2. \A i \in 1 .. n + 1 : t[i] \in E
    BY <1>3
  <2> HIDE DEF E
  <2>3. t \in [1 .. n + 1 -> E] /\ n + 1 \in Nat
    BY <1>1, <2>1, <2>2
  <2>4. t \in UNION {[1 .. m -> E] : m \in Nat}
    BY <2>3
  <2>5. t \in Seq(E)
    BY <2>4, SeqDef
  <2> QED  BY <2>5 DEF IsSequence, E
<1>5. KindsOf(t) = Append(KindsOf(s), event.kind)
  <2> DEFINE K == {x.kind : x \in T}
  <2>1. KindsOf(s) \in Seq(K) /\ Len(KindsOf(s)) = n /\ event.kind \in K
    BY <1>1 DEF KindsOf
  <2>2. /\ Append(KindsOf(s), event.kind) \in Seq(K)
        /\ Len(Append(KindsOf(s), event.kind)) = n + 1
        /\ Append(KindsOf(s), event.kind)[n + 1] = event.kind
        /\ \A i \in 1 .. n : Append(KindsOf(s), event.kind)[i] = KindsOf(s)[i]
    BY <2>1, AppendProperties
  <2>3. KindsOf(t) \in Seq(K) /\ Len(KindsOf(t)) = n + 1
    BY <1>1, <1>2, <1>3 DEF KindsOf
  <2>4. \A i \in 1 .. n + 1 : KindsOf(t)[i] = Append(KindsOf(s), event.kind)[i]
    <3>1. \A i \in 1 .. n + 1 : i \in 1 .. n \/ i = n + 1
      BY <1>1
    <3> QED  BY <1>1, <1>2, <1>3, <2>2, <3>1 DEF KindsOf
  <2> HIDE DEF K, t
  <2> QED  BY <2>2, <2>3, <2>4, SeqEqual
<1>6. t # <<>>
  BY <1>1, <1>2, EmptySeq
<1> QED  BY <1>1, <1>2, <1>4, <1>5, <1>6

LEMMA LastKind ==
  ASSUME NEW s, IsSequence(s), s # <<>>
  PROVE  /\ KindsOf(s) # <<>>
         /\ Len(KindsOf(s)) = Len(s)
         /\ KindsOf(s)[Len(s)] = s[Len(s)].kind
<1> DEFINE T == {s[i] : i \in DOMAIN s}
           K == {x.kind : x \in T}
           n == Len(s)
<1>1. s \in Seq(T)
  BY DEF IsSequence
<1>2. DOMAIN s = 1 .. n /\ n \in Nat /\ n # 0
  BY <1>1, EmptySeq, LenProperties
<1>3. KindsOf(s) \in Seq(K) /\ Len(KindsOf(s)) = n
  BY <1>1, <1>2 DEF KindsOf
<1>4. KindsOf(s) # <<>>
  <2> HIDE DEF K, n
  <2> QED  BY <1>2, <1>3, EmptySeq
<1>5. KindsOf(s)[n] = s[n].kind
  BY <1>2 DEF KindsOf
<1> QED  BY <1>3, <1>4, <1>5

-----------------------------------------------------------------------------
(* The steps of a CLI run that its control sees.  Both instances of        *)
(* CliConnector take them.                                                 *)

\* SendTerminalEvent, whatever it decides on.
EndsWith(event) ==
  /\ worker = "drain"
  /\ Send(event)
  /\ GoTo("done")
  /\ UNCHANGED <<ending, userVars, child, outReader, errReader>>

\* What differs between the two instances: the lines a child prints, how much it
\* complains, and what SendTerminalEvent asks for before it sends Completed.
Printable == IF ByText THEN Output ELSE CodexLines

Prints(line) ==
  /\ child = "running"
  /\ outReader # "done" /\ Len(stdout) < PipeSize
  /\ stdout' = Append(stdout, line)
  /\ printed' = Append(printed, line)
  /\ UNCHANGED <<child, helper, stdin, stderr>>
  /\ UNCHANGED <<workerVars, readerVars, userVars>>

Complains ==
  /\ stderr < PipeSize
  /\ stderr' = stderr + 1
  /\ UNCHANGED <<stdin, stdout>>
  /\ UNCHANGED <<workerVars, readerVars, childVars, userVars>>

Concludes(event) ==
  /\ lines = <<>>
  /\ event = Completed => child # "failed" /\ (ByCodex => turnCompleted)
  /\ EndsWith(event)
  /\ UNCHANGED <<unwritten, snapshots, turnCompleted, readerVars, pipeVars, childVars>>

\* A step of either instance.
FullStep ==
  \/ SpawnFails \/ SpawnChild \/ Announce \/ WritePrompt \/ PromptFails \/ PromptWritten
  \/ ForwardLine \/ ForwardToNobody \/ OutputRejected \/ NothingToForward \/ CheckToken
  \/ ChildRuns \/ PollFails \/ ChildHasExited \/ JoinExited
  \/ Terminate \/ JoinTerminated
  \/ \E event \in {Failed("exit"), Failed("incomplete"), Completed} : Concludes(event)
  \/ ReadLine \/ StdoutEnds \/ ReadStderr \/ StderrEnds
  \/ ChildReads \/ Complains \/ ChildExits \/ ChildStartsHelper \/ HelperExits
  \/ \E line \in Printable : Prints(line)
  \/ Cancel \/ DropRun \/ ProgramEnds

\* What its control sees of it.
CliStep ==
  \/ SpawnFails \/ SpawnChild \/ Announce \/ PromptFails \/ PromptWritten
  \/ ForwardLine \/ ForwardToNobody \/ OutputRejected \/ NothingToForward \/ CheckToken
  \/ ChildRuns \/ PollFails \/ ChildHasExited \/ JoinExited
  \/ Terminate \/ JoinTerminated
  \/ \E event \in {Failed("exit"), Failed("incomplete"), Completed} : EndsWith(event)
  \/ ReadLine \/ StdoutEnds \/ StderrEnds
  \/ ChildExits \/ Cancel \/ DropRun \/ ProgramEnds
  \/ UNCHANGED controlVars

LEMMA TextTakesFullSteps ==
  ASSUME ByText, Next
  PROVE  FullStep
<1> USE DEF FullStep
<1>1. CASE WorkerStep
  <2>1. CASE SendTerminalEvent
    <3> DEFINE event == CASE child = "failed" -> Failed("exit")
                          [] Format = "CodexJsonLines" /\ ~turnCompleted -> Failed("incomplete")
                          [] OTHER -> Completed
    <3>1. event \in {Failed("exit"), Failed("incomplete"), Completed}
      OBVIOUS
    <3>2. event = Completed => child # "failed"
      BY DEF Failed, Completed, Message
    <3>3. ~ByCodex
      BY DEF ByText, ByCodex
    <3>4. Concludes(event)
      BY <2>1, <3>2, <3>3
      DEF SendTerminalEvent, Concludes, EndsWith, Send, GoTo, readerVars, pipeVars, childVars, userVars
    <3> QED  BY <3>1, <3>4
  <2>2. WriteFails => PromptFails
    BY DEF WriteFails
  <2> QED  BY <1>1, <2>1, <2>2 DEF WorkerStep
<1>2. CASE OutReaderStep
  BY <1>2 DEF OutReaderStep
<1>3. CASE ErrReaderStep
  BY <1>3 DEF ErrReaderStep
<1>4. CASE ChildStep
  <2>1. ASSUME NEW line \in Output, ChildPrints(line)
        PROVE  FullStep
    <3>1. Prints(line) /\ line \in Printable
      BY <2>1 DEF ChildPrints, Prints, Printable
    <3> QED  BY <3>1
  <2>2. ChildComplains => Complains
    BY DEF ChildComplains, Complains
  <2>3. ChildClosesStdin => PromptFails
    BY DEF ChildClosesStdin
  <2> QED  BY <1>4, <2>1, <2>2, <2>3 DEF ChildStep
<1>5. CASE UserStep
  BY <1>5 DEF UserStep
<1> QED  BY <1>1, <1>2, <1>3, <1>4, <1>5 DEF Next

LEMMA CodexTakesFullSteps ==
  ASSUME ByCodex, Codex!Next
  PROVE  FullStep
<1> USE DEF Codex!workerVars, workerVars, Codex!readerVars, readerVars,
            Codex!pipeVars, pipeVars, Codex!childVars, childVars,
            Codex!userVars, userVars, Codex!Send, Send, Codex!GoTo, GoTo,
            Codex!Failed, Failed, Codex!Message, Message
<1>1. CASE Codex!WorkerStep
  <2>1. Codex!SpawnFails => SpawnFails
    BY DEF Codex!SpawnFails, SpawnFails
  <2>2. Codex!SpawnChild => SpawnChild
    BY DEF Codex!SpawnChild, SpawnChild
  <2>3. Codex!Announce => Announce
    BY DEF Codex!Announce, Announce, Codex!TerminateChild, TerminateChild,
           Codex!Started, Started
  <2>4. Codex!PromptFails => PromptFails
    BY DEF Codex!PromptFails, PromptFails, Codex!TerminateChild, TerminateChild
  <2>5. Codex!PromptWritten => PromptWritten
    BY DEF Codex!PromptWritten, PromptWritten
  <2>6. Codex!ForwardLine => ForwardLine
    BY DEF Codex!ForwardLine, ForwardLine, Codex!Rejects, Rejects,
           Codex!IsPrefix, IsPrefix, Codex!HasDelta, HasDelta, Codex!NewText,
           NewText, Codex!Remember, Remember, Codex!Forwarding, Forwarding,
           Codex!Delta, Delta
  <2>7. Codex!ForwardToNobody => ForwardToNobody
    BY DEF Codex!ForwardToNobody, ForwardToNobody, Codex!Rejects, Rejects,
           Codex!IsPrefix, IsPrefix, Codex!HasDelta, HasDelta, Codex!NewText,
           NewText, Codex!Remember, Remember, Codex!Forwarding, Forwarding
  <2>8. Codex!OutputRejected => OutputRejected
    BY DEF Codex!OutputRejected, OutputRejected, Codex!Rejects, Rejects,
           Codex!IsPrefix, IsPrefix, Codex!Forwarding, Forwarding
  <2>9. Codex!NothingToForward => NothingToForward
    BY DEF Codex!NothingToForward, NothingToForward, Codex!WorkerMoves,
           WorkerMoves
  <2>10. Codex!CheckToken => CheckToken
    BY DEF Codex!CheckToken, CheckToken, Codex!WorkerMoves, WorkerMoves,
           Codex!Cancelled, Cancelled
  <2>11. Codex!ChildRuns => ChildRuns
    BY DEF Codex!ChildRuns, ChildRuns, Codex!WorkerMoves, WorkerMoves
  <2>12. Codex!PollFails => PollFails
    BY DEF Codex!PollFails, PollFails, Codex!WorkerMoves, WorkerMoves
  <2>13. Codex!ChildHasExited => ChildHasExited
    BY DEF Codex!ChildHasExited, ChildHasExited, Codex!WorkerMoves,
           WorkerMoves
  <2>14. Codex!JoinExited => JoinExited
    BY DEF Codex!JoinExited, JoinExited, Codex!WorkerMoves, WorkerMoves,
           Codex!ReadersDone, ReadersDone
  <2>15. Codex!Terminate => Terminate
    BY DEF Codex!Terminate, Terminate, Codex!TerminateChild, TerminateChild
  <2>16. Codex!JoinTerminated => JoinTerminated
    BY DEF Codex!JoinTerminated, JoinTerminated, Codex!ReadersDone,
           ReadersDone, Codex!Nothing, Nothing
  <2>17. Codex!WritePrompt => WritePrompt
    BY DEF Codex!WritePrompt, WritePrompt
  <2>18. CASE Codex!SendTerminalEvent
    <3> DEFINE event == CASE child = "failed" -> Failed("exit")
                          [] ~turnCompleted -> Failed("incomplete")
                          [] OTHER -> Completed
    <3>1. event \in {Failed("exit"), Failed("incomplete"), Completed}
      OBVIOUS
    <3>2. event = Completed => child # "failed" /\ turnCompleted
      BY DEF Completed
    <3>3. Concludes(event)
      BY <2>18, <3>2 DEF Codex!SendTerminalEvent, Concludes, EndsWith, Codex!Completed, Completed
    <3> QED  BY <3>1, <3>3 DEF FullStep
  <2> QED
    BY <1>1, <2>1, <2>2, <2>3, <2>4, <2>5, <2>6, <2>7, <2>8, <2>9, <2>10, <2>11, <2>12, <2>13, <2>14, <2>15, <2>16, <2>17, <2>18
    DEF Codex!WorkerStep, Codex!WriteFails, FullStep
<1>2. CASE Codex!OutReaderStep
  <2>1. Codex!ReadLine => ReadLine
    BY DEF Codex!ReadLine, ReadLine
  <2>2. Codex!StdoutEnds => StdoutEnds
    BY DEF Codex!StdoutEnds, StdoutEnds, Codex!NoWriters, NoWriters
  <2> QED  BY <1>2, <2>1, <2>2 DEF Codex!OutReaderStep, FullStep
<1>3. CASE Codex!ErrReaderStep
  <2>1. Codex!StderrEnds => StderrEnds
    BY DEF Codex!StderrEnds, StderrEnds, Codex!NoWriters, NoWriters
  <2>2. Codex!ReadStderr => ReadStderr
    BY DEF Codex!ReadStderr, ReadStderr
  <2> QED  BY <1>3, <2>1, <2>2 DEF Codex!ErrReaderStep, FullStep
<1>4. CASE Codex!ChildStep
  <2>1. Codex!ChildExits => ChildExits
    BY DEF Codex!ChildExits, ChildExits
  <2>2. Codex!ChildReads => ChildReads
    BY DEF Codex!ChildReads, ChildReads
  <2>3. Codex!ChildComplains => Complains
    BY DEF Codex!ChildComplains, Complains
  <2>4. Codex!ChildStartsHelper => ChildStartsHelper
    BY DEF Codex!ChildStartsHelper, ChildStartsHelper
  <2>5. Codex!HelperExits => HelperExits
    BY DEF Codex!HelperExits, HelperExits
  <2>6. Codex!ChildClosesStdin => PromptFails
    BY DEF Codex!ChildClosesStdin, Codex!PromptFails, PromptFails, Codex!TerminateChild,
           TerminateChild
  <2>7. ASSUME NEW line \in CodexLines, Codex!ChildPrints(line)
        PROVE  FullStep
    <3>1. Prints(line)
      BY <2>7 DEF Codex!ChildPrints, Prints
    <3>2. line \in Printable
      BY DEF Printable, ByText, ByCodex
    <3> QED  BY <3>1, <3>2 DEF FullStep
  <2> QED  BY <1>4, <2>1, <2>2, <2>3, <2>4, <2>5, <2>6, <2>7 DEF Codex!ChildStep, FullStep
<1>5. CASE Codex!UserStep
  <2>1. Codex!Cancel => Cancel
    BY DEF Codex!Cancel, Cancel
  <2>2. Codex!DropRun => DropRun
    BY DEF Codex!DropRun, DropRun
  <2>3. Codex!ProgramEnds => ProgramEnds
    BY DEF Codex!ProgramEnds, ProgramEnds
  <2> QED  BY <1>5, <2>1, <2>2, <2>3 DEF Codex!UserStep, FullStep
<1> QED  BY <1>1, <1>2, <1>3, <1>4, <1>5 DEF Codex!Next

LEMMA FullStepIsCliStep == FullStep => CliStep
<1> USE DEF FullStep, CliStep
<1>1. WritePrompt \/ ReadStderr \/ ChildReads \/ Complains \/ ChildStartsHelper \/ HelperExits
        => UNCHANGED controlVars
  BY DEF WritePrompt, ReadStderr, ChildReads, Complains, ChildStartsHelper, HelperExits,
         controlVars, workerVars, readerVars, childVars, userVars
<1>2. \A line : Prints(line) => UNCHANGED controlVars
  BY DEF Prints, controlVars, workerVars, readerVars, userVars
<1>3. \A event : Concludes(event) => EndsWith(event)
  BY DEF Concludes
<1> QED  BY <1>1, <1>2, <1>3

LEMMA TextTakesCliSteps == ByText /\ Next => CliStep
BY TextTakesFullSteps, FullStepIsCliStep

LEMMA CodexTakesCliSteps == ByCodex /\ Codex!Next => CliStep
BY CodexTakesFullSteps, FullStepIsCliStep

-----------------------------------------------------------------------------
(* The invariant, step by step.                                            *)

LEMMA ForwardingSpeaks ==
  ASSUME IsSequence(sent), NEW event, ~IsTerminal(event.kind),
         sent' = Append(sent, event)
  PROVE  IsSequence(sent)' /\ Speaks(sent)'
BY KindsOfAppend DEF Speaks

LEMMA SendKeepsSequence ==
  ASSUME IsSequence(sent), NEW event, Send(event)
  PROVE  IsSequence(sent)'
BY KindsOfAppend DEF Send

LEMMA CliInitially == Init \/ Codex!Init => CliIInv
<1> USE DEF CliIInv, AfterStart, Teardown, NothingLeftBehind
<1>1. ASSUME Init PROVE CliIInv
  <2> USE <1>1 DEF Init
  <2>1. ending = Nothing /\ Nothing # Cancelled
    BY DEF Nothing, Cancelled, Message
  <2>2. worker = "spawn" /\ child = "none" /\ outReader = "off" /\ errReader = "off"
    OBVIOUS
  <2>3. IsSequence(sent) /\ sent = <<>> /\ {cancelled, listening} \subseteq BOOLEAN
    BY EmptyIsSequence
  <2> QED  BY <2>1, <2>2, <2>3
<1>2. Codex!Init => Init
  BY DEF Codex!Init, Init, Codex!Nothing, Nothing, Codex!Message, Message
<1> QED  BY <1>1, <1>2

LEMMA CliStepKeepsInvariant ==
  ASSUME CliIInv, CliStep
  PROVE  CliIInv'
<1> USE DEF CliIInv, AfterStart, Teardown, NothingLeftBehind, GoTo, workerVars, readerVars,
            pipeVars, childVars, userVars
<1>0. /\ Cancelled # Nothing /\ \A cause : Failed(cause) # Nothing /\ Failed(cause) # Cancelled
      /\ ~IsTerminal("Started") /\ ~IsTerminal("TextDelta")
      /\ Started.kind = "Started" /\ \A text : Delta(text).kind = "TextDelta"
  BY DEF Cancelled, Nothing, Failed, Started, Delta, Message, IsTerminal
<1>1. CASE SpawnFails
  BY <1>1, SendKeepsSequence DEF SpawnFails
<1>2. CASE SpawnChild
  BY <1>2 DEF SpawnChild
<1>3. CASE Announce
  <2>1. listening => IsSequence(sent)' /\ Speaks(sent)'
    BY <1>0, <1>3, ForwardingSpeaks DEF Announce, Send
  <2>2. ~listening => sent' = sent
    BY <1>3 DEF Announce, Send
  <2> QED  BY <1>3, <2>1, <2>2 DEF Announce, TerminateChild
<1>4. CASE PromptFails
  BY <1>4, SendKeepsSequence DEF PromptFails, TerminateChild
<1>5. CASE PromptWritten
  BY <1>5 DEF PromptWritten
<1>6. CASE ForwardLine
  <2>1. IsSequence(sent)' /\ Speaks(sent)'
    BY <1>0, <1>6, ForwardingSpeaks DEF ForwardLine, Forwarding
  <2> QED  BY <1>6, <2>1 DEF ForwardLine, Forwarding, ReadersDone
<1>7. CASE ForwardToNobody
  BY <1>7 DEF ForwardToNobody, Forwarding, ReadersDone
<1>8. CASE OutputRejected
  <2>1. CASE worker = "drain"
    BY <1>8, <2>1, SendKeepsSequence DEF OutputRejected, ReadersDone
  <2>2. CASE worker = "forward"
    BY <1>0, <1>8, <2>2 DEF OutputRejected
  <2> QED  BY <1>8, <2>1, <2>2 DEF OutputRejected, Forwarding
<1>9. CASE NothingToForward
  BY <1>9 DEF NothingToForward, WorkerMoves
<1>10. CASE CheckToken
  BY <1>0, <1>10 DEF CheckToken, WorkerMoves
<1>11. CASE ChildRuns
  BY <1>11 DEF ChildRuns, WorkerMoves
<1>12. CASE PollFails
  BY <1>0, <1>12 DEF PollFails, WorkerMoves
<1>13. CASE ChildHasExited
  BY <1>13 DEF ChildHasExited, WorkerMoves
<1>14. CASE JoinExited
  BY <1>14 DEF JoinExited, WorkerMoves, ReadersDone
<1>15. CASE Terminate
  BY <1>15 DEF Terminate, TerminateChild
<1>16. CASE JoinTerminated
  <2>1. IsSequence(sent)'
    BY <1>16, SendKeepsSequence DEF JoinTerminated
  <2> QED  BY <1>16, <2>1 DEF JoinTerminated, ReadersDone
<1>17. ASSUME NEW event, EndsWith(event)
       PROVE  CliIInv'
  BY <1>17, SendKeepsSequence DEF EndsWith, ReadersDone
<1>18. CASE ReadLine
  BY <1>18 DEF ReadLine, ReadersDone
<1>19. CASE StdoutEnds
  BY <1>19 DEF StdoutEnds, ReadersDone
<1>20. CASE StderrEnds
  BY <1>20 DEF StderrEnds, ReadersDone
<1>21. CASE ChildExits
  BY <1>21 DEF ChildExits, ReadersDone
<1>22. CASE Cancel
  BY <1>22 DEF Cancel, ReadersDone
<1>23. CASE DropRun
  BY <1>23 DEF DropRun, ReadersDone
<1>24. CASE ProgramEnds
  BY <1>24 DEF ProgramEnds
<1>25. CASE UNCHANGED controlVars
  BY <1>25 DEF controlVars, ReadersDone
<1> QED
  BY <1>1, <1>2, <1>3, <1>4, <1>5, <1>6, <1>7, <1>8, <1>9, <1>10, <1>11, <1>12, <1>13, <1>14,
     <1>15, <1>16, <1>17, <1>18, <1>19, <1>20, <1>21, <1>22, <1>23, <1>24, <1>25
  DEF CliStep

HttpUntouched == <<cancelled, listening, child, outReader, errReader>>

\* The steps of an HTTP run that its control sees: the end with an event, and
\* what goes on.
HttpEndStep ==
  /\ worker \in {"runtime", "request", "stream"}
  /\ \E event : /\ event.kind \in {"Completed", "Cancelled", "Failed"}
                /\ event.kind = "Cancelled" => cancelled
                /\ Http!EndWith(event)
  /\ UNCHANGED HttpUntouched

HttpDeltaStep ==
  /\ worker = "stream"
  /\ \E event : event.kind = "TextDelta" /\ Http!Send(event)
  /\ worker' = IF listening THEN "stream" ELSE "done"
  /\ UNCHANGED HttpUntouched

HttpQuietStep ==
  \/ /\ worker \in {"runtime", "request"}
     /\ worker' \in {"request", "stream"}
     /\ UNCHANGED <<sent, HttpUntouched>>
  \/ UNCHANGED <<worker, sent, HttpUntouched>>

HttpAnnounceStep ==
  /\ worker = "announce"
  /\ Http!Send(Http!Started)
  /\ worker' = IF listening THEN "runtime" ELSE "done"
  /\ UNCHANGED HttpUntouched

HttpUserStep ==
  /\ cancelled' = TRUE
  /\ listening' \in {FALSE, listening}
  /\ UNCHANGED <<worker, sent, child, outReader, errReader>>

HttpStep == HttpAnnounceStep \/ HttpEndStep \/ HttpDeltaStep \/ HttpQuietStep \/ HttpUserStep

LEMMA HttpTakesHttpSteps ==
  ASSUME Http!Next, UNCHANGED cliVars
  PROVE  HttpStep
<1> USE DEF HttpStep, HttpUntouched, Http!workerVars, Http!serverVars, Http!userVars
<1>0. /\ UNCHANGED <<child, outReader, errReader>>
      /\ \A code : Http!Failed(code).kind = "Failed"
      /\ Http!Cancelled.kind = "Cancelled" /\ Http!Completed.kind = "Completed"
      /\ \A text : Http!Delta(text).kind = "TextDelta"
  BY DEF cliVars, Http!Failed, Http!Cancelled, Http!Completed, Http!Delta, Http!Message
<1>1. CASE Http!Announce
  BY <1>0, <1>1 DEF Http!Announce, HttpAnnounceStep
<1>2. CASE Http!BuildRuntime
  BY <1>0, <1>2 DEF Http!BuildRuntime, HttpQuietStep
<1>3. CASE Http!RuntimeFails
  BY <1>0, <1>3 DEF Http!RuntimeFails, HttpEndStep
<1>4. CASE Http!SeesCancel
  BY <1>0, <1>4 DEF Http!SeesCancel, HttpEndStep
<1>5. CASE Http!ReceiveAnswer
  <2>1. CASE ~Http!IsSuccess(connection.status)
    BY <1>0, <1>5, <2>1 DEF Http!ReceiveAnswer, HttpEndStep
  <2>2. CASE Http!IsSuccess(connection.status) /\ ~connection.eventStream
    BY <1>0, <1>5, <2>2 DEF Http!ReceiveAnswer, HttpEndStep
  <2>3. CASE Http!IsSuccess(connection.status) /\ connection.eventStream
    BY <1>0, <1>5, <2>3 DEF Http!ReceiveAnswer, HttpQuietStep
  <2> QED  BY <2>1, <2>2, <2>3
<1>6. CASE Http!RequestBreaks
  BY <1>0, <1>6 DEF Http!RequestBreaks, HttpEndStep
<1>7. CASE Http!PullChunk
  <2>1. CASE streamBytes + Head(wire).size > MaxStream
    BY <1>0, <1>7, <2>1 DEF Http!PullChunk, Http!ReadsOn, HttpEndStep
  <2>2. CASE ~(streamBytes + Head(wire).size > MaxStream)
    BY <1>0, <1>7, <2>2 DEF Http!PullChunk, HttpQuietStep
  <2> QED  BY <2>1, <2>2
<1>8. CASE Http!StreamEnds
  BY <1>0, <1>8 DEF Http!StreamEnds, Http!ReadsOn, HttpEndStep
<1>9. CASE Http!TakeDone
  BY <1>0, <1>9 DEF Http!TakeDone, Http!Takes, HttpEndStep
<1>10. CASE Http!TakeError
  BY <1>0, <1>10 DEF Http!TakeError, Http!Takes, HttpEndStep
<1>11. CASE Http!SkipEmpty
  BY <1>0, <1>11 DEF Http!SkipEmpty, HttpQuietStep
<1>12. CASE Http!TakeText
  <2>1. CASE responseBytes + Len(Head(decoded).text) > MaxResponse
    BY <1>0, <1>12, <2>1 DEF Http!TakeText, Http!Takes, HttpEndStep
  <2>2. CASE ~(responseBytes + Len(Head(decoded).text) > MaxResponse)
    BY <1>0, <1>12, <2>2 DEF Http!TakeText, Http!Takes, HttpDeltaStep
  <2> QED  BY <2>1, <2>2
<1>13. CASE Http!TimesOut
  BY <1>0, <1>13 DEF Http!TimesOut, HttpEndStep
<1>14. CASE Http!ServerStep
  BY <1>0, <1>14 DEF Http!ServerStep, Http!Answer, Http!WriteChunk, Http!Disconnect, HttpQuietStep
<1>15. CASE Http!Cancel
  BY <1>0, <1>15 DEF Http!Cancel, HttpUserStep
<1>16. CASE Http!DropRun
  BY <1>0, <1>16 DEF Http!DropRun, HttpUserStep
<1> QED
  BY <1>1, <1>2, <1>3, <1>4, <1>5, <1>6, <1>7, <1>8, <1>9, <1>10, <1>11, <1>12, <1>13, <1>14,
     <1>15, <1>16
  DEF Http!Next, Http!WorkerStep

LEMMA HttpInitially ==
  ASSUME Http!Init, NoChild
  PROVE  HttpIInv
BY EmptyIsSequence DEF Http!Init, NoChild, HttpIInv

LEMMA HttpStepKeepsInvariant ==
  ASSUME HttpIInv, HttpStep
  PROVE  HttpIInv'
<1> USE DEF HttpIInv, HttpUntouched
<1>1. CASE HttpAnnounceStep
  <2>1. Http!Started.kind = "Started" /\ ~IsTerminal("Started")
    BY DEF Http!Started, Http!Message, IsTerminal
  <2>2. listening => IsSequence(sent)' /\ Speaks(sent)'
    BY <1>1, <2>1, ForwardingSpeaks DEF HttpAnnounceStep, Http!Send
  <2>3. ~listening => sent' = sent
    BY <1>1 DEF HttpAnnounceStep, Http!Send
  <2> QED  BY <1>1, <2>2, <2>3 DEF HttpAnnounceStep
<1>2. CASE HttpEndStep
  <2>1. IsSequence(sent)'
    BY <1>2, KindsOfAppend DEF HttpEndStep, Http!EndWith, Http!Send
  <2> QED  BY <1>2, <2>1 DEF HttpEndStep, Http!EndWith
<1>3. CASE HttpDeltaStep
  <2>1. ~IsTerminal("TextDelta")
    BY DEF IsTerminal
  <2>2. listening => IsSequence(sent)' /\ Speaks(sent)'
    BY <1>3, <2>1, ForwardingSpeaks DEF HttpDeltaStep, Http!Send
  <2>3. ~listening => sent' = sent
    BY <1>3 DEF HttpDeltaStep, Http!Send
  <2> QED  BY <1>3, <2>2, <2>3 DEF HttpDeltaStep
<1>4. CASE HttpQuietStep
  BY <1>4 DEF HttpQuietStep
<1>5. CASE HttpUserStep
  BY <1>5 DEF HttpUserStep
<1> QED  BY <1>1, <1>2, <1>3, <1>4, <1>5 DEF HttpStep

-----------------------------------------------------------------------------
(* Both connectors together.                                               *)

LEMMA ConnectorsInitially == ConnectorsInit => ConnectorsIInv
BY CliInitially, HttpInitially DEF ConnectorsInit, ConnectorsIInv, ByHttp

LEMMA ConnectorsStepKeepsInvariant ==
  ASSUME ConnectorsIInv, [ConnectorsNext]_connectorsVars
  PROVE  ConnectorsIInv'
<1>1. CASE WithText(Next)
  BY <1>1, TextTakesCliSteps, CliStepKeepsInvariant DEF WithText, ByText, ByHttp, ConnectorsIInv
<1>2. CASE WithCodex(Codex!Next)
  BY <1>2, CodexTakesCliSteps, CliStepKeepsInvariant DEF WithCodex, ByCodex, ByHttp, ConnectorsIInv
<1>3. CASE WithHttp(Http!Next)
  BY <1>3, HttpTakesHttpSteps, HttpStepKeepsInvariant DEF WithHttp, ByHttp, ConnectorsIInv
<1>4. CASE UNCHANGED connectorsVars
  <2> USE <1>4 DEF connectorsVars, vars, workerVars, readerVars, pipeVars, childVars, userVars
  <2>1. UNCHANGED <<worker, ending, sent, cancelled, listening, child, outReader, errReader>>
    OBVIOUS
  <2>2. CliIInv => CliIInv'
    BY <2>1, CliStepKeepsInvariant DEF CliStep, controlVars
  <2>3. HttpIInv => HttpIInv'
    BY <2>1, HttpStepKeepsInvariant DEF HttpStep, HttpQuietStep, HttpUntouched
  <2> QED  BY <2>2, <2>3 DEF ConnectorsIInv, ByHttp
<1> QED  BY <1>1, <1>2, <1>3, <1>4 DEF ConnectorsNext

\* The safety half of ConnectorsSpec.
ConnectorsSafety == ConnectorsInit /\ [][ConnectorsNext]_connectorsVars

LEMMA ConnectorsInvariance == ConnectorsSafety => []ConnectorsIInv
BY ConnectorsInitially, ConnectorsStepKeepsInvariant, PTL DEF ConnectorsSafety

\* However a run ended, and whenever it was stopped, no child is left running
\* and no reader thread reading: the order of terminate_child, the joins and the
\* return of run_cli_process.
THEOREM NothingIsLeftBehind == ConnectorsSpec => []NothingLeftBehind
<1>1. ConnectorsIInv => NothingLeftBehind
  BY DEF ConnectorsIInv, CliIInv, HttpIInv, NothingLeftBehind
<1>2. ConnectorsSpec => ConnectorsSafety
  BY PTL DEF ConnectorsSpec, ConnectorsSafety
<1> QED  BY <1>1, <1>2, ConnectorsInvariance, PTL

-----------------------------------------------------------------------------
(* The events form a legal run: every step is one of ConnectorRun, or none. *)

IsOver == worker \in {"done", "gone"}

RunStep == [Run!Next]_(Run!vars)

\* Nothing said yet, or nothing that ends the run.
GoesOn == IsSequence(sent) /\ (sent = <<>> \/ Speaks(sent)) /\ ~IsOver

LEMMA NotEnded ==
  ASSUME GoesOn
  PROVE  /\ ~Run!Ended
         /\ KindsOf(sent) = <<>> <=> sent = <<>>
<1>1. CASE sent = <<>>
  BY <1>1, EmptyIsSequence DEF Run!Ended, KindsOf
<1>2. CASE sent # <<>>
  BY <1>2, LastKind DEF GoesOn, Speaks, Run!Ended, KindsOf, Run!IsTerminal, IsTerminal
<1> QED  BY <1>1, <1>2

LEMMA SendIsSend ==
  ASSUME GoesOn, listening, NEW event, event.kind \in EventKind,
         IF sent = <<>> THEN event.kind \in {"Started", "Failed"} ELSE event.kind # "Started",
         event.kind = "Cancelled" => cancelled,
         sent' = Append(sent, event), UNCHANGED userVars,
         IsOver' \in {FALSE, IsTerminal(event.kind)}
  PROVE  RunStep
<1>1. KindsOf(sent)' = Append(KindsOf(sent), event.kind)
  BY KindsOfAppend DEF GoesOn
<1>2. Run!Send(event.kind)
  BY <1>1, NotEnded
  DEF Run!Send, Run!MaySend, GoesOn, IsOver, userVars, KindsOf, Run!IsTerminal, IsTerminal
<1> QED  BY <1>2 DEF RunStep, Run!Next, Run!EventKind, EventKind

LEMMA ReturnIsReturn ==
  ASSUME ~IsOver, ~listening, IsOver', sent' = sent, UNCHANGED userVars
  PROVE  RunStep
<1>1. Run!Return
  BY DEF Run!Return, IsOver, userVars
<1> QED  BY <1>1 DEF RunStep, Run!Next

LEMMA NothingIsStutter ==
  ASSUME IsOver' = IsOver, sent' = sent, UNCHANGED userVars
  PROVE  RunStep
BY DEF RunStep, Run!vars, IsOver, userVars

\* What Send does: tell, or return when nobody listens.
LEMMA SendOrReturn ==
  ASSUME GoesOn, listening \in BOOLEAN, NEW event, event.kind \in {"Completed", "Cancelled", "Failed"},
         sent = <<>> => event.kind = "Failed",
         event.kind = "Cancelled" => cancelled,
         Send(event), UNCHANGED userVars, IsOver'
  PROVE  RunStep
<1>1. CASE listening
  <2>1. sent' = Append(sent, event) /\ event.kind \in EventKind /\ event.kind # "Started"
    BY <1>1 DEF Send, EventKind
  <2>2. IsOver' = TRUE /\ IsTerminal(event.kind) = TRUE
    BY DEF IsTerminal, IsOver
  <2> QED  BY <1>1, <2>1, <2>2, SendIsSend
<1>2. CASE ~listening
  BY <1>2, ReturnIsReturn DEF Send, GoesOn
<1> QED  BY <1>1, <1>2

LEMMA CancelIsCancel ==
  ASSUME cancelled' = TRUE, UNCHANGED <<sent, listening, worker>>
  PROVE  RunStep
<1>1. Run!Cancel
  BY DEF Run!Cancel
<1> QED  BY <1>1 DEF RunStep, Run!Next

LEMMA DropIsDrop ==
  ASSUME cancelled' = TRUE, listening' = FALSE, sent' = sent, IsOver' \in {IsOver, TRUE}
  PROVE  RunStep
<1>1. Run!Drop
  BY DEF Run!Drop, IsOver
<1> QED  BY <1>1 DEF RunStep, Run!Next

LEMMA CliStepIsRunStep ==
  ASSUME CliIInv, CliStep
  PROVE  RunStep
<1> USE DEF GoTo, workerVars, readerVars, pipeVars, childVars
<1>0. /\ \A cause : Failed(cause).kind = "Failed"
      /\ Started.kind = "Started" /\ \A text : Delta(text).kind = "TextDelta"
      /\ Cancelled.kind = "Cancelled" /\ Completed.kind = "Completed"
      /\ {"Started", "TextDelta"} \subseteq EventKind
      /\ listening \in BOOLEAN
  BY DEF Cancelled, Completed, Failed, Started, Delta, Message, EventKind, CliIInv
<1>1. worker \in {"spawn", "announce"} \cup AfterStart => GoesOn
  BY DEF CliIInv, GoesOn, IsOver, AfterStart, Teardown
<1>2. CASE SpawnFails
  BY <1>0, <1>1, <1>2, SendOrReturn DEF SpawnFails, IsOver
<1>3. CASE Announce
  <2>1. CASE listening
    <3>1. GoesOn /\ sent = <<>> /\ sent' = Append(sent, Started) /\ UNCHANGED userVars
      BY <1>1, <1>3, <2>1 DEF Announce, Send, CliIInv
    <3>2. IsOver' = FALSE
      BY <1>3, <2>1 DEF Announce, IsOver
    <3> QED  BY <1>0, <2>1, <3>1, <3>2, SendIsSend
  <2>2. CASE ~listening
    BY <1>3, <2>2, ReturnIsReturn DEF Announce, Send, IsOver
  <2> QED  BY <2>1, <2>2
<1>4. CASE PromptFails
  BY <1>0, <1>1, <1>4, SendOrReturn DEF PromptFails, IsOver, AfterStart, CliIInv, Speaks
<1>5. CASE ForwardLine
  <2>1. CASE HasDelta(Head(lines))
    <3> DEFINE event == Delta(NewText(Head(lines)))
    <3>1. GoesOn /\ sent # <<>> /\ listening /\ UNCHANGED userVars
      BY <1>1, <1>5, <2>1 DEF ForwardLine, Forwarding, CliIInv, AfterStart, Speaks
    <3>2. IsOver' = FALSE /\ sent' = Append(sent, event)
      BY <1>5, <2>1 DEF ForwardLine, Forwarding, IsOver
    <3>3. event.kind = "TextDelta" /\ event.kind \in EventKind
      BY <1>0
    <3> HIDE DEF event
    <3> QED  BY <3>1, <3>2, <3>3, SendIsSend
  <2>2. CASE ~HasDelta(Head(lines))
    BY <1>5, <2>2, NothingIsStutter DEF ForwardLine, IsOver
  <2> QED  BY <2>1, <2>2
<1>6. CASE ForwardToNobody
  <2>1. CASE worker = "drain"
    BY <1>6, <2>1, ReturnIsReturn DEF ForwardToNobody, IsOver
  <2>2. CASE worker = "forward"
    BY <1>6, <2>2, NothingIsStutter DEF ForwardToNobody, IsOver
  <2> QED  BY <1>6, <2>1, <2>2 DEF ForwardToNobody, Forwarding
<1>7. CASE OutputRejected
  <2>1. CASE worker = "drain"
    <3>1. GoesOn /\ sent # <<>>
      BY <1>1, <2>1 DEF CliIInv, AfterStart, Speaks
    <3> QED  BY <1>0, <1>7, <2>1, <3>1, SendOrReturn DEF OutputRejected, IsOver
  <2>2. CASE worker = "forward"
    BY <1>7, <2>2, NothingIsStutter DEF OutputRejected, IsOver
  <2> QED  BY <1>7, <2>1, <2>2 DEF OutputRejected, Forwarding
<1>8. CASE JoinTerminated
  <2>1. GoesOn /\ sent # <<>>
    BY <1>1, <1>8 DEF JoinTerminated, CliIInv, AfterStart, Teardown, Speaks
  <2>2. CASE ending = Nothing
    BY <1>8, <2>1, <2>2, ReturnIsReturn DEF JoinTerminated, IsOver, CliIInv, Teardown, GoesOn
  <2>3. CASE ending # Nothing
    <3>1. ending.kind \in {"Completed", "Cancelled", "Failed"} /\ (ending.kind = "Cancelled" => cancelled)
      BY <1>0, <2>3 DEF CliIInv
    <3>2. Send(ending) /\ IsOver' /\ UNCHANGED userVars
      BY <1>8, <2>3 DEF JoinTerminated, IsOver
    <3> QED  BY <1>0, <2>1, <3>1, <3>2, SendOrReturn
  <2> QED  BY <2>2, <2>3
<1>9. ASSUME NEW event \in {Failed("exit"), Failed("incomplete"), Completed}, EndsWith(event)
      PROVE  RunStep
  <2>1. GoesOn /\ sent # <<>>
    BY <1>1, <1>9 DEF EndsWith, CliIInv, AfterStart, Speaks
  <2>2. event.kind \in {"Completed", "Failed"}
    BY <1>0, <1>9
  <2> QED  BY <1>0, <1>9, <2>1, <2>2, SendOrReturn DEF EndsWith, IsOver
<1>10. CASE Cancel
  BY <1>10, CancelIsCancel DEF Cancel
<1>11. CASE DropRun
  BY <1>11, DropIsDrop DEF DropRun, IsOver
<1>12. CASE ProgramEnds
  BY <1>12, DropIsDrop DEF ProgramEnds, IsOver
<1>13. CASE \/ SpawnChild \/ PromptWritten \/ NothingToForward \/ CheckToken
            \/ ChildRuns \/ PollFails \/ ChildHasExited \/ JoinExited \/ Terminate
            \/ ReadLine \/ StdoutEnds \/ StderrEnds \/ ChildExits \/ UNCHANGED controlVars
  <2>1. IsOver' = IsOver /\ sent' = sent /\ UNCHANGED userVars
    BY <1>13
    DEF SpawnChild, PromptWritten, NothingToForward, CheckToken, ChildRuns, PollFails,
        ChildHasExited, JoinExited, Terminate, ReadLine, StdoutEnds, StderrEnds, ChildExits,
        WorkerMoves, controlVars, IsOver, userVars
  <2> QED  BY <2>1, NothingIsStutter
<1> QED
  BY <1>2, <1>3, <1>4, <1>5, <1>6, <1>7, <1>8, <1>9, <1>10, <1>11, <1>12, <1>13 DEF CliStep

LEMMA HttpStepIsRunStep ==
  ASSUME HttpIInv, HttpStep
  PROVE  RunStep
<1> USE DEF HttpUntouched, userVars
<1>0. listening \in BOOLEAN /\ {"Started", "TextDelta"} \subseteq EventKind
  BY DEF HttpIInv, EventKind
<1>1. worker \in {"announce", "runtime", "request", "stream"} => GoesOn
  BY DEF HttpIInv, GoesOn, IsOver
<1>2. CASE HttpAnnounceStep
  <2>1. Http!Started.kind = "Started"
    BY DEF Http!Started, Http!Message
  <2>2. CASE listening
    <3>1. GoesOn /\ sent = <<>> /\ sent' = Append(sent, Http!Started) /\ UNCHANGED userVars
      BY <1>1, <1>2, <2>2 DEF HttpAnnounceStep, Http!Send, HttpIInv
    <3>2. IsOver' = FALSE
      BY <1>2, <2>2 DEF HttpAnnounceStep, IsOver
    <3> QED  BY <1>0, <2>1, <2>2, <3>1, <3>2, SendIsSend
  <2>3. CASE ~listening
    BY <1>2, <2>3, ReturnIsReturn DEF HttpAnnounceStep, Http!Send, IsOver
  <2> QED  BY <2>2, <2>3
<1>3. CASE HttpEndStep
  <2>1. GoesOn /\ sent # <<>>
    BY <1>1, <1>3 DEF HttpEndStep, HttpIInv, Speaks
  <2>2. PICK event : /\ event.kind \in {"Completed", "Cancelled", "Failed"}
                     /\ event.kind = "Cancelled" => cancelled
                     /\ Http!EndWith(event)
    BY <1>3 DEF HttpEndStep
  <2>3. Send(event) /\ IsOver' /\ UNCHANGED userVars
    BY <1>3, <2>2 DEF HttpEndStep, Http!EndWith, Http!Send, Send, IsOver
  <2> QED  BY <1>0, <2>1, <2>2, <2>3, SendOrReturn
<1>4. CASE HttpDeltaStep
  <2>1. GoesOn /\ sent # <<>>
    BY <1>1, <1>4 DEF HttpDeltaStep, HttpIInv, Speaks
  <2>2. PICK event : event.kind = "TextDelta" /\ Http!Send(event)
    BY <1>4 DEF HttpDeltaStep
  <2>3. CASE listening
    <3>1. sent' = Append(sent, event) /\ IsOver' = FALSE /\ UNCHANGED userVars
      BY <1>4, <2>2, <2>3 DEF HttpDeltaStep, Http!Send, IsOver
    <3> QED  BY <1>0, <2>1, <2>2, <2>3, <3>1, SendIsSend
  <2>4. CASE ~listening
    BY <1>4, <2>2, <2>4, ReturnIsReturn DEF HttpDeltaStep, Http!Send, IsOver
  <2> QED  BY <2>3, <2>4
<1>5. CASE HttpQuietStep
  BY <1>5, NothingIsStutter DEF HttpQuietStep, IsOver
<1>6. CASE HttpUserStep
  <2>1. CASE listening' = listening
    BY <1>6, <2>1, CancelIsCancel DEF HttpUserStep
  <2>2. CASE listening' = FALSE
    BY <1>6, <2>2, DropIsDrop DEF HttpUserStep, IsOver
  <2> QED  BY <1>6, <2>1, <2>2 DEF HttpUserStep
<1> QED  BY <1>2, <1>3, <1>4, <1>5, <1>6 DEF HttpStep

LEMMA ConnectorsStepIsRunStep ==
  ASSUME ConnectorsIInv, [ConnectorsNext]_connectorsVars
  PROVE  RunStep
<1>1. CASE WithText(Next)
  BY <1>1, TextTakesCliSteps, CliStepIsRunStep DEF WithText, ByText, ByHttp, ConnectorsIInv
<1>2. CASE WithCodex(Codex!Next)
  BY <1>2, CodexTakesCliSteps, CliStepIsRunStep DEF WithCodex, ByCodex, ByHttp, ConnectorsIInv
<1>3. CASE WithHttp(Http!Next)
  BY <1>3, HttpTakesHttpSteps, HttpStepIsRunStep DEF WithHttp, ByHttp, ConnectorsIInv
<1>4. CASE UNCHANGED connectorsVars
  BY <1>4, NothingIsStutter
  DEF connectorsVars, vars, workerVars, readerVars, pipeVars, childVars, userVars, IsOver
<1> QED  BY <1>1, <1>2, <1>3, <1>4 DEF ConnectorsNext

LEMMA ConnectorsBeginLikeRuns == ConnectorsInit => Run!Init
<1>1. ConnectorsInit => sent = <<>> /\ cancelled = FALSE /\ listening = TRUE /\ ~IsOver
  BY DEF ConnectorsInit, Init, Codex!Init, Http!Init, IsOver
<1> QED  BY <1>1, EmptyIsSequence DEF Run!Init, KindsOf, IsOver

\* Whatever a child prints or a server writes, the events of a run are Started,
\* deltas and one terminal event, or a Failed alone; Cancelled only for a run
\* that was asked to stop, nothing after the terminal event, and a return
\* without one only when nobody listens.
THEOREM ConnectorsSendLegalRuns == ConnectorsSpec => ImplementsRunSafety
<1>1. ConnectorsIInv /\ [ConnectorsNext]_connectorsVars => [Run!Next]_(Run!vars)
  BY ConnectorsStepIsRunStep DEF RunStep
<1>2. ConnectorsSpec => ConnectorsSafety
  BY PTL DEF ConnectorsSpec, ConnectorsSafety
<1> QED
  BY <1>1, <1>2, ConnectorsBeginLikeRuns, ConnectorsInvariance, PTL
  DEF ConnectorsSafety, ImplementsRunSafety

-----------------------------------------------------------------------------
(* What FlattenSeq makes of a sequence with one more at its end, by        *)
(* induction over its length.                                              *)

\* A set of numbers with 0 and the successor of each of its members has them all.
LEMMA Induction ==
  ASSUME NEW K \in SUBSET Nat, 0 \in K, \A n \in K : n + 1 \in K
  PROVE  K = Nat
<1> SUFFICES ASSUME Nat \ K # {} PROVE FALSE
  OBVIOUS
<1>1. PICK k \in Nat \ K : \A j \in Nat \ K : ~(<<j, k>> \in OpToRel(<, Nat))
  BY NatLessThanWellFounded, WFMin
<1>2. k # 0 /\ k - 1 \in Nat /\ k - 1 < k
  <2>1. k \in Nat /\ k \notin K
    OBVIOUS
  <2> QED  BY <2>1
<1>3. <<k - 1, k>> \in OpToRel(<, Nat)
  BY <1>2 DEF OpToRel
<1>4. k - 1 \in K
  BY <1>1, <1>2, <1>3, Zenon
<1>5. k - 1 + 1 = k
  BY <1>2
<1> QED  BY <1>4, <1>5

\* f joins the first texts of s, as the flatten of FlattenSeq does.
Joins(s, f, n) == f = [i \in 1..n |-> IF i = 1 THEN s[i] ELSE f[i-1] \o s[i]]

LEMMA JoinsAt ==
  ASSUME NEW s, NEW f, NEW n, Joins(s, f, n), NEW i \in 1..n
  PROVE  f[i] = IF i = 1 THEN s[i] ELSE f[i-1] \o s[i]
BY DEF Joins

LEMMA JoinExists ==
  ASSUME NEW C, NEW s \in Seq(Seq(C)), NEW n \in 0..Len(s)
  PROVE  \E f \in [1..n -> Seq(C)] : Joins(s, f, n)
<1> DEFINE P(k) == k \in 0..Len(s) => \E f \in [1..k -> Seq(C)] : Joins(s, f, k)
           K == {k \in Nat : P(k)}
<1>0. Len(s) \in Nat /\ \A i \in 1..Len(s) : s[i] \in Seq(C)
  OBVIOUS
<1>1. 0 \in K
  <2>1. [i \in 1..0 |-> <<>>] \in [1..0 -> Seq(C)] /\ Joins(s, [i \in 1..0 |-> <<>>], 0)
    BY DEF Joins
  <2> QED  BY <2>1
<1>2. ASSUME NEW k \in K, k + 1 \in 0..Len(s)
      PROVE  \E f \in [1..(k+1) -> Seq(C)] : Joins(s, f, k + 1)
  <2>1. PICK f \in [1..k -> Seq(C)] : Joins(s, f, k)
    BY <1>0, <1>2
  <2> DEFINE g == [i \in 1..(k+1) |-> IF i = k + 1 THEN (IF i = 1 THEN s[i] ELSE f[k] \o s[i])
                                      ELSE f[i]]
  <2>2. \A i \in 1..(k+1) : g[i] \in Seq(C)
    <3> SUFFICES ASSUME NEW i \in 1..(k+1) PROVE g[i] \in Seq(C)
      OBVIOUS
    <3>1. k \in Nat /\ k + 1 <= Len(s)
      BY <1>0, <1>2
    <3>2. CASE i = k + 1
      BY <1>0, <3>1, <3>2, ConcatProperties
    <3>3. CASE i # k + 1
      BY <3>1, <3>3
    <3> QED  BY <3>2, <3>3
  <2>3. \A i \in 1..(k+1) : g[i] = IF i = 1 THEN s[i] ELSE g[i-1] \o s[i]
    <3> SUFFICES ASSUME NEW i \in 1..(k+1) PROVE g[i] = IF i = 1 THEN s[i] ELSE g[i-1] \o s[i]
      OBVIOUS
    <3>1. CASE i = k + 1
      <4>1. i # 1 => g[i-1] = f[k]
        BY <3>1
      <4> QED  BY <3>1, <4>1
    <3>2. CASE i # k + 1
      <4>1. i \in 1..k /\ g[i] = f[i]
        BY <3>2
      <4>2. f[i] = IF i = 1 THEN s[i] ELSE f[i-1] \o s[i]
        BY <2>1, <4>1 DEF Joins
      <4>3. i # 1 => g[i-1] = f[i-1]
        BY <4>1
      <4> QED  BY <4>1, <4>2, <4>3
    <3> QED  BY <3>1, <3>2
  <2>4. g = [i \in 1..(k+1) |-> g[i]]
    OBVIOUS
  <2> HIDE DEF g
  <2>5. Joins(s, g, k + 1)
    BY <2>3, <2>4 DEF Joins
  <2>6. g \in [1..(k+1) -> Seq(C)]
    BY <2>2, <2>4
  <2> QED  BY <2>5, <2>6
<1>3. \A k \in K : k + 1 \in K
  BY <1>2
<1>4. K \in SUBSET Nat
  OBVIOUS
<1> HIDE DEF K
<1>5. K = Nat
  BY <1>1, <1>3, <1>4, Induction
<1> QED  BY <1>0, <1>5 DEF K

\* The join f of the first n texts.
\* s and t begin with the same k members.
Agree(s, t, k) == \A i \in 1..k : s[i] = t[i]

LEMMA JoinsAgree ==
  ASSUME NEW k \in Nat, NEW n \in Nat, k <= n,
         NEW s, NEW f, Joins(s, f, k), NEW t, NEW g, Joins(t, g, n),
         Agree(s, t, k)
  PROVE  Agree(f, g, k)
<1> DEFINE K == {i \in Nat : i \in 1..k => f[i] = g[i]}
<1>1. 0 \in K
  OBVIOUS
<1>2. ASSUME NEW i \in K, i + 1 \in 1..k
      PROVE  f[i+1] = g[i+1]
  <2>1. i + 1 \in 1..k /\ i + 1 \in 1..n
    BY <1>2
  <2>2. /\ f[i+1] = IF i + 1 = 1 THEN s[i+1] ELSE f[i+1-1] \o s[i+1]
        /\ g[i+1] = IF i + 1 = 1 THEN t[i+1] ELSE g[i+1-1] \o t[i+1]
    BY <2>1, JoinsAt
  <2>3. s[i+1] = t[i+1]
    BY <1>2 DEF Agree
  <2>4. i + 1 - 1 = i /\ (i + 1 # 1 => i \in 1..k)
    BY <1>2
  <2> QED  BY <1>2, <2>2, <2>3, <2>4
<1>3. \A i \in K : i + 1 \in K
  BY <1>2
<1>4. K \in SUBSET Nat
  OBVIOUS
<1> HIDE DEF K
<1>5. K = Nat
  BY <1>1, <1>3, <1>4, Induction
<1> QED  BY <1>5 DEF K, Agree

LEMMA FlattenIsJoin ==
  ASSUME NEW C, NEW s \in Seq(Seq(C)), s # <<>>
  PROVE  \E f \in [1..Len(s) -> Seq(C)] : Joins(s, f, Len(s)) /\ FlattenSeq(s) = f[Len(s)]
<1> DEFINE n == Len(s)
           J == CHOOSE f : f = [i \in 1..n |-> IF i = 1 THEN s[i] ELSE f[i-1] \o s[i]]
<1>1. n \in Nat \ {0}
  BY EmptySeq, LenProperties
<1>2. FlattenSeq(s) = J[n]
  BY <1>1 DEF FlattenSeq
<1>3. PICK f \in [1..n -> Seq(C)] : Joins(s, f, n)
  <2>1. n \in 0..Len(s)
    BY ONLY <1>1
  <2> HIDE DEF n
  <2> QED  BY ONLY <2>1, s \in Seq(Seq(C)), JoinExists
<1>4. Joins(s, J, n)
  BY ONLY <1>3, Zenon DEF Joins
<1> HIDE DEF J, n
<1>5. \A i \in 1..n : J[i] = f[i]
  <2>1. n \in Nat /\ n <= n /\ Agree(s, s, n)
    BY <1>1 DEF Agree
  <2>2. Agree(J, f, n)
    BY <1>3, <1>4, <2>1, JoinsAgree
  <2> QED  BY <2>2 DEF Agree
<1>6. J[n] = f[n]
  BY <1>1, <1>5
<1> QED  BY <1>2, <1>3, <1>6 DEF n

\* Sequences are put together in any order.
Associates(a, b, c) == (a \o b) \o c = a \o (b \o c)

LEMMA SequencesAssociate ==
  ASSUME NEW C
  PROVE  \A a, b, c \in Seq(C) : Associates(a, b, c)
<1> SUFFICES ASSUME NEW a \in Seq(C), NEW b \in Seq(C), NEW c \in Seq(C)
             PROVE  (a \o b) \o c = a \o (b \o c)
  BY DEF Associates
<1> QED  BY ConcatAssociative

\* What FlattenSeq makes of a sequence of sequences with one more at its end.
LEMMA FlattenEmpty == FlattenSeq(<<>>) = <<>>
BY DEF FlattenSeq

LEMMA FlattenAppend ==
  ASSUME NEW C, NEW s \in Seq(Seq(C)), NEW x \in Seq(C)
  PROVE  /\ FlattenSeq(s) \in Seq(C)
         /\ FlattenSeq(Append(s, x)) = FlattenSeq(s) \o x
<1> DEFINE t == Append(s, x)
           n == Len(s)
<1>1. /\ t \in Seq(Seq(C)) /\ Len(t) = n + 1 /\ t[n+1] = x /\ n \in Nat
      /\ \A i \in 1..n : t[i] = s[i]
  BY AppendProperties, LenProperties
<1>2. t # <<>>
  BY <1>1, EmptySeq
<1>3. PICK g \in [1..(n+1) -> Seq(C)] : Joins(t, g, n + 1) /\ FlattenSeq(t) = g[n+1]
  <2> HIDE DEF t
  <2> QED  BY <1>1, <1>2, FlattenIsJoin
<1>4. g[n+1] = IF n + 1 = 1 THEN t[n+1] ELSE g[n+1-1] \o t[n+1]
  <2> HIDE DEF t
  <2>1. n + 1 \in 1..(n+1)
    BY <1>1
  <2> QED  BY <1>3, <2>1, JoinsAt
<1>5. CASE s = <<>>
  <2>1. n = 0 /\ FlattenSeq(s) = <<>>
    BY <1>5, FlattenEmpty
  <2>2. FlattenSeq(t) = x /\ <<>> \o x = x
    BY <1>1, <1>3, <1>4, <2>1, ConcatEmptySeq
  <2>3. <<>> \in Seq(C)
    OBVIOUS
  <2> QED  BY <2>1, <2>2, <2>3
<1>6. CASE s # <<>>
  <2>1. n # 0
    BY <1>6, EmptySeq
  <2>2. PICK f \in [1..n -> Seq(C)] : Joins(s, f, n) /\ FlattenSeq(s) = f[n]
    BY <1>6, FlattenIsJoin
  <2>3. \A i \in 1..n : f[i] = g[i]
    <3>1. Agree(s, t, n)
      BY <1>1 DEF Agree
    <3> DEFINE m == n + 1
    <3>2. n \in Nat /\ m \in Nat /\ n <= m
      BY <1>1
    <3>3. Joins(t, g, m) /\ Joins(s, f, n)
      BY <1>3, <2>2
    <3> HIDE DEF t, n, m
    <3>4. Agree(f, g, n)
      BY <3>1, <3>2, <3>3, JoinsAgree
    <3> QED  BY <3>4 DEF Agree
  <2>4. g[n] = f[n] /\ f[n] \in Seq(C) /\ n + 1 - 1 = n /\ n + 1 # 1
    BY <1>1, <2>1, <2>3
  <2> QED  BY <1>1, <1>3, <1>4, <2>2, <2>4
<1> QED  BY <1>5, <1>6

-----------------------------------------------------------------------------
(* What FoldFunction makes of the lengths of the sequences of a function:  *)
(* a sum, which moves with each of them.                                   *)

Lengths(f) == FoldFunction(LAMBDA t, n : Len(t) + n, 0, f)

Pick(T) == CHOOSE x \in T : TRUE

\* h sums the lengths of the sequences of f over the sets of U, as the fold does.
SumStep(f, h, T) == IF T = {} THEN 0 ELSE Len(f[Pick(T)]) + h[T \ {Pick(T)}]

Sums(f, h, U) == h = [T \in U |-> SumStep(f, h, T)]

LEMMA SumsAt ==
  ASSUME NEW f, NEW h, NEW U, Sums(f, h, U), NEW T \in U
  PROVE  h[T] = SumStep(f, h, T)
BY DEF Sums

LEMMA SumAt ==
  ASSUME NEW f, NEW h, NEW S, Sums(f, h, SUBSET S), NEW T \in SUBSET S
  PROVE  h[T] = SumStep(f, h, T)
BY DEF Sums

\* The sets of no more than k members of S.
Small(S, k) == {T \in SUBSET S : Cardinality(T) <= k}

LEMMA OneLess ==
  ASSUME NEW S, IsFiniteSet(S), NEW k \in Nat, NEW T \in Small(S, k + 1), T # {}
  PROVE  Pick(T) \in T /\ T \ {Pick(T)} \in Small(S, k)
<1>1. Pick(T) \in T
  BY DEF Pick
<1>2. IsFiniteSet(T) /\ Cardinality(T) \in Nat /\ Cardinality(T) <= k + 1
  BY FS_Subset, FS_CardinalityType DEF Small
<1>3. Cardinality(T \ {Pick(T)}) = Cardinality(T) - 1
  BY <1>1, <1>2, FS_RemoveElement
<1>4. T \ {Pick(T)} \in SUBSET S
  BY DEF Small
<1> HIDE DEF Pick
<1>5. Cardinality(T \ {Pick(T)}) <= k
  BY <1>2, <1>3
<1> QED  BY <1>1, <1>4, <1>5 DEF Small

LEMMA SmallIsAll ==
  ASSUME NEW S, IsFiniteSet(S)
  PROVE  Cardinality(S) \in Nat /\ SUBSET S = Small(S, Cardinality(S))
BY FS_Subset, FS_CardinalityType DEF Small

LEMMA SumExists ==
  ASSUME NEW S, IsFiniteSet(S), NEW C, NEW f \in [S -> Seq(C)]
  PROVE  \E h \in [SUBSET S -> Nat] : Sums(f, h, SUBSET S)
<1> DEFINE K == {k \in Nat : \E h \in [Small(S, k) -> Nat] : Sums(f, h, Small(S, k))}
<1>1. 0 \in K
  <2> DEFINE h == [T \in Small(S, 0) |-> 0]
  <2>1. \A T \in Small(S, 0) : T = {}
    BY FS_Subset, FS_EmptySet, FS_CardinalityType DEF Small
  <2>2. Sums(f, h, Small(S, 0))
    BY <2>1 DEF Sums, SumStep
  <2> QED  BY <2>2
<1>2. ASSUME NEW k \in K
      PROVE  k + 1 \in K
  <2>1. PICK h \in [Small(S, k) -> Nat] : Sums(f, h, Small(S, k))
    OBVIOUS
  <2> DEFINE g == [T \in Small(S, k + 1) |->
                     SumStep(f, h, T)]
  <2>2. \A T \in Small(S, k + 1) : g[T] \in Nat
    <3> SUFFICES ASSUME NEW T \in Small(S, k + 1), T # {} PROVE SumStep(f, h, T) \in Nat
      BY DEF SumStep
    <3>1. Pick(T) \in S /\ h[T \ {Pick(T)}] \in Nat
      BY OneLess DEF Small
    <3>2. Len(f[Pick(T)]) \in Nat
      BY <3>1
    <3> QED  BY <3>1, <3>2 DEF SumStep
  <2>3. \A T \in Small(S, k) : T \in Small(S, k + 1) /\ g[T] = h[T]
    <3> SUFFICES ASSUME NEW T \in Small(S, k) PROVE T \in Small(S, k + 1) /\ g[T] = h[T]
      OBVIOUS
    <3>1. T \in Small(S, k + 1)
      BY FS_Subset, FS_CardinalityType DEF Small
    <3>2. h[T] = SumStep(f, h, T)
      BY <2>1, SumsAt
    <3> QED  BY <3>1, <3>2
  <2>4. \A T \in Small(S, k + 1) : T # {} => g[T \ {Pick(T)}] = h[T \ {Pick(T)}]
    BY <2>3, OneLess
  <2>5. g \in [Small(S, k + 1) -> Nat]
    BY <2>2
  <2>6. Sums(f, g, Small(S, k + 1))
    <3>1. \A T \in Small(S, k + 1) : SumStep(f, g, T) = SumStep(f, h, T)
      <4> HIDE DEF g
      <4> QED  BY <2>4 DEF SumStep
    <3> QED  BY <3>1 DEF Sums
  <2> QED  BY <2>5, <2>6
<1>3. K \in SUBSET Nat
  OBVIOUS
<1> HIDE DEF K
<1>4. K = Nat
  BY <1>1, <1>2, <1>3, Induction
<1>5. Cardinality(S) \in K
  BY <1>4, SmallIsAll
<1> QED  BY <1>5, SmallIsAll DEF K

IsSum(f, h, S) ==
  h \in [SUBSET S -> Nat] /\ (\A T \in SUBSET S : h[T] = SumStep(f, h, T)) /\ Lengths(f) = h[S]

LEMMA LengthsIsSum ==
  ASSUME NEW S, IsFiniteSet(S), NEW C, NEW f \in [S -> Seq(C)]
  PROVE  \E h : IsSum(f, h, S)
<1> DEFINE J == CHOOSE h : h = [T \in SUBSET S |->
                  IF T = {} THEN 0 ELSE Len(f[CHOOSE x \in T : TRUE]) + h[T \ {CHOOSE x \in T : TRUE}]]
           I == CHOOSE h : Sums(f, h, SUBSET S)
<1>1. Lengths(f) = J[S]
  BY DEF Lengths, FoldFunction, FoldFunctionOnSet, MapThenFoldSet
<1>2. J = I
  BY DEF Sums, SumStep, Pick
<1>3. PICK h \in [SUBSET S -> Nat] : Sums(f, h, SUBSET S)
  BY SumExists
<1>4. Sums(f, I, SUBSET S)
  BY <1>3, Zenon
<1> HIDE DEF I, J
<1>5. I[S] \in Nat /\ I \in [SUBSET S -> Nat]
  <2> DEFINE K == {k \in Nat : \A T \in Small(S, k) : I[T] \in Nat}
  <2>1. 0 \in K
    <3> SUFFICES ASSUME NEW T \in Small(S, 0) PROVE I[T] \in Nat
      OBVIOUS
    <3>1. T = {} /\ T \in SUBSET S
      BY FS_Subset, FS_EmptySet, FS_CardinalityType DEF Small
    <3>2. I[T] = SumStep(f, I, T)
      BY <1>4, <3>1, SumsAt
    <3> QED  BY <3>1, <3>2 DEF SumStep
  <2>2. ASSUME NEW k \in K, NEW T \in Small(S, k + 1)
        PROVE  I[T] \in Nat
    <3>0. T \in SUBSET S
      BY DEF Small
    <3>1. I[T] = SumStep(f, I, T)
      BY <1>4, <3>0, SumsAt
    <3>2. T # {} => I[T \ {Pick(T)}] \in Nat /\ Pick(T) \in S
      BY OneLess DEF Small
    <3>3. T # {} => Len(f[Pick(T)]) \in Nat
      BY <3>2
    <3> QED  BY <3>1, <3>2, <3>3 DEF SumStep
  <2>3. \A k \in K : k + 1 \in K
    BY <2>2
  <2>4. K \in SUBSET Nat
    OBVIOUS
  <2> HIDE DEF K
  <2>5. K = Nat
    BY <2>1, <2>3, <2>4, Induction
  <2>6. \A T \in SUBSET S : I[T] \in Nat
    BY <2>5, SmallIsAll DEF K
  <2> QED  BY <1>4, <2>6 DEF Sums
<1>6. \A T \in SUBSET S : I[T] = SumStep(f, I, T)
  BY <1>4, SumAt
<1> QED  BY <1>1, <1>2, <1>5, <1>6 DEF IsSum

\* One of the sequences is replaced.
IsReplaced(f2, f, S, C, x, t) ==
  /\ f \in [S -> Seq(C)] /\ f2 \in [S -> Seq(C)] /\ x \in S /\ t \in Seq(C)
  /\ \A y \in S : f2[y] = IF y = x THEN t ELSE f[y]

LEMMA SumOfReplaced ==
  ASSUME NEW S, IsFiniteSet(S), NEW C, NEW f, NEW f2, NEW x, NEW t, IsReplaced(f2, f, S, C, x, t)
  PROVE  /\ Lengths(f) \in Nat
         /\ Lengths(f2) + Len(f[x]) = Lengths(f) + Len(t)
<1>1. /\ f \in [S -> Seq(C)] /\ f2 \in [S -> Seq(C)] /\ x \in S /\ t \in Seq(C)
      /\ \A y \in S : f2[y] = IF y = x THEN t ELSE f[y]
  BY DEF IsReplaced
<1>2. PICK h \in [SUBSET S -> Nat] : (\A T \in SUBSET S : h[T] = SumStep(f, h, T)) /\ Lengths(f) = h[S]
  <2>1. \E u : IsSum(f, u, S)
    BY <1>1, LengthsIsSum
  <2> QED  BY <2>1 DEF IsSum
<1>3. PICK g \in [SUBSET S -> Nat] : (\A T \in SUBSET S : g[T] = SumStep(f2, g, T)) /\ Lengths(f2) = g[S]
  <2>1. \E u : IsSum(f2, u, S)
    BY <1>1, LengthsIsSum
  <2> QED  BY <2>1 DEF IsSum
<1> DEFINE Differ(T) == IF x \in T THEN g[T] + Len(f[x]) = h[T] + Len(t) ELSE g[T] = h[T]
           K == {k \in Nat : \A T \in Small(S, k) : Differ(T)}
<1>4. 0 \in K
  <2>1. \A T \in Small(S, 0) : T = {} /\ T \in SUBSET S
    BY FS_Subset, FS_EmptySet, FS_CardinalityType DEF Small
  <2> QED  BY <1>2, <1>3, <2>1 DEF SumStep
<1>5. ASSUME NEW k \in K, NEW T \in Small(S, k + 1)
      PROVE  Differ(T)
  <2>1. /\ h[T] = SumStep(f, h, T)
        /\ g[T] = SumStep(f2, g, T)
        /\ T \in SUBSET S
    <3>1. T \in SUBSET S
      BY DEF Small
    <3> HIDE DEF K, Differ
    <3>2. h[T] = SumStep(f, h, T)
      BY <1>2, <3>1
    <3>3. g[T] = SumStep(f2, g, T)
      BY <1>3, <3>1
    <3> QED  BY <3>1, <3>2, <3>3
  <2>2. CASE T = {}
    BY <2>1, <2>2 DEF SumStep
  <2>3. CASE T # {}
    <3> DEFINE c == Pick(T)
               R == T \ {c}
    <3>1. c \in T /\ R \in Small(S, k) /\ R \in SUBSET S
      BY <2>1, <2>3, OneLess
    <3>2. h[T] = Len(f[c]) + h[R] /\ g[T] = Len(f2[c]) + g[R] /\ Differ(R)
      BY <2>1, <2>3, <3>1 DEF SumStep
    <3>3. x \in R <=> (x \in T /\ x # c)
      OBVIOUS
    <3>4. h[R] \in Nat /\ g[R] \in Nat /\ Len(f[x]) \in Nat /\ Len(t) \in Nat /\ Len(f[c]) \in Nat
      <4>1. c \in S
        BY <2>1, <3>1
      <4> HIDE DEF c, R, K
      <4>2. f[c] \in Seq(C) /\ f[x] \in Seq(C) /\ t \in Seq(C)
        BY <1>1, <4>1
      <4> QED  BY <3>1, <4>2
    <3>5. f2[c] = IF c = x THEN t ELSE f[c]
      BY <1>1, <2>1, <3>1
    <3> HIDE DEF c, R
    <3>6. CASE c = x
      BY <3>1, <3>2, <3>3, <3>4, <3>5, <3>6
    <3>7. CASE c # x
      <4>1. CASE x \in T
        <5>1. g[R] + Len(f[x]) = h[R] + Len(t) /\ h[T] = Len(f[c]) + h[R] /\ g[T] = Len(f[c]) + g[R]
          BY <3>2, <3>3, <3>5, <3>7, <4>1
        <5> DEFINE a == h[R]
                   b == g[R]
                   u == Len(f[x])
                   v == Len(t)
                   w == Len(f[c])
        <5>2. a \in Nat /\ b \in Nat /\ u \in Nat /\ v \in Nat /\ w \in Nat /\ b + u = a + v
          BY <3>4, <5>1
        <5>3. g[T] = w + b /\ h[T] = w + a
          BY <5>1
        <5>4. (w + b) + u = (w + a) + v
          <6> HIDE DEF a, b, u, v, w, K
          <6> QED  BY ONLY <5>2
        <5> QED  BY <4>1, <5>3, <5>4
      <4>2. CASE x \notin T
        BY <3>2, <3>3, <3>4, <3>5, <3>7, <4>2
      <4> QED  BY <4>1, <4>2
    <3> QED  BY <3>6, <3>7
  <2> QED  BY <2>2, <2>3
<1> HIDE DEF Differ
<1>6. \A k \in K : k + 1 \in K
  BY <1>5
<1>7. K \in SUBSET Nat
  OBVIOUS
<1> HIDE DEF K
<1>8. K = Nat
  BY <1>4, <1>6, <1>7, Induction
<1>9. Differ(S)
  BY <1>8, SmallIsAll DEF K
<1> QED  BY <1>1, <1>2, <1>3, <1>9 DEF Differ

LEMMA SumIsNat ==
  ASSUME NEW S, IsFiniteSet(S), NEW C, NEW f \in [S -> Seq(C)]
  PROVE  Lengths(f) \in Nat
<1>1. \E h : IsSum(f, h, S)
  BY LengthsIsSum
<1> QED  BY <1>1 DEF IsSum

LEMMA SumOfEmpty ==
  ASSUME NEW S, IsFiniteSet(S)
  PROVE  Lengths([x \in S |-> <<>>]) = 0
<1> DEFINE f == [x \in S |-> <<>>]
<1>1. f \in [S -> Seq(Nat)] /\ \A y \in S : Len(f[y]) = 0
  OBVIOUS
<1> HIDE DEF f
<1>2. PICK h \in [SUBSET S -> Nat] : (\A T \in SUBSET S : h[T] = SumStep(f, h, T)) /\ Lengths(f) = h[S]
  <2>1. \E u : IsSum(f, u, S)
    BY <1>1, LengthsIsSum
  <2> QED  BY <2>1 DEF IsSum
<1> DEFINE K == {k \in Nat : \A T \in Small(S, k) : h[T] = 0}
<1>4. 0 \in K
  <2>1. \A T \in Small(S, 0) : T = {} /\ T \in SUBSET S
    BY FS_Subset, FS_EmptySet, FS_CardinalityType DEF Small
  <2> QED  BY <1>2, <2>1 DEF SumStep
<1>5. ASSUME NEW k \in K, NEW T \in Small(S, k + 1)
      PROVE  h[T] = 0
  <2>0. T \in SUBSET S
    BY DEF Small
  <2>1. h[T] = SumStep(f, h, T)
    BY <1>2, <2>0, SumsAt
  <2>2. T # {} => Pick(T) \in S /\ h[T \ {Pick(T)}] = 0
    BY OneLess DEF Small
  <2> QED  BY <1>1, <2>1, <2>2 DEF SumStep
<1>6. \A k \in K : k + 1 \in K
  BY <1>5
<1>7. K \in SUBSET Nat
  OBVIOUS
<1> HIDE DEF K
<1>8. K = Nat
  BY <1>4, <1>6, <1>7, Induction
<1> QED  BY <1>2, <1>8, SmallIsAll DEF K, f

-----------------------------------------------------------------------------
(* The types of a CLI run, and that its steps keep them.                   *)

CliMessage == [kind : EventKind, text : Seq(Nat), cause : Causes]

\* The types of a CLI run, its buffers within their limits.
CliTypes ==
  /\ sent \in Seq(CliMessage)
  /\ stdout \in Seq(Printable) /\ lines \in Seq(Printable) /\ printed \in Seq(Printable)
  /\ snapshots \in [Items -> {line.text : line \in Printable} \cup {<<>>}]
  /\ turnCompleted \in BOOLEAN /\ helper \in BOOLEAN
  /\ unwritten \in 0..PromptSize /\ stdin \in 0..PipeSize /\ stderr \in 0..PipeSize
  /\ collected \in 0..ErrorLimit /\ Len(stdout) <= PipeSize
  /\ child \in {"none", "running", "succeeded", "failed", "killed"}
  /\ outReader \in {"off", "reading", "done"} /\ errReader \in {"off", "reading", "done"}

LEMMA PrintableLines ==
  ASSUME NEW line \in Printable
  PROVE  /\ line.text \in Seq(Nat)
         /\ ByText => line.kind \in {"text", "unreadable"}
         /\ ~ByText => line.kind # "text"
         /\ line.kind = "item" => line.id \in Items
BY SizesAssumption, FormatsAssumption
DEF Printable, LinesAssumption, Codex!LinesAssumption

LEMMA SizesAreNat ==
  /\ PromptSize \in Nat \ {0} /\ PipeSize \in Nat \ {0} /\ ErrorLimit \in Nat \ {0}
  /\ IsFiniteSet(Items)
BY SizesAssumption DEF LinesAssumption

LEMMA MessagesAreTyped ==
  /\ Started \in CliMessage /\ Completed \in CliMessage /\ Cancelled \in CliMessage
  /\ \A cause \in Causes : Failed(cause) \in CliMessage
  /\ \A text \in Seq(Nat) : Delta(text) \in CliMessage
  /\ \A text : Delta(text).text = text /\ Delta(text) # Completed
  /\ Started.text = <<>> /\ Started # Completed
<1> USE DEF CliMessage, Message, EventKind, Causes
<1>1. <<>> \in Seq(Nat)
  OBVIOUS
<1>2. Started \in CliMessage /\ Completed \in CliMessage /\ Cancelled \in CliMessage
  BY <1>1 DEF Started, Completed, Cancelled
<1>3. \A cause \in Causes : Failed(cause) \in CliMessage
  BY <1>1 DEF Failed
<1>4. \A text \in Seq(Nat) : Delta(text) \in CliMessage
  BY DEF Delta
<1>5. \A text : Delta(text).text = text /\ Delta(text) # Completed
  BY DEF Delta, Completed
<1>6. Started.text = <<>> /\ Started # Completed
  BY DEF Started, Completed
<1> QED  BY <1>2, <1>3, <1>4, <1>5, <1>6

\* What is new in a line is text.
LEMMA NewTextIsText ==
  ASSUME CliTypes, NEW line \in Printable, ~Rejects(line)
  PROVE  /\ NewText(line) \in Seq(Nat)
         /\ line.kind = "text" => NewText(line) = line.text
         /\ line.kind = "item" =>
              /\ snapshots[line.id] \in Seq(Nat)
              /\ Len(NewText(line)) + Len(snapshots[line.id]) = Len(line.text)
         /\ line.kind \notin {"text", "item"} => NewText(line) = <<>>
<1>1. line.text \in Seq(Nat) /\ (line.kind = "item" => line.id \in Items)
  BY PrintableLines
<1>2. CASE line.kind = "text"
  BY <1>1, <1>2 DEF NewText
<1>3. CASE line.kind = "item"
  <2> DEFINE old == snapshots[line.id]
  <2>1. old \in Seq(Nat)
    <3>1. old \in {l.text : l \in Printable} \cup {<<>>}
      BY <1>1, <1>3 DEF CliTypes
    <3>2. CASE old = <<>>
      BY <3>2
    <3>3. CASE \E l \in Printable : old = l.text
      BY <3>3, PrintableLines
    <3> QED  BY <3>1, <3>2, <3>3
  <2>2. Len(old) <= Len(line.text)
    BY <1>3 DEF Rejects, IsPrefix
  <2>3. NewText(line) = SubSeq(line.text, Len(old) + 1, Len(line.text))
    BY <1>3 DEF NewText
  <2> HIDE DEF old
  <2>4. /\ NewText(line) \in Seq(Nat)
        /\ Len(NewText(line)) = Len(line.text) - Len(old)
    BY <1>1, <2>1, <2>2, <2>3
  <2>5. Len(NewText(line)) + Len(old) = Len(line.text)
    BY <1>1, <2>1, <2>4
  <2> QED  BY <1>3, <2>1, <2>4, <2>5 DEF old
<1>4. CASE line.kind \notin {"text", "item"}
  <2>1. line.kind # "text" /\ line.kind # "item"
    BY <1>4
  <2>2. NewText(line) = <<>>
    BY <2>1 DEF NewText
  <2>3. <<>> \in Seq(Nat)
    OBVIOUS
  <2> QED  BY <2>1, <2>2, <2>3
<1> QED  BY <1>2, <1>3, <1>4

LEMMA SendTypes ==
  ASSUME CliTypes, NEW event \in CliMessage, Send(event)
  PROVE  sent' \in Seq(CliMessage)
BY DEF Send, CliTypes

LEMMA CliTypesKept ==
  ASSUME CliIInv, CliTypes, FullStep, connector' = connector
  PROVE  CliTypes'
<1> USE SizesAreNat DEF workerVars, readerVars, pipeVars, childVars, userVars, GoTo
<1>0. Printable' = Printable
  BY DEF Printable, ByText
<1>1. \A cause \in {"spawn", "prompt", "output", "poll", "exit", "incomplete"} : Failed(cause) \in CliMessage
  BY MessagesAreTyped DEF Causes
<1>2. CASE SpawnFails
  BY <1>0, <1>1, <1>2, SendTypes DEF SpawnFails, CliTypes
<1>3. CASE SpawnChild
  BY <1>0, <1>3 DEF SpawnChild, CliTypes
<1>4. CASE Announce
  <2>1. sent' \in Seq(CliMessage)
    BY <1>4, SendTypes, MessagesAreTyped DEF Announce
  <2> QED  BY <1>0, <1>4, <2>1 DEF Announce, TerminateChild, CliTypes
<1>5. CASE WritePrompt
  BY <1>0, <1>5 DEF WritePrompt, CliTypes
<1>6. CASE PromptFails
  BY <1>0, <1>1, <1>6, SendTypes DEF PromptFails, TerminateChild, CliTypes
<1>7. CASE PromptWritten
  BY <1>0, <1>7 DEF PromptWritten, CliTypes
<1>8. ASSUME lines # <<>>, lines' = Tail(lines)
      PROVE  Head(lines) \in Printable /\ lines' \in Seq(Printable)
  BY <1>8 DEF CliTypes
<1>9. ASSUME lines # <<>>, lines' = Tail(lines), ~Rejects(Head(lines)), Remember(Head(lines))
      PROVE  snapshots' \in [Items -> {line.text : line \in Printable} \cup {<<>>}] /\ turnCompleted' \in BOOLEAN
  <2> DEFINE line == Head(lines)
             T == {l.text : l \in Printable} \cup {<<>>}
  <2>1. line \in Printable /\ line.text \in T /\ (line.kind = "item" => line.id \in Items)
    BY <1>8, <1>9, PrintableLines
  <2>2. snapshots \in [Items -> T] /\ turnCompleted \in BOOLEAN
    BY DEF CliTypes
  <2>3. turnCompleted' \in BOOLEAN
    BY <1>9, <2>2 DEF Remember
  <2>4. snapshots' = IF line.kind = "item" THEN [snapshots EXCEPT ![line.id] = line.text] ELSE snapshots
    BY <1>9 DEF Remember
  <2> HIDE DEF line, T
  <2>5. snapshots' \in [Items -> T]
    BY <2>1, <2>2, <2>4
  <2> QED  BY <2>3, <2>5 DEF T
<1>10. CASE ForwardLine
  <2>1. sent' \in Seq(CliMessage)
    <3>1. Delta(NewText(Head(lines))) \in CliMessage
      BY <1>8, <1>10, NewTextIsText, MessagesAreTyped DEF ForwardLine
    <3>2. sent' = sent \/ sent' = Append(sent, Delta(NewText(Head(lines))))
      BY <1>10 DEF ForwardLine
    <3>3. sent \in Seq(CliMessage)
      BY DEF CliTypes
    <3> HIDE DEF CliTypes
    <3> QED  BY <3>1, <3>2, <3>3
  <2> QED  BY <1>0, <1>8, <1>9, <1>10, <2>1 DEF ForwardLine, CliTypes
<1>11. CASE ForwardToNobody
  BY <1>0, <1>8, <1>9, <1>11 DEF ForwardToNobody, CliTypes
<1>12. CASE OutputRejected
  <2>1. sent' \in Seq(CliMessage)
    <3>1. Send(Failed("output")) \/ sent' = sent
      BY <1>12 DEF OutputRejected
    <3> QED  BY <1>1, <3>1, SendTypes DEF CliTypes
  <2> QED  BY <1>0, <1>8, <1>12, <2>1 DEF OutputRejected, CliTypes
<1>13. CASE NothingToForward \/ CheckToken \/ ChildRuns \/ PollFails \/ ChildHasExited \/ JoinExited
  BY <1>0, <1>13
  DEF NothingToForward, CheckToken, ChildRuns, PollFails, ChildHasExited, JoinExited, WorkerMoves, CliTypes
<1>14. CASE Terminate
  BY <1>0, <1>14 DEF Terminate, TerminateChild, CliTypes
<1>15. CASE JoinTerminated
  <2>1. sent' \in Seq(CliMessage)
    <3>1. ending = Nothing => sent' = sent
      BY <1>15 DEF JoinTerminated
    <3>2. ending # Nothing => ending \in CliMessage /\ Send(ending)
      BY <1>1, <1>15, MessagesAreTyped DEF JoinTerminated, CliIInv
    <3> QED  BY <3>1, <3>2, SendTypes DEF CliTypes
  <2> QED  BY <1>0, <1>15, <2>1 DEF JoinTerminated, CliTypes
<1>16. ASSUME NEW event \in {Failed("exit"), Failed("incomplete"), Completed}, Concludes(event)
       PROVE  CliTypes'
  <2>1. sent' \in Seq(CliMessage)
    BY <1>1, <1>16, SendTypes, MessagesAreTyped DEF Concludes, EndsWith
  <2> QED  BY <1>0, <1>16, <2>1 DEF Concludes, EndsWith, CliTypes
<1>17. CASE ReadLine
  <2>1. Head(stdout) \in Printable /\ stdout' \in Seq(Printable) /\ lines' \in Seq(Printable) /\ Len(stdout') <= PipeSize
    BY <1>17 DEF ReadLine, CliTypes
  <2> QED  BY <1>0, <1>17, <2>1 DEF ReadLine, CliTypes
<1>18. CASE StdoutEnds \/ StderrEnds
  BY <1>0, <1>18 DEF StdoutEnds, StderrEnds, CliTypes
<1>19. CASE ReadStderr
  BY <1>0, <1>19 DEF ReadStderr, CliTypes
<1>20. CASE ChildReads
  BY <1>0, <1>20 DEF ChildReads, CliTypes
<1>21. CASE Complains
  BY <1>0, <1>21 DEF Complains, CliTypes
<1>22. CASE ChildExits \/ ChildStartsHelper \/ HelperExits
  BY <1>0, <1>22 DEF ChildExits, ChildStartsHelper, HelperExits, CliTypes
<1>23. ASSUME NEW line \in Printable, Prints(line)
       PROVE  CliTypes'
  <2>1. stdout' \in Seq(Printable) /\ printed' \in Seq(Printable) /\ Len(stdout') <= PipeSize
    BY <1>23 DEF Prints, CliTypes
  <2> QED  BY <1>0, <1>23, <2>1 DEF Prints, CliTypes
<1>24. CASE Cancel \/ DropRun \/ ProgramEnds
  BY <1>0, <1>24 DEF Cancel, DropRun, ProgramEnds, CliTypes
<1> QED
  BY <1>2, <1>3, <1>4, <1>5, <1>6, <1>7, <1>10, <1>11, <1>12, <1>13, <1>14, <1>15, <1>16, <1>17,
     <1>18, <1>19, <1>20, <1>21, <1>22, <1>23, <1>24
  DEF FullStep

-----------------------------------------------------------------------------
(* The lines between the child and the worker: each is taken once, in the  *)
(* order in which it was printed.                                          *)

\* How many lines the worker has taken: the others are in the channel, or in
\* the pipe.
Taken == Len(printed) - Len(lines) - Len(stdout)

InPipes ==
  /\ Len(lines) + Len(stdout) <= Len(printed)
  /\ \A i \in 1..Len(lines) : lines[i] = printed[Taken + i]
  /\ \A i \in 1..Len(stdout) : stdout[i] = printed[Taken + Len(lines) + i]

Reading == {"prompt", "forward", "token", "poll", "joinExited", "drain"}

\* The reader has left nothing in the pipe when it is done, or it has met a line
\* the worker is going to reject.
ReadsAll ==
  worker \in Reading /\ outReader = "done" =>
    stdout = <<>> \/ (lines # <<>> /\ lines[Len(lines)].kind = "unreadable")

LEMMA LengthsAreNat ==
  ASSUME CliTypes
  PROVE  /\ Len(printed) \in Nat /\ Len(lines) \in Nat /\ Len(stdout) \in Nat
         /\ (lines = <<>> <=> Len(lines) = 0) /\ (stdout = <<>> <=> Len(stdout) = 0)
BY EmptySeq, LenProperties DEF CliTypes

LEMMA TakenIsNat ==
  ASSUME CliTypes, InPipes
  PROVE  Taken \in 0..Len(printed)
BY LengthsAreNat DEF InPipes, Taken

\* The worker takes the first line of the channel.
LEMMA TakesOne ==
  ASSUME CliTypes, InPipes, lines # <<>>, lines' = Tail(lines), UNCHANGED <<stdout, printed>>
  PROVE  /\ InPipes'
         /\ Taken' = Taken + 1
         /\ Taken + 1 \in 1..Len(printed)
         /\ printed[Taken + 1] = Head(lines)
<1>1. /\ Len(lines') = Len(lines) - 1 /\ Head(lines) = lines[1]
      /\ \A i \in 1..Len(lines) - 1 : lines'[i] = lines[i + 1]
  BY DEF CliTypes
<1>2. Len(printed) \in Nat /\ Len(lines) \in Nat \ {0} /\ Len(stdout) \in Nat
  BY LengthsAreNat
<1>3. Taken \in Nat /\ Taken' = Taken + 1 /\ Taken + Len(lines) + Len(stdout) = Len(printed)
  BY <1>1, <1>2 DEF Taken, InPipes
<1>4. printed[Taken + 1] = Head(lines) /\ Taken + 1 \in 1..Len(printed)
  BY <1>1, <1>2, <1>3 DEF InPipes
<1>5. ASSUME NEW i \in 1..Len(lines')
      PROVE  lines'[i] = printed'[Taken' + i]
  <2>1. i + 1 \in 1..Len(lines) /\ lines'[i] = lines[i + 1]
    BY <1>1, <1>2
  <2>2. lines[i + 1] = printed[Taken + (i + 1)]
    BY <2>1 DEF InPipes
  <2>3. Taken + (i + 1) = Taken' + i
    BY <1>3
  <2> QED  BY <2>1, <2>2, <2>3
<1>6. ASSUME NEW i \in 1..Len(stdout')
      PROVE  stdout'[i] = printed'[Taken' + Len(lines') + i]
  <2>1. stdout[i] = printed[Taken + Len(lines) + i]
    BY DEF InPipes
  <2>2. Taken + Len(lines) + i = Taken' + Len(lines') + i
    BY <1>1, <1>2, <1>3
  <2> QED  BY <2>1, <2>2
<1>7. Len(lines') + Len(stdout') <= Len(printed')
  BY <1>1, <1>2, <1>3
<1> QED  BY <1>3, <1>4, <1>5, <1>6, <1>7 DEF InPipes

\* The reader takes the first line of the pipe.
LEMMA ReadsOne ==
  ASSUME CliTypes, InPipes, ReadLine
  PROVE  /\ InPipes'
         /\ Taken' = Taken
         /\ lines' # <<>> /\ lines'[Len(lines')] = Head(stdout)
<1>1. /\ stdout # <<>> /\ stdout' = Tail(stdout) /\ lines' = Append(lines, Head(stdout))
      /\ printed' = printed
  BY DEF ReadLine, childVars
<1>2. Len(printed) \in Nat /\ Len(lines) \in Nat /\ Len(stdout) \in Nat \ {0}
  BY <1>1, LengthsAreNat
<1>3. /\ Len(stdout') = Len(stdout) - 1 /\ Head(stdout) = stdout[1]
      /\ \A i \in 1..Len(stdout) - 1 : stdout'[i] = stdout[i + 1]
  BY <1>1 DEF CliTypes
<1>4. /\ Len(lines') = Len(lines) + 1 /\ lines'[Len(lines) + 1] = Head(stdout)
      /\ \A i \in 1..Len(lines) : lines'[i] = lines[i]
  <2>1. Head(stdout) \in Printable /\ lines \in Seq(Printable)
    BY <1>1 DEF CliTypes
  <2> QED  BY <1>1, <2>1, AppendProperties
<1>5. Taken \in Nat /\ Taken' = Taken /\ Taken + Len(lines) + Len(stdout) = Len(printed)
  BY <1>1, <1>2, <1>3, <1>4 DEF Taken, InPipes
<1>6. ASSUME NEW i \in 1..Len(lines')
      PROVE  lines'[i] = printed'[Taken' + i]
  <2>1. CASE i = Len(lines) + 1
    <3>1. stdout[1] = printed[Taken + Len(lines) + 1]
      BY <1>2 DEF InPipes
    <3>2. Taken + Len(lines) + 1 = Taken' + i
      BY <1>2, <1>5, <2>1
    <3> QED  BY <1>1, <1>3, <1>4, <2>1, <3>1, <3>2
  <2>2. CASE i # Len(lines) + 1
    <3>1. i \in 1..Len(lines) /\ lines'[i] = lines[i]
      BY <1>2, <1>4, <2>2
    <3> QED  BY <1>1, <1>5, <3>1 DEF InPipes
  <2> QED  BY <2>1, <2>2
<1>7. ASSUME NEW i \in 1..Len(stdout')
      PROVE  stdout'[i] = printed'[Taken' + Len(lines') + i]
  <2>1. i + 1 \in 1..Len(stdout) /\ stdout'[i] = stdout[i + 1]
    BY <1>2, <1>3
  <2>2. stdout[i + 1] = printed[Taken + Len(lines) + (i + 1)]
    BY <2>1 DEF InPipes
  <2>3. Taken + Len(lines) + (i + 1) = Taken' + Len(lines') + i
    BY <1>2, <1>4, <1>5
  <2> QED  BY <1>1, <2>1, <2>2, <2>3
<1>8. Len(lines') + Len(stdout') <= Len(printed')
  BY <1>1, <1>2, <1>3, <1>4, <1>5
<1>9. lines' # <<>>
  <2>1. lines' \in Seq(Printable)
    BY <1>1 DEF CliTypes
  <2> QED  BY <1>2, <1>4, <2>1, EmptySeq
<1>10. lines'[Len(lines')] = Head(stdout)
  BY <1>4
<1> QED  BY <1>5, <1>6, <1>7, <1>8, <1>9, <1>10 DEF InPipes

\* The child prints a line.
LEMMA PrintsOne ==
  ASSUME CliTypes, InPipes, NEW line \in Printable, Prints(line)
  PROVE  /\ InPipes'
         /\ Taken' = Taken
         /\ \A i \in 1..Len(printed) : printed'[i] = printed[i]
<1>1. stdout' = Append(stdout, line) /\ printed' = Append(printed, line) /\ lines' = lines
  BY DEF Prints, readerVars
<1>2. Len(printed) \in Nat /\ Len(lines) \in Nat /\ Len(stdout) \in Nat
  BY LengthsAreNat
<1>3. /\ Len(stdout') = Len(stdout) + 1 /\ stdout'[Len(stdout) + 1] = line
      /\ \A i \in 1..Len(stdout) : stdout'[i] = stdout[i]
  BY <1>1, AppendProperties DEF CliTypes
<1>4. /\ Len(printed') = Len(printed) + 1 /\ printed'[Len(printed) + 1] = line
      /\ \A i \in 1..Len(printed) : printed'[i] = printed[i]
  BY <1>1, AppendProperties DEF CliTypes
<1>5. Taken \in Nat /\ Taken' = Taken /\ Taken + Len(lines) + Len(stdout) = Len(printed)
  BY <1>1, <1>2, <1>3, <1>4 DEF Taken, InPipes
<1>6. ASSUME NEW i \in 1..Len(lines')
      PROVE  lines'[i] = printed'[Taken' + i]
  <2>1. lines[i] = printed[Taken + i] /\ Taken + i \in 1..Len(printed)
    BY <1>1, <1>2, <1>5 DEF InPipes
  <2> QED  BY <1>1, <1>4, <1>5, <2>1
<1>7. ASSUME NEW i \in 1..Len(stdout')
      PROVE  stdout'[i] = printed'[Taken' + Len(lines') + i]
  <2>1. CASE i = Len(stdout) + 1
    <3>1. Taken' + Len(lines') + i = Len(printed) + 1
      BY <1>1, <1>2, <1>5, <2>1
    <3> QED  BY <1>3, <1>4, <2>1, <3>1
  <2>2. CASE i # Len(stdout) + 1
    <3>1. i \in 1..Len(stdout) /\ stdout'[i] = stdout[i]
      BY <1>2, <1>3, <2>2
    <3>2. stdout[i] = printed[Taken + Len(lines) + i] /\ Taken + Len(lines) + i \in 1..Len(printed)
      BY <1>2, <1>5, <3>1 DEF InPipes
    <3> QED  BY <1>1, <1>4, <1>5, <3>1, <3>2
  <2> QED  BY <2>1, <2>2
<1>8. Len(lines') + Len(stdout') <= Len(printed')
  BY <1>1, <1>2, <1>3, <1>4, <1>5
<1> QED  BY <1>4, <1>5, <1>6, <1>7, <1>8 DEF InPipes

LEMMA NothingTaken ==
  ASSUME InPipes, UNCHANGED <<lines, stdout, printed>>
  PROVE  InPipes' /\ Taken' = Taken
BY DEF InPipes, Taken

\* Every step takes a line or leaves what was taken.
Takes == /\ lines # <<>> /\ lines' = Tail(lines)
         /\ UNCHANGED <<stdout, printed, outReader>>

LeavesPipes == UNCHANGED <<lines, stdout, printed>>

LEMMA StepsOnPipes ==
  ASSUME FullStep
  PROVE  \/ (ForwardLine \/ ForwardToNobody \/ OutputRejected) /\ Takes
         \/ ReadLine
         \/ \E line \in Printable : Prints(line)
         \/ LeavesPipes
<1> USE DEF LeavesPipes, workerVars, readerVars, pipeVars, childVars, userVars
<1>1. ForwardLine \/ ForwardToNobody \/ OutputRejected => Takes
  BY DEF ForwardLine, ForwardToNobody, OutputRejected, Takes
<1>2. SpawnFails \/ SpawnChild \/ Announce \/ WritePrompt \/ PromptFails \/ PromptWritten => LeavesPipes
  BY DEF SpawnFails, SpawnChild, Announce, WritePrompt, PromptFails, PromptWritten
<1>3. NothingToForward \/ CheckToken \/ ChildRuns \/ PollFails \/ ChildHasExited \/ JoinExited => LeavesPipes
  BY DEF NothingToForward, CheckToken, ChildRuns, PollFails, ChildHasExited, JoinExited, WorkerMoves
<1>4. Terminate \/ JoinTerminated => LeavesPipes
  BY DEF Terminate, JoinTerminated
<1>5. \A event : Concludes(event) => LeavesPipes
  BY DEF Concludes
<1>6. StdoutEnds \/ ReadStderr \/ StderrEnds \/ ChildReads \/ Complains => LeavesPipes
  BY DEF StdoutEnds, ReadStderr, StderrEnds, ChildReads, Complains
<1>7. ChildExits \/ ChildStartsHelper \/ HelperExits \/ Cancel \/ DropRun \/ ProgramEnds => LeavesPipes
  BY DEF ChildExits, ChildStartsHelper, HelperExits, Cancel, DropRun, ProgramEnds
<1> QED  BY <1>1, <1>2, <1>3, <1>4, <1>5, <1>6, <1>7 DEF FullStep

LEMMA InPipesKept ==
  ASSUME CliTypes, InPipes, FullStep
  PROVE  InPipes'
BY StepsOnPipes, TakesOne, ReadsOne, PrintsOne, NothingTaken DEF Takes, LeavesPipes

LEMMA ReadsAllKept ==
  ASSUME CliIInv, CliTypes, InPipes, ReadsAll, FullStep
  PROVE  ReadsAll'
<1> SUFFICES ASSUME worker' \in Reading, outReader' = "done"
             PROVE  stdout' = <<>> \/ (lines' # <<>> /\ lines'[Len(lines')].kind = "unreadable")
  BY DEF ReadsAll
<1> USE DEF workerVars, readerVars, pipeVars, childVars, userVars, GoTo, Reading
<1>1. CASE (ForwardLine \/ ForwardToNobody \/ OutputRejected) /\ Takes
  <2>1. worker \in Reading /\ outReader = "done"
    BY <1>1 DEF Takes, ForwardLine, ForwardToNobody, OutputRejected, Forwarding
  <2>2. ~Rejects(Head(lines))
    BY <1>1 DEF ForwardLine, ForwardToNobody, OutputRejected, Forwarding
  <2>3. Head(lines) = lines[1] /\ lines[1].kind # "unreadable"
    BY <1>1, <2>2 DEF Rejects, Takes, CliTypes
  <2>4. CASE stdout = <<>>
    BY <1>1, <2>4 DEF Takes
  <2>5. CASE lines # <<>> /\ lines[Len(lines)].kind = "unreadable"
    <3>1. Len(lines) \in Nat /\ Len(lines) > 1
      BY <2>3, <2>5, LengthsAreNat
    <3>2. lines' \in Seq(Printable) /\ Len(lines') = Len(lines) - 1 /\ lines'[Len(lines) - 1] = lines[Len(lines)]
      <4>1. lines \in Seq(Printable) /\ lines' = Tail(lines) /\ lines # <<>>
        BY <1>1 DEF Takes, CliTypes
      <4>2. /\ lines' \in Seq(Printable) /\ Len(lines') = Len(lines) - 1
            /\ \A i \in 1..Len(lines) - 1 : lines'[i] = lines[i + 1]
        BY <4>1
      <4>3. Len(lines) - 1 \in 1..Len(lines) - 1 /\ (Len(lines) - 1) + 1 = Len(lines)
        BY <3>1
      <4> QED  BY <4>2, <4>3
    <3>3. lines' # <<>>
      BY <3>1, <3>2, EmptySeq
    <3> QED  BY <2>5, <3>2, <3>3
  <2> QED  BY <2>1, <2>4, <2>5 DEF ReadsAll
<1>2. CASE ReadLine
  <2>1. Head(stdout).kind = "unreadable"
    BY <1>2 DEF ReadLine
  <2> QED  BY <1>2, <2>1, ReadsOne
<1>3. ASSUME NEW line \in Printable, Prints(line)
      PROVE  FALSE
  BY <1>3 DEF Prints
<1>4. CASE LeavesPipes
  <2>1. CASE worker \in Reading /\ outReader = "done"
    BY <1>4, <2>1 DEF ReadsAll, LeavesPipes
  <2>2. CASE worker \notin Reading
    <3>1. worker \in {"announce"} => outReader = "off"
      BY DEF CliIInv
    <3>2. worker = "announce" /\ outReader' = outReader
      BY <2>2
      DEF FullStep, SpawnFails, SpawnChild, Announce, WritePrompt, PromptFails, PromptWritten,
          ForwardLine, ForwardToNobody, OutputRejected, Forwarding, NothingToForward, CheckToken,
          ChildRuns, PollFails, ChildHasExited, JoinExited, WorkerMoves, Terminate, JoinTerminated,
          Concludes, EndsWith, ReadLine, StdoutEnds, ReadStderr, StderrEnds, ChildReads, Complains,
          ChildExits, ChildStartsHelper, HelperExits, Prints, Cancel, DropRun, ProgramEnds
    <3> QED  BY <3>1, <3>2
  <2>3. CASE outReader # "done"
    <3>1. StdoutEnds \/ ReadLine
      BY <2>3
      DEF FullStep, SpawnFails, SpawnChild, Announce, WritePrompt, PromptFails, PromptWritten,
          ForwardLine, ForwardToNobody, OutputRejected, Forwarding, NothingToForward, CheckToken,
          ChildRuns, PollFails, ChildHasExited, JoinExited, WorkerMoves, Terminate, JoinTerminated,
          Concludes, EndsWith, ReadLine, StdoutEnds, ReadStderr, StderrEnds, ChildReads, Complains,
          ChildExits, ChildStartsHelper, HelperExits, Prints, Cancel, DropRun, ProgramEnds
    <3> QED  BY <1>2, <3>1 DEF StdoutEnds
  <2> QED  BY <2>1, <2>2, <2>3
<1> QED  BY <1>1, <1>2, <1>3, <1>4, StepsOnPipes

-----------------------------------------------------------------------------
(* What the first members of a sequence say.                               *)

\* The texts of the first m members of s, and all that they say.
UpTo(s, m) == [i \in 1..m |-> s[i].text]

SaidUpTo(s, m) == FlattenSeq(UpTo(s, m))

SaidBy(s) == FlattenSeq([i \in DOMAIN s |-> s[i].text])

HaveTexts(s) == \A i \in DOMAIN s : s[i].text \in Seq(Nat)

LEMMA UpToIsSeq ==
  ASSUME NEW T, NEW s \in Seq(T), HaveTexts(s), NEW m \in 0..Len(s)
  PROVE  UpTo(s, m) \in Seq(Seq(Nat)) /\ Len(UpTo(s, m)) = m
<1>1. m \in Nat /\ \A i \in 1..m : s[i].text \in Seq(Nat)
  BY DEF HaveTexts
<1> QED  BY <1>1 DEF UpTo

LEMMA SaidUpToType ==
  ASSUME NEW T, NEW s \in Seq(T), HaveTexts(s), NEW m \in 0..Len(s)
  PROVE  SaidUpTo(s, m) \in Seq(Nat)
<1>1. UpTo(s, m) \in Seq(Seq(Nat))
  BY UpToIsSeq
<1>2. <<>> \in Seq(Nat)
  OBVIOUS
<1> QED  BY <1>1, <1>2, FlattenAppend DEF SaidUpTo

LEMMA SaidByNone == SaidBy(<<>>) = <<>> /\ \A s : SaidUpTo(s, 0) = <<>>
<1>1. [i \in DOMAIN <<>> |-> <<>>[i].text] = <<>>
  BY EmptySeq
<1>2. \A s : UpTo(s, 0) = <<>>
  BY DEF UpTo
<1> QED  BY <1>1, <1>2, FlattenEmpty DEF SaidBy, SaidUpTo

LEMMA SaidUpToNext ==
  ASSUME NEW T, NEW s \in Seq(T), HaveTexts(s), NEW m \in Nat, m + 1 \in 1..Len(s)
  PROVE  SaidUpTo(s, m + 1) = SaidUpTo(s, m) \o s[m + 1].text
<1>1. UpTo(s, m) \in Seq(Seq(Nat)) /\ Len(UpTo(s, m)) = m
  BY UpToIsSeq
<1>2. UpTo(s, m + 1) \in Seq(Seq(Nat)) /\ Len(UpTo(s, m + 1)) = m + 1
  BY UpToIsSeq
<1>3. s[m + 1].text \in Seq(Nat)
  BY DEF HaveTexts
<1>4. UpTo(s, m + 1) = Append(UpTo(s, m), s[m + 1].text)
  <2> DEFINE a == UpTo(s, m)
             b == UpTo(s, m + 1)
             c == Append(a, s[m + 1].text)
  <2>1. /\ c \in Seq(Seq(Nat)) /\ Len(c) = m + 1 /\ c[m + 1] = s[m + 1].text
        /\ \A i \in 1..m : c[i] = a[i]
    BY <1>1, <1>3, AppendProperties
  <2>2. \A i \in 1..m : a[i] = s[i].text /\ b[i] = s[i].text
    BY DEF UpTo
  <2>3. b[m + 1] = s[m + 1].text
    BY DEF UpTo
  <2> HIDE DEF a, b, c
  <2>4. \A i \in 1..m + 1 : b[i] = c[i]
    <3>1. \A i \in 1..m + 1 : i \in 1..m \/ i = m + 1
      OBVIOUS
    <3> QED  BY <2>1, <2>2, <2>3, <3>1
  <2>5. b \in Seq(Seq(Nat)) /\ Len(b) = m + 1
    BY <1>2 DEF b
  <2>6. b = c
    BY <2>1, <2>4, <2>5, SeqEqual
  <2> QED  BY <2>6 DEF a, b, c
<1> QED  BY <1>1, <1>3, <1>4, FlattenAppend DEF SaidUpTo

LEMMA SaidUpToAgrees ==
  ASSUME NEW s, NEW t, NEW m, \A i \in 1..m : s[i] = t[i]
  PROVE  SaidUpTo(s, m) = SaidUpTo(t, m)
BY DEF SaidUpTo, UpTo

LEMMA SaidByAll ==
  ASSUME NEW T, NEW s \in Seq(T)
  PROVE  SaidBy(s) = SaidUpTo(s, Len(s))
<1>1. DOMAIN s = 1..Len(s)
  OBVIOUS
<1> QED  BY <1>1 DEF SaidBy, SaidUpTo, UpTo

LEMMA SaidByAppend ==
  ASSUME NEW T, NEW s \in Seq(T), NEW e \in T, \A x \in T : x.text \in Seq(Nat)
  PROVE  /\ SaidBy(s) \in Seq(Nat)
         /\ SaidBy(Append(s, e)) = SaidBy(s) \o e.text
<1> DEFINE t == Append(s, e)
<1>1. /\ t \in Seq(T) /\ Len(t) = Len(s) + 1 /\ t[Len(s) + 1] = e /\ Len(s) \in Nat
      /\ \A i \in 1..Len(s) : t[i] = s[i]
  BY AppendProperties
<1>2. HaveTexts(s)
  BY DEF HaveTexts
<1> HIDE DEF t
<1>3. HaveTexts(t)
  BY <1>1 DEF HaveTexts
<1>4. SaidBy(s) = SaidUpTo(s, Len(s)) /\ SaidBy(t) = SaidUpTo(t, Len(s) + 1)
  BY <1>1, SaidByAll
<1>5. SaidUpTo(t, Len(s)) = SaidUpTo(s, Len(s))
  BY <1>1, SaidUpToAgrees
<1>6. SaidUpTo(t, Len(s) + 1) = SaidUpTo(t, Len(s)) \o t[Len(s) + 1].text
  <2> DEFINE n == Len(s)
  <2>1. n \in Nat /\ n + 1 \in 1..Len(t) /\ t \in Seq(T)
    BY <1>1
  <2> HIDE DEF n
  <2>2. SaidUpTo(t, n + 1) = SaidUpTo(t, n) \o t[n + 1].text
    BY <1>3, <2>1, SaidUpToNext
  <2> QED  BY <2>2 DEF n
<1>7. SaidUpTo(s, Len(s)) \in Seq(Nat)
  BY <1>1, <1>2, SaidUpToType
<1> QED  BY <1>1, <1>4, <1>5, <1>6, <1>7 DEF t

\* What is said first is the beginning of what is said.
LEMMA SaidFirst ==
  ASSUME NEW T, NEW s \in Seq(T), HaveTexts(s), NEW m \in 0..Len(s)
  PROVE  IsPrefix(SaidUpTo(s, m), SaidBy(s))
<1> DEFINE n == Len(s)
           K == {k \in Nat : k \in m..n => IsPrefix(SaidUpTo(s, m), SaidUpTo(s, k))}
<1>0. n \in Nat /\ m \in Nat /\ m <= n
  OBVIOUS
<1>1. ASSUME NEW a \in Seq(Nat)
      PROVE  IsPrefix(a, a)
  BY DEF IsPrefix
<1>2. ASSUME NEW a \in Seq(Nat), NEW b \in Seq(Nat), NEW c \in Seq(Nat), IsPrefix(a, b)
      PROVE  IsPrefix(a, b \o c)
  <2>1. Len(a) <= Len(b) /\ SubSeq(a, 1, Len(a)) = SubSeq(b, 1, Len(a))
    BY <1>2 DEF IsPrefix
  <2>2. Len(b \o c) = Len(b) + Len(c) /\ Len(a) \in Nat /\ Len(b) \in Nat /\ Len(c) \in Nat
    BY ConcatProperties
  <2>3. SubSeq(b \o c, 1, Len(a)) = SubSeq(b, 1, Len(a))
    BY <2>1, <2>2, SubSeqOfConcat1
  <2>4. Len(a) <= Len(b \o c)
    BY <2>1, <2>2
  <2> QED  BY <2>1, <2>3, <2>4 DEF IsPrefix
<1>3. 0 \in K
  <2>1. 0 \in m..n => m = 0
    BY <1>0
  <2>2. SaidUpTo(s, m) \in Seq(Nat)
    BY SaidUpToType
  <2> QED  BY <1>1, <2>1, <2>2
<1>4. ASSUME NEW k \in K, k + 1 \in m..n
      PROVE  IsPrefix(SaidUpTo(s, m), SaidUpTo(s, k + 1))
  <2>1. CASE k + 1 = m
    BY <1>1, <2>1, SaidUpToType
  <2>2. CASE k + 1 # m
    <3>1. k \in m..n /\ k \in 0..Len(s) /\ k \in Nat /\ k + 1 \in 1..Len(s)
      BY <1>0, <1>4, <2>2
    <3>2. SaidUpTo(s, k + 1) = SaidUpTo(s, k) \o s[k + 1].text
      BY <3>1, SaidUpToNext
    <3>3. s[k + 1].text \in Seq(Nat) /\ SaidUpTo(s, k) \in Seq(Nat) /\ SaidUpTo(s, m) \in Seq(Nat)
      BY <3>1, SaidUpToType DEF HaveTexts
    <3>4. IsPrefix(SaidUpTo(s, m), SaidUpTo(s, k))
      BY <3>1
    <3> QED  BY <1>2, <3>2, <3>3, <3>4
  <2> QED  BY <2>1, <2>2
<1>5. \A k \in K : k + 1 \in K
  BY <1>4
<1>6. K \in SUBSET Nat
  OBVIOUS
<1> HIDE DEF K
<1>7. K = Nat
  BY <1>3, <1>5, <1>6, Induction
<1>8. IsPrefix(SaidUpTo(s, m), SaidUpTo(s, n))
  BY <1>0, <1>7 DEF K
<1> QED  BY <1>8, SaidByAll

-----------------------------------------------------------------------------
(* What a CLI run has sent is what the lines it has taken say.             *)

Forwards == {"spawn", "announce"} \cup Reading

SaysOf(id, line) == line.kind = "item" /\ line.id = id

\* t is the last text of message id among the first m lines.
IsLatest(t, id, m) ==
  \/ t = <<>> /\ \A i \in 1..m : ~SaysOf(id, printed[i])
  \/ \E i \in 1..m : /\ SaysOf(id, printed[i]) /\ t = printed[i].text
                     /\ \A j \in i+1..m : ~SaysOf(id, printed[j])

\* What has been sent is what the taken lines say.
SaidIsTaken ==
  worker \in Forwards =>
    IF ByText
      THEN SaidBy(sent) = SaidUpTo(printed, Taken)
      ELSE /\ turnCompleted => \E i \in 1..Taken : printed[i].kind = "turn.completed"
           /\ \A id \in Items : IsLatest(snapshots[id], id, Taken)
           /\ Len(SaidBy(sent)) = Lengths(snapshots)

LEMMA CliTexts ==
  ASSUME CliTypes
  PROVE  /\ \A message \in CliMessage : message.text \in Seq(Nat)
         /\ HaveTexts(printed)
         /\ snapshots \in [Items -> Seq(Nat)]
<1>1. \A message \in CliMessage : message.text \in Seq(Nat)
  BY DEF CliMessage
<1>2. HaveTexts(printed)
  BY PrintableLines DEF HaveTexts, CliTypes
<1>3. \A t \in {line.text : line \in Printable} \cup {<<>>} : t \in Seq(Nat)
  <2> SUFFICES ASSUME NEW t \in {line.text : line \in Printable} \cup {<<>>} PROVE t \in Seq(Nat)
    OBVIOUS
  <2>1. CASE t = <<>>
    BY <2>1
  <2>2. CASE \E line \in Printable : t = line.text
    BY <2>2, PrintableLines
  <2> QED  BY <2>1, <2>2
<1>4. snapshots \in [Items -> Seq(Nat)]
  <2> DEFINE T == {line.text : line \in Printable} \cup {<<>>}
  <2>1. snapshots \in [Items -> T]
    BY DEF CliTypes
  <2> HIDE DEF T
  <2>2. \A t \in T : t \in Seq(Nat)
    BY <1>3 DEF T
  <2> QED  BY <2>1, <2>2
<1> QED  BY <1>1, <1>2, <1>4

\* A step that takes no line and says nothing.
LEMMA SaidStays ==
  ASSUME CliTypes, InPipes, SaidIsTaken, worker \in Forwards,
         Taken' = Taken, \A i \in 1..Taken : printed'[i] = printed[i],
         UNCHANGED <<snapshots, turnCompleted, connector>>, SaidBy(sent') = SaidBy(sent)
  PROVE  SaidIsTaken'
<1>1. ByText' = ByText
  BY DEF ByText
<1>2. SaidUpTo(printed', Taken') = SaidUpTo(printed, Taken)
  BY SaidUpToAgrees
<1>3. Taken \in Nat
  BY TakenIsNat
<1>4. ASSUME NEW id, NEW t, IsLatest(t, id, Taken)
      PROVE  IsLatest(t, id, Taken)'
  <2>1. \A i \in 1..Taken : SaysOf(id, printed'[i]) <=> SaysOf(id, printed[i])
    BY DEF SaysOf
  <2>2. CASE t = <<>> /\ \A i \in 1..Taken : ~SaysOf(id, printed[i])
    BY <2>1, <2>2 DEF IsLatest
  <2>3. ASSUME NEW i \in 1..Taken, SaysOf(id, printed[i]), t = printed[i].text,
               \A j \in i+1..Taken : ~SaysOf(id, printed[j])
        PROVE  IsLatest(t, id, Taken)'
    <3>1. SaysOf(id, printed'[i]) /\ t = printed'[i].text
      BY <2>1, <2>3
    <3>2. \A j \in i+1..Taken : ~SaysOf(id, printed'[j])
      BY <1>3, <2>1, <2>3
    <3> QED  BY <3>1, <3>2 DEF IsLatest
  <2> QED  BY <1>4, <2>2, <2>3 DEF IsLatest
<1>5. CASE ByText
  BY <1>1, <1>2, <1>5 DEF SaidIsTaken
<1>6. CASE ~ByText
  <2>1. turnCompleted' => \E i \in 1..Taken' : printed'[i].kind = "turn.completed"
    BY <1>6 DEF SaidIsTaken
  <2>2. \A id \in Items : IsLatest(snapshots[id], id, Taken)
    BY <1>6 DEF SaidIsTaken
  <2>3. \A id \in Items : IsLatest(snapshots[id], id, Taken)'
    <3> SUFFICES ASSUME NEW id \in Items PROVE IsLatest(snapshots[id], id, Taken)'
      OBVIOUS
    <3> DEFINE t == snapshots[id]
    <3>1. IsLatest(t, id, Taken) /\ t' = t
      BY <2>2
    <3> QED  BY <1>4, <3>1 DEF IsLatest
  <2>4. Len(SaidBy(sent')) = Lengths(snapshots')
    BY <1>6 DEF SaidIsTaken
  <2> QED  BY <1>1, <1>6, <2>1, <2>3, <2>4 DEF SaidIsTaken
<1> QED  BY <1>5, <1>6

\* The texts that a taken line leaves as they are, and the one it moves on.
LEMMA LatestMovesOn ==
  ASSUME NEW id, NEW t, NEW m \in Nat
  PROVE  /\ IsLatest(t, id, m) /\ ~SaysOf(id, printed[m + 1]) => IsLatest(t, id, m + 1)
         /\ SaysOf(id, printed[m + 1]) /\ t = printed[m + 1].text => IsLatest(t, id, m + 1)
<1>1. ASSUME IsLatest(t, id, m), ~SaysOf(id, printed[m + 1])
      PROVE  IsLatest(t, id, m + 1)
  <2>1. CASE t = <<>> /\ \A i \in 1..m : ~SaysOf(id, printed[i])
    <3>1. \A i \in 1..m + 1 : i \in 1..m \/ i = m + 1
      OBVIOUS
    <3>2. \A i \in 1..m + 1 : ~SaysOf(id, printed[i])
      BY <1>1, <2>1, <3>1
    <3> QED  BY <2>1, <3>2 DEF IsLatest
  <2>2. ASSUME NEW i \in 1..m, SaysOf(id, printed[i]), t = printed[i].text,
               \A j \in i+1..m : ~SaysOf(id, printed[j])
        PROVE  IsLatest(t, id, m + 1)
    <3>1. \A j \in i+1..m + 1 : j \in i+1..m \/ j = m + 1
      OBVIOUS
    <3>2. \A j \in i+1..m + 1 : ~SaysOf(id, printed[j])
      BY <1>1, <2>2, <3>1
    <3>3. i \in 1..m + 1
      OBVIOUS
    <3> QED  BY <2>2, <3>2, <3>3 DEF IsLatest
  <2> QED  BY <1>1, <2>1, <2>2 DEF IsLatest
<1>2. ASSUME SaysOf(id, printed[m + 1]), t = printed[m + 1].text
      PROVE  IsLatest(t, id, m + 1)
  <2>1. m + 1 \in 1..m + 1 /\ (m + 1) + 1..m + 1 = {}
    OBVIOUS
  <2> QED  BY <1>2, <2>1 DEF IsLatest
<1> QED  BY <1>1, <1>2

LEMMA SaidMovesOn ==
  ASSUME CliTypes, InPipes, SaidIsTaken, ForwardLine, connector' = connector
  PROVE  SaidIsTaken'
<1> DEFINE line == Head(lines)
           m == Taken
<1>1. /\ lines # <<>> /\ lines' = Tail(lines) /\ UNCHANGED <<stdout, printed, worker>>
      /\ ~Rejects(line) /\ Remember(line) /\ worker \in Forwards
      /\ sent' = IF HasDelta(line) THEN Append(sent, Delta(NewText(line))) ELSE sent
  BY DEF ForwardLine, Forwarding, Forwards, Reading, pipeVars, childVars
<1>2. Taken' = m + 1 /\ m \in Nat /\ m + 1 \in 1..Len(printed) /\ printed[m + 1] = line
  BY <1>1, TakesOne, TakenIsNat
<1>3. line \in Printable /\ printed \in Seq(Printable) /\ sent \in Seq(CliMessage) /\ ByText' = ByText
  BY <1>1 DEF CliTypes, ByText
<1> HIDE DEF line, m
<1>4. NewText(line) \in Seq(Nat)
  BY <1>1, <1>3, NewTextIsText
<1>5. SaidBy(sent) \in Seq(Nat) /\ SaidBy(sent') = SaidBy(sent) \o NewText(line)
  <2>1. \A message \in CliMessage : message.text \in Seq(Nat)
    BY CliTexts
  <2>2. Delta(NewText(line)) \in CliMessage /\ Delta(NewText(line)).text = NewText(line)
    BY <1>4, MessagesAreTyped
  <2>3. /\ SaidBy(sent) \in Seq(Nat)
        /\ SaidBy(Append(sent, Delta(NewText(line)))) = SaidBy(sent) \o NewText(line)
    BY <1>3, <2>1, <2>2, SaidByAppend
  <2>4. CASE HasDelta(line)
    BY <1>1, <2>3, <2>4
  <2>5. CASE ~HasDelta(line)
    <3>1. NewText(line) = <<>> /\ sent' = sent
      BY <1>1, <2>5 DEF HasDelta
    <3>2. SaidBy(sent) \o <<>> = SaidBy(sent)
      BY <2>3, ConcatEmptySeq
    <3> QED  BY <2>3, <3>1, <3>2
  <2> QED  BY <2>4, <2>5
<1>6. CASE ByText
  <2>1. line.kind = "text"
    <3>1. line.kind \in {"text", "unreadable"}
      BY <1>3, <1>6, PrintableLines
    <3> QED  BY <1>1, <3>1 DEF Rejects
  <2>2. NewText(line) = line.text
    BY <1>1, <1>3, <2>1, NewTextIsText
  <2>3. SaidUpTo(printed, m + 1) = SaidUpTo(printed, m) \o printed[m + 1].text
    BY <1>2, <1>3, CliTexts, SaidUpToNext
  <2>4. SaidBy(sent) = SaidUpTo(printed, m)
    BY <1>1, <1>6 DEF SaidIsTaken, m
  <2>5. SaidBy(sent') = SaidUpTo(printed', Taken')
    BY <1>1, <1>2, <1>5, <2>2, <2>3, <2>4
  <2> QED  BY <1>3, <1>6, <2>5 DEF SaidIsTaken
<1>7. CASE ~ByText
  <2>1. line.kind # "text"
    BY <1>3, <1>7, PrintableLines
  <2>2. turnCompleted' => \E i \in 1..Taken' : printed'[i].kind = "turn.completed"
    <3>1. turnCompleted => \E i \in 1..m : printed[i].kind = "turn.completed"
      BY <1>1, <1>7 DEF SaidIsTaken, m
    <3>2. turnCompleted' => turnCompleted \/ line.kind = "turn.completed"
      BY <1>1 DEF Remember
    <3>3. \A i \in 1..m : i \in 1..m + 1
      BY <1>2
    <3>4. m + 1 \in 1..m + 1
      BY <1>2
    <3> QED  BY <1>1, <1>2, <3>1, <3>2, <3>3, <3>4
  <2>3. ASSUME NEW id \in Items
        PROVE  IsLatest(snapshots'[id], id, m + 1)
    <3>1. IsLatest(snapshots[id], id, m)
      BY <1>1, <1>7 DEF SaidIsTaken, m
    <3>2. snapshots \in [Items -> Seq(Nat)]
      BY CliTexts
    <3>3. CASE SaysOf(id, line)
      <4>1. snapshots'[id] = line.text
        BY <1>1, <3>2, <3>3 DEF Remember, SaysOf
      <4> QED  BY <1>2, <3>3, <4>1, LatestMovesOn
    <3>4. CASE ~SaysOf(id, line)
      <4>1. snapshots'[id] = snapshots[id]
        <5>1. CASE line.kind = "item"
          BY <1>1, <3>2, <3>4, <5>1 DEF Remember, SaysOf
        <5>2. CASE line.kind # "item"
          BY <1>1, <5>2 DEF Remember
        <5> QED  BY <5>1, <5>2
      <4> QED  BY <1>2, <3>1, <3>4, <4>1, LatestMovesOn
    <3> QED  BY <3>3, <3>4
  <2>4. Len(SaidBy(sent')) = Lengths(snapshots')
    <3>1. Len(SaidBy(sent)) = Lengths(snapshots)
      BY <1>1, <1>7 DEF SaidIsTaken
    <3>2. Len(SaidBy(sent')) = Len(SaidBy(sent)) + Len(NewText(line))
      BY <1>4, <1>5, ConcatProperties
    <3>3. CASE line.kind = "item"
      <4>1. line.id \in Items /\ line.text \in Seq(Nat)
        BY <1>3, <3>3, PrintableLines
      <4>2. /\ snapshots[line.id] \in Seq(Nat)
            /\ Len(NewText(line)) + Len(snapshots[line.id]) = Len(line.text)
        BY <1>1, <1>3, <3>3, NewTextIsText
      <4>3. snapshots' = [snapshots EXCEPT ![line.id] = line.text]
        BY <1>1, <3>3 DEF Remember
      <4>4. IsFiniteSet(Items) /\ snapshots \in [Items -> Seq(Nat)]
        BY CliTexts, SizesAreNat
      <4>5. /\ Lengths(snapshots) \in Nat
            /\ Lengths(snapshots') + Len(snapshots[line.id]) = Lengths(snapshots) + Len(line.text)
        <5>1. IsReplaced(snapshots', snapshots, Items, Nat, line.id, line.text)
          BY <4>1, <4>3, <4>4 DEF IsReplaced
        <5> QED  BY <4>4, <5>1, SumOfReplaced
      <4>6. /\ snapshots' \in [Items -> Seq(Nat)]
        BY <4>1, <4>3, <4>4
      <4>7. Lengths(snapshots') \in Nat
        BY <4>4, <4>6, SumIsNat
      <4> DEFINE a == Lengths(snapshots)
                 b == Lengths(snapshots')
                 o == Len(snapshots[line.id])
                 n == Len(NewText(line))
                 t == Len(line.text)
      <4>8. /\ a \in Nat /\ b \in Nat /\ o \in Nat /\ n \in Nat /\ t \in Nat
            /\ n + o = t /\ b + o = a + t
        BY <1>4, <4>1, <4>2, <4>5, <4>7
      <4>9. b = a + n
        <5> HIDE DEF a, b, o, n, t
        <5> QED  BY ONLY <4>8
      <4> QED  BY <3>1, <3>2, <4>9
    <3>4. CASE line.kind # "item"
      <4>1. NewText(line) = <<>>
        BY <1>1, <1>3, <2>1, <3>4, NewTextIsText
      <4>2. snapshots' = snapshots
        BY <1>1, <3>4 DEF Remember
      <4>3. SaidBy(sent') = SaidBy(sent)
        BY <1>5, <4>1, ConcatEmptySeq
      <4> QED  BY <3>1, <4>2, <4>3
    <3> QED  BY <3>3, <3>4
  <2>5. \A id \in Items : IsLatest(snapshots[id], id, Taken)'
    <3> SUFFICES ASSUME NEW id \in Items PROVE IsLatest(snapshots[id], id, Taken)'
      OBVIOUS
    <3>1. IsLatest(snapshots'[id], id, m + 1)
      BY <2>3
    <3> QED  BY <1>1, <1>2, <3>1 DEF IsLatest
  <2> QED  BY <1>3, <1>7, <2>2, <2>4, <2>5 DEF SaidIsTaken
<1> QED  BY <1>6, <1>7

\* What a step that stays in the places before the end does besides taking a line.
SaysNothing ==
  /\ UNCHANGED <<snapshots, turnCompleted>>
  /\ sent' = sent \/ (sent = <<>> /\ sent' = <<Started>>)

LEMMA QuietSteps ==
  ASSUME CliIInv, FullStep, worker' \in Forwards, ~ForwardLine
  PROVE  worker \in Forwards /\ SaysNothing
<1> USE DEF SaysNothing, Forwards, Reading, GoTo, workerVars
<1>1. CASE SpawnFails \/ PromptFails \/ ForwardToNobody \/ OutputRejected \/ JoinTerminated \/ Terminate
  BY <1>1 DEF SpawnFails, PromptFails, ForwardToNobody, OutputRejected, JoinTerminated, Terminate, Forwarding
<1>2. CASE \E event \in {Failed("exit"), Failed("incomplete"), Completed} : Concludes(event)
  BY <1>2 DEF Concludes, EndsWith
<1>3. CASE Announce
  <2>1. sent = <<>>
    BY <1>3 DEF Announce, CliIInv
  <2> QED  BY <1>3, <2>1 DEF Announce, Send
<1>4. CASE SpawnChild \/ WritePrompt \/ PromptWritten
  BY <1>4 DEF SpawnChild, WritePrompt, PromptWritten
<1>5. CASE NothingToForward \/ CheckToken \/ ChildRuns \/ PollFails \/ ChildHasExited \/ JoinExited
  BY <1>5 DEF NothingToForward, CheckToken, ChildRuns, PollFails, ChildHasExited, JoinExited, WorkerMoves
<1>6. CASE ReadLine \/ StdoutEnds \/ ReadStderr \/ StderrEnds \/ ChildReads \/ Complains
  BY <1>6 DEF ReadLine, StdoutEnds, ReadStderr, StderrEnds, ChildReads, Complains
<1>7. CASE ChildExits \/ ChildStartsHelper \/ HelperExits \/ \E line \in Printable : Prints(line)
  BY <1>7 DEF ChildExits, ChildStartsHelper, HelperExits, Prints
<1>8. CASE Cancel \/ DropRun
  BY <1>8 DEF Cancel, DropRun
<1>9. CASE ProgramEnds
  BY <1>9 DEF ProgramEnds
<1> QED  BY <1>1, <1>2, <1>3, <1>4, <1>5, <1>6, <1>7, <1>8, <1>9 DEF FullStep

LEMMA SaidNothing ==
  ASSUME CliTypes, SaysNothing
  PROVE  SaidBy(sent') = SaidBy(sent)
<1>1. CASE sent = <<>> /\ sent' = <<Started>>
  <2>1. \A message \in CliMessage : message.text \in Seq(Nat)
    BY CliTexts
  <2>2. Started \in CliMessage /\ Started.text = <<>> /\ <<>> \in Seq(CliMessage)
    BY MessagesAreTyped
  <2>3. SaidBy(Append(<<>>, Started)) = SaidBy(<<>>) \o <<>>
    BY <2>1, <2>2, SaidByAppend
  <2>4. Append(<<>>, Started) = <<Started>> /\ <<>> \o <<>> = <<>>
    OBVIOUS
  <2> QED  BY <1>1, <2>3, <2>4, SaidByNone
<1> QED  BY <1>1 DEF SaysNothing

LEMMA SaidIsTakenKept ==
  ASSUME CliIInv, CliTypes, InPipes, SaidIsTaken, FullStep, connector' = connector
  PROVE  SaidIsTaken'
<1>1. CASE worker' \notin Forwards
  BY <1>1 DEF SaidIsTaken
<1>2. CASE ForwardLine
  BY <1>2, SaidMovesOn
<1>3. CASE worker' \in Forwards /\ ~ForwardLine
  <2>1. worker \in Forwards /\ SaysNothing
    BY <1>3, QuietSteps
  <2>2. SaidBy(sent') = SaidBy(sent)
    BY <2>1, SaidNothing
  <2>3. ~ForwardToNobody /\ ~OutputRejected
    BY <1>3 DEF ForwardToNobody, OutputRejected, Forwarding, GoTo, Forwards, Reading
  <2>4. Taken' = Taken /\ \A i \in 1..Taken : printed'[i] = printed[i]
    <3>1. CASE LeavesPipes
      BY <3>1, NothingTaken DEF LeavesPipes
    <3>2. CASE ReadLine
      <4>1. printed' = printed
        BY <3>2 DEF ReadLine, childVars
      <4> QED  BY <3>2, <4>1, ReadsOne
    <3>3. ASSUME NEW line \in Printable, Prints(line)
          PROVE  Taken' = Taken /\ \A i \in 1..Taken : printed'[i] = printed[i]
      <4>1. Taken' = Taken /\ \A i \in 1..Len(printed) : printed'[i] = printed[i]
        BY <3>3, PrintsOne
      <4>2. \A i \in 1..Taken : i \in 1..Len(printed)
        BY TakenIsNat, LengthsAreNat
      <4> QED  BY <4>1, <4>2
    <3> QED  BY <1>3, <2>3, <3>1, <3>2, <3>3, StepsOnPipes
  <2> QED  BY <2>1, <2>2, <2>4, SaidStays DEF SaysNothing
<1> QED  BY <1>1, <1>2, <1>3

-----------------------------------------------------------------------------
(* An answer is complete when everything has been taken.                   *)

\* Where the child is alive, or has exited by itself.
ChildPlaces ==
  /\ worker \in {"announce", "prompt", "forward", "token", "poll"} => child \in {"running", "succeeded", "failed"}
  /\ worker \in {"joinExited", "drain"} => child \in {"succeeded", "failed"}

NotCompleted == worker # "done" => \A i \in DOMAIN sent : sent[i] # Completed

\* What CompletedIsWhole says, in the terms of SaidIsTaken.
CompletedIsAll ==
  sent # <<>> /\ sent[Len(sent)] = Completed =>
    /\ child = "succeeded"
    /\ IF ByText
         THEN SaidBy(sent) = SaidBy(printed)
         ELSE /\ \E i \in DOMAIN printed : printed[i].kind = "turn.completed"
              /\ \A id \in Items : IsLatest(snapshots[id], id, Len(printed))
              /\ Len(SaidBy(sent)) = Lengths(snapshots)

LEMMA ChildPlacesKept ==
  ASSUME CliIInv, ChildPlaces, FullStep
  PROVE  ChildPlaces'
<1> USE DEF ChildPlaces, GoTo, workerVars, childVars
<1>1. CASE SpawnFails \/ PromptFails \/ ForwardToNobody \/ OutputRejected \/ JoinTerminated \/ Terminate
  BY <1>1 DEF SpawnFails, PromptFails, ForwardToNobody, OutputRejected, JoinTerminated, Terminate, Forwarding
<1>2. CASE \E event \in {Failed("exit"), Failed("incomplete"), Completed} : Concludes(event)
  BY <1>2 DEF Concludes, EndsWith
<1>3. CASE Announce
  BY <1>3 DEF Announce, TerminateChild
<1>4. CASE SpawnChild \/ WritePrompt \/ PromptWritten \/ ForwardLine
  BY <1>4 DEF SpawnChild, WritePrompt, PromptWritten, ForwardLine
<1>5. CASE NothingToForward \/ CheckToken \/ ChildRuns \/ PollFails \/ ChildHasExited \/ JoinExited
  BY <1>5 DEF NothingToForward, CheckToken, ChildRuns, PollFails, ChildHasExited, JoinExited, WorkerMoves
<1>6. CASE ReadLine \/ StdoutEnds \/ ReadStderr \/ StderrEnds \/ ChildReads \/ Complains
  BY <1>6 DEF ReadLine, StdoutEnds, ReadStderr, StderrEnds, ChildReads, Complains
<1>7. CASE ChildExits \/ ChildStartsHelper \/ HelperExits \/ \E line \in Printable : Prints(line)
  BY <1>7 DEF ChildExits, ChildStartsHelper, HelperExits, Prints
<1>8. CASE Cancel \/ DropRun \/ ProgramEnds
  BY <1>8 DEF Cancel, DropRun, ProgramEnds
<1> QED  BY <1>1, <1>2, <1>3, <1>4, <1>5, <1>6, <1>7, <1>8 DEF FullStep

ConcludesWell == Concludes(Completed) /\ listening /\ sent' = Append(sent, Completed)

\* What a step sends.
LEMMA SentSteps ==
  ASSUME CliIInv, FullStep
  PROVE  \/ sent' = sent
         \/ \E event : event # Completed /\ sent' = Append(sent, event)
         \/ ConcludesWell
<1> DEFINE Says == sent' = sent \/ \E event : event # Completed /\ sent' = Append(sent, event)
<1>0. /\ \A cause : Failed(cause) # Completed
      /\ \A text : Delta(text) # Completed
      /\ Started # Completed /\ Cancelled # Completed /\ Nothing # Completed
  BY DEF Failed, Delta, Started, Cancelled, Nothing, Completed, Message
<1>1. ASSUME NEW event, event # Completed, Send(event)
      PROVE  Says
  BY <1>1 DEF Send

<1>4. CASE SpawnFails \/ PromptFails
  BY <1>0, <1>1, <1>4 DEF SpawnFails, PromptFails
<1>5. CASE Announce
  BY <1>0, <1>1, <1>5 DEF Announce
<1>6. CASE ForwardLine
  BY <1>0, <1>6 DEF ForwardLine
<1>7. CASE OutputRejected
  BY <1>0, <1>1, <1>7 DEF OutputRejected
<1>8. CASE JoinTerminated
  <2>1. ending # Completed
    BY <1>0 DEF CliIInv
  <2> QED  BY <1>1, <1>8, <2>1 DEF JoinTerminated
<1>9. ASSUME NEW event \in {Failed("exit"), Failed("incomplete"), Completed}, Concludes(event)
      PROVE  Says \/ ConcludesWell
  <2>1. CASE event = Completed
    BY <1>9, <2>1 DEF Concludes, EndsWith, Send, ConcludesWell
  <2>2. CASE event # Completed
    BY <1>1, <1>9, <2>2 DEF Concludes, EndsWith
  <2> QED  BY <2>1, <2>2
<1>10. CASE SpawnChild \/ WritePrompt \/ PromptWritten \/ ForwardToNobody \/ Terminate
  BY <1>10 DEF SpawnChild, WritePrompt, PromptWritten, ForwardToNobody, Terminate
<1>11. CASE NothingToForward \/ CheckToken \/ ChildRuns \/ PollFails \/ ChildHasExited \/ JoinExited
  BY <1>11 DEF NothingToForward, CheckToken, ChildRuns, PollFails, ChildHasExited, JoinExited, WorkerMoves
<1>12. CASE ReadLine \/ StdoutEnds \/ ReadStderr \/ StderrEnds \/ ChildReads \/ Complains
  BY <1>12 DEF ReadLine, StdoutEnds, ReadStderr, StderrEnds, ChildReads, Complains, workerVars
<1>13. CASE ChildExits \/ ChildStartsHelper \/ HelperExits \/ \E line \in Printable : Prints(line)
  BY <1>13 DEF ChildExits, ChildStartsHelper, HelperExits, Prints, workerVars
<1>14. CASE Cancel \/ DropRun \/ ProgramEnds
  BY <1>14 DEF Cancel, DropRun, ProgramEnds, workerVars
<1>15. Says \/ ConcludesWell
  BY <1>4, <1>5, <1>6, <1>7, <1>8, <1>9, <1>10, <1>11, <1>12, <1>13, <1>14 DEF FullStep
<1> QED  BY <1>15

LEMMA AppendedLast ==
  ASSUME NEW T, NEW s \in Seq(T), NEW event \in T
  PROVE  /\ Append(s, event) # <<>>
         /\ Append(s, event)[Len(Append(s, event))] = event
         /\ \A i \in DOMAIN Append(s, event) : Append(s, event)[i] = event \/ (i \in DOMAIN s /\ Append(s, event)[i] = s[i])
<1> DEFINE t == Append(s, event)
           n == Len(s)
<1>1. /\ t \in Seq(T) /\ Len(t) = n + 1 /\ t[n + 1] = event /\ n \in Nat
      /\ \A i \in 1..n : t[i] = s[i]
  BY AppendProperties
<1>2. DOMAIN t = 1..n + 1 /\ DOMAIN s = 1..n
  BY <1>1
<1> HIDE DEF t, n
<1>3. t # <<>>
  BY <1>1, EmptySeq
<1>4. \A i \in 1..n + 1 : i \in 1..n \/ i = n + 1
  BY <1>1
<1> QED  BY <1>1, <1>2, <1>3, <1>4 DEF t

LEMMA LastOfNone ==
  ASSUME NEW T, NEW s \in Seq(T), s # <<>>
  PROVE  Len(s) \in DOMAIN s
BY EmptySeq, LenProperties

LEMMA NotCompletedKept ==
  ASSUME CliIInv, CliTypes, CliTypes', NotCompleted, FullStep
  PROVE  NotCompleted'
<1> SUFFICES ASSUME worker' # "done", NEW i \in DOMAIN sent', sent'[i] = Completed
             PROVE  FALSE
  BY DEF NotCompleted
<1>1. worker # "done"
  BY DEF FullStep, SpawnFails, SpawnChild, Announce, WritePrompt, PromptFails, PromptWritten,
         ForwardLine, ForwardToNobody, OutputRejected, Forwarding, NothingToForward, CheckToken,
         ChildRuns, PollFails, ChildHasExited, JoinExited, WorkerMoves, Terminate, JoinTerminated,
         Concludes, EndsWith, ReadLine, StdoutEnds, ReadStderr, StderrEnds, ChildReads, Complains,
         ChildExits, ChildStartsHelper, HelperExits, Prints, Cancel, DropRun, ProgramEnds,
         GoTo, workerVars
<1>2. CASE sent' = sent
  BY <1>1, <1>2 DEF NotCompleted
<1>3. ASSUME NEW event, event # Completed, sent' = Append(sent, event)
      PROVE  FALSE
  <2> DEFINE T == CliMessage \cup {event}
  <2>1. sent \in Seq(T) /\ event \in T
    BY DEF CliTypes
  <2> HIDE DEF T
  <2>2. i \in DOMAIN sent /\ sent'[i] = sent[i]
    BY <1>3, <2>1, AppendedLast
  <2> QED  BY <1>1, <2>2 DEF NotCompleted
<1>4. ~ConcludesWell
  BY DEF ConcludesWell, Concludes, EndsWith, GoTo
<1> QED  BY <1>2, <1>3, <1>4, SentSteps

\* A run that is over says and reads nothing more, and its child has exited.
LEMMA DoneStays ==
  ASSUME CliIInv, FullStep, worker = "done"
  PROVE  UNCHANGED <<sent, child, printed, snapshots, turnCompleted>>
<1>1. child # "running"
  BY DEF CliIInv
<1> QED
  BY <1>1
  DEF FullStep, SpawnFails, SpawnChild, Announce, WritePrompt, PromptFails, PromptWritten,
      ForwardLine, ForwardToNobody, OutputRejected, Forwarding, NothingToForward, CheckToken,
      ChildRuns, PollFails, ChildHasExited, JoinExited, WorkerMoves, Terminate, JoinTerminated,
      Concludes, EndsWith, ReadLine, StdoutEnds, ReadStderr, StderrEnds, ChildReads, Complains,
      ChildExits, ChildStartsHelper, HelperExits, Prints, Cancel, DropRun, ProgramEnds,
      workerVars, childVars

LEMMA EverythingTaken ==
  ASSUME CliIInv, CliTypes, InPipes, ReadsAll, worker = "drain", lines = <<>>
  PROVE  stdout = <<>> /\ Taken = Len(printed)
<1>1. outReader = "done"
  BY DEF CliIInv, ReadersDone
<1>2. stdout = <<>>
  BY <1>1 DEF ReadsAll, Reading
<1>3. Len(stdout) = 0 /\ Len(lines) = 0 /\ Len(printed) \in Nat
  BY <1>2, LengthsAreNat
<1> QED  BY <1>2, <1>3 DEF Taken

LEMMA CompletedIsAllKept ==
  ASSUME CliIInv, CliTypes, CliTypes', InPipes, ReadsAll, SaidIsTaken, ChildPlaces, NotCompleted,
         CompletedIsAll, FullStep, connector' = connector, ByText \/ ByCodex
  PROVE  CompletedIsAll'
<1>0. ByText' = ByText
  BY DEF ByText
<1>1. CASE worker = "done"
  <2>1. UNCHANGED <<sent, child, printed, snapshots, turnCompleted>>
    BY <1>1, DoneStays
  <2> QED  BY <1>0, <2>1 DEF CompletedIsAll, IsLatest
<1>2. CASE worker # "done" /\ sent' = sent
  <2>1. sent # <<>> => sent[Len(sent)] # Completed
    BY <1>2, LastOfNone DEF NotCompleted, CliTypes
  <2> QED  BY <1>2, <2>1 DEF CompletedIsAll
<1>3. ASSUME NEW event, event # Completed, sent' = Append(sent, event)
      PROVE  CompletedIsAll'
  <2> DEFINE T == CliMessage \cup {event}
  <2>1. sent \in Seq(T) /\ event \in T
    BY DEF CliTypes
  <2> HIDE DEF T
  <2>2. sent'[Len(sent')] = event
    BY <1>3, <2>1, AppendedLast
  <2> QED  BY <1>3, <2>2 DEF CompletedIsAll
<1>4. CASE ConcludesWell
  <2>1. /\ worker = "drain" /\ lines = <<>> /\ child # "failed" /\ (ByCodex => turnCompleted)
        /\ sent' = Append(sent, Completed)
        /\ UNCHANGED <<snapshots, turnCompleted, printed, child>>
    BY <1>4 DEF ConcludesWell, Concludes, EndsWith, childVars
  <2>2. Taken = Len(printed)
    BY <2>1, EverythingTaken
  <2>3. child' = "succeeded"
    BY <2>1 DEF ChildPlaces
  <2>4. SaidBy(sent') = SaidBy(sent)
    <3>1. \A message \in CliMessage : message.text \in Seq(Nat)
      BY CliTexts
    <3>2. Completed \in CliMessage /\ Completed.text = <<>> /\ sent \in Seq(CliMessage)
      BY MessagesAreTyped DEF Completed, Message, CliTypes
    <3>3. SaidBy(sent) \in Seq(Nat) /\ SaidBy(Append(sent, Completed)) = SaidBy(sent) \o <<>>
      BY <3>1, <3>2, SaidByAppend
    <3> QED  BY <2>1, <3>3, ConcatEmptySeq
  <2>5. CASE ByText
    <3>1. SaidBy(sent) = SaidUpTo(printed, Len(printed))
      BY <2>1, <2>2, <2>5 DEF SaidIsTaken, Forwards, Reading
    <3>2. SaidBy(printed) = SaidUpTo(printed, Len(printed))
      BY SaidByAll DEF CliTypes
    <3> QED  BY <1>0, <2>1, <2>3, <2>4, <2>5, <3>1, <3>2 DEF CompletedIsAll
  <2>6. CASE ~ByText
    <3>1. /\ turnCompleted => \E i \in 1..Len(printed) : printed[i].kind = "turn.completed"
          /\ \A id \in Items : IsLatest(snapshots[id], id, Len(printed))
          /\ Len(SaidBy(sent)) = Lengths(snapshots)
      BY <2>1, <2>2, <2>6 DEF SaidIsTaken, Forwards, Reading
    <3>2. turnCompleted => \E i \in DOMAIN printed : printed[i].kind = "turn.completed"
      <4>1. DOMAIN printed = 1..Len(printed)
        BY DEF CliTypes
      <4> QED  BY <3>1, <4>1
    <3>3. turnCompleted
      BY <2>1, <2>6
    <3>4. \A id \in Items : IsLatest(snapshots[id], id, Len(printed))'
      BY <2>1, <3>1 DEF IsLatest
    <3> QED  BY <1>0, <2>1, <2>3, <2>4, <2>6, <3>1, <3>2, <3>3, <3>4 DEF CompletedIsAll
  <2> QED  BY <2>5, <2>6
<1> QED  BY <1>1, <1>2, <1>3, <1>4, SentSteps

-----------------------------------------------------------------------------
(* Both kinds of CLI run.                                                  *)

CliWhole ==
  /\ CliTypes /\ InPipes /\ ReadsAll /\ SaidIsTaken
  /\ ChildPlaces /\ NotCompleted /\ CompletedIsAll

LEMMA CliWholeKept ==
  ASSUME CliIInv, CliWhole, FullStep, connector' = connector, ByText \/ ByCodex
  PROVE  CliWhole'
<1> USE DEF CliWhole
<1>1. CliTypes'
  BY CliTypesKept
<1>2. InPipes'
  BY InPipesKept
<1>3. ReadsAll'
  BY ReadsAllKept
<1>4. SaidIsTaken'
  BY SaidIsTakenKept
<1>5. ChildPlaces'
  BY ChildPlacesKept
<1>6. NotCompleted'
  BY <1>1, NotCompletedKept
<1>7. CompletedIsAll'
  BY <1>1, CompletedIsAllKept
<1> QED  BY <1>1, <1>2, <1>3, <1>4, <1>5, <1>6, <1>7

CliFresh ==
  /\ worker = "spawn" /\ sent = <<>>
  /\ child = "none" /\ helper = FALSE
  /\ unwritten = PromptSize /\ stdin = 0 /\ stdout = <<>> /\ stderr = 0
  /\ outReader = "off" /\ errReader = "off" /\ collected = 0 /\ lines = <<>>
  /\ snapshots = [id \in Items |-> <<>>] /\ turnCompleted = FALSE
  /\ printed = <<>>

LEMMA CliWholeInitially ==
  ASSUME CliFresh, ByText \/ ByCodex
  PROVE  CliWhole
<1> USE DEF CliFresh
<1>1. CliTypes
  <2>1. /\ PromptSize \in 0..PromptSize /\ 0 \in 0..PipeSize /\ 0 \in 0..ErrorLimit
        /\ Len(<<>>) <= PipeSize
    BY SizesAreNat
  <2>2. snapshots \in [Items -> {line.text : line \in Printable} \cup {<<>>}]
    OBVIOUS
  <2>3. <<>> \in Seq(CliMessage) /\ <<>> \in Seq(Printable)
    OBVIOUS
  <2> QED  BY <2>1, <2>2, <2>3 DEF CliTypes
<1>2. InPipes /\ Taken = 0
  <2>1. Len(lines) = 0 /\ Len(stdout) = 0 /\ Len(printed) = 0
    BY EmptySeq
  <2>2. Taken = 0
    BY ONLY <2>1 DEF Taken
  <2>3. InPipes
    BY ONLY <2>1 DEF InPipes
  <2> QED  BY <2>2, <2>3
<1>3. ReadsAll /\ ChildPlaces
  BY DEF ReadsAll, Reading, ChildPlaces
<1>4. NotCompleted /\ CompletedIsAll
  BY DEF NotCompleted, CompletedIsAll
<1>5. SaidIsTaken
  <2>1. SaidBy(sent) = <<>> /\ SaidUpTo(printed, 0) = <<>>
    BY SaidByNone
  <2>2. Lengths(snapshots) = 0
    BY SizesAreNat, SumOfEmpty
  <2>3. \A id \in Items : IsLatest(snapshots[id], id, 0)
    BY DEF IsLatest
  <2> QED  BY <1>2, <2>1, <2>2, <2>3 DEF SaidIsTaken
<1> QED  BY <1>1, <1>2, <1>3, <1>4, <1>5 DEF CliWhole

Highest(S) == CHOOSE x \in S : \A y \in S : x >= y

\* The index of the last line that says something about message id.
LEMMA LatestIsLast ==
  ASSUME NEW s, NEW id, NEW i \in DOMAIN s, SaysOf(id, s[i]), DOMAIN s = 1..Len(s), Len(s) \in Nat,
         \A j \in i+1..Len(s) : ~SaysOf(id, s[j]),
         NEW mine, mine = {k \in DOMAIN s : SaysOf(id, s[k])}
  PROVE  mine # {} /\ Highest(mine) = i
<1>1. i \in mine /\ \A k \in mine : i >= k
  <2> SUFFICES ASSUME NEW k \in mine, ~(i >= k) PROVE FALSE
    OBVIOUS
  <2>1. k \in i+1..Len(s)
    OBVIOUS
  <2> QED  BY <2>1
<1>2. \A x \in mine : (\A y \in mine : x >= y) => x = i
  BY <1>1
<1> QED  BY <1>1, <1>2 DEF Highest

LEMMA LatestText ==
  ASSUME CliTypes, NEW id, NEW t, IsLatest(t, id, Len(printed)),
         NEW mine, mine = {i \in DOMAIN printed : printed[i].kind = "item" /\ printed[i].id = id}
  PROVE  t = IF mine = {} THEN <<>> ELSE printed[Highest(mine)].text
<1>1. mine = {i \in DOMAIN printed : SaysOf(id, printed[i])}
  BY DEF SaysOf
<1>2. DOMAIN printed = 1..Len(printed) /\ Len(printed) \in Nat
  BY DEF CliTypes
<1>3. CASE t = <<>> /\ \A i \in 1..Len(printed) : ~SaysOf(id, printed[i])
  <2>1. mine = {}
    BY ONLY <1>1, <1>2, <1>3
  <2> QED  BY <1>3, <2>1
<1>4. ASSUME NEW i \in 1..Len(printed), SaysOf(id, printed[i]), t = printed[i].text,
             \A j \in i+1..Len(printed) : ~SaysOf(id, printed[j])
      PROVE  t = IF mine = {} THEN <<>> ELSE printed[Highest(mine)].text
  <2>1. mine # {} /\ Highest(mine) = i
    BY <1>1, <1>2, <1>4, LatestIsLast
  <2> QED  BY <1>4, <2>1
<1> QED  BY <1>3, <1>4 DEF IsLatest

LEMMA TextIsWhole ==
  ASSUME CliWhole, ByText
  PROVE  CompletedIsWhole
<1>1. Last(sent) = sent[Len(sent)]
  BY DEF Last
<1> QED
  BY <1>1, FormatsAssumption DEF CliWhole, CompletedIsAll, CompletedIsWhole, SaidBy

LEMMA CodexIsWhole ==
  ASSUME CliWhole, ByCodex
  PROVE  Codex!CompletedIsWhole
<1> SUFFICES ASSUME sent # <<>>, Codex!Last(sent) = Codex!Completed
             PROVE  Codex!CompletedIsWhole
  BY DEF Codex!CompletedIsWhole
<1>0. ~ByText
  BY DEF ByText, ByCodex
<1>1. sent[Len(sent)] = Completed
  BY DEF Codex!Last, Codex!Completed, Completed, Codex!Message, Message
<1>2. /\ child = "succeeded"
      /\ \E i \in DOMAIN printed : printed[i].kind = "turn.completed"
      /\ \A id \in Items : IsLatest(snapshots[id], id, Len(printed))
      /\ Len(SaidBy(sent)) = Lengths(snapshots)
  BY <1>0, <1>1 DEF CliWhole, CompletedIsAll
<1>3. Len(Codex!FlattenSeq([i \in DOMAIN sent |-> sent[i].text]))
        = Codex!FoldFunction(LAMBDA t, n : Len(t) + n, 0, snapshots)
  BY <1>2
  DEF SaidBy, Lengths, Codex!FlattenSeq, FlattenSeq, Codex!FoldFunction, FoldFunction,
      Codex!FoldFunctionOnSet, FoldFunctionOnSet, Codex!MapThenFoldSet, MapThenFoldSet
<1>4. ASSUME NEW id \in Items, NEW mine, mine = {i \in DOMAIN printed : printed[i].kind = "item" /\ printed[i].id = id}
      PROVE  snapshots[id] = IF mine = {} THEN <<>> ELSE printed[Codex!Max(mine)].text
  <2>1. snapshots[id] = IF mine = {} THEN <<>> ELSE printed[Highest(mine)].text
    BY <1>2, <1>4, LatestText DEF CliWhole
  <2> QED  BY <2>1 DEF Codex!Max, Highest
<1> QED
  BY <1>2, <1>3, <1>4 DEF Codex!CompletedIsWhole

LEMMA CliSaysTypes ==
  ASSUME CliIInv, CliWhole
  PROVE  /\ ByText => TypeOK
         /\ ByCodex => Codex!TypeOK
<1> USE DEF CliIInv, CliWhole, CliTypes
<1>1. worker \in {"spawn", "announce", "prompt", "forward", "token", "poll", "joinExited",
                  "drain", "terminate", "join", "done", "gone"}
  BY DEF AfterStart, Teardown
<1>2. \A i \in DOMAIN sent : sent[i].kind \in EventKind /\ sent[i].cause \in Causes
  <2>1. \A i \in DOMAIN sent : sent[i] \in CliMessage
    OBVIOUS
  <2> QED  BY <2>1 DEF CliMessage
<1>3. ending.kind \in {"None", "Failed", "Cancelled"} /\ ending.cause \in Causes
  BY DEF Nothing, Cancelled, Failed, Message, Causes
<1>4. \A s \in Seq(Printable) : \A i \in DOMAIN s : s[i] \in Printable
  OBVIOUS
<1>5. CASE ByText
  <2>1. \A s \in Seq(Printable) : \A line \in ToSet(s) : line \in Output
    BY <1>4, <1>5 DEF ToSet, Printable
  <2>2. snapshots \in [Items -> Texts]
    BY <1>5 DEF Texts, Printable
  <2>3. TypeOK
    BY <1>1, <1>2, <1>3, <2>1, <2>2 DEF TypeOK
  <2> QED  BY <1>5, <2>3 DEF ByText, ByCodex
<1>6. CASE ByCodex
  <2>0. Printable = CodexLines
    BY <1>6 DEF Printable, ByText, ByCodex
  <2>1. \A s \in Seq(Printable) : \A line \in Codex!ToSet(s) : line \in CodexLines
    BY <1>4, <2>0 DEF Codex!ToSet
  <2>2. snapshots \in [Items -> Codex!Texts]
    BY <2>0 DEF Codex!Texts
  <2>3. Codex!TypeOK
    BY <1>1, <1>2, <1>3, <2>1, <2>2 DEF Codex!TypeOK, Codex!Causes, Causes, Codex!EventKind, EventKind
  <2> QED  BY <1>6, <2>3 DEF ByText, ByCodex
<1> QED  BY <1>5, <1>6

-----------------------------------------------------------------------------
(* The HTTP connector: what was served is what was taken and sent, and     *)
(* then what the decoder and the wire still hold.                          *)

\* FlattenSeq begins with the first sequence.
FirstOf(s) == FlattenSeq(s) = Head(s) \o FlattenSeq(Tail(s))

LEMMA FlattenFirst ==
  ASSUME NEW C, NEW s \in Seq(Seq(C)), s # <<>>
  PROVE  FirstOf(s)
<1> DEFINE All(k) == \A v \in Seq(Seq(C)) : v # <<>> /\ Len(v) <= k => FirstOf(v)
           K == {k \in Nat : All(k)}
<1>1. 0 \in K
  BY EmptySeq, LenProperties
<1>2. ASSUME NEW k \in Nat, All(k), NEW v \in Seq(Seq(C)), v # <<>>, Len(v) <= k + 1
      PROVE  FirstOf(v)
  <2>0. k \in Nat /\ \A u \in Seq(Seq(C)) : u # <<>> /\ Len(u) <= k => FirstOf(u)
    BY <1>2
  <2> HIDE DEF K
  <2>1. PICK u \in Seq(Seq(C)), e \in Seq(C) : v = Append(u, e)
    BY <1>2, SequenceEmptyOrAppend
  <2>2. FlattenSeq(u) \in Seq(C) /\ FlattenSeq(v) = FlattenSeq(u) \o e
    BY <2>1, FlattenAppend
  <2>3. CASE u = <<>>
    <3>1. Head(v) = e /\ Tail(v) = <<>>
      BY <2>1, <2>3, HeadTailAppend
    <3>2. <<>> \o e = e /\ e \o <<>> = e
      BY ConcatEmptySeq
    <3> QED  BY <2>2, <2>3, <3>1, <3>2, FlattenEmpty DEF FirstOf
  <2>4. CASE u # <<>>
    <3>1. Head(v) = Head(u) /\ Tail(v) = Append(Tail(u), e)
      BY <2>1, <2>4, HeadTailAppend
    <3>2. Head(u) \in Seq(C) /\ Tail(u) \in Seq(Seq(C))
      BY <2>4, HeadTailProperties
    <3>3. Len(u) <= k
      <4>1. Len(v) = Len(u) + 1 /\ Len(u) \in Nat
        BY <2>1, AppendProperties, LenProperties
      <4> QED  BY <1>2, <2>0, <4>1
    <3>4. FlattenSeq(u) = Head(u) \o FlattenSeq(Tail(u))
      BY <2>0, <2>4, <3>3 DEF FirstOf
    <3>5. /\ FlattenSeq(Tail(u)) \in Seq(C)
          /\ FlattenSeq(Append(Tail(u), e)) = FlattenSeq(Tail(u)) \o e
      BY <3>2, FlattenAppend
    <3>6. (Head(u) \o FlattenSeq(Tail(u))) \o e = Head(u) \o (FlattenSeq(Tail(u)) \o e)
      <4> DEFINE a == Head(u)
                 b == FlattenSeq(Tail(u))
      <4>1. a \in Seq(C) /\ b \in Seq(C) /\ e \in Seq(C)
        BY <2>1, <3>2, <3>5
      <4> HIDE DEF a, b
      <4>2. (a \o b) \o e = a \o (b \o e)
        <5>1. Associates(a, b, e)
          BY <4>1, SequencesAssociate
        <5> QED  BY ONLY <5>1 DEF Associates
      <4> QED  BY <4>2 DEF a, b
    <3> QED  BY <2>2, <3>1, <3>4, <3>5, <3>6 DEF FirstOf
  <2> QED  BY <2>3, <2>4
<1>3. \A k \in Nat : All(k) => All(k + 1)
  BY <1>2
<1>4. K \in SUBSET Nat
  OBVIOUS
<1> HIDE DEF All
<1>6. \A k \in K : k + 1 \in K
  BY <1>3
<1> HIDE DEF K
<1>5. K = Nat
  BY <1>1, <1>4, <1>6, Induction
<1>7. Len(s) \in Nat /\ All(Len(s))
  BY <1>5, LenProperties DEF K
<1> QED  BY <1>7 DEF All

HttpMessage == [kind : EventKind, text : Seq(Nat), code : ConnectorErrorCode \cup {"none"}]

\* The events of a stream: only a text says something.
SseEvents ==
  {event \in [kind : {"text", "empty", "done", "malformed", "error"}, text : Seq(Nat)] :
     event.kind # "text" => event.text = <<>>}

HttpTypes ==
  /\ sent \in Seq(HttpMessage)
  /\ wire \in Seq(Chunks) /\ Len(wire) <= WireSize
  /\ decoded \in Seq(SseEvents) /\ served \in Seq(SseEvents)
  /\ connection.state \in {"waiting", "open", "closed", "broken"}
  /\ streamBytes \in 0..MaxStream /\ responseBytes \in 0..MaxResponse

\* What the chunks on their way say, and all that the worker has not taken.
EventsOf(w) == [i \in DOMAIN w |-> w[i].events]

Unread == decoded \o FlattenSeq(EventsOf(wire))

NoMarkIn(s) == \A i \in DOMAIN s : s[i].kind # "done"

EndsAtMark(s) == \E front \in Seq(SseEvents), mark \in SseEvents : s = Append(front, mark) /\ NoMarkIn(front) /\ mark.kind = "done"

\* What was served is what was taken and sent, and then the rest.
Flows(taken, rest) ==
  /\ served = taken \o rest
  /\ SaidBy(sent) = SaidBy(taken)
  /\ worker # "done" => rest = Unread /\ NoMarkIn(taken) /\ \A i \in DOMAIN sent : sent[i] # Http!Completed
  /\ sent # <<>> /\ sent[Len(sent)] = Http!Completed => EndsAtMark(taken)

HttpFlow == \E taken \in Seq(SseEvents), rest \in Seq(SseEvents) : Flows(taken, rest)

HttpWhole == HttpTypes /\ HttpFlow /\ Len(SaidBy(sent)) <= responseBytes

LEMMA LimitsAreNat ==
  /\ MaxStream \in Nat \ {0} /\ MaxResponse \in Nat \ {0} /\ WireSize \in Nat \ {0}
  /\ \A chunk \in Chunks : chunk.size \in Nat \ {0} /\ chunk.events \in Seq(SseEvents)
<1>1. \A chunk \in Chunks : chunk.size \in Nat \ {0} /\ chunk.events \in Seq(SseEvents)
  <2> SUFFICES ASSUME NEW chunk \in Chunks
               PROVE  chunk.size \in Nat \ {0} /\ chunk.events \in Seq(SseEvents)
    OBVIOUS
  <2> DEFINE s == chunk.events
             E == [kind : {"text", "empty", "done", "malformed", "error"}, text : Seq(Nat)]
  <2>1. s \in Seq(E) /\ \A i \in DOMAIN s : s[i].kind # "text" => s[i].text = <<>>
    BY HttpAssumption DEF Http!LimitsAssumption
  <2>2. chunk.size \in Nat \ {0}
    BY HttpAssumption DEF Http!LimitsAssumption
  <2> HIDE DEF s, E
  <2>3. Len(s) \in Nat /\ s \in [1..Len(s) -> E]
    BY <2>1, LenProperties
  <2>4. \A i \in 1..Len(s) : s[i] \in {event \in E : event.kind # "text" => event.text = <<>>}
    BY <2>1, <2>3
  <2>5. \A i \in 1..Len(s) : s[i] \in SseEvents
    BY <2>4 DEF SseEvents, E
  <2>6. s \in [1..Len(s) -> SseEvents]
    BY <2>3, <2>5
  <2>7. s \in Seq(SseEvents)
    BY <2>3, <2>6, SeqDef
  <2> QED  BY <2>2, <2>7 DEF s
<1> QED  BY <1>1, HttpAssumption DEF Http!LimitsAssumption

LEMMA SseTexts ==
  /\ \A event \in SseEvents : event.text \in Seq(Nat) /\ (event.kind # "text" => event.text = <<>>)
  /\ \A s \in Seq(SseEvents) : HaveTexts(s)
<1>1. \A event \in SseEvents : event.text \in Seq(Nat) /\ (event.kind # "text" => event.text = <<>>)
  BY DEF SseEvents
<1> QED  BY <1>1 DEF HaveTexts

LEMMA HttpMessages ==
  /\ Http!Started \in HttpMessage /\ Http!Completed \in HttpMessage /\ Http!Cancelled \in HttpMessage
  /\ \A code \in ConnectorErrorCode : Http!Failed(code) \in HttpMessage
  /\ \A text \in Seq(Nat) : Http!Delta(text) \in HttpMessage
  /\ \A message \in HttpMessage : message.text \in Seq(Nat)
  /\ {Http!Started.text, Http!Completed.text, Http!Cancelled.text} = {<<>>}
  /\ \A code : Http!Failed(code).text = <<>>
  /\ \A text : Http!Delta(text).text = text
  /\ Http!Started # Http!Completed /\ Http!Cancelled # Http!Completed
  /\ \A code : Http!Failed(code) # Http!Completed
  /\ \A text : Http!Delta(text) # Http!Completed
<1> USE DEF HttpMessage, Http!Message, EventKind
<1>1. <<>> \in Seq(Nat)
  OBVIOUS
<1>2. Http!Started \in HttpMessage /\ Http!Completed \in HttpMessage /\ Http!Cancelled \in HttpMessage
  BY <1>1 DEF Http!Started, Http!Completed, Http!Cancelled
<1>3. \A code \in ConnectorErrorCode : Http!Failed(code) \in HttpMessage
  BY <1>1 DEF Http!Failed
<1>4. \A text \in Seq(Nat) : Http!Delta(text) \in HttpMessage
  BY DEF Http!Delta
<1>5. \A message \in HttpMessage : message.text \in Seq(Nat)
  OBVIOUS
<1>6. {Http!Started.text, Http!Completed.text, Http!Cancelled.text} = {<<>>}
  BY DEF Http!Started, Http!Completed, Http!Cancelled
<1>7. /\ \A code : Http!Failed(code).text = <<>>
      /\ \A text : Http!Delta(text).text = text
  BY DEF Http!Failed, Http!Delta
<1>8. /\ Http!Started # Http!Completed /\ Http!Cancelled # Http!Completed
      /\ \A code : Http!Failed(code) # Http!Completed
      /\ \A text : Http!Delta(text) # Http!Completed
  BY DEF Http!Started, Http!Completed, Http!Cancelled, Http!Failed, Http!Delta
<1> QED  BY <1>2, <1>3, <1>4, <1>5, <1>6, <1>7, <1>8

LEMMA CodesAreCodes ==
  /\ \A status : Http!StatusCode(status) \in ConnectorErrorCode
  /\ {"Transport", "Protocol", "Timeout"} \subseteq ConnectorErrorCode
BY DEF Http!StatusCode, ConnectorErrorCode

\* The events of the chunks.
LEMMA EventsOfWire ==
  ASSUME NEW w \in Seq(Chunks)
  PROVE  /\ EventsOf(w) \in Seq(Seq(SseEvents))
         /\ FlattenSeq(EventsOf(w)) \in Seq(SseEvents)
         /\ \A chunk \in Chunks : FlattenSeq(EventsOf(Append(w, chunk))) = FlattenSeq(EventsOf(w)) \o chunk.events
         /\ w # <<>> => /\ Head(w).events \in Seq(SseEvents)
                        /\ FlattenSeq(EventsOf(w)) = Head(w).events \o FlattenSeq(EventsOf(Tail(w)))
<1> DEFINE n == Len(w)
<1>0. n \in Nat /\ DOMAIN w = 1..n /\ w \in [1..n -> Chunks]
  BY LenProperties
<1>1. EventsOf(w) \in Seq(Seq(SseEvents)) /\ Len(EventsOf(w)) = n
  <2>1. EventsOf(w) \in [1..n -> Seq(SseEvents)]
    BY <1>0, LimitsAreNat DEF EventsOf
  <2> HIDE DEF n
  <2>2. EventsOf(w) \in Seq(Seq(SseEvents))
    BY <1>0, <2>1, SeqDef
  <2>3. DOMAIN EventsOf(w) = 1..n /\ DOMAIN EventsOf(w) = 1..Len(EventsOf(w)) /\ Len(EventsOf(w)) \in Nat
    BY <2>1, <2>2, LenProperties
  <2> QED  BY <1>0, <2>2, <2>3
<1>2. <<>> \in Seq(SseEvents)
  OBVIOUS
<1>3. FlattenSeq(EventsOf(w)) \in Seq(SseEvents)
  BY <1>1, <1>2, FlattenAppend
<1>4. ASSUME NEW chunk \in Chunks
      PROVE  FlattenSeq(EventsOf(Append(w, chunk))) = FlattenSeq(EventsOf(w)) \o chunk.events
  <2> DEFINE a == EventsOf(w)
             b == EventsOf(Append(w, chunk))
             e == chunk.events
             c == Append(a, e)
  <2>1. e \in Seq(SseEvents)
    BY LimitsAreNat
  <2>2. c \in Seq(Seq(SseEvents)) /\ Len(c) = n + 1 /\ c[n + 1] = e /\ \A i \in 1..n : c[i] = a[i]
    BY <1>1, <2>1, AppendProperties
  <2>3. /\ Append(w, chunk) \in Seq(Chunks) /\ Len(Append(w, chunk)) = n + 1
        /\ Append(w, chunk)[n + 1] = chunk /\ \A i \in 1..n : Append(w, chunk)[i] = w[i]
    BY AppendProperties
  <2>4. DOMAIN Append(w, chunk) = 1..n + 1
    BY <2>3
  <2>5. DOMAIN b = 1..n + 1 /\ b[n + 1] = e /\ \A i \in 1..n : b[i] = a[i]
    BY <1>0, <2>3, <2>4 DEF EventsOf
  <2>6. b = [i \in 1..n + 1 |-> b[i]]
    BY <2>4 DEF EventsOf
  <2>7. c = [i \in 1..n + 1 |-> c[i]]
    BY <2>2, LenProperties
  <2> HIDE DEF b, c, a, n, e
  <2>8. \A i \in 1..n + 1 : b[i] = c[i]
    <3>1. \A i \in 1..n + 1 : i \in 1..n \/ i = n + 1
      BY <1>0
    <3> QED  BY <2>2, <2>5, <3>1
  <2>9. b = c
    BY <2>6, <2>7, <2>8
  <2> QED  BY <1>1, <2>1, <2>9, FlattenAppend DEF a, b, c, e
<1>5. ASSUME w # <<>>
      PROVE  /\ Head(w).events \in Seq(SseEvents)
             /\ FlattenSeq(EventsOf(w)) = Head(w).events \o FlattenSeq(EventsOf(Tail(w)))
  <2> DEFINE a == EventsOf(w)
             b == EventsOf(Tail(w))
  <2>1. Head(w) \in Chunks /\ Head(w) = w[1] /\ Tail(w) \in Seq(Chunks) /\ Len(Tail(w)) = n - 1
        /\ \A i \in 1..n - 1 : Tail(w)[i] = w[i + 1]
    BY <1>5, HeadTailProperties
  <2>2. n \in Nat /\ n > 0
    BY <1>5, EmptySeq
  <2>3. DOMAIN Tail(w) = 1..n - 1
    BY <2>1, LenProperties
  <2>4. a # <<>> /\ Head(a) = Head(w).events
    <3>1. a # <<>>
      <4> HIDE DEF a, n
      <4> QED  BY <1>1, <2>2, EmptySeq DEF a
    <3>2. Head(a) = a[1] /\ a[1] = w[1].events
      BY <1>0, <2>2 DEF EventsOf
    <3> QED  BY <2>1, <3>1, <3>2
  <2>5. Tail(a) = b
    <3>1. /\ Tail(a) \in Seq(Seq(SseEvents)) /\ Len(Tail(a)) = n - 1
          /\ \A i \in 1..n - 1 : Tail(a)[i] = a[i + 1]
      <4> HIDE DEF a, n
      <4> QED  BY <1>1, <2>4, HeadTailProperties DEF a
    <3>2. b = [i \in 1..n - 1 |-> b[i]]
      BY <2>3 DEF EventsOf
    <3>3. Tail(a) = [i \in 1..n - 1 |-> Tail(a)[i]]
      <4> HIDE DEF a, n
      <4> QED  BY <3>1, LenProperties
    <3>4. \A i \in 1..n - 1 : b[i] = a[i + 1]
      BY <1>0, <2>1, <2>2, <2>3 DEF EventsOf
    <3> HIDE DEF a, b, n
    <3> QED  BY <3>1, <3>2, <3>3, <3>4
  <2>6. FirstOf(a)
    BY <1>1, <2>4, FlattenFirst
  <2> QED  BY <2>1, <2>4, <2>5, <2>6, LimitsAreNat DEF FirstOf
<1> QED  BY <1>1, <1>3, <1>4, <1>5

LEMMA HttpSendTypes ==
  ASSUME HttpTypes, NEW event \in HttpMessage, Http!Send(event)
  PROVE  sent' \in Seq(HttpMessage)
BY DEF Http!Send, HttpTypes

LEMMA HttpTypesKept ==
  ASSUME HttpTypes, Http!Next
  PROVE  HttpTypes'
<1> USE DEF Http!workerVars, Http!serverVars, Http!userVars, Http!EndWith
<1>0. /\ {Http!Started, Http!Completed, Http!Cancelled} \subseteq HttpMessage
      /\ \A status : Http!Failed(Http!StatusCode(status)) \in HttpMessage
      /\ {Http!Failed("Transport"), Http!Failed("Protocol"), Http!Failed("Timeout")} \subseteq HttpMessage
  BY HttpMessages, CodesAreCodes
<1>1. CASE Http!Announce
  BY <1>0, <1>1, HttpSendTypes DEF Http!Announce, HttpTypes
<1>2. CASE Http!BuildRuntime
  BY <1>2 DEF Http!BuildRuntime, HttpTypes
<1>3. CASE Http!RuntimeFails \/ Http!SeesCancel \/ Http!RequestBreaks \/ Http!TimesOut \/ Http!StreamEnds
  BY <1>0, <1>3, HttpSendTypes
  DEF Http!RuntimeFails, Http!SeesCancel, Http!RequestBreaks, Http!TimesOut, Http!StreamEnds, HttpTypes
<1>4. CASE Http!ReceiveAnswer
  <2>1. sent' \in Seq(HttpMessage)
    BY <1>0, <1>4, HttpSendTypes DEF Http!ReceiveAnswer, HttpTypes
  <2> QED  BY <1>4, <2>1 DEF Http!ReceiveAnswer, HttpTypes
<1>5. CASE Http!PullChunk
  <2>1. Head(wire) \in Chunks /\ wire' \in Seq(Chunks) /\ Len(wire') <= WireSize
    BY <1>5, LimitsAreNat DEF Http!PullChunk, HttpTypes
  <2>2. Head(wire).size \in Nat /\ Head(wire).events \in Seq(SseEvents)
    BY <2>1, LimitsAreNat
  <2>3. sent' \in Seq(HttpMessage)
    BY <1>0, <1>5, HttpSendTypes DEF Http!PullChunk, HttpTypes
  <2>4. streamBytes' \in 0..MaxStream
    BY <1>5, <2>2, LimitsAreNat DEF Http!PullChunk, HttpTypes
  <2>5. decoded' \in Seq(SseEvents)
    BY <1>5, <2>2 DEF Http!PullChunk, HttpTypes
  <2> QED  BY <1>5, <2>1, <2>3, <2>4, <2>5 DEF Http!PullChunk, HttpTypes
<1>6. ASSUME NEW kinds, Http!Takes(kinds)
      PROVE  Head(decoded) \in SseEvents /\ decoded' \in Seq(SseEvents)
  BY <1>6 DEF Http!Takes, HttpTypes
<1>7. CASE Http!TakeDone
  BY <1>0, <1>6, <1>7, HttpSendTypes DEF Http!TakeDone, HttpTypes
<1>8. CASE Http!TakeError
  BY <1>0, <1>6, <1>8, HttpSendTypes DEF Http!TakeError, HttpTypes
<1>9. CASE Http!SkipEmpty
  BY <1>6, <1>9 DEF Http!SkipEmpty, HttpTypes
<1>10. CASE Http!TakeText
  <2>1. Head(decoded).text \in Seq(Nat) /\ decoded' \in Seq(SseEvents)
    BY <1>6, <1>10, SseTexts DEF Http!TakeText
  <2>2. Len(Head(decoded).text) \in Nat /\ Http!Delta(Head(decoded).text) \in HttpMessage
    BY <2>1, HttpMessages
  <2>3. sent' \in Seq(HttpMessage)
    BY <1>0, <1>10, <2>2, HttpSendTypes DEF Http!TakeText
  <2>4. responseBytes' \in 0..MaxResponse
    BY <1>10, <2>2, LimitsAreNat DEF Http!TakeText, HttpTypes
  <2> QED  BY <1>10, <2>1, <2>3, <2>4 DEF Http!TakeText, HttpTypes
<1>11. ASSUME NEW status \in Statuses, NEW eventStream \in BOOLEAN, Http!Answer(status, eventStream)
       PROVE  HttpTypes'
  BY <1>11 DEF Http!Answer, HttpTypes
<1>12. ASSUME NEW chunk \in Chunks, Http!WriteChunk(chunk)
       PROVE  HttpTypes'
  <2>1. chunk.events \in Seq(SseEvents)
    BY LimitsAreNat
  <2>2. served' \in Seq(SseEvents)
    BY <1>12, <2>1, ConcatProperties DEF Http!WriteChunk, HttpTypes
  <2>3. wire' \in Seq(Chunks) /\ Len(wire') <= WireSize
    BY <1>12, LimitsAreNat DEF Http!WriteChunk, HttpTypes
  <2> QED  BY <1>12, <2>2, <2>3 DEF Http!WriteChunk, HttpTypes
<1>13. ASSUME NEW state \in {"closed", "broken"}, Http!Disconnect(state)
       PROVE  HttpTypes'
  <2>1. connection' = [connection EXCEPT !.state = state]
    BY <1>13 DEF Http!Disconnect
  <2>2. connection'.state \in {"waiting", "open", "closed", "broken"}
    BY <2>1 DEF HttpTypes
  <2> QED  BY <1>13, <2>2 DEF Http!Disconnect, HttpTypes
<1>14. CASE Http!Cancel \/ Http!DropRun
  BY <1>14 DEF Http!Cancel, Http!DropRun, HttpTypes
<1> QED
  BY <1>1, <1>2, <1>3, <1>4, <1>5, <1>7, <1>8, <1>9, <1>10, <1>11, <1>12, <1>13, <1>14
  DEF Http!Next, Http!WorkerStep, Http!ServerStep

\* What sending one message changes.
LEMMA OneMore ==
  ASSUME HttpTypes, NEW event \in HttpMessage, sent' = Append(sent, event)
  PROVE  /\ SaidBy(sent) \in Seq(Nat) /\ SaidBy(sent') = SaidBy(sent) \o event.text
         /\ sent'[Len(sent')] = event
         /\ \A i \in DOMAIN sent' : sent'[i] = event \/ (i \in DOMAIN sent /\ sent'[i] = sent[i])
<1>1. \A message \in HttpMessage : message.text \in Seq(Nat)
  BY HttpMessages
<1>2. sent \in Seq(HttpMessage)
  BY DEF HttpTypes
<1> QED  BY <1>1, <1>2, SaidByAppend, AppendedLast

SaysNoText(event) == event \in HttpMessage /\ event.text = <<>> /\ event # Http!Completed

\* A step that takes nothing: it may send what has no text.
LEMMA FlowStays ==
  ASSUME HttpTypes, NEW taken \in Seq(SseEvents), NEW rest \in Seq(SseEvents), Flows(taken, rest),
         served' = served, worker' # "done" => worker # "done" /\ Unread' = Unread,
         sent' = sent \/ \E event : SaysNoText(event) /\ sent' = Append(sent, event)
  PROVE  HttpFlow' /\ SaidBy(sent') = SaidBy(sent)
<1>1. CASE sent' = sent
  <2>1. Flows(taken, rest)'
    BY <1>1 DEF Flows
  <2> QED  BY <1>1, <2>1 DEF HttpFlow
<1>2. ASSUME NEW event, SaysNoText(event), sent' = Append(sent, event)
      PROVE  HttpFlow' /\ SaidBy(sent') = SaidBy(sent)
  <2>1. event \in HttpMessage /\ event.text = <<>> /\ event # Http!Completed
    BY <1>2 DEF SaysNoText
  <2>2. /\ SaidBy(sent) \in Seq(Nat) /\ SaidBy(sent') = SaidBy(sent) \o <<>>
        /\ sent'[Len(sent')] = event
        /\ \A i \in DOMAIN sent' : sent'[i] = event \/ (i \in DOMAIN sent /\ sent'[i] = sent[i])
    BY <1>2, <2>1, OneMore
  <2>3. SaidBy(sent') = SaidBy(sent)
    BY <2>2, ConcatEmptySeq
  <2>4. Flows(taken, rest)'
    BY <2>1, <2>2, <2>3 DEF Flows
  <2> QED  BY <2>3, <2>4 DEF HttpFlow
<1> QED  BY <1>1, <1>2

LEMMA FlowGoesOn ==
  ASSUME NEW t \in Seq(SseEvents), NEW r \in Seq(SseEvents),
         served' = t \o r, SaidBy(sent') = SaidBy(t),
         worker' # "done" => r = Unread' /\ NoMarkIn(t) /\ \A i \in DOMAIN sent' : sent'[i] # Http!Completed,
         sent' # <<>> /\ sent'[Len(sent')] = Http!Completed => EndsAtMark(t)
  PROVE  HttpFlow'
<1>1. Flows(t, r)'
  BY DEF Flows
<1> QED  BY <1>1 DEF HttpFlow

BytesCounted == Len(SaidBy(sent)) <= responseBytes

SaysLittle == sent' = sent \/ \E event : SaysNoText(event) /\ sent' = Append(sent, event)

TakesNothing == worker' # "done" => worker # "done" /\ Unread' = Unread

LEMMA QuietKeeps ==
  ASSUME HttpTypes, HttpFlow, BytesCounted, UNCHANGED <<served, responseBytes>>, TakesNothing, SaysLittle
  PROVE  HttpFlow' /\ BytesCounted'
<1>1. PICK taken \in Seq(SseEvents), rest \in Seq(SseEvents) : Flows(taken, rest)
  BY DEF HttpFlow
<1>2. HttpFlow' /\ SaidBy(sent') = SaidBy(sent)
  BY <1>1, FlowStays DEF TakesNothing, SaysLittle
<1> QED  BY <1>2 DEF BytesCounted

\* The loop takes an event of the decoder.
LEMMA OneTaken ==
  ASSUME HttpTypes, NEW taken \in Seq(SseEvents), NEW rest \in Seq(SseEvents), Flows(taken, rest),
         worker = "stream", decoded # <<>>, decoded' = Tail(decoded), UNCHANGED <<wire, served>>
  PROVE  /\ Head(decoded) \in SseEvents
         /\ Append(taken, Head(decoded)) \in Seq(SseEvents)
         /\ Unread' \in Seq(SseEvents)
         /\ served' = Append(taken, Head(decoded)) \o Unread'
         /\ SaidBy(sent) \in Seq(Nat)
         /\ SaidBy(Append(taken, Head(decoded))) = SaidBy(sent) \o Head(decoded).text
         /\ NoMarkIn(taken)
         /\ Head(decoded).kind # "done" => NoMarkIn(Append(taken, Head(decoded)))
<1> DEFINE h == Head(decoded)
           t == Tail(decoded)
           f == FlattenSeq(EventsOf(wire))
<1>1. decoded \in Seq(SseEvents) /\ h \in SseEvents /\ t \in Seq(SseEvents)
  BY DEF HttpTypes
<1>2. f \in Seq(SseEvents)
  BY EventsOfWire DEF HttpTypes
<1>3. decoded = <<h>> \o t /\ <<h>> \in Seq(SseEvents)
  <2>1. SubSeq(decoded, 1, Len(decoded)) = <<decoded[1]>> \o SubSeq(decoded, 2, Len(decoded))
    <3>1. Len(decoded) \in Nat /\ Len(decoded) > 0
      BY <1>1, EmptySeq
    <3>2. 1 \in 1..Len(decoded) /\ Len(decoded) \in 1..Len(decoded) /\ 1 + 1 = 2
      BY <3>1
    <3> QED  BY <1>1, <3>2, SubSeqRecursiveFirst
  <2>2. SubSeq(decoded, 1, Len(decoded)) = decoded /\ t = SubSeq(decoded, 2, Len(decoded)) /\ h = decoded[1]
    BY <1>1, SubSeqFull, TailIsSubSeq
  <2> QED  BY <1>1, <2>1, <2>2
<1>4. rest = decoded \o f /\ served = taken \o rest /\ SaidBy(sent) = SaidBy(taken) /\ NoMarkIn(taken)
  BY DEF Flows, Unread
<1>5. Unread' = t \o f
  BY DEF Unread
<1> HIDE DEF h, t, f
<1>6. served = Append(taken, h) \o (t \o f)
  <2>1. rest = <<h>> \o (t \o f)
    BY <1>1, <1>2, <1>3, <1>4, ConcatAssociative
  <2>2. t \o f \in Seq(SseEvents)
    BY <1>1, <1>2, ConcatProperties
  <2>3. (taken \o <<h>>) \o (t \o f) = taken \o (<<h>> \o (t \o f))
    <3> DEFINE g == t \o f
               one == <<h>>
    <3>1. g \in Seq(SseEvents) /\ one \in Seq(SseEvents)
      BY <1>3, <2>2
    <3> HIDE DEF g, one
    <3>2. Associates(taken, one, g)
      BY <3>1, SequencesAssociate
    <3>3. (taken \o one) \o g = taken \o (one \o g)
      BY ONLY <3>2 DEF Associates
    <3> QED  BY <3>3 DEF g, one
  <2>4. Append(taken, h) = taken \o <<h>>
    BY <1>1, AppendIsConcat
  <2> QED  BY <1>4, <2>1, <2>3, <2>4
<1>7. Unread' \in Seq(SseEvents) /\ Append(taken, h) \in Seq(SseEvents)
  BY <1>1, <1>2, <1>5, ConcatProperties, AppendProperties
<1>8. SaidBy(taken) \in Seq(Nat) /\ SaidBy(Append(taken, h)) = SaidBy(taken) \o h.text
  <2>1. \A event \in SseEvents : event.text \in Seq(Nat)
    BY SseTexts
  <2> QED  BY <1>1, <2>1, SaidByAppend
<1>9. ASSUME h.kind # "done"
      PROVE  NoMarkIn(Append(taken, h))
  <2>1. \A i \in DOMAIN Append(taken, h) : Append(taken, h)[i] = h \/ (i \in DOMAIN taken /\ Append(taken, h)[i] = taken[i])
    BY <1>1, AppendedLast
  <2> QED  BY <1>4, <1>9, <2>1 DEF NoMarkIn
<1> QED  BY <1>1, <1>4, <1>5, <1>6, <1>7, <1>8, <1>9 DEF h

\* A server writes on.
LEMMA FlowGrows ==
  ASSUME HttpTypes, NEW taken \in Seq(SseEvents), NEW rest \in Seq(SseEvents), Flows(taken, rest),
         NEW chunk \in Chunks, wire' = Append(wire, chunk), served' = served \o chunk.events,
         UNCHANGED <<worker, sent, decoded>>
  PROVE  HttpFlow'
<1> DEFINE e == chunk.events
           f == FlattenSeq(EventsOf(wire))
<1>1. e \in Seq(SseEvents) /\ f \in Seq(SseEvents) /\ decoded \in Seq(SseEvents)
  BY LimitsAreNat, EventsOfWire DEF HttpTypes
<1>2. FlattenSeq(EventsOf(wire')) = f \o e
  BY EventsOfWire DEF HttpTypes
<1>3. Unread' = decoded \o (f \o e) /\ Unread = decoded \o f
  BY <1>2 DEF Unread
<1>4. served = taken \o rest /\ served' = (taken \o rest) \o e
  BY DEF Flows
<1> HIDE DEF e, f
<1>5. (decoded \o f) \o e = decoded \o (f \o e)
  <2>1. Associates(decoded, f, e)
    BY <1>1, SequencesAssociate
  <2> QED  BY ONLY <2>1 DEF Associates
<1>8. (taken \o rest) \o e = taken \o (rest \o e)
  <2>1. Associates(taken, rest, e)
    BY <1>1, SequencesAssociate
  <2> QED  BY ONLY <2>1 DEF Associates
<1>6. rest \o e \in Seq(SseEvents)
  BY <1>1, ConcatProperties
<1>7. Flows(taken, rest \o e)'
  BY <1>3, <1>4, <1>5, <1>8 DEF Flows
<1> QED  BY <1>6, <1>7 DEF HttpFlow

LEMMA HttpWholeKept ==
  ASSUME HttpWhole, Http!Next
  PROVE  HttpWhole'
<1> SUFFICES HttpFlow' /\ BytesCounted'
  BY HttpTypesKept DEF HttpWhole, BytesCounted
<1> USE DEF Http!workerVars, Http!serverVars, Http!userVars, Http!EndWith, Http!Send
<1>1. HttpTypes /\ HttpTypes' /\ HttpFlow /\ BytesCounted
  BY HttpTypesKept DEF HttpWhole, BytesCounted
<1>2. PICK taken \in Seq(SseEvents), rest \in Seq(SseEvents) : Flows(taken, rest)
  BY DEF HttpWhole, HttpFlow
<1>3. /\ SaysNoText(Http!Started) /\ SaysNoText(Http!Cancelled)
      /\ \A code \in ConnectorErrorCode : SaysNoText(Http!Failed(code))
  BY HttpMessages DEF SaysNoText
<1>4. /\ \A status : Http!StatusCode(status) \in ConnectorErrorCode
      /\ {"Transport", "Protocol", "Timeout"} \subseteq ConnectorErrorCode
  BY CodesAreCodes
<1>5. UNCHANGED <<served, responseBytes>> /\ TakesNothing /\ SaysLittle => HttpFlow' /\ BytesCounted'
  BY <1>1, QuietKeeps
<1>6. UNCHANGED <<decoded, wire>> /\ (worker' # "done" => worker # "done") => TakesNothing
  BY DEF Unread, TakesNothing
<1>20. worker' = "done" => TakesNothing
  BY DEF TakesNothing
<1>7. CASE Http!Announce \/ Http!BuildRuntime \/ Http!RuntimeFails \/ Http!SeesCancel \/ Http!RequestBreaks \/ Http!TimesOut \/ Http!StreamEnds
  <2>1. /\ UNCHANGED <<served, decoded, wire, responseBytes>>
        /\ worker # "done"
    BY <1>7
    DEF Http!Announce, Http!BuildRuntime, Http!RuntimeFails, Http!SeesCancel, Http!RequestBreaks,
        Http!TimesOut, Http!StreamEnds, Http!ReadsOn
  <2>2. SaysLittle
    BY <1>3, <1>4, <1>7
    DEF SaysLittle, Http!Announce, Http!BuildRuntime, Http!RuntimeFails, Http!SeesCancel, Http!RequestBreaks,
        Http!TimesOut, Http!StreamEnds
  <2> QED  BY <1>5, <1>6, <2>1, <2>2
<1>8. CASE Http!ReceiveAnswer
  <2>1. UNCHANGED <<served, decoded, wire, responseBytes>> /\ worker # "done"
    BY <1>8 DEF Http!ReceiveAnswer
  <2>2. SaysLittle
    BY <1>3, <1>4, <1>8 DEF SaysLittle, Http!ReceiveAnswer
  <2> QED  BY <1>5, <1>6, <2>1, <2>2
<1>9. CASE Http!PullChunk
  <2>1. UNCHANGED <<served, responseBytes>> /\ worker = "stream" /\ decoded = <<>> /\ wire # <<>> /\ wire' = Tail(wire)
    BY <1>9 DEF Http!PullChunk, Http!ReadsOn
  <2>2. SaysLittle
    BY <1>3, <1>4, <1>9 DEF SaysLittle, Http!PullChunk
  <2>3. worker' # "done" => decoded' = Head(wire).events
    BY <1>9 DEF Http!PullChunk
  <2>4. TakesNothing
    <3>1. /\ FlattenSeq(EventsOf(wire)) \in Seq(SseEvents)
          /\ FlattenSeq(EventsOf(wire)) = Head(wire).events \o FlattenSeq(EventsOf(Tail(wire)))
      BY <1>1, <2>1, EventsOfWire DEF HttpTypes
    <3>2. <<>> \o FlattenSeq(EventsOf(wire)) = FlattenSeq(EventsOf(wire))
      BY <3>1, ConcatEmptySeq
    <3> QED  BY <2>1, <2>3, <3>1, <3>2 DEF Unread, TakesNothing
  <2> QED  BY <1>5, <2>1, <2>2, <2>4
<1>10. CASE Http!TakeError
  <2>1. UNCHANGED <<served, responseBytes>> /\ worker' = "done"
    BY <1>10 DEF Http!TakeError
  <2>2. SaysLittle
    BY <1>3, <1>4, <1>10 DEF SaysLittle, Http!TakeError
  <2> QED  BY <1>5, <1>20, <2>1, <2>2
<1> DEFINE h == Head(decoded)
           next == Append(taken, h)
<1>11. ASSUME NEW kinds, Http!Takes(kinds), UNCHANGED <<wire, served>>
       PROVE  /\ h \in SseEvents /\ h.kind \in kinds /\ next \in Seq(SseEvents)
              /\ Unread' \in Seq(SseEvents) /\ served' = next \o Unread'
              /\ SaidBy(sent) \in Seq(Nat) /\ SaidBy(next) = SaidBy(sent) \o h.text
              /\ NoMarkIn(taken) /\ (h.kind # "done" => NoMarkIn(next))
              /\ \A i \in DOMAIN sent : sent[i] # Http!Completed
              /\ h.text \in Seq(Nat) /\ (h.kind # "text" => h.text = <<>>)
  <2>1. /\ worker = "stream" /\ decoded # <<>> /\ decoded' = Tail(decoded) /\ h.kind \in kinds
    BY <1>11 DEF Http!Takes
  <2>2. \A i \in DOMAIN sent : sent[i] # Http!Completed
    BY <1>2, <2>1 DEF Flows
  <2> HIDE DEF next, h
  <2>3. /\ h \in SseEvents /\ next \in Seq(SseEvents)
        /\ Unread' \in Seq(SseEvents) /\ served' = next \o Unread'
        /\ SaidBy(sent) \in Seq(Nat) /\ SaidBy(next) = SaidBy(sent) \o h.text
        /\ NoMarkIn(taken) /\ (h.kind # "done" => NoMarkIn(next))
    BY <1>1, <1>2, <1>11, <2>1, OneTaken DEF next, h
  <2> QED  BY <2>1, <2>2, <2>3, SseTexts
<1>12. CASE Http!TakeDone
  <2>0. UNCHANGED <<wire, served, responseBytes>> /\ worker' = "done" /\ Http!Takes({"done"})
    BY <1>12 DEF Http!TakeDone
  <2>1. CASE ~listening
    BY <1>5, <1>12, <1>20, <2>0, <2>1 DEF SaysLittle, Http!TakeDone
  <2>2. CASE listening
    <3> HIDE DEF h
    <3>1. sent' = Append(sent, Http!Completed)
      BY <1>12, <2>2 DEF Http!TakeDone
    <3>2. Http!Completed \in HttpMessage /\ Http!Completed.text = <<>>
      BY HttpMessages
    <3>3. /\ h \in SseEvents /\ h.kind \in {"done"} /\ next \in Seq(SseEvents)
          /\ Unread' \in Seq(SseEvents) /\ served' = next \o Unread'
          /\ SaidBy(sent) \in Seq(Nat) /\ SaidBy(next) = SaidBy(sent) \o h.text
          /\ NoMarkIn(taken) /\ (h.kind # "text" => h.text = <<>>)
      BY <1>11, <2>0
    <3>4. SaidBy(sent') = SaidBy(sent) \o <<>>
      BY <1>1, <3>1, <3>2, OneMore
    <3>5. SaidBy(sent') = SaidBy(next) /\ SaidBy(sent') = SaidBy(sent)
      BY <3>3, <3>4, ConcatEmptySeq
    <3>6. EndsAtMark(next)
      BY <3>3 DEF EndsAtMark
    <3> HIDE DEF next
    <3>7. HttpFlow'
      BY <2>0, <3>3, <3>5, <3>6, FlowGoesOn
    <3> QED  BY <1>1, <2>0, <3>5, <3>7 DEF BytesCounted
  <2> QED  BY <2>1, <2>2
<1>13. CASE Http!SkipEmpty
  <2>0. UNCHANGED <<wire, served, responseBytes, sent, worker>> /\ Http!Takes({"empty"})
    BY <1>13 DEF Http!SkipEmpty
  <2>5. h.kind \in {"empty"}
    BY <1>11, <2>0
  <2> HIDE DEF h
  <2>1. /\ next \in Seq(SseEvents) /\ Unread' \in Seq(SseEvents) /\ served' = next \o Unread'
        /\ SaidBy(sent) \in Seq(Nat) /\ SaidBy(next) = SaidBy(sent) \o h.text
        /\ NoMarkIn(next) /\ h.text = <<>>
        /\ \A i \in DOMAIN sent : sent[i] # Http!Completed
    BY <1>11, <2>0, <2>5
  <2>2. SaidBy(next) = SaidBy(sent)
    BY <2>1, ConcatEmptySeq
  <2>3. sent # <<>> => sent[Len(sent)] # Http!Completed
    BY <1>1, <2>1, LastOfNone DEF HttpTypes
  <2> HIDE DEF next
  <2>4. HttpFlow'
    BY <2>0, <2>1, <2>2, <2>3, FlowGoesOn
  <2> QED  BY <1>1, <2>0, <2>4 DEF BytesCounted
<1>14. CASE Http!TakeText
  <2>0. UNCHANGED <<wire, served>> /\ Http!Takes({"text"})
    BY <1>14 DEF Http!TakeText
  <2>1. CASE responseBytes + Len(h.text) > MaxResponse
    <3>1. SaysLittle /\ responseBytes' = responseBytes /\ worker' = "done"
      BY <1>3, <1>4, <1>14, <2>1 DEF SaysLittle, Http!TakeText
    <3> QED  BY <1>5, <1>20, <2>0, <3>1
  <2>2. CASE ~(responseBytes + Len(h.text) > MaxResponse)
    <3>1. /\ responseBytes' = responseBytes + Len(h.text)
          /\ Http!Send(Http!Delta(h.text))
          /\ worker' = IF listening THEN "stream" ELSE "done"
      BY <1>14, <2>2 DEF Http!TakeText
    <3> HIDE DEF h
    <3>2. /\ h \in SseEvents /\ h.kind \in {"text"} /\ next \in Seq(SseEvents)
          /\ Unread' \in Seq(SseEvents) /\ served' = next \o Unread'
          /\ SaidBy(sent) \in Seq(Nat) /\ SaidBy(next) = SaidBy(sent) \o h.text
          /\ NoMarkIn(taken) /\ (h.kind # "done" => NoMarkIn(next))
          /\ \A i \in DOMAIN sent : sent[i] # Http!Completed
          /\ h.text \in Seq(Nat)
      BY <1>11, <2>0
    <3>3. Len(h.text) \in Nat /\ responseBytes \in Nat /\ Len(SaidBy(sent)) \in Nat
      BY <1>1, <3>2, LimitsAreNat, LenProperties DEF HttpTypes
    <3>4. CASE ~listening
      <4>1. sent' = sent /\ worker' = "done"
        BY <3>1, <3>4
      <4>2. HttpFlow'
        BY <1>1, <1>2, <2>0, <4>1, FlowStays
      <4> QED  BY <1>1, <3>1, <3>3, <4>1, <4>2 DEF BytesCounted
    <3>5. CASE listening
      <4>1. sent' = Append(sent, Http!Delta(h.text)) /\ worker' = "stream"
        BY <3>1, <3>5
      <4>2. Http!Delta(h.text) \in HttpMessage /\ Http!Delta(h.text).text = h.text /\ Http!Delta(h.text) # Http!Completed
        BY <3>2, HttpMessages
      <4>3. /\ SaidBy(sent') = SaidBy(sent) \o h.text
            /\ sent'[Len(sent')] = Http!Delta(h.text)
            /\ \A i \in DOMAIN sent' : sent'[i] = Http!Delta(h.text) \/ (i \in DOMAIN sent /\ sent'[i] = sent[i])
        BY <1>1, <4>1, <4>2, OneMore
      <4>4. SaidBy(sent') = SaidBy(next) /\ NoMarkIn(next)
        BY <3>2, <4>3
      <4>5. Len(SaidBy(sent')) = Len(SaidBy(sent)) + Len(h.text)
        BY <3>2, <4>3, ConcatProperties
      <4>6. BytesCounted'
        BY <1>1, <3>1, <3>3, <4>5 DEF BytesCounted
      <4>7. /\ \A i \in DOMAIN sent' : sent'[i] # Http!Completed
            /\ sent'[Len(sent')] # Http!Completed
        BY <3>2, <4>2, <4>3
      <4> HIDE DEF next
      <4>8. HttpFlow'
        BY <3>2, <4>1, <4>4, <4>7, FlowGoesOn
      <4> QED  BY <4>6, <4>8
    <3> QED  BY <3>4, <3>5
  <2> QED  BY <2>1, <2>2
<1>15. ASSUME NEW status \in Statuses, NEW eventStream \in BOOLEAN, Http!Answer(status, eventStream)
       PROVE  HttpFlow' /\ BytesCounted'
  BY <1>5, <1>6, <1>15 DEF SaysLittle, Http!Answer
<1>16. ASSUME NEW chunk \in Chunks, Http!WriteChunk(chunk)
       PROVE  HttpFlow' /\ BytesCounted'
  <2>1. /\ wire' = Append(wire, chunk) /\ served' = served \o chunk.events
        /\ UNCHANGED <<worker, sent, decoded, responseBytes>>
    BY <1>16 DEF Http!WriteChunk
  <2>2. HttpFlow'
    BY <1>1, <1>2, <2>1, FlowGrows
  <2> QED  BY <1>1, <2>1, <2>2 DEF BytesCounted
<1>17. ASSUME NEW state \in {"closed", "broken"}, Http!Disconnect(state)
       PROVE  HttpFlow' /\ BytesCounted'
  BY <1>5, <1>6, <1>17 DEF SaysLittle, Http!Disconnect
<1>18. CASE Http!Cancel \/ Http!DropRun
  BY <1>5, <1>6, <1>18 DEF SaysLittle, Http!Cancel, Http!DropRun
<1> QED
  BY <1>7, <1>8, <1>9, <1>10, <1>12, <1>13, <1>14, <1>15, <1>16, <1>17, <1>18
  DEF Http!Next, Http!WorkerStep, Http!ServerStep

LEMMA HttpWholeInitially ==
  ASSUME Http!Init
  PROVE  HttpWhole
<1> USE DEF Http!Init
<1>1. HttpTypes
  <2>1. 0 \in 0..MaxStream /\ 0 \in 0..MaxResponse /\ Len(<<>>) <= WireSize
    BY LimitsAreNat
  <2>2. <<>> \in Seq(HttpMessage) /\ <<>> \in Seq(Chunks) /\ <<>> \in Seq(SseEvents)
    OBVIOUS
  <2> QED  BY <2>1, <2>2 DEF HttpTypes, Http!NoAnswer
<1>2. HttpFlow /\ Len(SaidBy(sent)) <= responseBytes
  <2>1. EventsOf(wire) = <<>>
    BY DEF EventsOf
  <2>2. Unread = <<>> /\ <<>> = <<>> \o <<>> /\ <<>> \in Seq(SseEvents)
    BY <2>1, FlattenEmpty DEF Unread
  <2>3. SaidBy(<<>>) = <<>>
    BY SaidByNone
  <2>4. Flows(<<>>, <<>>)
    BY <2>2, <2>3 DEF Flows, NoMarkIn
  <2>5. HttpFlow
    BY <2>2, <2>4, Zenon DEF HttpFlow
  <2>6. Len(SaidBy(sent)) = 0 /\ responseBytes = 0
    BY <2>3, EmptySeq
  <2> QED  BY <2>5, <2>6
<1> QED  BY <1>1, <1>2 DEF HttpWhole

\* What was taken is the beginning of what was served.
LEMMA TakenIsFirst ==
  ASSUME NEW s \in Seq(SseEvents), NEW taken \in Seq(SseEvents), NEW rest \in Seq(SseEvents), s = taken \o rest
  PROVE  /\ Len(taken) \in 0..Len(s)
         /\ \A i \in 1..Len(taken) : s[i] = taken[i]
         /\ SaidBy(taken) = SaidUpTo(s, Len(taken))
<1>1. /\ Len(taken) \in Nat /\ Len(rest) \in Nat /\ Len(s) = Len(taken) + Len(rest)
      /\ \A i \in 1..Len(taken) : s[i] = taken[i]
  BY ConcatProperties, LenProperties
<1>2. SaidUpTo(s, Len(taken)) = SaidUpTo(taken, Len(taken))
  BY <1>1, SaidUpToAgrees
<1> QED  BY <1>1, <1>2, SaidByAll

LEMMA HttpIsWhole ==
  ASSUME HttpWhole
  PROVE  Http!CompletedIsWhole /\ Http!ResponseBounded
<1>1. HttpTypes /\ Len(SaidBy(sent)) <= responseBytes
  BY DEF HttpWhole
<1>2. PICK taken \in Seq(SseEvents), rest \in Seq(SseEvents) : Flows(taken, rest)
  BY DEF HttpWhole, HttpFlow
<1>3. Http!Said = SaidBy(sent)
  BY DEF Http!Said, SaidBy, Http!FlattenSeq, FlattenSeq
<1>4. served \in Seq(SseEvents) /\ served = taken \o rest /\ SaidBy(sent) = SaidBy(taken)
  BY <1>1, <1>2 DEF HttpTypes, Flows
<1>5. /\ Len(taken) \in 0..Len(served)
      /\ \A i \in 1..Len(taken) : served[i] = taken[i]
      /\ SaidBy(sent) = SaidUpTo(served, Len(taken))
  BY <1>4, TakenIsFirst
<1>6. IsPrefix(SaidBy(sent), SaidBy(served))
  BY <1>4, <1>5, SseTexts, SaidFirst
<1>7. SaidBy(served) = Http!FlattenSeq([i \in DOMAIN served |-> served[i].text])
  BY DEF SaidBy, Http!FlattenSeq, FlattenSeq
<1>8. Http!IsPrefix(Http!Said, Http!FlattenSeq([i \in DOMAIN served |-> served[i].text]))
  BY <1>3, <1>6, <1>7 DEF Http!IsPrefix, IsPrefix
<1>9. \A i : SaidUpTo(served, i) = Http!FlattenSeq([j \in 1..i |-> served[j].text])
  BY DEF SaidUpTo, UpTo, Http!FlattenSeq, FlattenSeq
<1> DEFINE marks == {i \in DOMAIN served : served[i].kind = "done"}
<1>10. ASSUME sent # <<>>, Http!Last(sent) = Http!Completed
       PROVE  \E i \in marks : (\A j \in marks : i <= j) /\ Http!Said = SaidUpTo(served, i)
  <2>1. sent[Len(sent)] = Http!Completed
    BY <1>10 DEF Http!Last
  <2>2. PICK front \in Seq(SseEvents), mark \in SseEvents :
          taken = Append(front, mark) /\ NoMarkIn(front) /\ mark.kind = "done"
    BY <1>2, <1>10, <2>1 DEF Flows, EndsAtMark
  <2> DEFINE n == Len(front)
             m == n + 1
  <2>3. /\ n \in Nat /\ Len(taken) = m /\ taken[m] = mark /\ DOMAIN front = 1..n
        /\ \A i \in 1..n : taken[i] = front[i]
    BY <2>2, AppendProperties, LenProperties
  <2>4. DOMAIN served = 1..Len(served) /\ Len(served) \in Nat
    BY <1>4, LenProperties
  <2> HIDE DEF n, m, marks
  <2>5. m \in marks
    <3>1. m \in 1..Len(taken) /\ m \in DOMAIN served
      BY <1>5, <2>3, <2>4 DEF m
    <3> QED  BY <1>5, <2>2, <2>3, <3>1 DEF marks
  <2>6. ASSUME NEW j \in marks, ~(m <= j)
        PROVE  FALSE
    <3>1. j \in 1..n /\ j \in 1..Len(taken) /\ served[j].kind = "done"
      BY <2>3, <2>4, <2>6 DEF marks, m
    <3> QED  BY <1>5, <2>2, <2>3, <3>1 DEF NoMarkIn
  <2>7. \A j \in marks : m <= j
    BY <2>6
  <2> QED  BY <1>3, <1>5, <2>3, <2>5, <2>7
<1>11. Http!CompletedIsWhole
  BY <1>8, <1>9, <1>10 DEF Http!CompletedIsWhole
<1>12. Http!ResponseBounded
  <2>1. SaidBy(sent) \in Seq(Nat)
    BY <1>4, <1>5, SseTexts, SaidUpToType
  <2>2. Len(SaidBy(sent)) \in Nat
    BY <2>1, LenProperties
  <2>3. responseBytes \in 0..MaxResponse
    BY <1>1 DEF HttpTypes
  <2> QED  BY <1>1, <1>3, <2>2, <2>3, LimitsAreNat DEF Http!ResponseBounded
<1> QED  BY <1>11, <1>12

LEMMA HttpSaysTypes ==
  ASSUME HttpIInv, HttpWhole
  PROVE  Http!TypeOK
<1> USE DEF HttpIInv, HttpWhole, HttpTypes
<1>1. \A i \in DOMAIN sent : sent[i].kind \in EventKind /\ sent[i].code \in ConnectorErrorCode \cup {"none"}
  <2>1. \A i \in DOMAIN sent : sent[i] \in HttpMessage
    OBVIOUS
  <2> QED  BY <2>1 DEF HttpMessage
<1>2. Http!ToSet(wire) \subseteq Chunks
  <2>1. \A i \in DOMAIN wire : wire[i] \in Chunks
    OBVIOUS
  <2> QED  BY <2>1 DEF Http!ToSet
<1>3. responseBytes \in Nat
  BY LimitsAreNat
<1> QED
  BY <1>1, <1>2, <1>3
  DEF Http!TypeOK, Http!EventKind, EventKind, Http!ConnectorErrorCode, ConnectorErrorCode

-----------------------------------------------------------------------------
(* Both connectors.                                                        *)

AnswersIInv == ConnectorsIInv /\ IF ByHttp THEN HttpWhole ELSE CliWhole

LEMMA AnswersInitially == ConnectorsInit => AnswersIInv
<1> SUFFICES ASSUME ConnectorsInit PROVE AnswersIInv
  OBVIOUS
<1>1. ConnectorsIInv
  BY ConnectorsInitially
<1>2. CASE connector = "text" /\ Init
  BY <1>1, <1>2, CliWholeInitially DEF AnswersIInv, ByHttp, ByText, Init, CliFresh
<1>3. CASE connector = "codex" /\ Codex!Init
  BY <1>1, <1>3, CliWholeInitially DEF AnswersIInv, ByHttp, ByCodex, Codex!Init, CliFresh
<1>4. CASE connector = "http" /\ Http!Init
  BY <1>1, <1>4, HttpWholeInitially DEF AnswersIInv, ByHttp
<1> QED  BY <1>2, <1>3, <1>4 DEF ConnectorsInit

LEMMA AnswersStepKeepsInvariant ==
  ASSUME AnswersIInv, [ConnectorsNext]_connectorsVars
  PROVE  AnswersIInv'
<1>1. ConnectorsIInv /\ ConnectorsIInv'
  BY ConnectorsStepKeepsInvariant DEF AnswersIInv
<1>2. CASE WithText(Next)
  <2>1. FullStep /\ connector' = connector /\ ByText /\ ~ByHttp
    BY <1>2, TextTakesFullSteps DEF WithText, ByText, ByHttp
  <2>2. CliIInv /\ CliWhole
    BY <1>1, <2>1 DEF AnswersIInv, ConnectorsIInv
  <2>3. CliWhole'
    BY <2>1, <2>2, CliWholeKept
  <2> QED  BY <1>1, <2>1, <2>3 DEF AnswersIInv, ByHttp
<1>3. CASE WithCodex(Codex!Next)
  <2>1. FullStep /\ connector' = connector /\ ByCodex /\ ~ByHttp
    BY <1>3, CodexTakesFullSteps DEF WithCodex, ByCodex, ByHttp
  <2>2. CliIInv /\ CliWhole
    BY <1>1, <2>1 DEF AnswersIInv, ConnectorsIInv
  <2>3. CliWhole'
    BY <2>1, <2>2, CliWholeKept
  <2> QED  BY <1>1, <2>1, <2>3 DEF AnswersIInv, ByHttp
<1>4. CASE WithHttp(Http!Next)
  <2>1. connector' = connector /\ ByHttp /\ HttpWhole
    BY <1>4 DEF WithHttp, AnswersIInv
  <2>2. HttpWhole'
    BY <1>4, <2>1, HttpWholeKept DEF WithHttp
  <2> QED  BY <1>1, <2>1, <2>2 DEF AnswersIInv, ByHttp
<1>5. CASE UNCHANGED connectorsVars
  <2> USE <1>5 DEF connectorsVars, vars, workerVars, readerVars, pipeVars, childVars, userVars, httpVars
  <2>1. HttpWhole => HttpWhole'
    BY DEF HttpWhole, HttpTypes, HttpFlow, Flows, Unread
  <2>2. CliWhole => CliWhole'
    BY DEF CliWhole, CliTypes, Printable, ByText, InPipes, ReadsAll, SaidIsTaken, IsLatest, Taken,
           ChildPlaces, NotCompleted, CompletedIsAll
  <2> QED  BY <1>1, <2>1, <2>2 DEF AnswersIInv, ByHttp
<1> QED  BY <1>2, <1>3, <1>4, <1>5 DEF ConnectorsNext

\* An answer that is reported complete is whole, whichever connector it comes
\* from and however its run is interleaved: what a child has printed before it
\* exits is forwarded before Completed, because the readers are joined and the
\* channel is drained first; a Codex message is shown once, as its last snapshot;
\* and of a stream of server-sent events nothing is left out, reordered or shown
\* beyond [DONE] or max_response_bytes.
THEOREM AnswersAreAlwaysWhole == ConnectorsSpec => []AnswersAreWhole
<1>1. AnswersIInv => AnswersAreWhole
  <2> SUFFICES ASSUME AnswersIInv PROVE AnswersAreWhole
    OBVIOUS
  <2>1. CASE ByText
    <3>1. ~ByHttp /\ ~ByCodex /\ CliIInv /\ CliWhole
      BY <2>1 DEF AnswersIInv, ConnectorsIInv, ByText, ByHttp, ByCodex
    <3>2. TypeOK /\ CompletedIsWhole
      BY <2>1, <3>1, CliSaysTypes, TextIsWhole
    <3> QED  BY <2>1, <3>1, <3>2 DEF AnswersAreWhole, ConnectorsTypeOK
  <2>2. CASE ByCodex
    <3>1. ~ByHttp /\ ~ByText /\ CliIInv /\ CliWhole
      BY <2>2 DEF AnswersIInv, ConnectorsIInv, ByText, ByHttp, ByCodex
    <3>2. Codex!TypeOK /\ Codex!CompletedIsWhole
      BY <2>2, <3>1, CliSaysTypes, CodexIsWhole
    <3> QED  BY <2>2, <3>1, <3>2 DEF AnswersAreWhole, ConnectorsTypeOK
  <2>3. CASE ByHttp
    <3>1. ~ByText /\ ~ByCodex /\ HttpIInv /\ HttpWhole
      BY <2>3 DEF AnswersIInv, ConnectorsIInv, ByText, ByHttp, ByCodex
    <3>2. Http!TypeOK /\ Http!CompletedIsWhole /\ Http!ResponseBounded
      BY <3>1, HttpSaysTypes, HttpIsWhole
    <3> QED  BY <2>3, <3>1, <3>2 DEF AnswersAreWhole, ConnectorsTypeOK
  <2> QED  BY <2>1, <2>2, <2>3 DEF AnswersIInv, ConnectorsIInv, ByText, ByCodex, ByHttp
<1>2. ConnectorsSpec => ConnectorsSafety
  BY PTL DEF ConnectorsSpec, ConnectorsSafety
<1>3. ConnectorsSafety => []AnswersIInv
  BY AnswersInitially, AnswersStepKeepsInvariant, PTL DEF ConnectorsSafety
<1> QED  BY <1>1, <1>2, <1>3, PTL

===============================================================================
