---------------------------- MODULE MCConnectors ----------------------------
(***************************************************************************)
(* One run of a connector: of the CLI connector with plain lines, of the   *)
(* CLI connector with the JSON lines of Codex, or of the HTTP connector.   *)
(* They share the variables of ConnectorRun, which all of them implement.  *)
(***************************************************************************)
EXTENDS MCCliConnector

CONSTANTS
  CodexLines, CodexPrintBound,  \* Output and PrintBound with Codex
  Chunks, Statuses, MaxStream, MaxResponse, WireSize, ServedBound

VARIABLES
  connector,  \* which one it is
  connection, wire, decoded, streamBytes, responseBytes, served  \* HttpConnector

Codex == INSTANCE CliConnector
  WITH Format <- "CodexJsonLines", Output <- CodexLines, PrintBound <- CodexPrintBound,
       Complaints <- 0

Http == INSTANCE HttpConnector

ASSUME FormatsAssumption ==
  /\ Format = "TextLines"
  /\ Codex!LinesAssumption

ASSUME HttpAssumption == Http!LimitsAssumption

-----------------------------------------------------------------------------
(* What servers write.                                                      *)

SseEvent(kind, text) == [kind |-> kind, text |-> text]

\* A piece of an event, one text, two texts at once, a text with the end of the
\* answer behind it, an end with a text behind it, and what is no text.
SomeChunks ==
  { [size |-> 1, events |-> <<>>],
    [size |-> 1, events |-> <<SseEvent("text", <<1>>)>>],
    [size |-> 2, events |-> <<SseEvent("text", <<2>>), SseEvent("text", <<3, 4>>)>>],
    [size |-> 2, events |-> <<SseEvent("empty", <<>>), SseEvent("text", <<5>>), SseEvent("done", <<>>)>>],
    [size |-> 1, events |-> <<SseEvent("done", <<>>), SseEvent("text", <<6>>)>>],
    [size |-> 1, events |-> <<SseEvent("malformed", <<>>)>>],
    [size |-> 1, events |-> <<SseEvent("error", <<>>)>>] }

SomeStatuses == {200, 302, 400, 401, 404, 408, 429, 500}

-----------------------------------------------------------------------------
ByText  == connector = "text"
ByCodex == connector = "codex"
ByHttp  == connector = "http"

cliVars  == <<child, helper, unwritten, stdin, stdout, stderr, outReader, errReader,
              collected, lines, snapshots, turnCompleted, printed, ending>>
httpVars == <<connection, wire, decoded, streamBytes, responseBytes, served>>

connectorsVars == <<connector, vars, httpVars>>

NoRequest ==
  /\ connection = Http!NoAnswer
  /\ wire = <<>> /\ decoded = <<>> /\ served = <<>>
  /\ streamBytes = 0 /\ responseBytes = 0

NoChild ==
  /\ child = "none" /\ helper = FALSE
  /\ unwritten = PromptSize /\ stdin = 0 /\ stdout = <<>> /\ stderr = 0
  /\ outReader = "off" /\ errReader = "off" /\ collected = 0 /\ lines = <<>>
  /\ snapshots = [id \in Items |-> <<>>] /\ turnCompleted = FALSE
  /\ printed = <<>> /\ ending = Nothing

ConnectorsInit ==
  \/ connector = "text"  /\ Init       /\ NoRequest
  \/ connector = "codex" /\ Codex!Init /\ NoRequest
  \/ connector = "http"  /\ Http!Init  /\ NoChild

WithText(A)  == ByText  /\ A /\ UNCHANGED <<connector, httpVars>>
WithCodex(A) == ByCodex /\ A /\ UNCHANGED <<connector, httpVars>>
WithHttp(A)  == ByHttp  /\ A /\ UNCHANGED <<connector, cliVars>>

ConnectorsNext == WithText(Next) \/ WithCodex(Codex!Next) \/ WithHttp(Http!Next)

WorkerGoesOn    == WithText(WorkerStep) \/ WithCodex(Codex!WorkerStep) \/ WithHttp(Http!WorkerStep)
OutReaderGoesOn == WithText(OutReaderStep) \/ WithCodex(OutReaderStep)
ErrReaderGoesOn == WithText(ErrReaderStep) \/ WithCodex(ErrReaderStep)

\* The threads of the connector are scheduled, as in its own specification.
ConnectorsSpec ==
  /\ ConnectorsInit /\ [][ConnectorsNext]_connectorsVars
  /\ WF_connectorsVars(WorkerGoesOn)
  /\ WF_connectorsVars(OutReaderGoesOn)
  /\ WF_connectorsVars(ErrReaderGoesOn)

-----------------------------------------------------------------------------
(* Properties: those of the two modules, for the connector that runs.      *)

\* The types of the connector that runs, with its buffers within their limits.
ConnectorsTypeOK ==
  CASE ByText  -> TypeOK
    [] ByCodex -> Codex!TypeOK
    [] ByHttp  -> Http!TypeOK

\* An answer that is reported complete is all the child printed or the server
\* wrote, once and in its order, and what the server wrote is shown up to
\* max_response_bytes.
AnswersAreWhole ==
  /\ ConnectorsTypeOK
  /\ ByText  => CompletedIsWhole
  /\ ByCodex => Codex!CompletedIsWhole
  /\ ByHttp  => Http!CompletedIsWhole /\ Http!ResponseBounded

\* Whatever the server does, an HTTP run ends as time passes.
HttpRunEnds == WF_connectorsVars(WithHttp(Http!TimesOut)) => <>(ByHttp => worker = "done")

=============================================================================
