-------------------------------- MODULE PiRun --------------------------------
(***************************************************************************)
(* One call of PiRpcWorkerAdapter (adapters/pi-rpc.ts): run, an attempt of *)
(* a worker, or probe, a question to it.  The adapter starts Pi, writes    *)
(* commands to its stdin and awaits the settlement of a turn; callbacks    *)
(* race with that: lines of stdout, the exit of the process, the abort of  *)
(* the attempt, reads of the source artifact, live controls.  A run whose  *)
(* first turn settles without a completion report asks for it in a second  *)
(* turn of the same session.                                               *)
(*                                                                         *)
(* Pi itself is external: it refuses a command before it does anything     *)
(* else about it, and settles what it was prompted for at most once.       *)
(***************************************************************************)
EXTENDS Naturals, Sequences, FiniteSets

CONSTANTS
    LiveControls, \* the live controls that arrive
    MaxLines,     \* bound: lines on stdout that nobody has read
    MaxTexts,     \* bound: texts Pi writes
    MaxMishaps    \* bound: faults, each of another kind

ASSUME PiAssumption == MaxLines \in Nat \ {0} /\ {MaxTexts, MaxMishaps} \subseteq Nat

VARIABLES
    kind,       \* "run" or "probe"
    step,       \* where the call of the adapter is
    verdict,    \* what it returns or throws
    completed,  \* callbacks no longer fail the turn
    recovering, \* completionRecoveryInProgress
    turn,       \* the settlement promise: "open", "settled" or why it was rejected
    failed,     \* assistantError is set
    reported,   \* the output ends with a valid completion report
    aborted,    \* input.signal.aborted
    child,      \* "none" before it is spawned, "alive", "exited"
    pi,         \* what Pi does with the prompt
    texts,      \* texts Pi may still write
    pipe,       \* lines of stdout that were not read
    reader,     \* the task that reads them: "reading", "ended", "failed"
    exit,       \* the exit handler: "no", "draining", "done"
    read,       \* the reads of the artifact: "absent", "idle", "busy", "failed"
    control,    \* [LiveControls -> what its caller got]
    pending,    \* controls on stdin
    obeyed,     \* controls that Pi accepted
    mishaps     \* faults that happened

callVars == <<kind, step, verdict, completed, recovering>>
turnVars == <<turn, failed, reported>>
piVars == <<child, pi, texts, pipe>>
handlerVars == <<reader, exit, read>>
controlVars == <<control, pending, obeyed>>
piRunVars == <<callVars, turnVars, aborted, piVars, handlerVars, controlVars, mishaps>>

\* The steps after the finally clause was entered.
Leaving == {"stopping", "closing", "done"}

PiInit ==
    /\ kind \in {"run", "probe"}
    /\ step = "spawning" /\ verdict = "none"
    /\ completed = FALSE /\ recovering = FALSE
    /\ turn = "open" /\ failed = FALSE /\ reported = FALSE
    /\ aborted = FALSE
    /\ child = "none" /\ pi = "idle" /\ texts = MaxTexts /\ pipe = <<>>
    /\ reader = "reading" /\ exit = "no"
    /\ read \in IF kind = "run" THEN {"absent", "idle"} ELSE {"absent"}
    /\ control = [c \in LiveControls |-> "new"] /\ pending = {} /\ obeyed = {}
    /\ mishaps = {}

Mishap(what) ==
    /\ what \notin mishaps
    /\ Cardinality(mishaps) < MaxMishaps
    /\ mishaps' = mishaps \cup {what}

-----------------------------------------------------------------------------
(* Pi.                                                                     *)

\* A line: its kind; for the answer to a control, which one, and whether it is a yes.
Line(type) == [type |-> type, control |-> {}, yes |-> FALSE]
Writes(line) == Len(pipe) < MaxLines /\ pipe' = Append(pipe, line)

\* Pi does something with its prompt, and may write a line.
PiGoes(from, to) == child = "alive" /\ pi \in from /\ pi' = to

PiWorks ==
    /\ \/ PiGoes({"prompted"}, "working") /\ UNCHANGED <<pipe, texts>>
       \/ PiGoes({"failed"}, "working") /\ kind = "run" /\ UNCHANGED <<pipe, texts>>
       \/ /\ PiGoes({"working"}, "working") /\ texts > 0 /\ texts' = texts - 1
          /\ \E type \in {"report", "prose"} : Writes(Line(type))
       \/ PiGoes({"working"}, "ended") /\ Writes(Line("end")) /\ UNCHANGED texts
       \/ PiGoes({"working"}, "failed") /\ Writes(Line("end failed")) /\ UNCHANGED texts
       \/ PiGoes({"ended", "failed"}, "idle") /\ Writes(Line("settled")) /\ UNCHANGED texts
    /\ UNCHANGED <<callVars, turnVars, aborted, child, handlerVars, controlVars, mishaps>>

\* The prompt is refused, or a setting written before it, which does not keep Pi from it.
PiRefuses ==
    /\ PiGoes({"prompted"}, "idle") \/ PiGoes({"prompted"}, "prompted")
    /\ Mishap("refusal")
    /\ Writes(Line("refused"))
    /\ UNCHANGED <<callVars, turnVars, aborted, child, texts, handlerVars, controlVars>>

PiAnswers(c) ==
    /\ child = "alive"
    /\ c \in pending
    /\ \E yes \in BOOLEAN :
         /\ Writes([type |-> "control", control |-> {c}, yes |-> yes])
         /\ obeyed' = IF yes THEN obeyed \cup {c} ELSE obeyed
    /\ pending' = pending \ {c}
    /\ UNCHANGED <<callVars, turnVars, aborted, child, pi, texts, handlerVars, control, mishaps>>

\* Over the extra channel, until the adapter stops to listen.
PiReadsArtifact ==
    /\ child = "alive"
    /\ read = "idle"
    /\ step = "turn" /\ ~ recovering
    /\ read' = "busy"
    /\ UNCHANGED <<callVars, turnVars, aborted, piVars, reader, exit, controlVars, mishaps>>

-----------------------------------------------------------------------------
(* Callbacks.                                                              *)

\* failTurn: a settled turn stays as it is.
FailTurn(why) == turn' = IF turn = "open" THEN why ELSE turn
FailUnlessCompleted(why) == IF completed THEN UNCHANGED turn ELSE FailTurn(why)

\* resolveControlResponses: every caller that waits is told that nothing came.
TellWaiting(controls) ==
    control' = [c \in LiveControls |-> IF c \in controls /\ control[c] = "waiting"
                                       THEN "rejected" ELSE control[c]]

\* exitCode is set: the exit handler tells who waits for an answer and begins to wait for
\* the output.
PiExits ==
    /\ child = "alive"
    /\ child' = "exited"
    /\ exit' = "draining"
    /\ TellWaiting(LiveControls)
    /\ UNCHANGED <<callVars, turnVars, aborted, pi, texts, pipe, reader, read, pending, obeyed,
                   mishaps>>

\* The output was read to its end, or took too long.
ExitHandled ==
    /\ exit = "draining"
    /\ exit' = "done"
    /\ FailUnlessCompleted("transient")
    /\ UNCHANGED <<callVars, failed, reported, aborted, piVars, reader, read, controlVars,
                   mishaps>>

Abort ==
    /\ ~ aborted
    /\ step \notin Leaving
    /\ aborted' = TRUE
    /\ FailUnlessCompleted("aborted")
    /\ UNCHANGED <<callVars, failed, reported, piVars, handlerVars, controlVars, mishaps>>

\* Bug: only an answer somebody waits for is told from the others (ControlsStayAdvisory).
ControlLineLate(line) ==
    /\ control' = [c \in LiveControls |->
                     IF c \in line.control /\ control[c] = "waiting"
                     THEN IF line.yes THEN "accepted" ELSE "rejected"
                     ELSE control[c]]
    /\ IF ~ line.yes /\ \E c \in line.control : control[c] # "waiting"
       THEN completed' = TRUE /\ FailTurn("refused")
       ELSE UNCHANGED <<completed, turn>>
    /\ UNCHANGED <<failed, reported>>

\* handleEvent, for the answer to a control: it is of no concern to the turn, whether a
\* caller still waits for it or not.
ControlLine(line) ==
    /\ control' = [c \in LiveControls |->
                     IF c \in line.control /\ control[c] = "waiting"
                     THEN IF line.yes THEN "accepted" ELSE "rejected"
                     ELSE control[c]]
    /\ UNCHANGED <<turnVars, completed>>

\* handleEvent.  A probe takes the error of Pi for the answer; a run judges it later.
Handle(line) ==
    \/ line.type = "control" /\ ControlLine(line)
    \/ /\ line.type \in {"report", "prose"}
       /\ reported' = (line.type = "report")
       /\ UNCHANGED <<turn, failed, completed, control>>
    \/ /\ line.type \in {"end", "end failed"}
       /\ failed' = (failed \/ line.type = "end failed")
       /\ UNCHANGED <<turn, reported, completed, control>>
    \/ /\ line.type = "settled"
       /\ FailTurn(IF kind = "probe" /\ failed THEN "failure" ELSE "settled")
       /\ UNCHANGED <<failed, reported, completed, control>>
    \/ /\ line.type = "refused"
       /\ completed' = (completed \/ kind = "run")
       /\ FailTurn("refused")
       /\ UNCHANGED <<failed, reported, control>>

ReadLine ==
    /\ reader = "reading"
    /\ pipe # <<>>
    /\ Handle(Head(pipe))
    /\ pipe' = Tail(pipe)
    /\ UNCHANGED <<kind, step, verdict, recovering, aborted, child, pi, texts, reader, exit, read,
                   pending, obeyed, mishaps>>

ReaderEnds ==
    /\ reader = "reading"
    /\ pipe = <<>>
    /\ child = "exited"
    /\ reader' = "ended"
    /\ UNCHANGED <<callVars, turnVars, aborted, piVars, exit, read, controlVars, mishaps>>

\* A line is malformed or its event cannot be recorded: the task ends.
ReaderFails ==
    /\ reader = "reading"
    /\ child # "none"
    /\ Mishap("line")
    /\ reader' = "failed"
    /\ FailUnlessCompleted("failure")
    /\ UNCHANGED <<callVars, failed, reported, aborted, piVars, exit, read, controlVars>>

\* stdin or stderr fails: the turn does, the lines are read on.
TransportFails ==
    /\ child # "none"
    /\ Mishap("transport")
    /\ FailUnlessCompleted("failure")
    /\ UNCHANGED <<callVars, failed, reported, aborted, piVars, handlerVars, controlVars>>

ArtifactRead ==
    /\ read = "busy"
    /\ \/ read' = "idle" /\ UNCHANGED turn
       \/ read' = "failed" /\ FailUnlessCompleted("failure")
    /\ UNCHANGED <<callVars, failed, reported, aborted, piVars, reader, exit, controlVars,
                   mishaps>>

-----------------------------------------------------------------------------
(* Live controls, while the handler is bound.                              *)

Control(c) ==
    /\ control[c] = "new"
    /\ kind = "run" /\ child # "none" /\ step \notin Leaving
    /\ IF completed \/ recovering \/ child = "exited"
       THEN /\ control' = [control EXCEPT ![c] = "rejected"]
            /\ UNCHANGED pending
       ELSE /\ control' = [control EXCEPT ![c] = "waiting"]
            /\ pending' = pending \cup {c}
    /\ UNCHANGED <<callVars, turnVars, aborted, piVars, handlerVars, obeyed, mishaps>>

ControlTimeout(c) ==
    /\ control[c] = "waiting"
    /\ control' = [control EXCEPT ![c] = "rejected"]
    /\ UNCHANGED <<callVars, turnVars, aborted, piVars, handlerVars, pending, obeyed, mishaps>>

-----------------------------------------------------------------------------
(* The call of the adapter.                                                *)

\* finally: the callbacks are silenced, the handler unbound.
Leave(v) ==
    /\ step' = "stopping"
    /\ verdict' = v
    /\ completed' = TRUE
    /\ recovering' = FALSE
    /\ TellWaiting(LiveControls)

\* An exception: during a recovery its failure is recorded first.
Throw(v) ==
    IF recovering THEN /\ step' = "conceding"
                       /\ verdict' = v
                       /\ UNCHANGED <<completed, recovering, control>>
                  ELSE Leave(v)

\* The adapter goes on, or asks Pi something.
Goto(s) == step' = s /\ UNCHANGED <<verdict, completed, recovering, control>>
AskStats(v) ==
    /\ step' = "stats" /\ verdict' = v
    /\ UNCHANGED control

Spawn ==
    /\ step = "spawning"
    /\ \/ /\ child' = "alive"
          /\ IF aborted THEN Throw("aborted") /\ UNCHANGED pi
                        ELSE Goto("turn") /\ pi' = "prompted"
       \/ child' = "exited" /\ Throw("failure") /\ UNCHANGED pi
    /\ UNCHANGED <<kind, turnVars, aborted, texts, pipe, handlerVars, pending, obeyed, mishaps>>

\* The promise of the turn is settled; reads of the artifact that were asked for are awaited.
TurnEnds ==
    /\ step = "turn"
    /\ turn # "open"
    /\ IF turn = "settled" THEN Goto("observed") ELSE Throw(turn)
    /\ UNCHANGED <<kind, turnVars, aborted, piVars, handlerVars, pending, obeyed, mishaps>>

\* What a settled turn came to.
JudgeTurn ==
    /\ step = "observed"
    /\ read # "busy"
    /\ IF read = "failed" THEN Throw("failure")
       ELSE IF failed THEN AskStats("settled error") /\ UNCHANGED <<completed, recovering>>
       ELSE IF aborted THEN Throw("aborted")
       ELSE IF kind = "probe" THEN Leave("ok")
       ELSE IF recovering /\ reported THEN Goto("confirming")
       ELSE IF recovering THEN AskStats("settled error") /\ UNCHANGED <<completed, recovering>>
       ELSE IF reported THEN AskStats("ok") /\ completed' = TRUE /\ UNCHANGED recovering
       ELSE /\ step' = "announcing"
            /\ recovering' = TRUE
            /\ UNCHANGED <<verdict, completed, control>>
    /\ UNCHANGED <<kind, turnVars, aborted, piVars, handlerVars, pending, obeyed, mishaps>>

\* Bug: the signal is not read again after the turn was opened (NoTurnWaitsInVain).
RecoverBlindly ==
    /\ step = "announcing"
    /\ turn' = "open" /\ failed' = FALSE
    /\ IF child = "exited" THEN Throw("failure") /\ UNCHANGED pi
                           ELSE Goto("turn") /\ pi' = "prompted"
    /\ UNCHANGED <<kind, reported, aborted, child, texts, pipe, handlerVars, pending, obeyed, mishaps>>

\* worker.retry.started was recorded: beginTurn, then the checks of what the callbacks
\* could not fail before there was a turn to fail.
BeginRecovery ==
    /\ step = "announcing"
    /\ turn' = "open" /\ failed' = FALSE
    /\ IF aborted THEN Throw("aborted") /\ UNCHANGED pi
       ELSE IF child = "exited" THEN Throw("failure") /\ UNCHANGED pi
       ELSE Goto("turn") /\ pi' = "prompted"
    /\ UNCHANGED <<kind, reported, aborted, child, texts, pipe, handlerVars, pending, obeyed, mishaps>>

\* An event about the recovery cannot be recorded.
RecordFails ==
    /\ \/ step = "announcing" /\ Throw("failure")
       \/ step \in {"confirming", "conceding"} /\ Leave("failure")
    /\ Mishap("event")
    /\ UNCHANGED <<kind, turnVars, aborted, piVars, handlerVars, pending, obeyed>>

\* worker.retry.completed was recorded.
Confirm ==
    /\ step = "confirming"
    /\ AskStats("ok")
    /\ completed' = TRUE /\ recovering' = FALSE
    /\ UNCHANGED <<kind, turnVars, aborted, piVars, handlerVars, pending, obeyed, mishaps>>

Concede ==
    /\ step = "conceding"
    /\ Leave(verdict)
    /\ UNCHANGED <<kind, turnVars, aborted, piVars, handlerVars, pending, obeyed, mishaps>>

\* The statistics came, or took too long, or Pi is gone.
StatsEnd ==
    /\ step = "stats"
    /\ IF verdict = "ok" THEN Leave("ok") ELSE Throw(verdict)
    /\ UNCHANGED <<kind, turnVars, aborted, piVars, handlerVars, pending, obeyed, mishaps>>

\* terminateChild and awaitChildOutput: Pi has exited or was killed, its output has ended or
\* is given up; then the reads of the artifact are awaited.
Stop ==
    /\ \/ step = "stopping" /\ step' = "closing"
       \/ step = "closing" /\ read # "busy" /\ step' = "done"
    /\ UNCHANGED <<kind, verdict, completed, recovering, turnVars, aborted, piVars, handlerVars,
                   controlVars, mishaps>>

PiNext ==
    \/ PiWorks \/ PiRefuses \/ PiReadsArtifact \/ PiExits
    \/ ExitHandled \/ Abort \/ ReadLine \/ ReaderEnds \/ ReaderFails \/ TransportFails
    \/ ArtifactRead
    \/ \E c \in LiveControls : PiAnswers(c) \/ Control(c) \/ ControlTimeout(c)
    \/ Spawn \/ TurnEnds \/ JudgeTurn \/ BeginRecovery \/ RecordFails \/ Confirm \/ Concede
    \/ StatsEnd \/ Stop

PiSpec == PiInit /\ [][PiNext]_piRunVars

-----------------------------------------------------------------------------
\* An awaited turn can still be ended by whatever may end it: the abort of the attempt and
\* the exit of Pi fail the turn that is open when they come, and one opened after them is
\* not awaited.
NoTurnWaitsInVain == step = "turn" /\ turn = "open" => ~ aborted /\ exit # "done"

\* Controls only advise: a receipt says accepted only of a control Pi accepted, no answer
\* to a control, however late, ends the run, and nobody waits for one when it has ended.
ControlsStayAdvisory ==
    /\ \A c \in LiveControls : control[c] = "accepted" => c \in obeyed
    /\ verdict = "refused" => "refusal" \in mishaps
    /\ step \in Leaving => \A c \in LiveControls : control[c] # "waiting"

\* postmortems/0087-pre-settlement-worker-retry-backoff.md:13: only failures before the
\* settlement of the session are eligible for another attempt of the whole worker.
SettledRunIsNotRepeated ==
    [][verdict' = "transient" => ~ recovering]_piRunVars
=============================================================================
