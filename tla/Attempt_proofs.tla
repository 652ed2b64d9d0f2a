--------------------------- MODULE Attempt_proofs ---------------------------
(***************************************************************************)
(* What holds of one attempt: of its call of the adapter of Pi, for every  *)
(* bound on its pipe, its texts and its mishaps and every set of live      *)
(* controls, and of its files, for every number of attempts and every      *)
(* bound on the faults.                                                    *)
(***************************************************************************)
EXTENDS PiRun, Workspace, TLAPS

-----------------------------------------------------------------------------
(* The call of the adapter.  A turn that is awaited can be failed only     *)
(* while the callbacks still concern it (completed is false).  The one     *)
(* line that sets completed before the turn was judged is a refused        *)
(* command; that it never meets a settled turn, whose judgement could open *)
(* the next one, follows from the order of the lines: Pi writes nothing    *)
(* about its prompt after it said that it settled.                         *)

Steps == {"spawning", "turn", "observed", "announcing", "confirming", "conceding", "stats",
          "stopping", "closing", "done"}
Settlements == {"open", "settled", "transient", "failure", "aborted", "refused"}
Verdicts == {"none", "ok", "settled error", "open", "settled", "transient", "failure", "aborted",
             "refused"}
Lines == [type : {"report", "prose", "end", "end failed", "settled", "refused", "control"},
          control : SUBSET LiveControls,
          yes : BOOLEAN]

PiTypeOK ==
    /\ kind \in {"run", "probe"}
    /\ step \in Steps
    /\ verdict \in Verdicts
    /\ completed \in BOOLEAN /\ recovering \in BOOLEAN
    /\ turn \in Settlements
    /\ failed \in BOOLEAN /\ reported \in BOOLEAN /\ aborted \in BOOLEAN
    /\ child \in {"none", "alive", "exited"}
    /\ pi \in {"idle", "prompted", "working", "ended", "failed"}
    /\ texts \in Nat
    /\ pipe \in Seq(Lines)
    /\ reader \in {"reading", "ended", "failed"}
    /\ exit \in {"no", "draining", "done"}
    /\ read \in {"absent", "idle", "busy", "failed"}
    /\ control \in [LiveControls -> {"new", "waiting", "accepted", "rejected"}]
    /\ pending \in SUBSET LiveControls
    /\ obeyed \in SUBSET LiveControls

\* Nothing about the prompt follows the line that says it settled.
SettledLast ==
    /\ \A i \in 1..Len(pipe) : pipe[i].type = "settled" =>
           pi = "idle" /\ \A j \in 1..Len(pipe) : j > i => pipe[j].type = "control"
    /\ turn = "settled" => pi = "idle" /\ \A i \in 1..Len(pipe) : pipe[i].type = "control"

\* Where the callbacks still concern the turn, and what was spawned.
CallbacksLive ==
    /\ step = "spawning" <=> child = "none"
    /\ step = "spawning" => ~ completed /\ turn # "settled"
    /\ child = "none" => pi = "idle" /\ Len(pipe) = 0 /\ exit = "no"
    /\ exit # "no" => child = "exited"
    /\ step = "turn" /\ turn \in {"open", "settled"} => ~ completed
    /\ step \in {"observed", "announcing"} => turn = "settled" /\ ~ completed

\* An answer says yes only of a control Pi obeyed; a refusal comes from a refusal.
LinesTruthful ==
    /\ \A i \in 1..Len(pipe) : pipe[i].yes => pipe[i].control \subseteq obeyed
    /\ \A i \in 1..Len(pipe) : pipe[i].type = "refused" => "refusal" \in mishaps
    /\ turn = "refused" => "refusal" \in mishaps

PiInv ==
    /\ PiTypeOK /\ SettledLast /\ CallbacksLive /\ LinesTruthful
    /\ NoTurnWaitsInVain /\ ControlsStayAdvisory

-----------------------------------------------------------------------------
(* Lines.                                                                  *)

(* Pi writes a line behind the others.                                     *)
LEMMA WritesFacts ==
    ASSUME pipe \in Seq(Lines), NEW line \in Lines, Writes(line)
    PROVE  /\ pipe' \in Seq(Lines)
           /\ Len(pipe') = Len(pipe) + 1
           /\ \A i \in 1..Len(pipe) : pipe'[i] = pipe[i]
           /\ pipe'[Len(pipe) + 1] = line
BY DEF Writes

(* The adapter reads the line at the head.                                 *)
LEMMA ReadFacts ==
    ASSUME pipe \in Seq(Lines), pipe # <<>>
    PROVE  /\ Len(pipe) \in Nat /\ Len(pipe) > 0
           /\ Head(pipe) = pipe[1] /\ Head(pipe) \in Lines
           /\ Tail(pipe) \in Seq(Lines)
           /\ Len(Tail(pipe)) = Len(pipe) - 1
           /\ \A i \in 1..Len(Tail(pipe)) : Tail(pipe)[i] = pipe[i + 1]
<1>1. Len(pipe) \in Nat /\ Len(pipe) > 0
  OBVIOUS
<1>2. Head(pipe) = pipe[1] /\ pipe[1] \in Lines
  BY <1>1
<1>3. /\ Tail(pipe) \in Seq(Lines) /\ Len(Tail(pipe)) = Len(pipe) - 1
      /\ \A i \in 1..Len(Tail(pipe)) : Tail(pipe)[i] = pipe[i + 1]
  BY <1>1
<1> QED BY <1>1, <1>2, <1>3

-----------------------------------------------------------------------------
(* The steps of Pi.                                                        *)

LEMMA PiWorksKeeps == PiInv /\ PiWorks => PiInv'
<1> SUFFICES ASSUME PiInv, PiWorks PROVE PiInv'
  OBVIOUS
<1> USE DEF PiInv
<1>1. /\ UNCHANGED <<kind, step, verdict, completed, recovering, turn, failed, reported, aborted>>
      /\ UNCHANGED <<child, reader, exit, read, control, pending, obeyed, mishaps>>
  BY DEF PiWorks, callVars, turnVars, handlerVars, controlVars
<1>2. ASSUME UNCHANGED pipe, texts' = texts, pi \in {"prompted", "failed"}, pi' = "working",
             child = "alive"
      PROVE  PiInv'
  <2>1. PiTypeOK'
    BY <1>1, <1>2 DEF PiTypeOK
  <2>2. SettledLast'
    BY <1>1, <1>2 DEF SettledLast
  <2>3. CallbacksLive'
    BY <1>1, <1>2 DEF CallbacksLive
  <2>4. LinesTruthful'
    BY <1>1, <1>2 DEF LinesTruthful
  <2>5. NoTurnWaitsInVain' /\ ControlsStayAdvisory'
    BY <1>1, <1>2 DEF NoTurnWaitsInVain, ControlsStayAdvisory
  <2> QED BY <2>1, <2>2, <2>3, <2>4, <2>5
<1>3. ASSUME NEW line \in Lines, Writes(line), line.type # "refused", ~ line.yes,
             texts' \in Nat, child = "alive", pi # "idle",
             pi' \in {"working", "ended", "failed", "idle"}, line.type = "settled" => pi' = "idle"
      PROVE  PiInv'
  <2>w. /\ pipe' \in Seq(Lines)
        /\ Len(pipe') = Len(pipe) + 1
        /\ \A i \in 1..Len(pipe) : pipe'[i] = pipe[i]
        /\ pipe'[Len(pipe) + 1] = line
    BY <1>3, WritesFacts DEF PiTypeOK
  <2>l. Len(pipe) \in Nat
    BY DEF PiTypeOK
  <2>1. PiTypeOK'
    BY <1>1, <1>3, <2>w DEF PiTypeOK
  <2>2. SettledLast'
    <3>1. turn' # "settled" /\ \A i \in 1..Len(pipe) : pipe[i].type # "settled"
      BY <1>1, <1>3 DEF SettledLast
    <3>2. ASSUME NEW i \in 1..Len(pipe'), pipe'[i].type = "settled"
          PROVE  i = Len(pipe) + 1 /\ pi' = "idle"
      <4>1. i = Len(pipe) + 1
        BY <2>w, <2>l, <3>1, <3>2
      <4> QED BY <1>3, <2>w, <3>2, <4>1
    <3>3. \A i \in 1..Len(pipe') : pipe'[i].type = "settled" =>
             pi' = "idle" /\ \A j \in 1..Len(pipe') : j > i => pipe'[j].type = "control"
      BY <2>w, <2>l, <3>2
    <3> QED BY <3>1, <3>3 DEF SettledLast
  <2>3. CallbacksLive'
    BY <1>1, <1>3 DEF CallbacksLive
  <2>4. LinesTruthful'
    BY <1>1, <1>3, <2>w, <2>l DEF LinesTruthful
  <2>5. NoTurnWaitsInVain' /\ ControlsStayAdvisory'
    BY <1>1 DEF NoTurnWaitsInVain, ControlsStayAdvisory
  <2> QED BY <2>1, <2>2, <2>3, <2>4, <2>5
<1>4. texts \in Nat /\ (texts > 0 => texts - 1 \in Nat)
  BY DEF PiTypeOK
<1>5. ASSUME NEW t PROVE Line(t).type = t /\ ~ Line(t).yes
  BY DEF Line
<1>6. \A t \in {"report", "prose", "end", "end failed", "settled"} : Line(t) \in Lines
  BY DEF Line, Lines
<1> QED BY <1>2, <1>3, <1>4, <1>5, <1>6 DEF PiWorks, PiGoes

(* A refused command, or setting.                                          *)
LEMMA PiRefusesKeeps == PiInv /\ PiRefuses => PiInv'
<1> SUFFICES ASSUME PiInv, PiRefuses PROVE PiInv'
  OBVIOUS
<1> USE DEF PiInv
<1>1. /\ UNCHANGED <<kind, step, verdict, completed, recovering, turn, failed, reported, aborted>>
      /\ UNCHANGED <<child, texts, reader, exit, read, control, pending, obeyed>>
      /\ child = "alive" /\ pi = "prompted" /\ pi' \in {"idle", "prompted"}
      /\ "refusal" \in mishaps'
  BY DEF PiRefuses, PiGoes, Mishap, callVars, turnVars, handlerVars, controlVars
<1>2. Line("refused") \in Lines /\ Line("refused").type = "refused" /\ ~ Line("refused").yes
  BY DEF Line, Lines
<1>3. /\ pipe' \in Seq(Lines)
      /\ Len(pipe') = Len(pipe) + 1
      /\ \A i \in 1..Len(pipe) : pipe'[i] = pipe[i]
      /\ pipe'[Len(pipe) + 1] = Line("refused")
  BY <1>2, WritesFacts DEF PiRefuses, PiTypeOK
<1>4. Len(pipe) \in Nat
  BY DEF PiTypeOK
<1>5. PiTypeOK'
  BY <1>1, <1>3 DEF PiTypeOK
<1>6. SettledLast'
  <2>1. turn' # "settled" /\ \A i \in 1..Len(pipe) : pipe[i].type # "settled"
    BY <1>1 DEF SettledLast
  <2>2. \A i \in 1..Len(pipe') : pipe'[i].type # "settled"
    BY <1>2, <1>3, <1>4, <2>1
  <2> QED BY <2>1, <2>2 DEF SettledLast
<1>7. CallbacksLive'
  BY <1>1 DEF CallbacksLive
<1>8. LinesTruthful'
  BY <1>1, <1>2, <1>3, <1>4 DEF LinesTruthful
<1>9. NoTurnWaitsInVain' /\ ControlsStayAdvisory'
  BY <1>1 DEF NoTurnWaitsInVain, ControlsStayAdvisory
<1> QED BY <1>5, <1>6, <1>7, <1>8, <1>9

(* An answer to a control.                                                 *)
LEMMA PiAnswersKeeps == ASSUME PiInv, NEW c \in LiveControls, PiAnswers(c) PROVE PiInv'
<1> USE DEF PiInv
<1>1. /\ UNCHANGED <<kind, step, verdict, completed, recovering, turn, failed, reported, aborted>>
      /\ UNCHANGED <<child, pi, texts, reader, exit, read, control, mishaps>>
      /\ child = "alive" /\ pending' \in SUBSET LiveControls
      /\ obeyed \subseteq obeyed' /\ obeyed' \in SUBSET LiveControls
  BY DEF PiAnswers, PiTypeOK, callVars, turnVars, handlerVars
<1>2. PICK yes \in BOOLEAN :
        /\ Writes([type |-> "control", control |-> {c}, yes |-> yes])
        /\ yes => c \in obeyed'
  BY DEF PiAnswers
<1> DEFINE line == [type |-> "control", control |-> {c}, yes |-> yes]
<1>3. /\ line \in Lines /\ line.type = "control" /\ line.control = {c}
      /\ line.yes => c \in obeyed'
  BY <1>2 DEF Lines
<1>4. Writes(line)
  BY <1>2
<1> HIDE DEF line
<1>5. /\ pipe' \in Seq(Lines)
      /\ Len(pipe') = Len(pipe) + 1
      /\ \A i \in 1..Len(pipe) : pipe'[i] = pipe[i]
      /\ pipe'[Len(pipe) + 1] = line
  BY <1>3, <1>4, WritesFacts DEF PiTypeOK
<1>6. Len(pipe) \in Nat
  BY DEF PiTypeOK
<1>7. PiTypeOK'
  BY <1>1, <1>5 DEF PiTypeOK
<1>8. SettledLast'
  <2>1. turn' = "settled" => pi' = "idle" /\ \A i \in 1..Len(pipe') : pipe'[i].type = "control"
    BY <1>1, <1>3, <1>5, <1>6 DEF SettledLast
  <2>2. ASSUME NEW i \in 1..Len(pipe'), pipe'[i].type = "settled"
        PROVE  pi' = "idle" /\ \A j \in 1..Len(pipe') : j > i => pipe'[j].type = "control"
    <3>1. i \in 1..Len(pipe) /\ pipe[i].type = "settled"
      BY <1>3, <1>5, <1>6, <2>2
    <3>2. pi = "idle" /\ \A j \in 1..Len(pipe) : j > i => pipe[j].type = "control"
      BY <3>1 DEF SettledLast
    <3> QED BY <1>1, <1>3, <1>5, <1>6, <3>2
  <2> QED BY <2>1, <2>2 DEF SettledLast
<1>9. CallbacksLive'
  BY <1>1 DEF CallbacksLive
<1>10. LinesTruthful'
  <2>1. \A i \in 1..Len(pipe') : pipe'[i].yes => pipe'[i].control \subseteq obeyed'
    <3>1. \A i \in 1..Len(pipe) : pipe[i].yes => pipe[i].control \subseteq obeyed'
      BY <1>1 DEF LinesTruthful
    <3>2. line.yes => line.control \subseteq obeyed'
      BY <1>3
    <3> QED BY <1>5, <1>6, <3>1, <3>2
  <2>2. \A i \in 1..Len(pipe') : pipe'[i].type = "refused" => "refusal" \in mishaps'
    BY <1>1, <1>3, <1>5, <1>6 DEF LinesTruthful
  <2> QED BY <1>1, <2>1, <2>2 DEF LinesTruthful
<1>11. NoTurnWaitsInVain' /\ ControlsStayAdvisory'
  BY <1>1 DEF NoTurnWaitsInVain, ControlsStayAdvisory
<1> QED BY <1>7, <1>8, <1>9, <1>10, <1>11

-----------------------------------------------------------------------------
(* The callbacks.                                                          *)

(* A failure ends an open turn that is awaited, and no other.              *)
LEMMA FailFacts ==
    ASSUME PiInv, NEW why, why \in Settlements, why \notin {"open", "settled", "refused"},
           FailUnlessCompleted(why)
    PROVE  /\ turn' \in Settlements
           /\ turn' = "settled" <=> turn = "settled"
           /\ turn' = "refused" => turn = "refused"
           /\ turn' = "open" => turn = "open"
           /\ step = "turn" => turn' # "open"
BY DEF PiInv, PiTypeOK, CallbacksLive, FailUnlessCompleted, FailTurn

(* Whoever waits for an answer is told that none came.                     *)
LEMMA TellFacts ==
    ASSUME PiTypeOK, TellWaiting(LiveControls)
    PROVE  /\ control' \in [LiveControls -> {"new", "waiting", "accepted", "rejected"}]
           /\ \A c \in LiveControls : /\ control'[c] # "waiting"
                                      /\ control'[c] = "accepted" => control[c] = "accepted"
BY DEF PiTypeOK, TellWaiting

(* The adapter gives up the turn.                                          *)
LEMMA ThrowFacts ==
    ASSUME PiTypeOK, NEW v, v \in Verdicts, Leave(v) \/ Throw(v)
    PROVE  /\ step' \in {"conceding", "stopping"} /\ verdict' = v
           /\ completed' \in BOOLEAN /\ recovering' \in BOOLEAN
           /\ control' \in [LiveControls -> {"new", "waiting", "accepted", "rejected"}]
           /\ \A c \in LiveControls : control'[c] = "accepted" => control[c] = "accepted"
           /\ step' = "stopping" => \A c \in LiveControls : control'[c] # "waiting"
<1>1. CASE Leave(v)
  BY <1>1, TellFacts DEF Leave
<1>2. CASE recovering /\ Throw(v)
  BY <1>2 DEF Throw, PiTypeOK
<1>3. CASE ~ recovering /\ Throw(v)
  BY <1>3, TellFacts DEF Throw, Leave
<1> QED BY <1>1, <1>2, <1>3

LEMMA PiReadsArtifactKeeps == PiInv /\ PiReadsArtifact => PiInv'
<1> SUFFICES ASSUME PiInv, PiReadsArtifact PROVE PiInv'
  OBVIOUS
<1> USE DEF PiInv
<1>1. /\ UNCHANGED <<kind, step, verdict, completed, recovering, turn, failed, reported, aborted>>
      /\ UNCHANGED <<child, pi, texts, pipe, reader, exit, control, pending, obeyed, mishaps>>
      /\ read' = "busy"
  BY DEF PiReadsArtifact, callVars, turnVars, piVars, controlVars
<1>2. PiTypeOK'
  BY <1>1 DEF PiTypeOK
<1>3. SettledLast' /\ CallbacksLive' /\ LinesTruthful'
  BY <1>1 DEF SettledLast, CallbacksLive, LinesTruthful
<1>4. NoTurnWaitsInVain' /\ ControlsStayAdvisory'
  BY <1>1 DEF NoTurnWaitsInVain, ControlsStayAdvisory
<1> QED BY <1>2, <1>3, <1>4

LEMMA PiExitsKeeps == PiInv /\ PiExits => PiInv'
<1> SUFFICES ASSUME PiInv, PiExits PROVE PiInv'
  OBVIOUS
<1> USE DEF PiInv
<1>1. /\ UNCHANGED <<kind, step, verdict, completed, recovering, turn, failed, reported, aborted>>
      /\ UNCHANGED <<pi, texts, pipe, reader, read, pending, obeyed, mishaps>>
      /\ child = "alive" /\ child' = "exited" /\ exit' = "draining"
  BY DEF PiExits, callVars, turnVars
<1>2. /\ control' \in [LiveControls -> {"new", "waiting", "accepted", "rejected"}]
      /\ \A c \in LiveControls : /\ control'[c] # "waiting"
                                 /\ control'[c] = "accepted" => control[c] = "accepted"
  BY TellFacts DEF PiExits
<1>3. PiTypeOK'
  BY <1>1, <1>2 DEF PiTypeOK
<1>4. SettledLast' /\ CallbacksLive' /\ LinesTruthful'
  BY <1>1 DEF SettledLast, CallbacksLive, LinesTruthful
<1>5. NoTurnWaitsInVain' /\ ControlsStayAdvisory'
  BY <1>1, <1>2 DEF NoTurnWaitsInVain, ControlsStayAdvisory
<1> QED BY <1>3, <1>4, <1>5

(* What the callbacks that may fail the turn have in common: the abort, the *)
(* end of the exit handler, of the reader, of a stream, of a read.         *)
LEMMA CallbackKeeps ==
    ASSUME PiInv, NEW why, why \in Settlements, why \notin {"open", "settled", "refused"},
           UNCHANGED turn \/ FailUnlessCompleted(why),
           UNCHANGED <<kind, step, verdict, completed, recovering, failed, reported, child, pi, texts>>,
           UNCHANGED <<pipe, control, pending, obeyed>>,
           mishaps \subseteq mishaps',
           aborted' \in BOOLEAN, reader' \in {"reading", "ended", "failed"},
           exit' \in {"no", "draining", "done"}, read' \in {"absent", "idle", "busy", "failed"},
           exit' # exit => exit = "draining",
           ~ (aborted' = aborted /\ exit' = exit) => FailUnlessCompleted(why)
    PROVE  PiInv'
<1> USE DEF PiInv
<1>1. /\ turn' \in Settlements
      /\ turn' = "settled" <=> turn = "settled"
      /\ turn' = "refused" => turn = "refused"
      /\ turn' = "open" => turn = "open"
      /\ FailUnlessCompleted(why) /\ step = "turn" => turn' # "open"
  BY FailFacts DEF PiTypeOK
<1>2. PiTypeOK'
  BY <1>1 DEF PiTypeOK
<1>3. SettledLast'
  BY <1>1 DEF SettledLast
<1>4. CallbacksLive'
  BY <1>1 DEF CallbacksLive
<1>5. LinesTruthful'
  BY <1>1 DEF LinesTruthful
<1>6. NoTurnWaitsInVain'
  BY <1>1 DEF NoTurnWaitsInVain
<1>7. ControlsStayAdvisory'
  BY DEF ControlsStayAdvisory
<1> QED BY <1>2, <1>3, <1>4, <1>5, <1>6, <1>7

LEMMA ExitHandledKeeps == PiInv /\ ExitHandled => PiInv'
<1> SUFFICES ASSUME PiInv, ExitHandled PROVE PiInv'
  OBVIOUS
<1> "transient" \in Settlements /\ "transient" \notin {"open", "settled", "refused"}
  BY DEF Settlements
<1>1. FailUnlessCompleted("transient") /\ exit = "draining" /\ exit' = "done"
  BY DEF ExitHandled
<1>2. /\ UNCHANGED <<kind, step, verdict, completed, recovering, failed, reported, child, pi, texts>>
      /\ UNCHANGED <<pipe, control, pending, obeyed, mishaps, aborted, reader, read>>
  BY DEF ExitHandled, callVars, piVars, controlVars
<1>3. /\ mishaps \subseteq mishaps' /\ aborted' \in BOOLEAN /\ reader' \in {"reading", "ended", "failed"}
      /\ read' \in {"absent", "idle", "busy", "failed"}
  BY <1>2 DEF PiInv, PiTypeOK
<1> QED BY <1>1, <1>2, <1>3, CallbackKeeps

LEMMA AbortKeeps == PiInv /\ Abort => PiInv'
<1> SUFFICES ASSUME PiInv, Abort PROVE PiInv'
  OBVIOUS
<1> "aborted" \in Settlements /\ "aborted" \notin {"open", "settled", "refused"}
  BY DEF Settlements
<1>1. FailUnlessCompleted("aborted") /\ aborted' = TRUE
  BY DEF Abort
<1>2. /\ UNCHANGED <<kind, step, verdict, completed, recovering, failed, reported, child, pi, texts>>
      /\ UNCHANGED <<pipe, control, pending, obeyed, mishaps, exit, reader, read>>
  BY DEF Abort, callVars, piVars, handlerVars, controlVars
<1>3. /\ mishaps \subseteq mishaps' /\ exit' = exit /\ exit' \in {"no", "draining", "done"}
      /\ reader' \in {"reading", "ended", "failed"} /\ read' \in {"absent", "idle", "busy", "failed"}
  BY <1>2 DEF PiInv, PiTypeOK
<1> QED BY <1>1, <1>2, <1>3, CallbackKeeps

LEMMA ReaderKeeps == PiInv /\ (ReaderEnds \/ ReaderFails \/ TransportFails \/ ArtifactRead) => PiInv'
<1> SUFFICES ASSUME PiInv, ReaderEnds \/ ReaderFails \/ TransportFails \/ ArtifactRead PROVE PiInv'
  OBVIOUS
<1> "failure" \in Settlements /\ "failure" \notin {"open", "settled", "refused"}
  BY DEF Settlements
<1>1. UNCHANGED turn \/ FailUnlessCompleted("failure")
  BY DEF ReaderEnds, ReaderFails, TransportFails, ArtifactRead, turnVars
<1>2. /\ UNCHANGED <<kind, step, verdict, completed, recovering, failed, reported, child, pi, texts>>
      /\ UNCHANGED <<pipe, control, pending, obeyed, aborted, exit>>
      /\ mishaps \subseteq mishaps'
  BY DEF ReaderEnds, ReaderFails, TransportFails, ArtifactRead, Mishap, callVars, turnVars, piVars,
         handlerVars, controlVars
<1>3. reader' \in {"reading", "ended", "failed"} /\ read' \in {"absent", "idle", "busy", "failed"}
  BY DEF ReaderEnds, ReaderFails, TransportFails, ArtifactRead, handlerVars, PiInv, PiTypeOK
<1>4. aborted' \in BOOLEAN /\ exit' \in {"no", "draining", "done"} /\ aborted' = aborted /\ exit' = exit
  BY <1>2 DEF PiInv, PiTypeOK
<1> QED BY <1>1, <1>2, <1>3, <1>4, CallbackKeeps

(* The one step that relates the order of the lines to the turn.           *)
LEMMA ReadLineKeeps == PiInv /\ ReadLine => PiInv'
<1> SUFFICES ASSUME PiInv, ReadLine PROVE PiInv'
  OBVIOUS
<1> USE DEF PiInv
<1> DEFINE line == Head(pipe)
<1>1. /\ UNCHANGED <<kind, step, verdict, recovering, aborted, child, pi, texts, reader, exit, read>>
      /\ UNCHANGED <<pending, obeyed, mishaps>>
      /\ Handle(line) /\ pipe' = Tail(pipe) /\ pipe # <<>>
  BY DEF ReadLine
<1>2. /\ Len(pipe) \in Nat /\ Len(pipe) > 0
      /\ line = pipe[1] /\ line \in Lines
      /\ pipe' \in Seq(Lines) /\ Len(pipe') = Len(pipe) - 1
      /\ \A i \in 1..Len(pipe') : pipe'[i] = pipe[i + 1]
  BY <1>1, ReadFacts DEF PiTypeOK
<1>3. child # "none" /\ step # "spawning"
  BY <1>2 DEF CallbacksLive
<1> HIDE DEF line
<1>4. /\ \A i \in 1..Len(pipe') : pipe'[i].type = "settled" =>
             pi' = "idle" /\ \A j \in 1..Len(pipe') : j > i => pipe'[j].type = "control"
      /\ turn = "settled" => pi = "idle" /\ \A i \in 1..Len(pipe') : pipe'[i].type = "control"
      /\ turn = "settled" => line.type = "control"
      /\ line.type = "settled" => pi = "idle" /\ \A i \in 1..Len(pipe') : pipe'[i].type = "control"
  <2>1. ASSUME NEW i \in 1..Len(pipe'), pipe'[i].type = "settled"
        PROVE  pi' = "idle" /\ \A j \in 1..Len(pipe') : j > i => pipe'[j].type = "control"
    <3>1. i + 1 \in 1..Len(pipe) /\ pipe[i + 1].type = "settled"
      BY <1>2, <2>1
    <3>2. pi = "idle" /\ \A j \in 1..Len(pipe) : j > i + 1 => pipe[j].type = "control"
      BY <3>1 DEF SettledLast
    <3>3. ASSUME NEW j \in 1..Len(pipe'), j > i PROVE pipe'[j].type = "control"
      <4>1. j + 1 \in 1..Len(pipe) /\ j + 1 > i + 1
        BY <1>2, <3>3
      <4> QED BY <1>2, <3>2, <4>1
    <3> QED BY <1>1, <3>2, <3>3
  <2>2. ASSUME turn = "settled"
        PROVE  /\ pi = "idle" /\ \A i \in 1..Len(pipe') : pipe'[i].type = "control"
               /\ line.type = "control"
    <3>1. pi = "idle" /\ \A i \in 1..Len(pipe) : pipe[i].type = "control"
      BY <2>2 DEF SettledLast
    <3>2. \A i \in 1..Len(pipe') : i + 1 \in 1..Len(pipe)
      BY <1>2
    <3> QED BY <1>2, <3>1, <3>2
  <2>3. ASSUME line.type = "settled"
        PROVE  pi = "idle" /\ \A i \in 1..Len(pipe') : pipe'[i].type = "control"
    <3>1. 1 \in 1..Len(pipe) /\ pipe[1].type = "settled"
      BY <1>2, <2>3
    <3>2. pi = "idle" /\ \A j \in 1..Len(pipe) : j > 1 => pipe[j].type = "control"
      BY <3>1 DEF SettledLast
    <3>3. \A i \in 1..Len(pipe') : i + 1 \in 1..Len(pipe) /\ i + 1 > 1
      BY <1>2
    <3> QED BY <1>2, <3>2, <3>3
  <2> QED BY <2>1, <2>2, <2>3
<1>5. /\ \A i \in 1..Len(pipe') : pipe'[i].yes => pipe'[i].control \subseteq obeyed'
      /\ \A i \in 1..Len(pipe') : pipe'[i].type = "refused" => "refusal" \in mishaps'
      /\ line.yes => line.control \subseteq obeyed
      /\ line.type = "refused" => "refusal" \in mishaps
  <2>1. 1 \in 1..Len(pipe) /\ \A i \in 1..Len(pipe') : i + 1 \in 1..Len(pipe)
    BY <1>2
  <2> QED BY <1>1, <1>2, <2>1 DEF LinesTruthful
<1>6. CASE line.type = "control" /\ ControlLine(line)
  <2>1. UNCHANGED <<turn, failed, reported, completed>>
    BY <1>6 DEF ControlLine, turnVars
  <2>2. /\ control' \in [LiveControls -> {"new", "waiting", "accepted", "rejected"}]
        /\ \A c \in LiveControls :
             /\ control'[c] = "waiting" => control[c] = "waiting"
             /\ control'[c] = "accepted" => control[c] = "accepted" \/ c \in obeyed
    BY <1>5, <1>6 DEF ControlLine, PiTypeOK
  <2>3. PiTypeOK'
    BY <1>1, <1>2, <2>1, <2>2 DEF PiTypeOK
  <2>4. SettledLast'
    BY <1>1, <1>4, <2>1 DEF SettledLast
  <2>5. CallbacksLive' /\ NoTurnWaitsInVain'
    BY <1>1, <1>3, <2>1 DEF CallbacksLive, NoTurnWaitsInVain
  <2>6. LinesTruthful'
    BY <1>1, <1>5, <2>1 DEF LinesTruthful
  <2>7. ControlsStayAdvisory'
    BY <1>1, <2>2 DEF ControlsStayAdvisory
  <2> QED BY <2>3, <2>4, <2>5, <2>6, <2>7
<1>7. CASE /\ line.type \in {"report", "prose", "end", "end failed"}
           /\ failed' \in BOOLEAN /\ reported' \in BOOLEAN
           /\ UNCHANGED <<turn, completed, control>>
  <2>1. PiTypeOK'
    <3>1. failed' \in BOOLEAN /\ reported' \in BOOLEAN /\ UNCHANGED <<turn, completed, control>>
      BY <1>7
    <3> QED BY <1>1, <1>2, <3>1 DEF PiTypeOK
  <2>2. SettledLast'
    BY <1>1, <1>4, <1>7 DEF SettledLast
  <2>3. CallbacksLive' /\ NoTurnWaitsInVain'
    BY <1>1, <1>3, <1>7 DEF CallbacksLive, NoTurnWaitsInVain
  <2>4. LinesTruthful'
    BY <1>1, <1>5, <1>7 DEF LinesTruthful
  <2>5. ControlsStayAdvisory'
    BY <1>1, <1>7 DEF ControlsStayAdvisory
  <2> QED BY <2>1, <2>2, <2>3, <2>4, <2>5
<1>8. CASE /\ line.type \in {"settled", "refused"}
           /\ \/ turn' = turn
              \/ turn = "open" /\ turn' = "failure"
              \/ turn = "open" /\ turn' = line.type
           /\ line.type = "refused" => turn' # "open"
           /\ completed' \in BOOLEAN /\ (completed' # completed => line.type = "refused")
           /\ UNCHANGED <<failed, reported, control>>
  <2>1. turn # "settled"
    BY <1>4, <1>8
  <2>2. step \notin {"observed", "announcing"}
    BY <2>1 DEF CallbacksLive
  <2>3. PiTypeOK'
    <3>1. turn' \in Settlements
      BY <1>8 DEF PiTypeOK, Settlements
    <3>2. completed' \in BOOLEAN /\ failed' \in BOOLEAN /\ reported' \in BOOLEAN
      BY <1>8 DEF PiTypeOK
    <3>3. control' \in [LiveControls -> {"new", "waiting", "accepted", "rejected"}]
      BY <1>8 DEF PiTypeOK
    <3> QED BY <1>1, <1>2, <3>1, <3>2, <3>3 DEF PiTypeOK
  <2>4. SettledLast'
    BY <1>1, <1>4, <1>8, <2>1 DEF SettledLast
  <2>5. CallbacksLive'
    BY <1>1, <1>3, <1>8, <2>1, <2>2 DEF CallbacksLive
  <2>6. NoTurnWaitsInVain'
    BY <1>1, <1>8 DEF NoTurnWaitsInVain
  <2>7. LinesTruthful'
    BY <1>1, <1>5, <1>8 DEF LinesTruthful
  <2>8. ControlsStayAdvisory'
    BY <1>1, <1>8 DEF ControlsStayAdvisory
  <2> QED BY <2>3, <2>4, <2>5, <2>6, <2>7, <2>8
<1>9. QED
  <2>1. CASE line.type \in {"report", "prose"} /\ reported' = (line.type = "report")
             /\ UNCHANGED <<turn, failed, completed, control>>
    BY <1>7, <2>1 DEF PiTypeOK
  <2>2. CASE /\ line.type \in {"end", "end failed"} /\ failed' = (failed \/ line.type = "end failed")
             /\ UNCHANGED <<turn, reported, completed, control>>
    BY <1>7, <2>2 DEF PiTypeOK
  <2>3. CASE /\ line.type = "settled"
             /\ FailTurn(IF kind = "probe" /\ failed THEN "failure" ELSE "settled")
             /\ UNCHANGED <<failed, reported, completed, control>>
    BY <1>8, <2>3 DEF PiTypeOK, FailTurn
  <2>4. CASE /\ line.type = "refused" /\ completed' = (completed \/ kind = "run") /\ FailTurn("refused")
             /\ UNCHANGED <<failed, reported, control>>
    BY <1>8, <2>4 DEF PiTypeOK, FailTurn
  <2> QED BY <1>1, <1>6, <2>1, <2>2, <2>3, <2>4 DEF Handle

-----------------------------------------------------------------------------
(* The live controls, and the call of the adapter.                         *)

LEMMA ControlKeeps ==
    ASSUME PiInv, NEW c \in LiveControls, Control(c) \/ ControlTimeout(c) PROVE PiInv'
<1> USE DEF PiInv
<1>1. /\ UNCHANGED <<kind, step, verdict, completed, recovering, turn, failed, reported, aborted>>
      /\ UNCHANGED <<child, pi, texts, pipe, reader, exit, read, obeyed, mishaps>>
  BY DEF Control, ControlTimeout, callVars, turnVars, piVars, handlerVars
<1>2. /\ pending' \in SUBSET LiveControls
      /\ control' \in [LiveControls -> {"new", "waiting", "accepted", "rejected"}]
      /\ \A d \in LiveControls : control'[d] = "accepted" => control[d] = "accepted"
      /\ step \in Leaving => \A d \in LiveControls : control'[d] # "waiting"
  <2>1. control \in [LiveControls -> {"new", "waiting", "accepted", "rejected"}]
        /\ pending \subseteq LiveControls
    BY DEF PiTypeOK
  <2>2. CASE control' = [control EXCEPT ![c] = "rejected"] /\ UNCHANGED pending
    BY <2>1, <2>2 DEF ControlsStayAdvisory
  <2>3. CASE /\ control' = [control EXCEPT ![c] = "waiting"] /\ pending' = pending \cup {c}
             /\ step \notin Leaving
    BY <2>1, <2>3
  <2> QED BY <2>2, <2>3 DEF Control, ControlTimeout
<1>3. PiTypeOK'
  BY <1>1, <1>2 DEF PiTypeOK
<1>4. SettledLast' /\ CallbacksLive' /\ LinesTruthful'
  BY <1>1 DEF SettledLast, CallbacksLive, LinesTruthful
<1>5. NoTurnWaitsInVain' /\ ControlsStayAdvisory'
  BY <1>1, <1>2 DEF NoTurnWaitsInVain, ControlsStayAdvisory
<1> QED BY <1>3, <1>4, <1>5

(* A command is awaited: the prompt of the first turn, or of the second.   *)
LEMMA PromptKeeps ==
    ASSUME PiInv,
           UNCHANGED <<kind, verdict, completed, recovering, reported, aborted, texts, pipe, reader, exit,
                       read, control, pending, obeyed, mishaps>>,
           step \in {"spawning", "announcing"}, step' = "turn",
           pi' = "prompted", child' = "alive", child # "exited", ~ aborted,
           failed' \in BOOLEAN, turn' \in Settlements, turn' # "settled",
           turn' = "refused" => turn = "refused"
    PROVE  PiInv'
<1> USE DEF PiInv
<1>1. ~ completed /\ exit = "no"
  BY DEF CallbacksLive, PiTypeOK
<1>2. \A i \in 1..Len(pipe) : pipe[i].type # "settled"
  <2>1. CASE step = "spawning"
    <3>1. Len(pipe) = 0
      BY <2>1 DEF CallbacksLive
    <3> QED BY <3>1
  <2>2. CASE step = "announcing"
    BY <2>2 DEF CallbacksLive, SettledLast
  <2> QED BY <2>1, <2>2
<1>3. PiTypeOK'
  BY DEF PiTypeOK, Steps
<1>4. SettledLast'
  BY <1>2 DEF SettledLast
<1>5. CallbacksLive' /\ NoTurnWaitsInVain'
  BY <1>1 DEF CallbacksLive, NoTurnWaitsInVain
<1>6. LinesTruthful' /\ ControlsStayAdvisory'
  BY DEF LinesTruthful, ControlsStayAdvisory, Leaving
<1> QED BY <1>3, <1>4, <1>5, <1>6

LEMMA SpawnKeeps == PiInv /\ Spawn => PiInv'
<1> SUFFICES ASSUME PiInv, Spawn PROVE PiInv'
  OBVIOUS
<1>1. /\ UNCHANGED <<kind, turn, failed, reported, aborted, texts, pipe, reader, exit, read>>
      /\ UNCHANGED <<pending, obeyed, mishaps>> /\ step = "spawning"
  BY DEF Spawn, turnVars, handlerVars
<1>2. child = "none" /\ turn # "settled" /\ PiTypeOK
  BY <1>1 DEF PiInv, CallbacksLive
<1>3. turn' \in Settlements /\ failed' \in BOOLEAN
  BY <1>1, <1>2 DEF PiTypeOK
<1>4. CASE child' = "alive" /\ ~ aborted /\ Goto("turn") /\ pi' = "prompted"
  BY <1>1, <1>2, <1>3, <1>4, PromptKeeps DEF Goto
<1>5. ASSUME NEW v, v \in Verdicts, v # "refused", Throw(v), child' \in {"alive", "exited"},
             UNCHANGED pi
      PROVE  PiInv'
  <2>1. child' \in {"none", "alive", "exited"}
    BY <1>5
  <2>2. PiTypeOK' /\ CallbacksLive' /\ SettledLast' /\ LinesTruthful'
    BY <1>1, <1>2, <1>3, <1>5, <2>1, ThrowFacts
       DEF PiInv, PiTypeOK, CallbacksLive, SettledLast, LinesTruthful, Steps
  <2>3. NoTurnWaitsInVain' /\ ControlsStayAdvisory'
    BY <1>1, <1>2, <1>5, ThrowFacts DEF PiInv, NoTurnWaitsInVain, ControlsStayAdvisory, Leaving
  <2> QED BY <2>2, <2>3 DEF PiInv
<1>6. "aborted" \in Verdicts /\ "failure" \in Verdicts
  BY DEF Verdicts
<1> QED BY <1>4, <1>5, <1>6 DEF Spawn

(* A step that gives up the turn.                                          *)
LEMMA ThrowKeeps ==
    ASSUME PiInv, NEW v, v \in Verdicts, v = "refused" => verdict = "refused" \/ turn = "refused",
           Leave(v) \/ Throw(v),
           UNCHANGED <<kind, reported, aborted, child, pi, texts, pipe, reader, exit, read, pending, obeyed>>,
           failed' \in BOOLEAN, turn' \in Settlements, turn' = turn \/ turn' = "open",
           mishaps \subseteq mishaps', step # "spawning"
    PROVE  PiInv'
<1> USE DEF PiInv
<1>1. /\ step' \in {"conceding", "stopping"} /\ verdict' = v
      /\ completed' \in BOOLEAN /\ recovering' \in BOOLEAN
      /\ control' \in [LiveControls -> {"new", "waiting", "accepted", "rejected"}]
      /\ \A c \in LiveControls : control'[c] = "accepted" => control[c] = "accepted"
      /\ step' = "stopping" => \A c \in LiveControls : control'[c] # "waiting"
  BY ThrowFacts
<1>2. step' \in Steps
  BY <1>1 DEF Steps
<1>3. PiTypeOK'
  BY <1>1, <1>2 DEF PiTypeOK
<1>4. SettledLast' /\ CallbacksLive'
  BY <1>1 DEF SettledLast, CallbacksLive
<1>5. LinesTruthful' /\ NoTurnWaitsInVain'
  BY <1>1 DEF LinesTruthful, NoTurnWaitsInVain
<1>6. ControlsStayAdvisory'
  <2>1. \A c \in LiveControls : control'[c] = "accepted" => c \in obeyed'
    BY <1>1 DEF ControlsStayAdvisory
  <2>2. verdict' = "refused" => "refusal" \in mishaps'
    BY <1>1 DEF ControlsStayAdvisory, LinesTruthful
  <2>3. step' \in Leaving => \A c \in LiveControls : control'[c] # "waiting"
    BY <1>1 DEF Leaving
  <2> QED BY <2>1, <2>2, <2>3 DEF ControlsStayAdvisory
<1> QED BY <1>3, <1>4, <1>5, <1>6

(* A step that goes on, without a turn that is awaited.                    *)
LEMMA GoOnKeeps ==
    ASSUME PiInv, step # "spawning", step' \in Steps, step' \notin Leaving,
           step' # "spawning", step' # "turn",
           verdict' \in Verdicts, verdict' = "refused" => verdict = "refused",
           completed' \in BOOLEAN, recovering' \in BOOLEAN,
           step' \in {"observed", "announcing"} => turn = "settled" /\ ~ completed',
           UNCHANGED <<kind, turn, failed, reported, aborted, child, pi, texts, pipe, reader, exit, read>>,
           UNCHANGED <<control, pending, obeyed, mishaps>>
    PROVE  PiInv'
<1> USE DEF PiInv
<1>2. PiTypeOK'
  BY DEF PiTypeOK
<1>3. SettledLast' /\ CallbacksLive'
  BY DEF SettledLast, CallbacksLive
<1>4. LinesTruthful' /\ NoTurnWaitsInVain'
  BY DEF LinesTruthful, NoTurnWaitsInVain
<1>5. ControlsStayAdvisory'
  BY DEF ControlsStayAdvisory
<1> QED BY <1>2, <1>3, <1>4, <1>5

LEMMA JudgeTurnKeeps == PiInv /\ JudgeTurn => PiInv'
<1> SUFFICES ASSUME PiInv, JudgeTurn PROVE PiInv'
  OBVIOUS
<1>1. /\ UNCHANGED <<kind, turn, failed, reported, aborted, child, pi, texts, pipe, reader, exit, read>>
      /\ UNCHANGED <<pending, obeyed, mishaps>> /\ step = "observed"
  BY DEF JudgeTurn, turnVars, piVars, handlerVars
<1>2. PiTypeOK /\ ~ completed /\ turn = "settled"
  BY <1>1 DEF PiInv, CallbacksLive
<1>3. /\ failed' \in BOOLEAN /\ turn' \in Settlements /\ verdict \in Verdicts
      /\ completed \in BOOLEAN /\ recovering \in BOOLEAN
  BY <1>1, <1>2 DEF PiTypeOK
<1>4. {"failure", "aborted", "ok"} \subseteq Verdicts
  BY DEF Verdicts
<1>5. CASE Throw("failure") \/ Throw("aborted") \/ Leave("ok")
  BY <1>1, <1>3, <1>4, <1>5, ThrowKeeps
<1>6. CASE AskStats("settled error") /\ UNCHANGED <<completed, recovering>>
  BY <1>1, <1>3, <1>6, GoOnKeeps DEF AskStats, Steps, Verdicts, Leaving
<1>7. CASE AskStats("ok") /\ completed' = TRUE /\ UNCHANGED recovering
  BY <1>1, <1>3, <1>7, GoOnKeeps DEF AskStats, Steps, Verdicts, Leaving
<1>8. CASE Goto("confirming")
  BY <1>1, <1>3, <1>8, GoOnKeeps DEF Goto, Steps, Verdicts, Leaving
<1>9. CASE step' = "announcing" /\ recovering' = TRUE /\ UNCHANGED <<verdict, completed, control>>
  BY <1>1, <1>2, <1>3, <1>9, GoOnKeeps DEF Steps, Verdicts, Leaving
<1> QED BY <1>5, <1>6, <1>7, <1>8, <1>9 DEF JudgeTurn

LEMMA BeginRecoveryKeeps == PiInv /\ BeginRecovery => PiInv'
<1> SUFFICES ASSUME PiInv, BeginRecovery PROVE PiInv'
  OBVIOUS
<1>1. /\ UNCHANGED <<kind, reported, aborted, child, texts, pipe, reader, exit, read>>
      /\ UNCHANGED <<pending, obeyed, mishaps>> /\ step = "announcing"
      /\ turn' = "open" /\ failed' = FALSE
  BY DEF BeginRecovery, turnVars, piVars, handlerVars
<1>2. failed' \in BOOLEAN /\ turn' \in Settlements /\ turn' # "settled"
  BY <1>1 DEF Settlements
<1>3. {"failure", "aborted"} \subseteq Verdicts
  BY DEF Verdicts
<1>4. CASE (Throw("failure") \/ Throw("aborted")) /\ UNCHANGED pi
  BY <1>1, <1>2, <1>3, <1>4, ThrowKeeps
<1>5. CASE ~ aborted /\ child # "exited" /\ Goto("turn") /\ pi' = "prompted"
  <2>1. child' = "alive"
    <3>1. turn = "settled" /\ PiTypeOK
      BY <1>1 DEF PiInv, CallbacksLive
    <3>2. child # "none"
      BY <1>1 DEF PiInv, CallbacksLive
    <3> QED BY <1>1, <1>5, <3>1, <3>2 DEF PiTypeOK
  <2> QED BY <1>1, <1>2, <1>5, <2>1, PromptKeeps DEF Goto
<1> QED BY <1>4, <1>5 DEF BeginRecovery

(* The other steps of the call.                                            *)
LEMMA CallKeeps ==
    PiInv /\ (TurnEnds \/ RecordFails \/ Confirm \/ Concede \/ StatsEnd \/ Stop) => PiInv'
<1> SUFFICES ASSUME PiInv, TurnEnds \/ RecordFails \/ Confirm \/ Concede \/ StatsEnd \/ Stop
             PROVE  PiInv'
  OBVIOUS
<1>1. PiTypeOK /\ verdict \in Verdicts /\ {"failure", "ok"} \subseteq Verdicts
  BY DEF PiInv, PiTypeOK, Verdicts
<1>2. /\ UNCHANGED <<kind, turn, failed, reported, aborted, child, pi, texts, pipe, reader, exit, read>>
      /\ UNCHANGED <<pending, obeyed>> /\ mishaps \subseteq mishaps'
  BY DEF TurnEnds, RecordFails, Confirm, Concede, StatsEnd, Stop, Mishap, turnVars, piVars, handlerVars,
         controlVars
<1>3. failed' \in BOOLEAN /\ turn' \in Settlements /\ turn \in Verdicts
  BY <1>1, <1>2 DEF PiTypeOK, Settlements, Verdicts
<1>4. completed \in BOOLEAN /\ recovering \in BOOLEAN
  BY <1>1 DEF PiTypeOK
<1>5. CASE TurnEnds
  <2>1. CASE Throw(turn)
    BY <1>2, <1>3, <1>5, <2>1, ThrowKeeps DEF TurnEnds
  <2>2. CASE turn = "settled" /\ Goto("observed")
    <3>1. ~ completed /\ UNCHANGED <<control, mishaps>>
      BY <1>5, <2>2 DEF TurnEnds, Goto, PiInv, CallbacksLive
    <3> QED BY <1>1, <1>2, <1>4, <1>5, <2>2, <3>1, GoOnKeeps DEF TurnEnds, Goto, Steps, Verdicts, Leaving
  <2> QED BY <1>5, <2>1, <2>2 DEF TurnEnds
<1>6. CASE RecordFails
  <2>1. step # "spawning" /\ (Throw("failure") \/ Leave("failure"))
    BY <1>6 DEF RecordFails
  <2> QED BY <1>1, <1>2, <1>3, <2>1, ThrowKeeps
<1>7. CASE Confirm
  BY <1>2, <1>4, <1>7, GoOnKeeps DEF Confirm, AskStats, Steps, Verdicts, Leaving
<1>8. CASE Concede \/ StatsEnd
  <2>1. step # "spawning" /\ (Leave(verdict) \/ Throw(verdict))
    BY <1>8 DEF Concede, StatsEnd
  <2> QED BY <1>1, <1>2, <1>3, <2>1, ThrowKeeps
<1>9. CASE Stop
  <2>1. /\ UNCHANGED <<verdict, completed, recovering, control, mishaps>>
        /\ step \in Leaving /\ step' \in {"closing", "done"}
    BY <1>9 DEF Stop, controlVars, Leaving
  <2>2. PiTypeOK'
    BY <1>1, <1>2, <2>1 DEF PiTypeOK, Steps
  <2>3. SettledLast' /\ CallbacksLive' /\ LinesTruthful'
    BY <1>2, <2>1 DEF PiInv, SettledLast, CallbacksLive, LinesTruthful, Leaving
  <2>4. NoTurnWaitsInVain' /\ ControlsStayAdvisory'
    BY <1>2, <2>1 DEF PiInv, NoTurnWaitsInVain, ControlsStayAdvisory
  <2> QED BY <2>2, <2>3, <2>4 DEF PiInv
<1> QED BY <1>5, <1>6, <1>7, <1>8, <1>9

-----------------------------------------------------------------------------
LEMMA PiInitInv == PiInit => PiInv
<1> SUFFICES ASSUME PiInit PROVE PiInv
  OBVIOUS
<1> USE DEF PiInit
<1>1. pipe \in Seq(Lines) /\ Len(pipe) = 0 /\ texts \in Nat
  BY PiAssumption
<1>2. PiTypeOK
  BY <1>1 DEF PiTypeOK, Steps, Settlements, Verdicts
<1>3. SettledLast /\ CallbacksLive /\ LinesTruthful
  BY <1>1 DEF SettledLast, CallbacksLive, LinesTruthful
<1>4. NoTurnWaitsInVain /\ ControlsStayAdvisory
  BY DEF NoTurnWaitsInVain, ControlsStayAdvisory, Leaving
<1> QED BY <1>2, <1>3, <1>4 DEF PiInv

LEMMA PiStepInv == PiInv /\ [PiNext]_piRunVars => PiInv'
<1> SUFFICES ASSUME PiInv, [PiNext]_piRunVars PROVE PiInv'
  OBVIOUS
<1>1. CASE UNCHANGED piRunVars
  <2>1. /\ UNCHANGED <<kind, step, verdict, completed, recovering, turn, failed, reported, aborted, child>>
        /\ UNCHANGED <<pi, texts, pipe, reader, exit, read, control, pending, obeyed, mishaps>>
    BY <1>1 DEF piRunVars, callVars, turnVars, piVars, handlerVars, controlVars
  <2> QED BY <2>1 DEF PiInv, PiTypeOK, SettledLast, CallbacksLive, LinesTruthful, NoTurnWaitsInVain,
                      ControlsStayAdvisory
<1>2. CASE \E c \in LiveControls : PiAnswers(c) \/ Control(c) \/ ControlTimeout(c)
  BY <1>2, PiAnswersKeeps, ControlKeeps
<1>3. CASE PiWorks \/ PiRefuses \/ PiReadsArtifact \/ PiExits
  BY <1>3, PiWorksKeeps, PiRefusesKeeps, PiReadsArtifactKeeps, PiExitsKeeps
<1>4. CASE \/ ExitHandled \/ Abort \/ ReadLine \/ ReaderEnds \/ ReaderFails \/ TransportFails
           \/ ArtifactRead
  BY <1>4, ExitHandledKeeps, AbortKeeps, ReadLineKeeps, ReaderKeeps
<1>5. CASE \/ Spawn \/ TurnEnds \/ JudgeTurn \/ BeginRecovery \/ RecordFails \/ Confirm \/ Concede
           \/ StatsEnd \/ Stop
  BY <1>5, SpawnKeeps, JudgeTurnKeeps, BeginRecoveryKeeps, CallKeeps
<1> QED BY <1>1, <1>2, <1>3, <1>4, <1>5 DEF PiNext

LEMMA PiInvHolds == PiSpec => []PiInv
BY PiInitInv, PiStepInv, PTL DEF PiSpec

(* A turn that is awaited was opened before the abort of the attempt and   *)
(* the exit of Pi, so either of them still ends it: the adapter waits for  *)
(* no turn that nothing can settle (beginTurn and failTurn).               *)
THEOREM AwaitedTurnsCanEnd == PiSpec => []NoTurnWaitsInVain
<1>1. PiInv => NoTurnWaitsInVain
  BY DEF PiInv
<1> QED BY <1>1, PiInvHolds, PTL

(* Live controls never decide the run: a receipt says accepted only of a   *)
(* control Pi accepted, a run refused was refused a command of its own,    *)
(* and no caller waits for an answer once the adapter leaves.              *)
THEOREM ControlsNeverDecide == PiSpec => []ControlsStayAdvisory
<1>1. PiInv => ControlsStayAdvisory
  BY DEF PiInv
<1> QED BY <1>1, PiInvHolds, PTL

-----------------------------------------------------------------------------
(* The files.  The artifact of the present attempt goes through states     *)
(* that the properties do not name: captured and not yet announced, taken  *)
(* off the record and not yet discarded.  The inductive invariant says for *)
(* each phase which of the sets may hold the present attempt; of the       *)
(* earlier ones the properties hold at every step.                         *)

Phases == {"creating", "working", "capturing", "recording", "discarding", "cleaning", "settling",
           "stopped", "over"}
Checks == {"idle", "inspected", "making", "applying", "running", "cleaning", "done"}
Reports == [status : {"none", "unavailable", "completed"},
            reason : {"none", "artifact-invalid", "validation-start-failed", "source-drift",
                      "parent-cancelled", "patch-apply-failed", "cleanup-failed", "output-limit",
                      "timed-out", "passed", "failed"},
            cleanup : {"none", "not-started", "not-confirmed", "cleaned", "failed"}]

WorkspaceTypeOK ==
    /\ source \in {0, 1}
    /\ snapshot \in {"none", "intact", "altered"}
    /\ attempt \in 1..Attempts
    /\ phase \in Phases
    /\ failure \in {"none", "worker", "final", "persistence"}
    /\ worktrees \in [1..Validation -> 0..Gone]
    /\ patches \in SUBSET (1..attempt)
    /\ listed \in SUBSET (1..attempt)
    /\ recorded \in SUBSET (1..attempt)
    /\ announced \in SUBSET (1..attempt)
    /\ status \in {"running", "succeeded", "failed"}
    /\ stray \in {"none", "queued", "failed"}
    /\ check \in Checks
    /\ base \in {0, 1}
    /\ report \in Reports

\* The record: what was announced is listed, and so stays in what is saved next.
RecordInv ==
    /\ announced \subseteq listed /\ announced \subseteq recorded
    /\ phase \in {"creating", "working", "capturing", "recording", "discarding"} => attempt \notin announced
    /\ phase = "recording" => attempt \in listed
    /\ phase \in {"cleaning", "settling"} /\ failure = "none" => attempt \in announced
    /\ status = "succeeded" => attempt \in announced
    /\ status # "running" <=> phase = "over"
    /\ stray = "failed" => "stray" \in troubles

\* The patch files: only the present attempt's may lack its announcement.
PatchInv ==
    /\ Untroubled({"tampering"}) =>
         announced \subseteq patches /\ (phase = "recording" => attempt \in patches)
    /\ Untroubled({"crash", "discard", "stray"}) =>
         \A n \in patches : n \in announced \/ (n = attempt /\ phase \in {"recording", "discarding"})

\* The worktrees: all are made from the admitted input, and only the present attempt's is there.
WorktreeInv ==
    /\ input = 0
    /\ \A n \in 1..Attempts : worktrees[n] \in {0, Gone}
    /\ Untroubled({"crash", "create", "cleanup"}) =>
         \A n \in 1..Attempts :
            worktrees[n] = Gone \/ (n = attempt /\ phase \in {"working", "capturing", "recording",
                                                             "discarding", "cleaning"})

\* The validation: its worktree and its outcome at every step of it.
CheckInv ==
    /\ check \in {"idle", "inspected", "making"} => worktrees[Validation] = Gone /\ report = NoReport
    /\ check \in {"making", "applying", "running", "cleaning"} => base = 0
    /\ check = "cleaning" /\ report.status = "completed" => "cancelled" \notin limits
    /\ ValidationReportsTruly

WorkspaceInv == WorkspaceTypeOK /\ RecordInv /\ PatchInv /\ WorktreeInv /\ CheckInv

-----------------------------------------------------------------------------
(* One step per action.                                                    *)

LEMMA SourceDriftsKeeps == WorkspaceInv /\ SourceDrifts => WorkspaceInv'
<1> SUFFICES ASSUME WorkspaceInv, SourceDrifts PROVE WorkspaceInv'
  OBVIOUS
<1> USE WorkspaceAssumption DEF WorkspaceInv
<1>1. WorkspaceTypeOK'
  BY DEF WorkspaceTypeOK, SourceDrifts, recordVars, attemptVars, checkVars
<1>2. RecordInv'
  BY DEF RecordInv, WorkspaceTypeOK, SourceDrifts, recordVars, attemptVars, checkVars
<1>3. PatchInv'
  BY DEF PatchInv, RecordInv, WorkspaceTypeOK, Untroubled, SourceDrifts, recordVars,
         attemptVars, checkVars
<1>4. WorktreeInv'
  BY DEF WorktreeInv, WorkspaceTypeOK, Untroubled, SourceDrifts, recordVars, attemptVars,
         checkVars
<1>5. CheckInv'
  BY DEF CheckInv, ValidationReportsTruly, WorkspaceTypeOK, SourceDrifts, recordVars,
         attemptVars, checkVars
<1> QED BY <1>1, <1>2, <1>3, <1>4, <1>5

LEMMA SnapshotAlteredKeeps == WorkspaceInv /\ SnapshotAltered => WorkspaceInv'
<1> SUFFICES ASSUME WorkspaceInv, SnapshotAltered PROVE WorkspaceInv'
  OBVIOUS
<1> USE WorkspaceAssumption DEF WorkspaceInv
<1>1. WorkspaceTypeOK'
  BY DEF WorkspaceTypeOK, SnapshotAltered, Trouble, recordVars, attemptVars, checkVars
<1>2. RecordInv'
  BY DEF RecordInv, WorkspaceTypeOK, SnapshotAltered, Trouble, recordVars, attemptVars,
         checkVars
<1>3. PatchInv'
  BY DEF PatchInv, RecordInv, WorkspaceTypeOK, Untroubled, SnapshotAltered, Trouble,
         recordVars, attemptVars, checkVars
<1>4. WorktreeInv'
  BY DEF WorktreeInv, WorkspaceTypeOK, Untroubled, SnapshotAltered, Trouble, recordVars,
         attemptVars, checkVars
<1>5. CheckInv'
  BY DEF CheckInv, ValidationReportsTruly, WorkspaceTypeOK, SnapshotAltered, Trouble,
         recordVars, attemptVars, checkVars
<1> QED BY <1>1, <1>2, <1>3, <1>4, <1>5

LEMMA PatchLostKeeps == WorkspaceInv /\ PatchLost => WorkspaceInv'
<1> SUFFICES ASSUME WorkspaceInv, PatchLost PROVE WorkspaceInv'
  OBVIOUS
<1> USE WorkspaceAssumption DEF WorkspaceInv
<1>1. WorkspaceTypeOK'
  BY DEF WorkspaceTypeOK, PatchLost, Trouble, recordVars, attemptVars, checkVars
<1>2. RecordInv'
  BY DEF RecordInv, WorkspaceTypeOK, PatchLost, Trouble, recordVars, attemptVars, checkVars
<1>3. PatchInv'
  BY DEF PatchInv, RecordInv, WorkspaceTypeOK, Untroubled, PatchLost, Trouble, recordVars,
         attemptVars, checkVars
<1>4. WorktreeInv'
  BY DEF WorktreeInv, WorkspaceTypeOK, Untroubled, PatchLost, Trouble, recordVars,
         attemptVars, checkVars
<1>5. CheckInv'
  BY DEF CheckInv, ValidationReportsTruly, WorkspaceTypeOK, PatchLost, Trouble, recordVars,
         attemptVars, checkVars
<1> QED BY <1>1, <1>2, <1>3, <1>4, <1>5

LEMMA CreateKeeps == WorkspaceInv /\ Create => WorkspaceInv'
<1> SUFFICES ASSUME WorkspaceInv, Create PROVE WorkspaceInv'
  OBVIOUS
<1> USE WorkspaceAssumption DEF WorkspaceInv
<1>1. WorkspaceTypeOK'
  <2>1. attempt \in 1..Validation /\ input \in 0..Gone
    BY DEF WorkspaceTypeOK, WorktreeInv, Validation, Gone
  <2>2. [worktrees EXCEPT ![attempt] = input] \in [1..Validation -> 0..Gone]
    BY <2>1 DEF WorkspaceTypeOK
  <2> QED BY <2>2 DEF WorkspaceTypeOK, Phases, Create, At, recordVars, checkVars
<1>2. RecordInv'
  BY DEF RecordInv, WorkspaceTypeOK, Create, At, recordVars, checkVars
<1>3. PatchInv'
  BY DEF PatchInv, RecordInv, WorkspaceTypeOK, Untroubled, Create, At, recordVars, checkVars
<1>4. WorktreeInv'
  BY DEF WorktreeInv, WorkspaceTypeOK, Validation, Gone, Untroubled, Create, At, recordVars,
         checkVars
<1>5. CheckInv'
  BY DEF CheckInv, ValidationReportsTruly, WorkspaceTypeOK, Validation, Gone, Create, At,
         recordVars, checkVars
<1> QED BY <1>1, <1>2, <1>3, <1>4, <1>5

LEMMA CreateFailsKeeps == WorkspaceInv /\ CreateFails => WorkspaceInv'
<1> SUFFICES ASSUME WorkspaceInv, CreateFails PROVE WorkspaceInv'
  OBVIOUS
<1> USE WorkspaceAssumption DEF WorkspaceInv
<1>1. WorkspaceTypeOK'
  <2>1. attempt \in 1..Validation /\ input \in 0..Gone /\ Gone \in 0..Gone
    BY DEF WorkspaceTypeOK, WorktreeInv, Validation, Gone
  <2>2. \A tree \in {Gone, input} : [worktrees EXCEPT ![attempt] = tree] \in [1..Validation -> 0..Gone]
    BY <2>1 DEF WorkspaceTypeOK
  <2>3. worktrees' \in [1..Validation -> 0..Gone]
    BY <2>2 DEF CreateFails
  <2> QED BY <2>3 DEF WorkspaceTypeOK, Phases, CreateFails, At, recordVars, checkVars
<1>2. RecordInv'
  BY DEF RecordInv, WorkspaceTypeOK, CreateFails, At, Trouble, recordVars, checkVars
<1>3. PatchInv'
  BY DEF PatchInv, RecordInv, WorkspaceTypeOK, Untroubled, CreateFails, At, Trouble,
         recordVars, checkVars
<1>4. WorktreeInv'
  BY DEF WorktreeInv, WorkspaceTypeOK, Validation, Gone, Untroubled, CreateFails, At,
         Trouble, recordVars, checkVars
<1>5. CheckInv'
  BY DEF CheckInv, ValidationReportsTruly, WorkspaceTypeOK, Validation, Gone, CreateFails,
         At, Trouble, recordVars, checkVars
<1> QED BY <1>1, <1>2, <1>3, <1>4, <1>5

LEMMA WorkerReturnsKeeps == WorkspaceInv /\ WorkerReturns => WorkspaceInv'
<1> SUFFICES ASSUME WorkspaceInv, WorkerReturns PROVE WorkspaceInv'
  OBVIOUS
<1> USE WorkspaceAssumption DEF WorkspaceInv
<1>1. WorkspaceTypeOK'
  BY DEF WorkspaceTypeOK, Phases, WorkerReturns, At, checkVars
<1>2. RecordInv'
  BY DEF RecordInv, WorkspaceTypeOK, WorkerReturns, At, checkVars
<1>3. PatchInv'
  BY DEF PatchInv, RecordInv, WorkspaceTypeOK, Untroubled, WorkerReturns, At, checkVars
<1>4. WorktreeInv'
  BY DEF WorktreeInv, WorkspaceTypeOK, Untroubled, WorkerReturns, At, checkVars
<1>5. CheckInv'
  BY DEF CheckInv, ValidationReportsTruly, WorkspaceTypeOK, WorkerReturns, At, checkVars
<1> QED BY <1>1, <1>2, <1>3, <1>4, <1>5

LEMMA CaptureKeeps == WorkspaceInv /\ Capture => WorkspaceInv'
<1> SUFFICES ASSUME WorkspaceInv, Capture PROVE WorkspaceInv'
  OBVIOUS
<1> USE WorkspaceAssumption DEF WorkspaceInv
<1>1. WorkspaceTypeOK'
  BY DEF WorkspaceTypeOK, Phases, Capture, At, checkVars
<1>2. RecordInv'
  BY DEF RecordInv, WorkspaceTypeOK, Capture, At, checkVars
<1>3. PatchInv'
  BY DEF PatchInv, RecordInv, WorkspaceTypeOK, Untroubled, Capture, At, checkVars
<1>4. WorktreeInv'
  BY DEF WorktreeInv, WorkspaceTypeOK, Untroubled, Capture, At, checkVars
<1>5. CheckInv'
  BY DEF CheckInv, ValidationReportsTruly, WorkspaceTypeOK, Capture, At, checkVars
<1> QED BY <1>1, <1>2, <1>3, <1>4, <1>5

LEMMA CaptureFailsKeeps == WorkspaceInv /\ CaptureFails => WorkspaceInv'
<1> SUFFICES ASSUME WorkspaceInv, CaptureFails PROVE WorkspaceInv'
  OBVIOUS
<1> USE WorkspaceAssumption DEF WorkspaceInv
<1>1. WorkspaceTypeOK'
  BY DEF WorkspaceTypeOK, Phases, CaptureFails, At, FailWith, Trouble, recordVars, checkVars
<1>2. RecordInv'
  BY DEF RecordInv, WorkspaceTypeOK, CaptureFails, At, FailWith, Trouble, recordVars,
         checkVars
<1>3. PatchInv'
  BY DEF PatchInv, RecordInv, WorkspaceTypeOK, Untroubled, CaptureFails, At, FailWith,
         Trouble, recordVars, checkVars
<1>4. WorktreeInv'
  BY DEF WorktreeInv, WorkspaceTypeOK, Untroubled, CaptureFails, At, FailWith, Trouble,
         recordVars, checkVars
<1>5. CheckInv'
  BY DEF CheckInv, ValidationReportsTruly, WorkspaceTypeOK, CaptureFails, At, FailWith,
         Trouble, recordVars, checkVars
<1> QED BY <1>1, <1>2, <1>3, <1>4, <1>5

LEMMA StrayEndsKeeps == WorkspaceInv /\ StrayEnds => WorkspaceInv'
<1> SUFFICES ASSUME WorkspaceInv, StrayEnds PROVE WorkspaceInv'
  OBVIOUS
<1> USE WorkspaceAssumption DEF WorkspaceInv
<1>1. WorkspaceTypeOK'
  BY DEF WorkspaceTypeOK, StrayEnds, Trouble, attemptVars, checkVars
<1>2. RecordInv'
  BY DEF RecordInv, WorkspaceTypeOK, StrayEnds, Trouble, attemptVars, checkVars
<1>3. PatchInv'
  BY DEF PatchInv, RecordInv, WorkspaceTypeOK, Untroubled, StrayEnds, Trouble, attemptVars,
         checkVars
<1>4. WorktreeInv'
  BY DEF WorktreeInv, WorkspaceTypeOK, Untroubled, StrayEnds, Trouble, attemptVars,
         checkVars
<1>5. CheckInv'
  BY DEF CheckInv, ValidationReportsTruly, WorkspaceTypeOK, StrayEnds, Trouble, attemptVars,
         checkVars
<1> QED BY <1>1, <1>2, <1>3, <1>4, <1>5

LEMMA RecordKeeps == WorkspaceInv /\ Record => WorkspaceInv'
<1> SUFFICES ASSUME WorkspaceInv, Record PROVE WorkspaceInv'
  OBVIOUS
<1> USE WorkspaceAssumption DEF WorkspaceInv
<1>1. WorkspaceTypeOK'
  <2> attempt \in 1..attempt
    BY DEF WorkspaceTypeOK
  <2>1. /\ listed' \in SUBSET (1..attempt) /\ recorded' \in SUBSET (1..attempt)
        /\ announced' \in SUBSET (1..attempt)
        /\ failure' \in {"none", "worker", "final", "persistence"} /\ stray' \in {"none", "queued", "failed"}
    <3>1. CASE Recorded
      BY <3>1 DEF WorkspaceTypeOK, Recorded, FailWith
    <3>2. CASE NotRecorded
      BY <3>2 DEF WorkspaceTypeOK, NotRecorded
    <3>3. CASE RejectedWithStray
      BY <3>3 DEF WorkspaceTypeOK, RejectedWithStray, FailWith
    <3> QED BY <3>1, <3>2, <3>3 DEF Record
  <2>2. phase' \in {"cleaning", "discarding"}
    BY DEF Record
  <2>3. UNCHANGED <<source, snapshot, attempt, worktrees, patches, status, check, base, report>>
    BY DEF Record, checkVars
  <2> QED BY <2>1, <2>2, <2>3 DEF WorkspaceTypeOK, Phases
<1>2. RecordInv'
  BY DEF RecordInv, WorkspaceTypeOK, Record, At, checkVars, Recorded, NotRecorded,
         RejectedWithStray, FailWith, Trouble
<1>3. PatchInv'
  BY DEF PatchInv, RecordInv, WorkspaceTypeOK, Untroubled, Record, At, checkVars, Recorded,
         NotRecorded, RejectedWithStray, FailWith, Trouble
<1>4. WorktreeInv'
  BY DEF WorktreeInv, WorkspaceTypeOK, Untroubled, Record, At, checkVars, Recorded,
         NotRecorded, RejectedWithStray, FailWith, Trouble
<1>5. CheckInv'
  BY DEF CheckInv, ValidationReportsTruly, WorkspaceTypeOK, Record, At, checkVars, Recorded,
         NotRecorded, RejectedWithStray, FailWith, Trouble
<1> QED BY <1>1, <1>2, <1>3, <1>4, <1>5

LEMMA DiscardKeeps == WorkspaceInv /\ Discard => WorkspaceInv'
<1> SUFFICES ASSUME WorkspaceInv, Discard PROVE WorkspaceInv'
  OBVIOUS
<1> USE WorkspaceAssumption DEF WorkspaceInv
<1>1. WorkspaceTypeOK'
  <2>1. patches' \in SUBSET (1..attempt) /\ failure' \in {"none", "worker", "final", "persistence"}
    BY DEF WorkspaceTypeOK, Discard, FailWith
  <2>2. /\ phase' \in Phases
        /\ UNCHANGED <<source, snapshot, input, attempt, worktrees, status, listed, recorded,
                       announced, stray, base, check, report>>
    BY DEF Phases, Discard, recordVars, checkVars
  <2> QED BY <2>1, <2>2 DEF WorkspaceTypeOK
<1>2. RecordInv'
  BY DEF RecordInv, WorkspaceTypeOK, Discard, At, FailWith, Trouble, recordVars, checkVars
<1>3. PatchInv'
  BY DEF PatchInv, RecordInv, WorkspaceTypeOK, Untroubled, Discard, At, FailWith, Trouble,
         recordVars, checkVars
<1>4. WorktreeInv'
  BY DEF WorktreeInv, WorkspaceTypeOK, Untroubled, Discard, At, FailWith, Trouble,
         recordVars, checkVars
<1>5. CheckInv'
  BY DEF CheckInv, ValidationReportsTruly, WorkspaceTypeOK, Discard, At, FailWith, Trouble,
         recordVars, checkVars
<1> QED BY <1>1, <1>2, <1>3, <1>4, <1>5

LEMMA CleanUpKeeps == WorkspaceInv /\ CleanUp => WorkspaceInv'
<1> SUFFICES ASSUME WorkspaceInv, CleanUp PROVE WorkspaceInv'
  OBVIOUS
<1> USE WorkspaceAssumption DEF WorkspaceInv
<1>1. WorkspaceTypeOK'
  BY DEF WorkspaceTypeOK, Phases, Validation, Gone, CleanUp, At, FailWith, Trouble,
         recordVars, checkVars
<1>2. RecordInv'
  BY DEF RecordInv, WorkspaceTypeOK, CleanUp, At, FailWith, Trouble, recordVars, checkVars
<1>3. PatchInv'
  BY DEF PatchInv, RecordInv, WorkspaceTypeOK, Untroubled, CleanUp, At, FailWith, Trouble,
         recordVars, checkVars
<1>4. WorktreeInv'
  BY DEF WorktreeInv, WorkspaceTypeOK, Validation, Gone, Untroubled, CleanUp, At, FailWith,
         Trouble, recordVars, checkVars
<1>5. CheckInv'
  BY DEF CheckInv, ValidationReportsTruly, WorkspaceTypeOK, Validation, Gone, CleanUp, At,
         FailWith, Trouble, recordVars, checkVars
<1> QED BY <1>1, <1>2, <1>3, <1>4, <1>5

LEMMA SettleJobKeeps == WorkspaceInv /\ SettleJob => WorkspaceInv'
<1> SUFFICES ASSUME WorkspaceInv, SettleJob PROVE WorkspaceInv'
  OBVIOUS
<1> USE WorkspaceAssumption DEF WorkspaceInv
<1>1. WorkspaceTypeOK'
  <2>1. /\ attempt' \in 1..Attempts /\ attempt <= attempt'
        /\ failure' \in {"none", "worker", "final", "persistence"}
        /\ status' \in {"running", "succeeded", "failed"}
    BY DEF WorkspaceTypeOK, SettleJob
  <2>2. 1..attempt \subseteq 1..attempt'
    BY <2>1 DEF WorkspaceTypeOK
  <2>3. recorded' \in {recorded, listed} /\ stray' = "none" /\ phase' \in {"creating", "over", "stopped"}
    BY DEF SettleJob
  <2>4. UNCHANGED <<source, snapshot, worktrees, patches, listed, announced, check, base, report>>
    BY DEF SettleJob, checkVars
  <2> QED BY <2>1, <2>2, <2>3, <2>4 DEF WorkspaceTypeOK, Phases
<1>2. RecordInv'
  BY DEF RecordInv, WorkspaceTypeOK, SettleJob, At, Trouble, checkVars
<1>3. PatchInv'
  BY DEF PatchInv, RecordInv, WorkspaceTypeOK, Untroubled, SettleJob, At, Trouble, checkVars
<1>4. WorktreeInv'
  BY DEF WorktreeInv, WorkspaceTypeOK, Untroubled, SettleJob, At, Trouble, checkVars
<1>5. CheckInv'
  BY DEF CheckInv, ValidationReportsTruly, WorkspaceTypeOK, SettleJob, At, Trouble,
         checkVars
<1> QED BY <1>1, <1>2, <1>3, <1>4, <1>5

LEMMA ProcessEndsKeeps == WorkspaceInv /\ ProcessEnds => WorkspaceInv'
<1> SUFFICES ASSUME WorkspaceInv, ProcessEnds PROVE WorkspaceInv'
  OBVIOUS
<1> USE WorkspaceAssumption DEF WorkspaceInv
<1>1. WorkspaceTypeOK'
  BY DEF WorkspaceTypeOK, Phases, ProcessEnds, Trouble, checkVars
<1>2. RecordInv'
  BY DEF RecordInv, WorkspaceTypeOK, ProcessEnds, Trouble, checkVars
<1>3. PatchInv'
  BY DEF PatchInv, RecordInv, WorkspaceTypeOK, Untroubled, ProcessEnds, Trouble, checkVars
<1>4. WorktreeInv'
  BY DEF WorktreeInv, WorkspaceTypeOK, Untroubled, ProcessEnds, Trouble, checkVars
<1>5. CheckInv'
  BY DEF CheckInv, ValidationReportsTruly, WorkspaceTypeOK, ProcessEnds, Trouble, checkVars
<1> QED BY <1>1, <1>2, <1>3, <1>4, <1>5

LEMMA RecoverAttemptKeeps == WorkspaceInv /\ RecoverAttempt => WorkspaceInv'
<1> SUFFICES ASSUME WorkspaceInv, RecoverAttempt PROVE WorkspaceInv'
  OBVIOUS
<1> USE WorkspaceAssumption DEF WorkspaceInv
<1>1. WorkspaceTypeOK'
  BY DEF WorkspaceTypeOK, Phases, RecoverAttempt, At, checkVars, RestoredTree, Restorable
<1>2. RecordInv'
  BY DEF RecordInv, WorkspaceTypeOK, RecoverAttempt, At, checkVars, RestoredTree, Restorable
<1>3. PatchInv'
  BY DEF PatchInv, RecordInv, WorkspaceTypeOK, Untroubled, RecoverAttempt, At, checkVars,
         RestoredTree, Restorable
<1>4. WorktreeInv'
  BY DEF WorktreeInv, WorkspaceTypeOK, Untroubled, RecoverAttempt, At, checkVars,
         RestoredTree, Restorable
<1>5. CheckInv'
  BY DEF CheckInv, ValidationReportsTruly, WorkspaceTypeOK, RecoverAttempt, At, checkVars,
         RestoredTree, Restorable
<1> QED BY <1>1, <1>2, <1>3, <1>4, <1>5

LEMMA InspectSourceKeeps == WorkspaceInv /\ InspectSource => WorkspaceInv'
<1> SUFFICES ASSUME WorkspaceInv, InspectSource PROVE WorkspaceInv'
  OBVIOUS
<1> USE WorkspaceAssumption DEF WorkspaceInv
<1>1. WorkspaceTypeOK'
  BY DEF WorkspaceTypeOK, Checks, Reports, InspectSource, Trouble, recordVars, attemptVars,
         Unavailable
<1>2. RecordInv'
  BY DEF RecordInv, InspectSource, Trouble, recordVars, attemptVars, Unavailable
<1>3. PatchInv'
  BY DEF PatchInv, Untroubled, InspectSource, Trouble, recordVars, attemptVars, Unavailable
<1>4. WorktreeInv'
  BY DEF WorktreeInv, WorkspaceTypeOK, Untroubled, InspectSource, Trouble, recordVars,
         attemptVars, Unavailable
<1>5. CheckInv'
  BY DEF CheckInv, ValidationReportsTruly, WorkspaceTypeOK, NoReport, InspectSource,
         Trouble, recordVars, attemptVars, Unavailable
<1> QED BY <1>1, <1>2, <1>3, <1>4, <1>5

LEMMA InspectArtifactKeeps == WorkspaceInv /\ InspectArtifact => WorkspaceInv'
<1> SUFFICES ASSUME WorkspaceInv, InspectArtifact PROVE WorkspaceInv'
  OBVIOUS
<1> USE WorkspaceAssumption DEF WorkspaceInv
<1>1. WorkspaceTypeOK'
  BY DEF WorkspaceTypeOK, Checks, Reports, InspectArtifact, recordVars, attemptVars,
         Unavailable
<1>2. RecordInv'
  BY DEF RecordInv, InspectArtifact, recordVars, attemptVars, Unavailable
<1>3. PatchInv'
  BY DEF PatchInv, Untroubled, InspectArtifact, recordVars, attemptVars, Unavailable
<1>4. WorktreeInv'
  BY DEF WorktreeInv, WorkspaceTypeOK, Untroubled, InspectArtifact, recordVars, attemptVars,
         Unavailable
<1>5. CheckInv'
  BY DEF CheckInv, ValidationReportsTruly, WorkspaceTypeOK, NoReport, InspectArtifact,
         recordVars, attemptVars, Unavailable
<1> QED BY <1>1, <1>2, <1>3, <1>4, <1>5

LEMMA MakeWorktreeKeeps == WorkspaceInv /\ MakeWorktree => WorkspaceInv'
<1> SUFFICES ASSUME WorkspaceInv, MakeWorktree PROVE WorkspaceInv'
  OBVIOUS
<1> USE WorkspaceAssumption DEF WorkspaceInv
<1>1. WorkspaceTypeOK'
  BY SMTT(30) DEF WorkspaceTypeOK, Checks, Reports, Validation, Gone, MakeWorktree, Trouble,
         recordVars, attemptVars, Unavailable
<1>2. RecordInv'
  BY DEF RecordInv, MakeWorktree, Trouble, recordVars, attemptVars, Unavailable
<1>3. PatchInv'
  BY DEF PatchInv, Untroubled, MakeWorktree, Trouble, recordVars, attemptVars, Unavailable
<1>4. WorktreeInv'
  BY DEF WorktreeInv, WorkspaceTypeOK, Validation, Gone, Untroubled, MakeWorktree, Trouble,
         recordVars, attemptVars, Unavailable
<1>5. CheckInv'
  BY DEF CheckInv, ValidationReportsTruly, WorkspaceTypeOK, NoReport, Validation, Gone,
         MakeWorktree, Trouble, recordVars, attemptVars, Unavailable
<1> QED BY <1>1, <1>2, <1>3, <1>4, <1>5

LEMMA ApplyPatchKeeps == WorkspaceInv /\ ApplyPatch => WorkspaceInv'
<1> SUFFICES ASSUME WorkspaceInv, ApplyPatch PROVE WorkspaceInv'
  OBVIOUS
<1> USE WorkspaceAssumption DEF WorkspaceInv
<1>1. WorkspaceTypeOK'
  BY DEF WorkspaceTypeOK, Checks, Reports, ApplyPatch, Trouble, recordVars, attemptVars,
         Unavailable
<1>2. RecordInv'
  BY DEF RecordInv, ApplyPatch, Trouble, recordVars, attemptVars, Unavailable
<1>3. PatchInv'
  BY DEF PatchInv, Untroubled, ApplyPatch, Trouble, recordVars, attemptVars, Unavailable
<1>4. WorktreeInv'
  BY DEF WorktreeInv, WorkspaceTypeOK, Untroubled, ApplyPatch, Trouble, recordVars,
         attemptVars, Unavailable
<1>5. CheckInv'
  BY DEF CheckInv, ValidationReportsTruly, WorkspaceTypeOK, NoReport, ApplyPatch, Trouble,
         recordVars, attemptVars, Unavailable
<1> QED BY <1>1, <1>2, <1>3, <1>4, <1>5

LEMMA CommandClosesKeeps == WorkspaceInv /\ CommandCloses => WorkspaceInv'
<1> SUFFICES ASSUME WorkspaceInv, CommandCloses PROVE WorkspaceInv'
  OBVIOUS
<1> USE WorkspaceAssumption DEF WorkspaceInv
<1>1. WorkspaceTypeOK'
  BY DEF WorkspaceTypeOK, Checks, Reports, CommandCloses, Trouble, recordVars, attemptVars,
         Unavailable, CommandOutcome
<1>2. RecordInv'
  BY DEF RecordInv, CommandCloses, Trouble, recordVars, attemptVars, Unavailable,
         CommandOutcome
<1>3. PatchInv'
  BY DEF PatchInv, Untroubled, CommandCloses, Trouble, recordVars, attemptVars, Unavailable,
         CommandOutcome
<1>4. WorktreeInv'
  BY DEF WorktreeInv, WorkspaceTypeOK, Untroubled, CommandCloses, Trouble, recordVars,
         attemptVars, Unavailable, CommandOutcome
<1>5. CheckInv'
  BY DEF CheckInv, ValidationReportsTruly, WorkspaceTypeOK, NoReport, CommandCloses,
         Trouble, recordVars, attemptVars, Unavailable, CommandOutcome
<1> QED BY <1>1, <1>2, <1>3, <1>4, <1>5

LEMMA CleanUpValidationKeeps == WorkspaceInv /\ CleanUpValidation => WorkspaceInv'
<1> SUFFICES ASSUME WorkspaceInv, CleanUpValidation PROVE WorkspaceInv'
  OBVIOUS
<1> USE WorkspaceAssumption DEF WorkspaceInv
<1>1. WorkspaceTypeOK'
  BY SMTT(30) DEF WorkspaceTypeOK, Checks, Reports, Validation, Gone, CleanUpValidation, Trouble,
         recordVars, attemptVars, Unavailable
<1>2. RecordInv'
  BY DEF RecordInv, CleanUpValidation, Trouble, recordVars, attemptVars, Unavailable
<1>3. PatchInv'
  BY DEF PatchInv, Untroubled, CleanUpValidation, Trouble, recordVars, attemptVars,
         Unavailable
<1>4. WorktreeInv'
  BY DEF WorktreeInv, WorkspaceTypeOK, Validation, Gone, Untroubled, CleanUpValidation,
         Trouble, recordVars, attemptVars, Unavailable
<1>5. CheckInv'
  BY DEF CheckInv, ValidationReportsTruly, WorkspaceTypeOK, NoReport, Validation, Gone,
         CleanUpValidation, Trouble, recordVars, attemptVars, Unavailable
<1> QED BY <1>1, <1>2, <1>3, <1>4, <1>5

LEMMA LimitHitKeeps ==
    ASSUME WorkspaceInv, NEW limit, LimitHit(limit)
    PROVE  WorkspaceInv'
<1> USE DEF WorkspaceInv
<1>1. /\ UNCHANGED <<source, snapshot, input, attempt, phase, failure, worktrees, patches, listed>>
      /\ UNCHANGED <<recorded, announced, status, stray, check, base, report, troubles>>
  BY DEF LimitHit, attemptVars, recordVars
<1>2. check \in {"inspected", "making", "applying", "running"}
  BY DEF LimitHit
<1>3. WorkspaceTypeOK' /\ RecordInv'
  BY <1>1 DEF WorkspaceTypeOK, RecordInv
<1>4. PatchInv' /\ WorktreeInv'
  BY <1>1 DEF PatchInv, WorktreeInv, Untroubled
<1>5. CheckInv'
  BY <1>1, <1>2 DEF CheckInv, ValidationReportsTruly
<1> QED BY <1>3, <1>4, <1>5

-----------------------------------------------------------------------------
LEMMA WorkspaceInitInv == WorkspaceInit => WorkspaceInv
<1> SUFFICES ASSUME WorkspaceInit PROVE WorkspaceInv
  OBVIOUS
<1> USE WorkspaceAssumption DEF WorkspaceInit
<1>1. NoReport \in Reports
  BY DEF NoReport, Reports
<1>2. WorkspaceTypeOK
  BY <1>1 DEF WorkspaceTypeOK, Phases, Checks, Validation, Gone
<1>3. RecordInv /\ PatchInv
  BY DEF RecordInv, PatchInv
<1>4. WorktreeInv
  BY DEF WorktreeInv, Validation
<1>5. CheckInv
  BY DEF CheckInv, ValidationReportsTruly, Validation
<1> QED BY <1>2, <1>3, <1>4, <1>5 DEF WorkspaceInv

LEMMA WorkspaceStepInv == WorkspaceInv /\ [WorkspaceNext]_workspaceVars => WorkspaceInv'
<1> SUFFICES ASSUME WorkspaceInv, [WorkspaceNext]_workspaceVars PROVE WorkspaceInv'
  OBVIOUS
<1>1. CASE UNCHANGED workspaceVars
  <2>1. /\ UNCHANGED <<source, snapshot, input, attempt, phase, failure, worktrees, patches, listed>>
        /\ UNCHANGED <<recorded, announced, status, stray, check, base, limits, report, troubles>>
    BY <1>1 DEF workspaceVars, attemptVars, recordVars, checkVars
  <2>2. WorkspaceTypeOK' /\ RecordInv'
    BY <2>1 DEF WorkspaceInv, WorkspaceTypeOK, RecordInv
  <2>3. PatchInv' /\ WorktreeInv'
    BY <2>1 DEF WorkspaceInv, PatchInv, WorktreeInv, Untroubled
  <2>4. CheckInv'
    BY <2>1 DEF WorkspaceInv, CheckInv, ValidationReportsTruly
  <2> QED BY <2>2, <2>3, <2>4 DEF WorkspaceInv
<1>2. CASE SourceDrifts \/ SnapshotAltered \/ PatchLost
  BY <1>2, SourceDriftsKeeps, SnapshotAlteredKeeps, PatchLostKeeps
<1>3. CASE Create \/ CreateFails \/ WorkerReturns \/ Capture \/ CaptureFails \/ StrayEnds \/ Record
  BY <1>3, CreateKeeps, CreateFailsKeeps, WorkerReturnsKeeps, CaptureKeeps, CaptureFailsKeeps,
     StrayEndsKeeps, RecordKeeps
<1>4. CASE Discard \/ CleanUp \/ SettleJob \/ ProcessEnds \/ RecoverAttempt
  BY <1>4, DiscardKeeps, CleanUpKeeps, SettleJobKeeps, ProcessEndsKeeps, RecoverAttemptKeeps
<1>5. CASE \/ InspectSource \/ InspectArtifact \/ MakeWorktree \/ ApplyPatch
           \/ \E limit \in {"cancelled", "output-limit", "timed-out"} : LimitHit(limit)
           \/ CommandCloses \/ CleanUpValidation
  BY <1>5, InspectSourceKeeps, InspectArtifactKeeps, MakeWorktreeKeeps, ApplyPatchKeeps, LimitHitKeeps,
     CommandClosesKeeps, CleanUpValidationKeeps
<1> QED BY <1>1, <1>2, <1>3, <1>4, <1>5 DEF WorkspaceNext

LEMMA WorkspaceInvHolds == WorkspaceSpec => []WorkspaceInv
BY WorkspaceInitInv, WorkspaceStepInv, PTL DEF WorkspaceSpec

(* However attempts fail, are retried and recovered: every one works on    *)
(* the admitted input, what the record announces has its patch, success    *)
(* has an artifact, and an ended Job leaves no patch and no worktree that  *)
(* nothing accounts for (capturePatch, discardPatch, cleanup in #execute). *)
THEOREM ArtifactsAlwaysStand == WorkspaceSpec => []ArtifactsStand
<1>1. WorkspaceInv => ArtifactsStand
  <2> SUFFICES ASSUME WorkspaceInv PROVE ArtifactsStand
    OBVIOUS
  <2>1. \A n \in 1..Attempts : worktrees[n] \in {0, Gone}
    BY DEF WorkspaceInv, WorktreeInv
  <2>2. announced \subseteq recorded /\ (status = "succeeded" => attempt \in announced)
    BY DEF WorkspaceInv, RecordInv
  <2>3. /\ Untroubled({"tampering"}) => announced \subseteq patches
        /\ phase = "over" /\ Untroubled({"crash", "discard", "stray"}) => patches \subseteq announced
    BY DEF WorkspaceInv, PatchInv
  <2>4. phase = "over" /\ Untroubled({"crash", "create", "cleanup"}) =>
          \A n \in 1..Attempts : worktrees[n] = Gone
    BY DEF WorkspaceInv, WorktreeInv
  <2> QED BY <2>1, <2>2, <2>3, <2>4 DEF ArtifactsStand
<1> QED BY <1>1, WorkspaceInvHolds, PTL

(* A report never claims a clean-up that did not happen, and a command     *)
(* reported as completed ran uncancelled on the artifact's own base tree   *)
(* (validateArtifact).                                                     *)
THEOREM ReportsAreTrue == WorkspaceSpec => []ValidationReportsTruly
<1>1. WorkspaceInv => ValidationReportsTruly
  BY DEF WorkspaceInv, CheckInv
<1> QED BY <1>1, WorkspaceInvHolds, PTL
=============================================================================
