----------------------------- MODULE Observation -----------------------------
(***************************************************************************)
(* How a controller follows a record over HTTP: the handler of             *)
(* GET .../events?after=N in http-server.ts, the loops of http-client.ts   *)
(* and the bounded wait of mcp-server.ts.  Jobs and orchestrations are     *)
(* followed alike.                                                         *)
(*                                                                         *)
(* The handler reads the record and its events at different times, waits   *)
(* for a heartbeat at most, and knows the observer by its cursor only.     *)
(* Requests fail, answers break off, brokers stop and start, and the       *)
(* observer asks again, or gives up.  A handler whose observer is gone     *)
(* goes on for a while, but only reads.                                    *)
(***************************************************************************)
EXTENDS Naturals, Sequences

CONSTANTS
    Reconnects,   \* WAIT_RECONNECT_ATTEMPTS
    LastEvent,    \* bound: the sequence number of the terminal event
    MaxLosses     \* bound: requests that fail, answers that break off

ASSUME ObservationAssumption == {Reconnects, LastEvent} \subseteq Nat \ {0} /\ MaxLosses \in Nat

VARIABLES
    committed,    \* events of the record; the last one is the terminal one
    serving,      \* is a broker listening?
    observer,     \* the call of the controller
    request,      \* the request in flight, and what its handler has read
    given,        \* the events the controller was given or was told are behind it, in order
    silence,      \* requests that failed since the last answer
    losses

observationVars == <<committed, serving, observer, request, given, silence, losses>>

\* waitForJob from an admitted record, the wait of MCP, one batch at a time.
ObserverKinds == {"wait", "bounded", "follow"}

NoRequest == [step |-> "none", after |-> 0, seen |-> 0, upto |-> 0]

\* "begin": no call.  "resume": the wait of MCP reads the record first.
ObservationInit ==
    /\ committed = 1
    /\ serving = TRUE
    /\ observer \in [kind: ObserverKinds, step: {"begin"}, cursor: {0}, tries: {0}, result: {"none"}]
    /\ request = NoRequest
    /\ given = <<>>
    /\ silence = 0
    /\ losses = 0

Over == committed = LastEvent
Numbers(n) == [i \in 1..n |-> i]
Latest(a, b) == IF a > b THEN a ELSE b

-----------------------------------------------------------------------------
(* The broker.                                                             *)

EventCommitted ==
    /\ ~ Over
    /\ committed' = committed + 1
    /\ UNCHANGED <<serving, observer, request, given, silence, losses>>

BrokerDeparts ==
    /\ serving
    /\ losses < MaxLosses
    /\ serving' = FALSE
    /\ losses' = losses + 1
    /\ UNCHANGED <<committed, observer, request, given, silence>>

\* At the same address; it has the records, and nothing else, of the one before.
BrokerReturns ==
    /\ ~ serving
    /\ serving' = TRUE
    /\ UNCHANGED <<committed, observer, request, given, silence, losses>>

Handler(from) == serving /\ request.step = from

HandlerReads(step, field) ==
    /\ request' = [request EXCEPT ![field] = committed, !.step = step]
    /\ UNCHANGED <<committed, serving, observer, given, silence, losses>>

\* runtime.get; the wait of MCP asks for no more.
GetRecord == Handler("sent") /\ HandlerReads("events", "seen")
ShowRecord == Handler("show") /\ HandlerReads("shown", "seen")

\* eventsAfter: without an event after the cursor, the handler waits for the record.
ReadEvents ==
    /\ Handler("events")
    /\ HandlerReads(IF request.seen < LastEvent /\ committed <= request.after
                    THEN "waiting" ELSE "answered", "upto")

\* runtime.waitForJob: the terminal record, or the record after the heartbeat.
WaitForRecord == Handler("waiting") /\ HandlerReads("again", "seen")

RereadEvents == Handler("again") /\ HandlerReads("answered", "upto")

\* Bug: nextSequence is that of the record, read before the events (ObserversKeepUp).
AnswerOfRecord ==
    IF request.seen = LastEvent
    THEN [record |-> TRUE, upto |-> request.seen, next |-> Latest(request.seen, request.after)]
    ELSE [record |-> FALSE, upto |-> request.upto, next |-> Latest(request.seen, request.after)]

\* The record if it was terminal, or the events and nothing of the record.
Answer200 ==
    IF request.seen = LastEvent
    THEN [record |-> TRUE, upto |-> request.seen, next |-> Latest(request.seen, request.after)]
    ELSE [record |-> FALSE, upto |-> request.upto, next |-> Latest(request.upto, request.after)]

-----------------------------------------------------------------------------
(* The client.                                                             *)

Asks(step, after) == request' = [NoRequest EXCEPT !.step = step, !.after = after]

CallEnds(result) ==
    observer' = [observer EXCEPT !.step = IF observer.kind = "wait" \/ result = "record"
                                          THEN "done" ELSE "begin",
                                 !.result = result, !.tries = 0]

\* waitForJob or waitForOrchestration, with the record that start answered.
BeginWait ==
    /\ observer.kind = "wait" /\ observer.step = "begin"
    /\ given' = Numbers(committed)
    /\ IF Over THEN /\ CallEnds("record")
                    /\ UNCHANGED request
               ELSE /\ observer' = [observer EXCEPT !.step = "asking", !.cursor = committed]
                    /\ Asks("sent", committed)
    /\ UNCHANGED <<committed, serving, silence, losses>>

\* The tools of MCP, with the cursor the controller was given last.
BeginCall ==
    /\ observer.kind # "wait" /\ observer.step = "begin"
    /\ observer' = [observer EXCEPT !.step = IF observer.kind = "bounded" THEN "resume" ELSE "asking",
                                    !.result = "none"]
    /\ Asks(IF observer.kind = "bounded" THEN "show" ELSE "sent", observer.cursor)
    /\ silence' = 0
    /\ UNCHANGED <<committed, serving, given, losses>>

\* The record as it is now: terminal, or the wait goes on from the controller's cursor.
Resume ==
    /\ observer.step = "resume" /\ request.step = "shown"
    /\ IF request.seen = LastEvent
       THEN /\ CallEnds("record")
            /\ given' = Numbers(request.seen)
            /\ request' = NoRequest
       ELSE /\ observer' = [observer EXCEPT !.step = "asking"]
            /\ Asks("sent", observer.cursor)
            /\ UNCHANGED given
    /\ silence' = 0
    /\ UNCHANGED <<committed, serving, losses>>

\* #followRecord: an answer whose cursor is not that of its events is refused.
TakeAnswer ==
    /\ observer.step = "asking" /\ request.step = "answered"
    /\ LET last == Latest(Answer200.upto, request.after)
       IN IF Answer200.next # last
          THEN CallEnds("refused") /\ request' = NoRequest /\ UNCHANGED given
          ELSE /\ given' = given \o [i \in 1..(last - request.after) |-> request.after + i]
               /\ IF Answer200.record
                  THEN /\ observer' = [observer EXCEPT !.step = "done", !.cursor = last,
                                                       !.result = "record"]
                       /\ request' = NoRequest
                  ELSE IF observer.kind = "follow"
                  THEN /\ observer' = [observer EXCEPT !.step = "begin", !.cursor = last]
                       /\ request' = NoRequest
                  ELSE /\ observer' = [observer EXCEPT !.cursor = last, !.tries = 0]
                       /\ Asks("sent", last)
    /\ silence' = 0
    /\ UNCHANGED <<committed, serving, losses>>

\* fetch fails: no broker listens, the connection is lost, or the answer takes too long.
\* A wait asks again after a pause, a few times in a row; other calls fail.
RequestLost ==
    /\ request.step # "none"
    /\ \/ ~ serving /\ UNCHANGED losses
       \/ losses < MaxLosses /\ losses' = losses + 1
    /\ request' = NoRequest
    /\ silence' = silence + 1
    /\ IF observer.step = "resume" \/ observer.kind = "follow"
       THEN CallEnds("failed")
       ELSE IF observer.tries + 1 >= Reconnects
       THEN CallEnds("lost")
       ELSE observer' = [observer EXCEPT !.step = "pause", !.tries = @ + 1]
    /\ UNCHANGED <<committed, serving, given>>

AskAgain ==
    /\ observer.step = "pause"
    /\ observer' = [observer EXCEPT !.step = "asking"]
    /\ Asks("sent", observer.cursor)
    /\ UNCHANGED <<committed, serving, given, silence, losses>>

\* The answer breaks off or is an error of the handler: not a failure to reach the broker.
AnswerBroken ==
    /\ request.step \in {"shown", "answered"}
    /\ losses < MaxLosses
    /\ losses' = losses + 1
    /\ request' = NoRequest
    /\ CallEnds("failed")
    /\ UNCHANGED <<committed, serving, given, silence>>

\* The deadline of a bounded wait: the controller is told the cursor.  While the record is
\* read at the beginning, it is an error.
DeadlinePasses ==
    /\ observer.kind = "bounded" /\ observer.step \in {"resume", "asking", "pause"}
    /\ CallEnds(IF observer.step = "resume" THEN "failed" ELSE "active")
    /\ request' = NoRequest
    /\ UNCHANGED <<committed, serving, given, silence, losses>>

-----------------------------------------------------------------------------
ObservationNext ==
    \/ EventCommitted \/ BrokerDeparts \/ BrokerReturns
    \/ GetRecord \/ ShowRecord \/ ReadEvents \/ WaitForRecord \/ RereadEvents
    \/ BeginWait \/ BeginCall \/ Resume \/ TakeAnswer \/ RequestLost \/ AskAgain \/ AnswerBroken
    \/ DeadlinePasses

ObservationSpec == ObservationInit /\ [][ObservationNext]_observationVars

-----------------------------------------------------------------------------
\* Over races of the reads with commits, lost requests and brokers that come and go, a
\* controller is given every event once and in order, up to its cursor; it is never told an
\* answer was inconsistent; what it gets at the end is the terminal record with all events;
\* and a wait gives up only when that many requests failed one after the other.
ObserversKeepUp ==
    /\ given = Numbers(IF observer.result = "record" THEN LastEvent ELSE observer.cursor)
    /\ observer.cursor <= committed
    /\ observer.result # "refused"
    /\ observer.result = "record" => Over
    /\ observer.result = "lost" => silence >= Reconnects
=============================================================================
