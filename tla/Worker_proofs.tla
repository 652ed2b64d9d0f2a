---------------------------- MODULE Worker_proofs ----------------------------
(***************************************************************************)
(* Around a worker: what a controller is given of a record it follows, for *)
(* any number of events, retries and losses, and the live controls of a    *)
(* Job, for any controls, attempts and faults.                             *)
(***************************************************************************)
EXTENDS WorkerControl, Observation, FiniteSetTheorems, SequenceTheorems, TLAPS

-----------------------------------------------------------------------------
(* A controller that follows a record.  Whatever is in flight was asked    *)
(* with the cursor the controller has now, so an answer begins where what  *)
(* it was given ends.                                                      *)

CallSteps == {"begin", "resume", "asking", "pause", "done"}
CallResults == {"none", "record", "refused", "failed", "lost", "active"}
HandlerSteps == {"none", "sent", "show", "events", "shown", "waiting", "again", "answered"}

ObserverRecord == [kind: ObserverKinds, step: CallSteps, cursor: Nat, tries: Nat,
                   result: CallResults]
RequestRecord == [step: HandlerSteps, after: Nat, seen: Nat, upto: Nat]

ObserverInv ==
    /\ observer \in ObserverRecord
    /\ committed \in 1..LastEvent /\ silence \in Nat
    /\ given = Numbers(IF observer.result = "record" THEN LastEvent ELSE observer.cursor)
    /\ observer.cursor <= committed
    /\ observer.result # "refused"
    /\ observer.result # "none" => observer.step \in {"begin", "done"}
    /\ observer.result = "record" => observer.step = "done" /\ Over
    /\ observer.result = "lost" => silence >= Reconnects
    /\ observer.kind = "wait" /\ observer.step = "begin" => observer.result = "none"
    /\ observer.step # "done" => observer.tries <= silence
    /\ observer.step \in {"begin", "resume"} \/ observer.kind = "follow" => observer.tries = 0

RequestInv ==
    /\ request \in RequestRecord
    /\ request.seen <= committed /\ request.upto <= committed
    /\ observer.step \in {"begin", "done", "pause"} => request.step = "none"
    /\ request.step # "none" => request.after = observer.cursor

ObservationInv == ObserverInv /\ RequestInv

LEMMA NumbersGrow ==
    ASSUME NEW a \in Nat, NEW b \in Nat, a <= b
    PROVE  Numbers(a) \o [i \in 1..(b - a) |-> a + i] = Numbers(b)
<1> DEFINE s == Numbers(a)
           t == [i \in 1..(b - a) |-> a + i]
<1>1. s \in Seq(Nat) /\ Len(s) = a /\ \A i \in 1..a : s[i] = i
  BY DEF Numbers
<1>2. b - a \in Nat /\ t \in Seq(Nat) /\ Len(t) = b - a /\ \A i \in 1..(b - a) : t[i] = a + i
  OBVIOUS
<1>3. Numbers(b) \in Seq(Nat) /\ Len(Numbers(b)) = b /\ \A i \in 1..b : Numbers(b)[i] = i
  BY DEF Numbers
<1> HIDE DEF s, t
<1>4. s \o t \in Seq(Nat) /\ Len(s \o t) = Len(s) + Len(t)
      /\ \A i \in 1..(Len(s) + Len(t)) : (s \o t)[i] = IF i <= Len(s) THEN s[i] ELSE t[i - Len(s)]
  <2>1. PICK u \in Seq(Nat), v \in Seq(Nat) : u = s /\ v = t
    BY <1>1, <1>2
  <2>2. /\ u \o v \in Seq(Nat) /\ Len(u \o v) = Len(u) + Len(v)
        /\ \A i \in 1..(Len(u) + Len(v)) : (u \o v)[i] = IF i <= Len(u) THEN u[i] ELSE v[i - Len(u)]
    OBVIOUS
  <2>. QED BY <2>1, <2>2
<1>5. a + (b - a) = b
  OBVIOUS
<1>6. ASSUME NEW i \in 1..b PROVE (s \o t)[i] = Numbers(b)[i]
  <2>1. (s \o t)[i] = IF i <= a THEN s[i] ELSE t[i - a]
    BY <1>1, <1>2, <1>4, <1>5
  <2>2. CASE i <= a
    <3>1. i \in 1..a
      BY <2>2
    <3>. QED BY <1>1, <1>3, <2>1, <2>2, <3>1
  <2>3. CASE ~ (i <= a)
    <3>1. i - a \in 1..(b - a) /\ a + (i - a) = i
      BY <2>3
    <3>. QED BY <1>2, <1>3, <2>1, <2>3, <3>1
  <2>. QED BY <2>2, <2>3
<1>7. s \o t = Numbers(b)
  <2>1. Len(s \o t) = Len(Numbers(b))
    BY <1>1, <1>2, <1>3, <1>4, <1>5
  <2>. QED BY <1>3, <1>4, <1>6, <2>1, SeqEqual
<1>. QED BY <1>7 DEF s, t

LEMMA ObservationSuffices == ObservationInv => ObserversKeepUp
BY DEF ObservationInv, ObserverInv, ObserversKeepUp

LEMMA ObservationBegins == ObservationInit => ObservationInv
<1>1. SUFFICES ASSUME ObservationInit PROVE ObservationInv
  OBVIOUS
<1>2. given = <<>> /\ Numbers(0) = <<>>
  BY <1>1 DEF ObservationInit, Numbers
<1>3. observer \in ObserverRecord
  BY <1>1 DEF ObservationInit, ObserverRecord, CallSteps, CallResults
<1>4. RequestInv
  BY <1>1, <1>3 DEF ObservationInit, RequestInv, NoRequest, RequestRecord, HandlerSteps,
                    ObserverRecord
<1>5. ObserverInv
  BY <1>1, <1>2, <1>3, ObservationAssumption DEF ObservationInit, ObserverInv, ObserverRecord
<1>. QED BY <1>4, <1>5 DEF ObservationInv

LEMMA CountsTyped ==
    ASSUME ObservationInv
    PROVE  /\ committed \in Nat /\ silence \in Nat /\ LastEvent \in Nat \ {0}
           /\ Reconnects \in Nat \ {0} /\ committed <= LastEvent
BY ObservationAssumption DEF ObservationInv, ObserverInv

\* Handlers only read.
LEMMA HandlerMoves ==
    ASSUME ObservationInv, EventCommitted \/ BrokerDeparts \/ BrokerReturns \/ GetRecord
           \/ ShowRecord \/ ReadEvents \/ WaitForRecord \/ RereadEvents
    PROVE  ObservationInv'
<1>1. ObserverInv /\ RequestInv
  BY DEF ObservationInv
<1>2. CASE EventCommitted
  BY <1>1, <1>2, ObservationAssumption
     DEF EventCommitted, Over, ObservationInv, ObserverInv, RequestInv, ObserverRecord, RequestRecord
<1>3. CASE BrokerDeparts \/ BrokerReturns
  BY <1>1, <1>3 DEF BrokerDeparts, BrokerReturns, Over, ObservationInv, ObserverInv, RequestInv
<1>4. ASSUME NEW b \in HandlerSteps \ {"none"}, request.step # "none",
             HandlerReads(b, "seen") \/ HandlerReads(b, "upto")
      PROVE  ObservationInv'
  <2>1. /\ \/ request' = [request EXCEPT !["seen"] = committed, !.step = b]
           \/ request' = [request EXCEPT !["upto"] = committed, !.step = b]
        /\ UNCHANGED <<committed, serving, observer, given, silence, losses>>
    BY <1>4 DEF HandlerReads
  <2>2. ObserverInv'
    BY <1>1, <2>1 DEF ObserverInv, Over
  <2>3. PICK r \in RequestRecord : r = request
    BY <1>1 DEF RequestInv
  <2>4. committed \in Nat /\ b \in HandlerSteps
    BY <1>1, <1>4, ObservationAssumption DEF ObserverInv
  <2>5. request' \in RequestRecord /\ request'.step = b /\ request'.after = request.after
        /\ request'.seen \in {request.seen, committed} /\ request'.upto \in {request.upto, committed}
    BY <2>1, <2>3, <2>4 DEF RequestRecord
  <2>6. RequestInv'
    <3>1. b # "none" /\ request'.step # "none"
      BY <1>4, <2>5
    <3>2. request'.seen <= committed' /\ request'.upto <= committed'
      <4>1. request.seen <= committed /\ request.upto <= committed /\ committed' = committed
        BY <1>1, <2>1 DEF RequestInv
      <4>2. committed <= committed
        BY <2>4
      <4>. QED BY <2>5, <4>1, <4>2
    <3>3. ~ (observer.step \in {"begin", "done", "pause"})
      BY <1>1, <1>4 DEF RequestInv
    <3>. QED BY <1>1, <1>4, <2>1, <2>5, <3>1, <3>2, <3>3 DEF RequestInv
  <2>. QED BY <2>2, <2>6 DEF ObservationInv
<1>5. {"events", "shown", "waiting", "answered", "again"} \subseteq HandlerSteps \ {"none"}
  BY DEF HandlerSteps
<1>6. CASE GetRecord
  BY <1>4, <1>5, <1>6 DEF GetRecord, Handler
<1>7. CASE ShowRecord
  BY <1>4, <1>5, <1>7 DEF ShowRecord, Handler
<1>8. CASE ReadEvents
  BY <1>4, <1>5, <1>8 DEF ReadEvents, Handler
<1>9. CASE WaitForRecord
  BY <1>4, <1>5, <1>9 DEF WaitForRecord, Handler
<1>10. CASE RereadEvents
  BY <1>4, <1>5, <1>10 DEF RereadEvents, Handler
<1>. QED BY <1>2, <1>3, <1>6, <1>7, <1>8, <1>9, <1>10

\* What a client action needs: nothing of the broker changes, and the new observer,
\* request and silence agree.
LEMMA ClientMoves ==
    ASSUME ObservationInv, UNCHANGED <<committed, serving>>,
           observer' \in ObserverRecord, silence' \in Nat,
           given' = Numbers(IF observer'.result = "record" THEN LastEvent ELSE observer'.cursor),
           observer'.cursor <= committed, observer'.result # "refused",
           observer'.result # "none" => observer'.step \in {"begin", "done"},
           observer'.result = "record" => observer'.step = "done" /\ Over,
           observer'.result = "lost" => silence' >= Reconnects,
           observer'.kind = "wait" /\ observer'.step = "begin" => observer'.result = "none",
           observer'.step # "done" => observer'.tries <= silence',
           observer'.step \in {"begin", "resume"} \/ observer'.kind = "follow" => observer'.tries = 0,
           request' = NoRequest
           \/ /\ ~ (observer'.step \in {"begin", "done", "pause"})
              /\ \E step \in HandlerSteps :
                    request' = [step |-> step, after |-> observer'.cursor, seen |-> 0, upto |-> 0]
    PROVE  ObservationInv'
<1>1. ObserverInv'
  BY DEF ObservationInv, ObserverInv, Over
<1>2. observer'.cursor \in Nat
  BY DEF ObserverRecord
<1>0. committed \in Nat /\ committed' = committed /\ 0 <= committed
  BY CountsTyped
<1>3. CASE request' = NoRequest
  <2>1. request' \in RequestRecord /\ request'.step = "none" /\ request'.seen = 0 /\ request'.upto = 0
    BY <1>3 DEF NoRequest, RequestRecord, HandlerSteps
  <2>2. RequestInv'
    BY <1>0, <2>1 DEF RequestInv
  <2>. QED BY <1>1, <2>2 DEF ObservationInv
<1>4. CASE ~ (request' = NoRequest)
  <2>1. PICK step \in HandlerSteps :
          request' = [step |-> step, after |-> observer'.cursor, seen |-> 0, upto |-> 0]
    BY <1>4
  <2>2. PICK after \in Nat : after = observer'.cursor
    BY <1>2
  <2>3. request' = [step |-> step, after |-> after, seen |-> 0, upto |-> 0]
    BY <2>1, <2>2
  <2>4. request' \in RequestRecord /\ request'.after = observer'.cursor /\ request'.seen = 0
        /\ request'.upto = 0
    BY <2>2, <2>3 DEF RequestRecord
  <2>5. RequestInv'
    BY <1>0, <1>4, <2>4 DEF RequestInv
  <2>. QED BY <1>1, <2>5 DEF ObservationInv
<1>. QED BY <1>3, <1>4

\* A call that ends without a record, whatever it reports.
LEMMA CallsEnd ==
    ASSUME ObservationInv, UNCHANGED <<committed, serving, given>>, request' = NoRequest,
           ~ (observer.step \in {"begin", "done"}), silence' \in Nat,
           NEW result \in {"failed", "lost", "active"}, CallEnds(result),
           result = "lost" => silence' >= Reconnects
    PROVE  ObservationInv'
<1>1. PICK o \in ObserverRecord : o = observer
  BY DEF ObservationInv, ObserverInv
<1>2. /\ o.result = "none" /\ given = Numbers(o.cursor) /\ o.cursor <= committed
  BY <1>1 DEF ObservationInv, ObserverInv
<1>3. observer' = [o EXCEPT !.step = IF o.kind = "wait" THEN "done" ELSE "begin",
                            !.result = result, !.tries = 0]
  BY <1>1 DEF CallEnds
<1>4. /\ observer' \in ObserverRecord /\ observer'.cursor = o.cursor /\ observer'.result = result
      /\ observer'.step \in {"begin", "done"} /\ observer'.tries = 0 /\ observer'.kind = o.kind
      /\ (o.kind = "wait" => observer'.step = "done")
  BY <1>3 DEF ObserverRecord, CallSteps, CallResults
<1>5. 0 <= silence'
  OBVIOUS
<1>. QED BY <1>2, <1>4, <1>5, ClientMoves

LEMMA BeginWaitKeeps ==
    ASSUME ObservationInv, BeginWait
    PROVE  ObservationInv'
<1>1. PICK o \in ObserverRecord : o = observer
  BY DEF ObservationInv, ObserverInv
<1>2. committed \in Nat /\ silence \in Nat /\ committed <= committed
  BY CountsTyped
<1>3. o.kind = "wait" /\ o.step = "begin" /\ o.tries = 0 /\ request.step = "none"
      /\ UNCHANGED <<committed, serving, silence, losses>> /\ given' = Numbers(committed)
  BY <1>1 DEF BeginWait, ObservationInv, ObserverInv, RequestInv
<1>4. o.result = "none" /\ o.cursor <= committed
  BY <1>1, <1>3 DEF ObservationInv, ObserverInv
<1>5. CASE Over
  <2>1. observer' = [o EXCEPT !.step = "done", !.result = "record", !.tries = 0]
        /\ request' = request
    BY <1>1, <1>3, <1>5 DEF BeginWait, CallEnds
  <2>2. /\ observer' \in ObserverRecord /\ observer'.cursor = o.cursor /\ observer'.tries = 0
        /\ observer'.result = "record" /\ observer'.step = "done"
    BY <2>1 DEF ObserverRecord, CallSteps, CallResults
  <2>3. ObserverInv'
    BY <1>2, <1>3, <1>4, <1>5, <2>2 DEF ObservationInv, ObserverInv, Over
  <2>4. RequestInv'
    BY <1>3, <2>1 DEF ObservationInv, RequestInv
  <2>. QED BY <2>3, <2>4 DEF ObservationInv
<1>6. CASE ~ Over
  <2>1. PICK n \in Nat : n = committed
    BY <1>2
  <2>2. observer' = [o EXCEPT !.step = "asking", !.cursor = n]
        /\ request' = [step |-> "sent", after |-> n, seen |-> 0, upto |-> 0]
    BY <1>1, <1>6, <2>1 DEF BeginWait, Asks, NoRequest
  <2>3. /\ observer' \in ObserverRecord /\ observer'.cursor = n /\ observer'.tries = 0
        /\ observer'.result = o.result /\ observer'.step = "asking"
    BY <1>3, <2>2 DEF ObserverRecord, CallSteps
  <2>4. "sent" \in HandlerSteps
    BY DEF HandlerSteps
  <2>. QED BY <1>2, <1>3, <1>4, <2>1, <2>2, <2>3, <2>4, ClientMoves
<1>. QED BY <1>5, <1>6

LEMMA CallsBegin ==
    ASSUME ObservationInv, BeginCall \/ AskAgain
    PROVE  ObservationInv'
<1>1. PICK o \in ObserverRecord : o = observer
  BY DEF ObservationInv, ObserverInv
<1>2. committed \in Nat /\ silence \in Nat /\ o.cursor \in Nat /\ o.cursor <= committed
  BY <1>1, CountsTyped DEF ObservationInv, ObserverInv, ObserverRecord
<1>3. CASE BeginCall
  <2>1. o.kind # "wait" /\ o.step = "begin" /\ o.tries = 0
        /\ UNCHANGED <<committed, serving, given>> /\ silence' = 0
    BY <1>1, <1>3 DEF BeginCall, ObservationInv, ObserverInv
  <2>2. given = Numbers(IF o.result = "record" THEN LastEvent ELSE o.cursor) /\ o.result # "record"
    BY <1>1, <2>1 DEF ObservationInv, ObserverInv
  <2>3. PICK step \in {"resume", "asking"} : observer' = [o EXCEPT !.step = step, !.result = "none"]
    BY <1>1, <1>3 DEF BeginCall
  <2>4. PICK sent \in {"show", "sent"} :
          request' = [step |-> sent, after |-> o.cursor, seen |-> 0, upto |-> 0]
    BY <1>1, <1>3 DEF BeginCall, Asks, NoRequest
  <2>5. /\ observer' \in ObserverRecord /\ observer'.cursor = o.cursor /\ observer'.tries = 0
        /\ observer'.result = "none" /\ observer'.step = step
    BY <2>1, <2>3 DEF ObserverRecord, CallSteps, CallResults
  <2>6. sent \in HandlerSteps /\ 0 \in Nat /\ 0 <= 0
    BY DEF HandlerSteps
  <2>. QED BY <1>2, <2>1, <2>2, <2>4, <2>5, <2>6, ClientMoves
<1>4. CASE AskAgain
  <2>1. o.step = "pause" /\ UNCHANGED <<committed, serving, given, silence>>
    BY <1>1, <1>4 DEF AskAgain
  <2>2. o.result = "none" /\ given = Numbers(o.cursor) /\ o.tries <= silence
        /\ (o.kind = "follow" => o.tries = 0)
    BY <1>1, <2>1 DEF ObservationInv, ObserverInv
  <2>3. observer' = [o EXCEPT !.step = "asking"]
    BY <1>1, <1>4 DEF AskAgain
  <2>4. request' = [step |-> "sent", after |-> o.cursor, seen |-> 0, upto |-> 0]
    BY <1>1, <1>4 DEF AskAgain, Asks, NoRequest
  <2>5. /\ observer' \in ObserverRecord /\ observer'.cursor = o.cursor /\ observer'.tries = o.tries
        /\ observer'.result = "none" /\ observer'.step = "asking" /\ observer'.kind = o.kind
    BY <2>2, <2>3 DEF ObserverRecord, CallSteps, CallResults
  <2>6. "sent" \in HandlerSteps
    BY DEF HandlerSteps
  <2>. QED BY <1>2, <2>1, <2>2, <2>4, <2>5, <2>6, ClientMoves
<1>. QED BY <1>3, <1>4

LEMMA CallsFail ==
    ASSUME ObservationInv, RequestLost \/ AnswerBroken \/ DeadlinePasses
    PROVE  ObservationInv'
<1>1. PICK o \in ObserverRecord : o = observer
  BY DEF ObservationInv, ObserverInv
<1>2. /\ committed \in Nat /\ silence \in Nat /\ o.cursor \in Nat /\ o.cursor <= committed
      /\ o.tries \in Nat /\ Reconnects \in Nat /\ o.step \in CallSteps
  BY <1>1, CountsTyped DEF ObservationInv, ObserverInv, ObserverRecord
<1>3. /\ request.step # "none" => o.step \in {"resume", "asking"}
      /\ ~ (o.step \in {"begin", "done"}) => o.result = "none" /\ o.tries <= silence
                                             /\ given = Numbers(o.cursor)
      /\ o.kind = "follow" => o.tries = 0
  BY <1>1, <1>2 DEF ObservationInv, ObserverInv, RequestInv, CallSteps
<1>4. CASE RequestLost
  <2>1. /\ request.step # "none" /\ request' = NoRequest /\ silence' = silence + 1
        /\ UNCHANGED <<committed, serving, given>>
    BY <1>4 DEF RequestLost
  <2>2. silence' \in Nat /\ o.step \in {"resume", "asking"}
    BY <1>2, <1>3, <2>1
  <2>3. CASE CallEnds("failed")
    BY <1>1, <1>2, <1>3, <2>1, <2>2, <2>3, CallsEnd
  <2>4. CASE CallEnds("lost") /\ o.tries + 1 >= Reconnects
    <3>1. silence' >= Reconnects
      BY <1>2, <1>3, <2>1, <2>2, <2>4
    <3>. QED BY <1>1, <1>2, <1>3, <2>1, <2>2, <2>4, <3>1, CallsEnd
  <2>5. CASE observer' = [o EXCEPT !.step = "pause", !.tries = o.tries + 1] /\ o.kind # "follow"
    <3>1. PICK n \in Nat : n = o.tries + 1
      BY <1>2
    <3>2. observer' = [o EXCEPT !.step = "pause", !.tries = n]
      BY <2>5, <3>1
    <3>3. /\ observer' \in ObserverRecord /\ observer'.cursor = o.cursor /\ observer'.tries = n
          /\ observer'.result = o.result /\ observer'.step = "pause" /\ observer'.kind = o.kind
      BY <3>2 DEF ObserverRecord, CallSteps
    <3>4. n <= silence'
      BY <1>2, <1>3, <2>1, <2>2, <3>1
    <3>. QED BY <1>2, <1>3, <2>1, <2>2, <2>5, <3>3, <3>4, ClientMoves
  <2>. QED BY <1>1, <1>4, <2>3, <2>4, <2>5 DEF RequestLost
<1>5. CASE AnswerBroken
  <2>1. /\ request.step # "none" /\ request' = NoRequest /\ UNCHANGED <<committed, serving, given, silence>>
        /\ CallEnds("failed")
    BY <1>5 DEF AnswerBroken
  <2>. QED BY <1>1, <1>2, <1>3, <2>1, CallsEnd
<1>6. CASE DeadlinePasses
  <2>1. /\ o.step \in {"resume", "asking", "pause"} /\ request' = NoRequest
        /\ UNCHANGED <<committed, serving, given, silence>>
        /\ CallEnds("failed") \/ CallEnds("active")
    BY <1>1, <1>6 DEF DeadlinePasses
  <2>. QED BY <1>1, <1>2, <1>3, <2>1, CallsEnd
<1>. QED BY <1>4, <1>5, <1>6

LEMMA ResumeKeeps ==
    ASSUME ObservationInv, Resume
    PROVE  ObservationInv'
<1>1. PICK o \in ObserverRecord : o = observer
  BY DEF ObservationInv, ObserverInv
<1>2. /\ committed \in Nat /\ o.cursor \in Nat /\ o.cursor <= committed
      /\ LastEvent \in Nat /\ committed <= LastEvent
  BY <1>1, CountsTyped DEF ObservationInv, ObserverInv, ObserverRecord
<1>3. /\ o.step = "resume" /\ o.result = "none" /\ o.tries = 0 /\ given = Numbers(o.cursor)
      /\ UNCHANGED <<committed, serving>> /\ silence' = 0
  BY <1>1 DEF Resume, ObservationInv, ObserverInv
<1>4. 0 \in Nat /\ 0 <= 0
  OBVIOUS
<1>5. CASE request.seen = LastEvent
  <2>1. Over
    BY <1>2, <1>5 DEF ObservationInv, RequestInv, Over
  <2>2. observer' = [o EXCEPT !.step = "done", !.result = "record", !.tries = 0]
        /\ given' = Numbers(LastEvent) /\ request' = NoRequest
    BY <1>1, <1>5 DEF Resume, CallEnds
  <2>3. /\ observer' \in ObserverRecord /\ observer'.cursor = o.cursor /\ observer'.tries = 0
        /\ observer'.result = "record" /\ observer'.step = "done"
    BY <2>2 DEF ObserverRecord, CallSteps, CallResults
  <2>. QED BY <1>2, <1>3, <1>4, <2>1, <2>2, <2>3, ClientMoves
<1>6. CASE request.seen # LastEvent
  <2>1. /\ observer' = [o EXCEPT !.step = "asking"] /\ UNCHANGED given
        /\ request' = [step |-> "sent", after |-> o.cursor, seen |-> 0, upto |-> 0]
    BY <1>1, <1>6 DEF Resume, Asks, NoRequest
  <2>2. /\ observer' \in ObserverRecord /\ observer'.cursor = o.cursor /\ observer'.tries = 0
        /\ observer'.result = "none" /\ observer'.step = "asking"
    BY <1>3, <2>1 DEF ObserverRecord, CallSteps, CallResults
  <2>3. "sent" \in HandlerSteps
    BY DEF HandlerSteps
  <2>. QED BY <1>2, <1>3, <1>4, <2>1, <2>2, <2>3, ClientMoves
<1>. QED BY <1>5, <1>6

\* The cursor of an answer is that of its events, and they begin at the controller's.
LEMMA AnswersFit ==
    ASSUME ObservationInv, TakeAnswer
    PROVE  ObservationInv'
<1> DEFINE last == Latest(Answer200.upto, request.after)
<1>1. PICK o \in ObserverRecord : o = observer
  BY DEF ObservationInv, ObserverInv
<1>2. /\ committed \in Nat /\ o.cursor \in Nat /\ o.cursor <= committed
      /\ LastEvent \in Nat /\ committed <= LastEvent
  BY <1>1, CountsTyped DEF ObservationInv, ObserverInv, ObserverRecord
<1>3. /\ o.step = "asking" /\ o.result = "none" /\ given = Numbers(o.cursor)
      /\ UNCHANGED <<committed, serving>> /\ silence' = 0 /\ (o.kind = "follow" => o.tries = 0)
  BY <1>1 DEF TakeAnswer, ObservationInv, ObserverInv
<1>4. /\ request.after = o.cursor /\ request.seen \in Nat /\ request.upto \in Nat
      /\ request.seen <= committed /\ request.upto <= committed
  BY <1>1 DEF TakeAnswer, ObservationInv, RequestInv, RequestRecord
<1>5. Answer200.next = last
  BY DEF Answer200
<1>6. /\ last \in Nat /\ o.cursor <= last /\ last <= committed
      /\ Answer200.record => last = LastEvent /\ Over
  <2>1. CASE request.seen = LastEvent
    BY <1>2, <1>4, <2>1 DEF Answer200, Latest, Over
  <2>2. CASE request.seen # LastEvent
    BY <1>2, <1>4, <2>2 DEF Answer200, Latest
  <2>. QED BY <2>1, <2>2
<1>7. given' = given \o [i \in 1..(last - request.after) |-> request.after + i]
      /\ \/ /\ Answer200.record
            /\ observer' = [observer EXCEPT !.step = "done", !.cursor = last, !.result = "record"]
            /\ request' = NoRequest
         \/ /\ ~ Answer200.record /\ observer.kind = "follow"
            /\ observer' = [observer EXCEPT !.step = "begin", !.cursor = last]
            /\ request' = NoRequest
         \/ /\ ~ Answer200.record /\ observer.kind # "follow"
            /\ observer' = [observer EXCEPT !.cursor = last, !.tries = 0]
            /\ request' = [NoRequest EXCEPT !.step = "sent", !.after = last]
  BY <1>5 DEF TakeAnswer, Asks
<1>8. PICK n \in Nat : n = last
  BY <1>6
<1> HIDE DEF last
<1>9. given' = Numbers(n)
  BY <1>2, <1>3, <1>4, <1>6, <1>7, <1>8, NumbersGrow
<1>10. 0 \in Nat /\ 0 <= 0 /\ n <= committed
  BY <1>6, <1>8
<1>11. CASE Answer200.record
  <2>1. observer' = [o EXCEPT !.step = "done", !.cursor = n, !.result = "record"]
        /\ request' = NoRequest
    BY <1>1, <1>7, <1>8, <1>11
  <2>2. /\ observer' \in ObserverRecord /\ observer'.cursor = n
        /\ observer'.result = "record" /\ observer'.step = "done" /\ observer'.kind = o.kind
        /\ observer'.tries = o.tries
    BY <2>1 DEF ObserverRecord, CallSteps, CallResults
  <2>. QED BY <1>3, <1>6, <1>8, <1>9, <1>10, <1>11, <2>1, <2>2, ClientMoves
<1>12. CASE ~ Answer200.record /\ o.kind = "follow"
  <2>1. observer' = [o EXCEPT !.step = "begin", !.cursor = n] /\ request' = NoRequest
    BY <1>1, <1>7, <1>8, <1>12
  <2>2. /\ observer' \in ObserverRecord /\ observer'.cursor = n /\ observer'.kind = "follow"
        /\ observer'.result = "none" /\ observer'.step = "begin" /\ observer'.tries = 0
    BY <1>3, <1>12, <2>1 DEF ObserverRecord, CallSteps
  <2>. QED BY <1>3, <1>9, <1>10, <2>1, <2>2, ClientMoves
<1>13. CASE ~ Answer200.record /\ o.kind # "follow"
  <2>1. observer' = [o EXCEPT !.cursor = n, !.tries = 0]
        /\ request' = [step |-> "sent", after |-> n, seen |-> 0, upto |-> 0]
    BY <1>1, <1>7, <1>8, <1>13 DEF NoRequest
  <2>2. /\ observer' \in ObserverRecord /\ observer'.cursor = n
        /\ observer'.result = "none" /\ observer'.step = "asking" /\ observer'.tries = 0
    BY <1>3, <2>1 DEF ObserverRecord
  <2>3. "sent" \in HandlerSteps
    BY DEF HandlerSteps
  <2>. QED BY <1>3, <1>9, <1>10, <2>1, <2>2, <2>3, ClientMoves
<1>. QED BY <1>1, <1>11, <1>12, <1>13

LEMMA ObservationStep ==
    ASSUME ObservationInv, [ObservationNext]_observationVars
    PROVE  ObservationInv'
<1>1. CASE UNCHANGED observationVars
  BY <1>1 DEF observationVars, ObservationInv, ObserverInv, RequestInv, Over
<1>2. CASE EventCommitted \/ BrokerDeparts \/ BrokerReturns \/ GetRecord \/ ShowRecord
           \/ ReadEvents \/ WaitForRecord \/ RereadEvents
  BY <1>2, HandlerMoves
<1>3. CASE BeginWait \/ BeginCall \/ AskAgain
  BY <1>3, BeginWaitKeeps, CallsBegin
<1>4. CASE RequestLost \/ AnswerBroken \/ DeadlinePasses
  BY <1>4, CallsFail
<1>5. CASE Resume \/ TakeAnswer
  BY <1>5, ResumeKeeps, AnswersFit
<1>. QED BY <1>1, <1>2, <1>3, <1>4, <1>5 DEF ObservationNext

\* For any number of events, retries and losses: a controller gets every event once and in
\* order, whatever the handlers read when, and is not told that an answer is inconsistent.
THEOREM ControllersKeepUp == ObservationSpec => []ObserversKeepUp
<1>1. ObservationInit => ObservationInv
  BY ObservationBegins
<1>2. ObservationInv /\ [ObservationNext]_observationVars => ObservationInv'
  BY ObservationStep
<1>3. ObservationInv => ObserversKeepUp
  BY ObservationSuffices
<1>. QED BY <1>1, <1>2, <1>3, PTL DEF ObservationSpec

-----------------------------------------------------------------------------
(* The live controls of a Job.  The invariant is stated over the committed *)
(* record: what is pushed on the one in memory and not saved yet changes   *)
(* nothing of it.  The head of the queue or the execution waits for at     *)
(* most one append, and that append still fits the record when it is       *)
(* committed: no control is requested twice or settled before its request, *)
(* and the end of an attempt is behind the settlements of its controls.    *)

Entry == [by: {"main", "op", "worker"}, event: Event]

\* The committed requests and settlements of a control.
Asked(c) == {i \in 1..saved : log[i].type = "requested" /\ log[i].control = c}
Said(c) == {k \in 1..saved : log[k].type \in Settlements /\ log[k].control = c}
Verdicts(c) == {log[k].type : k \in Said(c)}

\* Everything requested of an attempt is settled before position i.
SettledBy(a, i) ==
    \A n \in 1..saved : n < i /\ log[n].type = "requested" /\ log[n].attempt = a =>
        \E k \in Said(log[n].control) : n < k /\ k < i

LogInv ==
    /\ log \in Seq(Event) /\ saved \in Nat /\ Len(log) \in {saved, saved + 1}
    /\ \A i \in 1..saved : log[i].type = "requested" => log[i].control \in Controls
    /\ \A c \in Controls : \A i, j \in Asked(c) : i = j
    /\ \A c \in Controls : \A k \in Said(c) : \E i \in Asked(c) : i < k
    /\ ~ unrecorded => \A c \in Controls : \A k, l \in Said(c) : k = l
    /\ \A i \in 1..saved : Ends(i) => SettledBy(log[i].attempt, i)
    /\ Attempt \in 1..MaxAttempts

\* The event in memory that is not committed is that of the append at the head.
TailInv ==
    Len(log) = saved + 1 => chain # <<>> /\ ~ poisoned /\ log[saved + 1] = Head(chain).event

\* An append of the head of the queue: its event, or that of an observer that threw on it.
OpAppend(e) ==
    /\ ops # <<>> /\ Head(ops).res = "none" /\ Head(ops).step \in {"requesting", "receipt", "lost"}
    /\ \/ /\ e.event.type = "observer"
          /\ Asked(Head(ops).control) # {}
          /\ Head(ops).step # "requesting" /\ ~ unrecorded => Head(ops).status \in Verdicts(Head(ops).control)
       \/ /\ Head(ops).step = "requesting" /\ e.event.type = "requested"
          /\ e.event.control = Head(ops).control
          /\ Asked(Head(ops).control) = {}
       \/ /\ Head(ops).step # "requesting" /\ e.event.type = Head(ops).status
          /\ e.event.control = Head(ops).control
          /\ ~ unrecorded => Said(Head(ops).control) = {}

MainAppend(e) ==
    /\ main.res = "none" /\ main.step \in {"markSave", "settling"}
    /\ \/ e.event.type = "observer"
       \/ /\ main.step = "markSave" /\ e.event.type = "lost" /\ e.event.control \in Controls
          /\ Asked(e.event.control) # {} /\ Said(e.event.control) = {}
       \/ /\ main.step = "settling" /\ e.event.type \in {"next", "terminal"}
          /\ e.event.attempt = Attempt /\ SettledBy(Attempt, saved + 1)
          /\ e.event.type = "next" => Attempt < MaxAttempts

ChainInv ==
    /\ chain \in Seq(Entry)
    /\ poisoned \in BOOLEAN /\ (poisoned => chain # <<>>)
    /\ \A m, n \in DOMAIN chain : chain[m].by # "worker" /\ chain[n].by # "worker" => m = n
    /\ \A n \in DOMAIN chain :
         /\ chain[n].by = "worker" => chain[n].event.type \in {"worker", "observer"}
         /\ chain[n].by = "op" => OpAppend(chain[n])
         /\ chain[n].by = "main" => MainAppend(chain[n])

OpInv(x) ==
    /\ x.step \in {"new", "untracked", "handling"} => x.res = "none"
    /\ x.step \in {"lost", "untracked"} => x.status = "lost"
    /\ x.step \notin {"untracked", "lost"} => told[x.control] = {}
    /\ x.step \in {"new", "requesting"} => delivered[x.control] = 0
    /\ x.step = "new" => Asked(x.control) = {}
    /\ x.step \in {"untracked", "handling", "receipt", "lost"} => Asked(x.control) # {}
    /\ x.step \in {"new", "untracked", "requesting", "handling"} => Said(x.control) = {}
    /\ x.step = "requesting" /\ x.res = "ok" => Asked(x.control) # {}
    /\ x.step \in {"receipt", "lost"} /\ ~ unrecorded =>
         /\ x.res = "ok" => x.status \in Verdicts(x.control)
         /\ x.res = "failed" => Said(x.control) = {}

QueueInv ==
    /\ ops \in Seq(Op)
    /\ main \in [step: MainSteps, res: {"none", "ok", "failed"}] /\ active \in BOOLEAN
    /\ main.step \notin {"run", "closing"} => ops = <<>>
    /\ \A m, n \in DOMAIN ops : ops[m].control = ops[n].control => m = n
    /\ \A n \in DOMAIN ops : n # 1 => ops[n].step \in {"new", "untracked"}
    /\ \A n \in DOMAIN ops : OpInv(ops[n])

CallersInv ==
    /\ delivered \in [Controls -> Nat] /\ told \in [Controls -> SUBSET Settlements]
    /\ unrecorded \in BOOLEAN
    /\ \A c \in Controls :
         /\ delivered[c] # 0 => delivered[c] = 1 /\ Asked(c) # {}
         /\ told[c] # {} => Asked(c) # {}
         /\ ~ unrecorded => \A s \in told[c] : /\ Said(c) = {} => s = "lost"
                                               /\ \A v \in Verdicts(c) : s = v

FaultsInv == faults \subseteq {"save", "observer", "crash"} /\ Cardinality(faults) <= MaxFaults

ControlInv == LogInv /\ TailInv /\ ChainInv /\ QueueInv /\ CallersInv

LEMMA FiniteParts == ASSUME NEW n \in Nat, NEW S, S \subseteq 1..n PROVE IsFiniteSet(S)
<1>1. IsFiniteSet(1..n) /\ S \in SUBSET (1..n)
  BY FS_Interval
<1>. QED BY <1>1, FS_Subset

\* What is read of the committed record stays as long as that does.
LEMMA RecordKept ==
    ASSUME saved \in Nat, saved' = saved, \A i \in 1..saved : log'[i] = log[i]
    PROVE  /\ \A c : Asked(c)' = Asked(c) /\ Said(c)' = Said(c) /\ Verdicts(c)' = Verdicts(c)
           /\ Attempt' = Attempt
           /\ \A a, i : SettledBy(a, i)' <=> SettledBy(a, i)
<1>1. ASSUME NEW c PROVE Asked(c)' = Asked(c) /\ Said(c)' = Said(c)
  BY DEF Asked, Said
<1>2. ASSUME NEW c PROVE Verdicts(c)' = Verdicts(c)
  <2>1. ASSUME NEW k \in Said(c) PROVE log'[k] = log[k]
    BY DEF Said
  <2>. QED BY <1>1, <2>1 DEF Verdicts
<1>3. Attempt' = Attempt
  <2>1. {i \in 1..saved' : log'[i].type = "next"} = {i \in 1..saved : log[i].type = "next"}
    OBVIOUS
  <2>. QED BY <2>1 DEF Attempt
<1>4. ASSUME NEW a, NEW i PROVE SettledBy(a, i)' <=> SettledBy(a, i)
  <2>1. \A n \in 1..saved : log'[n] = log[n] /\ Said(log[n].control)' = Said(log[n].control)
    BY <1>1
  <2>. QED BY <2>1 DEF SettledBy
<1>. QED BY <1>1, <1>2, <1>3, <1>4

LEMMA LogKept ==
    ASSUME LogInv, saved' = saved, unrecorded => unrecorded', log' \in Seq(Event),
           Len(log') \in {saved, saved + 1}, \A i \in 1..saved : log'[i] = log[i]
    PROVE  LogInv'
<1>1. saved \in Nat
  BY DEF LogInv
<1>2. /\ \A c : Asked(c)' = Asked(c) /\ Said(c)' = Said(c) /\ Verdicts(c)' = Verdicts(c)
      /\ Attempt' = Attempt
      /\ \A a, i : SettledBy(a, i)' <=> SettledBy(a, i)
  BY <1>1, RecordKept
<1>3. \A i \in 1..saved : (Ends(i)' <=> Ends(i)) /\ log'[i] = log[i]
  BY DEF Ends
<1>4. (\A i \in 1..saved : Ends(i) => SettledBy(log[i].attempt, i))'
  <2>1. SUFFICES ASSUME NEW i \in 1..saved, Ends(i) PROVE SettledBy(log[i].attempt, i)'
    BY <1>3
  <2>2. PICK a : a = log[i].attempt /\ a = log'[i].attempt
    BY <1>3
  <2>3. SettledBy(a, i)'
    BY <1>2, <2>1, <2>2 DEF LogInv
  <2>. QED BY <2>2, <2>3 DEF SettledBy
<1>. QED BY <1>2, <1>3, <1>4 DEF LogInv

\* What is read of the committed record when the event at its end is committed.
LEMMA RecordGrows ==
    ASSUME LogInv, Len(log) = saved + 1, saved' = saved + 1, log' = log
    PROVE  /\ \A c : /\ Asked(c)' = Asked(c) \cup {i \in {saved + 1} :
                                       log[i].type = "requested" /\ log[i].control = c}
                     /\ Said(c)' = Said(c) \cup {k \in {saved + 1} :
                                       log[k].type \in Settlements /\ log[k].control = c}
                     /\ Verdicts(c)' = Verdicts(c) \cup {v \in {log[saved + 1].type} :
                                       v \in Settlements /\ log[saved + 1].control = c}
           /\ Attempt' = IF log[saved + 1].type = "next" THEN Attempt + 1 ELSE Attempt
<1>1. saved \in Nat /\ 1..saved' = 1..saved \cup {saved + 1}
  BY DEF LogInv
<1>2. ASSUME NEW c
      PROVE  /\ Asked(c)' = Asked(c) \cup {i \in {saved + 1} :
                                       log[i].type = "requested" /\ log[i].control = c}
             /\ Said(c)' = Said(c) \cup {k \in {saved + 1} :
                                       log[k].type \in Settlements /\ log[k].control = c}
  BY <1>1 DEF Asked, Said
<1>3. ASSUME NEW c
      PROVE  Verdicts(c)' = Verdicts(c) \cup {v \in {log[saved + 1].type} :
                                       v \in Settlements /\ log[saved + 1].control = c}
  <2>1. Verdicts(c)' = {log[k].type : k \in Said(c)'}
    BY DEF Verdicts
  <2>. QED BY <1>2, <2>1 DEF Verdicts
<1>4. Attempt' = IF log[saved + 1].type = "next" THEN Attempt + 1 ELSE Attempt
  <2> DEFINE S == {i \in 1..saved : log[i].type = "next"}
             T == {i \in 1..saved' : log'[i].type = "next"}
  <2>1. IsFiniteSet(S) /\ saved + 1 \notin S
    BY <1>1, FiniteParts
  <2>2. T = IF log[saved + 1].type = "next" THEN S \cup {saved + 1} ELSE S
    BY <1>1
  <2>3. Attempt = 1 + Cardinality(S) /\ Attempt' = 1 + Cardinality(T) /\ Cardinality(S) \in Nat
    BY <2>1, FS_CardinalityType DEF Attempt
  <2> HIDE DEF S, T
  <2>4. Cardinality(S \cup {saved + 1}) = Cardinality(S) + 1
    BY <2>1, FS_AddElement
  <2>. QED BY <2>2, <2>3, <2>4
<1>. QED BY <1>2, <1>3, <1>4

\* What holds of an event that is about to be committed.
Fits(e) ==
    /\ e.type = "requested" => e.control \in Controls /\ Asked(e.control) = {}
    /\ e.type \in Settlements =>
         /\ e.control \in Controls /\ Asked(e.control) # {}
         /\ ~ unrecorded => Said(e.control) = {}
         /\ e.type # "lost" => told[e.control] = {}
    /\ e.type \in {"next", "terminal"} => SettledBy(e.attempt, saved + 1)
    /\ e.type = "next" => Attempt < MaxAttempts

\* A settlement is behind its request, the end of an attempt behind all its settlements.
LEMMA LogGrows ==
    ASSUME LogInv, Len(log) = saved + 1, saved' = saved + 1, log' = log, unrecorded => unrecorded',
           Fits(log[saved + 1])
    PROVE  LogInv'
<1>1. PICK e \in Event : e = log[saved + 1]
  BY DEF LogInv
<1>2. /\ \A c : /\ Asked(c)' = Asked(c) \cup {i \in {saved + 1} : e.type = "requested" /\ e.control = c}
                /\ Said(c)' = Said(c) \cup {k \in {saved + 1} : e.type \in Settlements /\ e.control = c}
      /\ Attempt' = IF e.type = "next" THEN Attempt + 1 ELSE Attempt
  BY <1>1, RecordGrows
<1>3. saved \in Nat /\ MaxAttempts \in Nat /\ Attempt \in 1..MaxAttempts
  BY BoundsAssumption DEF LogInv
<1>4. \A c : Asked(c) \subseteq 1..saved /\ Said(c) \subseteq 1..saved
  BY DEF Asked, Said
<1>5. Attempt' \in 1..MaxAttempts
  BY <1>1, <1>2, <1>3 DEF Fits
<1>6. ASSUME NEW c \in Controls, NEW i \in Asked(c)', NEW j \in Asked(c)' PROVE i = j
  BY <1>1, <1>2, <1>6 DEF LogInv, Fits
<1>7. ASSUME NEW c \in Controls, NEW k \in Said(c)' PROVE \E i \in Asked(c)' : i < k
  <2>1. CASE k \in Said(c)
    BY <1>2, <2>1 DEF LogInv
  <2>2. CASE k \notin Said(c)
    <3>1. k = saved + 1 /\ e.type \in Settlements /\ e.control = c
      BY <1>2, <1>7, <2>2
    <3>2. Asked(c) # {}
      BY <1>1, <3>1 DEF Fits
    <3>. QED BY <1>2, <1>3, <1>4, <3>1, <3>2
  <2>. QED BY <2>1, <2>2
<1>8. ASSUME ~ unrecorded', NEW c \in Controls, NEW k \in Said(c)', NEW l \in Said(c)' PROVE k = l
  <2>1. ~ unrecorded
    BY <1>8
  <2>. QED BY <1>1, <1>2, <1>8, <2>1 DEF LogInv, Fits
<1>9. ASSUME NEW i \in 1..saved', Ends(i)' PROVE SettledBy(log[i].attempt, i)'
  <2>1. CASE i \in 1..saved
    <3>1. SettledBy(log[i].attempt, i)
      BY <1>9, <2>1 DEF LogInv, Ends
    <3>. QED BY <1>2, <1>3, <2>1, <3>1 DEF SettledBy
  <2>2. CASE i = saved + 1
    <3>1. SettledBy(log[i].attempt, i)
      BY <1>1, <1>9, <2>2 DEF Fits, Ends
    <3>. QED BY <1>2, <1>3, <2>2, <3>1 DEF SettledBy
  <2>. QED BY <1>3, <1>9, <2>1, <2>2
<1>10. ASSUME NEW i \in 1..saved', log[i].type = "requested" PROVE log[i].control \in Controls
  BY <1>1, <1>3, <1>10 DEF LogInv, Fits
<1>11. saved' \in Nat /\ Len(log') \in {saved', saved' + 1}
  BY <1>3
<1>. QED BY <1>5, <1>6, <1>7, <1>8, <1>9, <1>10, <1>11 DEF LogInv

\* The event in memory fits: its append is at the head of the chain.
LEMMA HeadFits ==
    ASSUME LogInv, ChainInv, QueueInv, CallersInv, chain # <<>>
    PROVE  /\ Head(chain) \in Entry /\ Tail(chain) \in Seq(Entry)
           /\ Fits(Head(chain).event)
<1>1. PICK e \in Entry : e = Head(chain) /\ e = chain[1]
  BY DEF ChainInv
<1>2. 1 \in DOMAIN chain /\ Tail(chain) \in Seq(Entry)
  BY DEF ChainInv
<1>3. /\ e.by = "worker" => e.event.type \in {"worker", "observer"}
      /\ e.by = "op" => OpAppend(e)
      /\ e.by = "main" => MainAppend(e)
      /\ e.by \in {"main", "op", "worker"}
  BY <1>1, <1>2 DEF ChainInv, Entry
<1>4. CASE e.by = "worker"
  BY <1>1, <1>2, <1>3, <1>4 DEF Fits, Settlements
<1>5. CASE e.by = "op"
  <2>1. OpAppend(e)
    BY <1>3, <1>5
  <2>2. PICK x \in Op : x = Head(ops) /\ x = ops[1]
    BY <2>1 DEF OpAppend, QueueInv
  <2>3. OpInv(x)
    BY <2>1, <2>2 DEF OpAppend, QueueInv
  <2>4. x.control \in Controls /\ x.status \in Settlements
    BY <2>2 DEF Op
  <2>. QED BY <1>1, <1>2, <2>1, <2>2, <2>3, <2>4 DEF OpAppend, OpInv, Fits, Settlements
<1>6. CASE e.by = "main"
  <2>1. MainAppend(e)
    BY <1>3, <1>6
  <2>. QED BY <1>1, <1>2, <2>1 DEF MainAppend, Fits, Settlements
<1>. QED BY <1>3, <1>4, <1>5, <1>6

LEMMA OpKept ==
    ASSUME NEW x \in Op, OpInv(x), unrecorded => unrecorded',
           Asked(x.control)' = Asked(x.control), Said(x.control)' = Said(x.control),
           Verdicts(x.control)' = Verdicts(x.control),
           told'[x.control] = told[x.control], delivered'[x.control] = delivered[x.control]
    PROVE  OpInv(x)'
BY DEF OpInv

LEMMA OpsHold ==
    ASSUME ops' \in Seq(Op), \A n \in DOMAIN ops' : \A x \in Op : x = ops'[n] => OpInv(x)'
    PROVE  (\A n \in DOMAIN ops : OpInv(ops[n]))'
<1>1. SUFFICES ASSUME NEW n \in DOMAIN ops' PROVE OpInv(ops[n])'
  OBVIOUS
<1>2. PICK x \in Op : x = ops'[n]
  OBVIOUS
<1>3. OpInv(x)'
  BY <1>2
<1>. QED BY <1>2, <1>3 DEF OpInv

\* The head of the queue goes on; nothing changes for the controls behind it.
LEMMA HeadMoves ==
    ASSUME QueueInv, ops # <<>>, NEW y \in Op, ops' = [ops EXCEPT ![1] = y],
           y.control = ops[1].control, OpInv(y)', unrecorded => unrecorded',
           main' = main,
           active' \in BOOLEAN,
           \A c \in Controls \ {y.control} :
               /\ Asked(c)' = Asked(c) /\ Said(c)' = Said(c) /\ Verdicts(c)' = Verdicts(c)
               /\ told'[c] = told[c] /\ delivered'[c] = delivered[c]
    PROVE  QueueInv'
<1>1. /\ ops' \in Seq(Op) /\ DOMAIN ops' = DOMAIN ops /\ ops' # <<>>
      /\ ops'[1] = y /\ \A n \in DOMAIN ops : n # 1 => ops'[n] = ops[n]
  BY DEF QueueInv
<1>2. main' \in [step: MainSteps, res: {"none", "ok", "failed"}] /\ main'.step \in {"run", "closing"}
  BY DEF QueueInv
<1>3. ASSUME NEW n \in DOMAIN ops', NEW x \in Op, x = ops'[n] PROVE OpInv(x)'
  <2>1. CASE n = 1
    BY <1>1, <1>3, <2>1
  <2>2. CASE n # 1
    <3>1. x = ops[n]
      BY <1>1, <1>3, <2>2
    <3>2. x.control \in Controls \ {y.control} /\ OpInv(x)
      BY <1>1, <2>2, <3>1 DEF QueueInv, Op
    <3>. QED BY <3>2, OpKept
  <2>. QED BY <2>1, <2>2
<1>4. ASSUME NEW m \in DOMAIN ops, NEW n \in DOMAIN ops PROVE ops'[m].control = ops'[n].control => m = n
  BY <1>1 DEF QueueInv
<1>5. (\A n \in DOMAIN ops : OpInv(ops[n]))'
  BY <1>1, <1>3, OpsHold
<1>. QED BY <1>1, <1>2, <1>4, <1>5 DEF QueueInv

\* The head of the queue ends.
LEMMA HeadLeaves ==
    ASSUME QueueInv, ops # <<>>, ops' = Tail(ops), unrecorded => unrecorded', UNCHANGED <<main, active>>,
           \A c \in Controls \ {ops[1].control} :
               /\ Asked(c)' = Asked(c) /\ Said(c)' = Said(c) /\ Verdicts(c)' = Verdicts(c)
               /\ told'[c] = told[c] /\ delivered'[c] = delivered[c]
    PROVE  QueueInv'
<1>1. /\ ops' \in Seq(Op) /\ \A n \in DOMAIN ops' : n + 1 \in DOMAIN ops /\ ops'[n] = ops[n + 1] /\ n + 1 # 1
  BY DEF QueueInv
<1>2. ASSUME NEW n \in DOMAIN ops', NEW x \in Op, x = ops'[n] PROVE OpInv(x)'
  <2>1. x = ops[n + 1]
    BY <1>1, <1>2
  <2>2. 1 \in DOMAIN ops
    BY <1>1
  <2>3. x.control \in Controls \ {ops[1].control} /\ OpInv(x)
    BY <1>1, <2>1, <2>2 DEF QueueInv, Op
  <2>. QED BY <2>3, OpKept
<1>3. (\A n \in DOMAIN ops : OpInv(ops[n]))'
  BY <1>1, <1>2, OpsHold
<1>4. ASSUME NEW m \in DOMAIN ops', NEW n \in DOMAIN ops' PROVE ops'[m].control = ops'[n].control => m = n
  <2>1. m \in Nat /\ n \in Nat
    BY <1>1
  <2>. QED BY <1>1, <2>1 DEF QueueInv
<1>5. \A n \in DOMAIN ops' : n # 1 => ops'[n].step \in {"new", "untracked"}
  BY <1>1 DEF QueueInv
<1>6. main.step \notin {"run", "closing"} => FALSE
  BY DEF QueueInv
<1>. QED BY <1>1, <1>3, <1>4, <1>5, <1>6 DEF QueueInv

\* An operation is queued behind the others, with a control none of them has.
LEMMA QueueGrows ==
    ASSUME QueueInv, NEW y \in Op, ops' = Append(ops, y), main.step = "run", ~ InFlight(y.control),
           OpInv(y)', y.step \in {"new", "untracked"},
           UNCHANGED <<log, saved, unrecorded, main, active, told, delivered>>
    PROVE  QueueInv'
<1>1. /\ ops' \in Seq(Op) /\ DOMAIN ops' = DOMAIN ops \cup {Len(ops) + 1} /\ ops'[Len(ops) + 1] = y
      /\ \A n \in DOMAIN ops : ops'[n] = ops[n] /\ n # Len(ops) + 1 /\ ops[n].control # y.control
  BY DEF QueueInv, InFlight
<1>2. \A c : Asked(c)' = Asked(c) /\ Said(c)' = Said(c) /\ Verdicts(c)' = Verdicts(c)
  BY DEF Asked, Said, Verdicts
<1>3. ASSUME NEW n \in DOMAIN ops', NEW x \in Op, x = ops'[n] PROVE OpInv(x)'
  <2>1. CASE n = Len(ops) + 1
    BY <1>1, <1>3, <2>1
  <2>2. CASE n # Len(ops) + 1
    <3>1. OpInv(x)
      BY <1>1, <1>3, <2>2 DEF QueueInv
    <3>. QED BY <1>2, <3>1, OpKept
  <2>. QED BY <2>1, <2>2
<1>4. (\A n \in DOMAIN ops : OpInv(ops[n]))'
  BY <1>1, <1>3, OpsHold
<1>5. ASSUME NEW m \in DOMAIN ops', NEW n \in DOMAIN ops' PROVE ops'[m].control = ops'[n].control => m = n
  BY <1>1 DEF QueueInv
<1>6. \A n \in DOMAIN ops' : n # 1 => ops'[n].step \in {"new", "untracked"}
  BY <1>1 DEF QueueInv
<1>. QED BY <1>1, <1>4, <1>5, <1>6 DEF QueueInv

LEMMA QueueStays ==
    ASSUME QueueInv, UNCHANGED <<ops, active, told, delivered>>, unrecorded => unrecorded',
           main' \in [step: MainSteps, res: {"none", "ok", "failed"}],
           main'.step \in {"run", "closing"} \/ ops = <<>>,
           ops # <<>> => \A c \in Controls :
               Asked(c)' = Asked(c) /\ Said(c)' = Said(c) /\ Verdicts(c)' = Verdicts(c)
    PROVE  QueueInv'
<1>1. ASSUME NEW n \in DOMAIN ops PROVE OpInv(ops[n])'
  <2>1. PICK x \in Op : x = ops[n] /\ x = ops'[n] /\ OpInv(x)
    BY DEF QueueInv
  <2>2. x.control \in Controls /\ ops # <<>>
    BY <2>1 DEF Op, QueueInv
  <2>3. OpInv(x)'
    BY <2>1, <2>2, OpKept
  <2>. QED BY <2>1, <2>3 DEF OpInv
<1>2. (\A n \in DOMAIN ops : OpInv(ops[n]))'
  BY <1>1 DEF OpInv
<1>. QED BY <1>2 DEF QueueInv

LEMMA EntriesKept ==
    ASSUME NEW e, UNCHANGED <<ops, main>>, unrecorded => unrecorded', Attempt' = Attempt,
           \A c : Asked(c)' = Asked(c) /\ Said(c)' = Said(c) /\ Verdicts(c)' = Verdicts(c),
           SettledBy(Attempt, saved + 1) => SettledBy(Attempt, saved + 1)'
    PROVE  /\ OpAppend(e) => OpAppend(e)'
           /\ MainAppend(e) => MainAppend(e)'
<1>1. OpAppend(e) => OpAppend(e)'
  BY DEF OpAppend
<1>2. MainAppend(e) => MainAppend(e)'
  BY DEF MainAppend
<1>. QED BY <1>1, <1>2

\* What is needed of the entries, one by one.
LEMMA ChainHolds ==
    ASSUME chain' \in Seq(Entry), poisoned' \in BOOLEAN, poisoned' => chain' # <<>>,
           \A m, n \in DOMAIN chain' : chain'[m].by # "worker" /\ chain'[n].by # "worker" => m = n,
           \A n \in DOMAIN chain' : \A e \in Entry : e = chain'[n] =>
               /\ e.by = "worker" => e.event.type \in {"worker", "observer"}
               /\ e.by = "op" => OpAppend(e)'
               /\ e.by = "main" => MainAppend(e)'
    PROVE  ChainInv'
<1>1. SUFFICES ASSUME NEW n \in DOMAIN chain'
               PROVE  /\ chain'[n].by = "worker" => chain'[n].event.type \in {"worker", "observer"}
                      /\ chain'[n].by = "op" => (OpAppend(chain[n]))'
                      /\ chain'[n].by = "main" => (MainAppend(chain[n]))'
  BY DEF ChainInv
<1>2. PICK e \in Entry : e = chain'[n]
  OBVIOUS
<1>3. /\ e.by = "worker" => e.event.type \in {"worker", "observer"}
      /\ e.by = "op" => OpAppend(e)'
      /\ e.by = "main" => MainAppend(e)'
  BY <1>2
<1>4. e.by = "op" => (OpAppend(chain[n]))'
  BY <1>2, <1>3 DEF OpAppend
<1>5. e.by = "main" => (MainAppend(chain[n]))'
  BY <1>2, <1>3 DEF MainAppend
<1>. QED BY <1>2, <1>3, <1>4, <1>5

LEMMA WorkersOnly ==
    ASSUME ChainInv, \A e \in Entry : ~ OpAppend(e) /\ ~ MainAppend(e)
    PROVE  \A n \in DOMAIN chain : chain[n].by = "worker"
<1>1. SUFFICES ASSUME NEW n \in DOMAIN chain PROVE chain[n].by = "worker"
  OBVIOUS
<1>2. PICK e \in Entry : e = chain[n]
  BY DEF ChainInv
<1>3. (e.by = "op" => OpAppend(e)) /\ (e.by = "main" => MainAppend(e))
  BY <1>2 DEF ChainInv
<1>4. e.by \in {"main", "op", "worker"}
  BY DEF Entry
<1>. QED BY <1>2, <1>3, <1>4

\* An append is queued behind the others: by a worker, or when none of an operation or of the
\* execution is there.
LEMMA ChainGrows ==
    ASSUME ChainInv, TailInv, LogInv, NEW x \in Entry, chain' = Append(chain, x),
           UNCHANGED <<log, saved, poisoned, unrecorded>>,
           \/ x.by = "worker" /\ x.event.type = "worker" /\ UNCHANGED <<ops, main>>
           \/ /\ x.by = "op" => OpAppend(x)'
              /\ x.by = "main" => MainAppend(x)'
              /\ x.by # "worker"
              /\ \A n \in DOMAIN chain : chain[n].by = "worker"
    PROVE  ChainInv' /\ TailInv'
<1>1. /\ chain' \in Seq(Entry) /\ DOMAIN chain' = DOMAIN chain \cup {Len(chain) + 1}
      /\ chain'[Len(chain) + 1] = x /\ \A n \in DOMAIN chain : chain'[n] = chain[n] /\ n # Len(chain) + 1
      /\ chain' # <<>>
  BY DEF ChainInv
<1>2. \A c : Asked(c)' = Asked(c) /\ Said(c)' = Said(c) /\ Verdicts(c)' = Verdicts(c)
  BY DEF Asked, Said, Verdicts
<1>3. Attempt' = Attempt /\ (SettledBy(Attempt, saved + 1) => SettledBy(Attempt, saved + 1)')
  BY DEF Attempt, SettledBy, Said
<1>4. ASSUME NEW n \in DOMAIN chain', NEW e \in Entry, e = chain'[n]
      PROVE  /\ e.by = "worker" => e.event.type \in {"worker", "observer"}
             /\ e.by = "op" => OpAppend(e)'
             /\ e.by = "main" => MainAppend(e)'
  <2>1. CASE n = Len(chain) + 1
    BY <1>1, <1>4, <2>1
  <2>2. CASE n # Len(chain) + 1
    <3>1. e = chain[n] /\ n \in DOMAIN chain
      BY <1>1, <1>4, <2>2
    <3>2. /\ e.by = "worker" => e.event.type \in {"worker", "observer"}
          /\ e.by = "op" => OpAppend(e)
          /\ e.by = "main" => MainAppend(e)
      BY <3>1 DEF ChainInv
    <3>3. CASE UNCHANGED <<ops, main>>
      BY <1>2, <1>3, <3>2, <3>3, EntriesKept
    <3>4. CASE e.by = "worker"
      BY <3>2, <3>4
    <3>. QED BY <3>1, <3>3, <3>4
  <2>. QED BY <2>1, <2>2
<1>5. \A m, n \in DOMAIN chain' : chain'[m].by # "worker" /\ chain'[n].by # "worker" => m = n
  BY <1>1 DEF ChainInv
<1>6. poisoned' \in BOOLEAN
  BY DEF ChainInv
<1>7. ChainInv'
  BY <1>1, <1>4, <1>5, <1>6, ChainHolds
<1>8. TailInv'
  BY <1>1 DEF TailInv, ChainInv
<1>. QED BY <1>7, <1>8

\* The append at the head is gone.  Behind one of an operation or of the execution there are
\* only those of the adapter.
LEMMA ChainShrinks ==
    ASSUME ChainInv, chain # <<>>, chain' = Tail(chain), poisoned' \in BOOLEAN,
           poisoned' => Tail(chain) # <<>>,
           \/ chain[1].by # "worker"
           \/ \A e \in Entry : (OpAppend(e) => OpAppend(e)') /\ (MainAppend(e) => MainAppend(e)')
    PROVE  ChainInv'
<1>1. /\ chain' \in Seq(Entry)
      /\ \A n \in DOMAIN chain' : n + 1 \in DOMAIN chain /\ chain'[n] = chain[n + 1] /\ n \in Nat
      /\ 1 \in DOMAIN chain
  BY DEF ChainInv
<1>2. ASSUME NEW n \in DOMAIN chain', NEW e \in Entry, e = chain'[n]
      PROVE  /\ e.by = "worker" => e.event.type \in {"worker", "observer"}
             /\ e.by = "op" => OpAppend(e)'
             /\ e.by = "main" => MainAppend(e)'
  <2>1. e = chain[n + 1] /\ n + 1 \in DOMAIN chain /\ n + 1 # 1
    BY <1>1, <1>2
  <2>2. /\ e.by = "worker" => e.event.type \in {"worker", "observer"}
        /\ e.by = "op" => OpAppend(e)
        /\ e.by = "main" => MainAppend(e)
        /\ chain[1].by # "worker" => e.by = "worker"
    BY <1>1, <2>1 DEF ChainInv
  <2>. QED BY <2>2
<1>3. ASSUME NEW m \in DOMAIN chain', NEW n \in DOMAIN chain',
             chain'[m].by # "worker" /\ chain'[n].by # "worker"
      PROVE  m = n
  <2>1. m + 1 = n + 1
    BY <1>1, <1>3 DEF ChainInv
  <2>. QED BY <1>1, <2>1
<1>. QED BY <1>1, <1>2, <1>3, ChainHolds

LEMMA CallersKept ==
    ASSUME CallersInv, UNCHANGED <<told, delivered>>, unrecorded => unrecorded', unrecorded' \in BOOLEAN,
           \A c : Asked(c)' = Asked(c) /\ Said(c)' = Said(c) /\ Verdicts(c)' = Verdicts(c)
    PROVE  CallersInv'
BY DEF CallersInv

\* An event is committed.  What callers were told before its settlement is that it is lost.
LEMMA EventCommits ==
    ASSUME ControlInv, Len(log) = saved + 1, saved' = saved + 1,
           UNCHANGED <<log, unrecorded, told, delivered>>
    PROVE  /\ LogInv' /\ CallersInv' /\ chain # <<>> /\ ~ poisoned
           /\ chain[1].by = "worker" =>
                /\ \A c : Asked(c)' = Asked(c) /\ Said(c)' = Said(c) /\ Verdicts(c)' = Verdicts(c)
                /\ Attempt' = Attempt
                /\ SettledBy(Attempt, saved + 1) => SettledBy(Attempt, saved + 1)'
<1>1. PICK h \in Entry : /\ h = chain[1] /\ h = Head(chain) /\ h.event = log[saved + 1] /\ h.event \in Event
                         /\ Fits(h.event)
  <2>1. chain # <<>> /\ log[saved + 1] = Head(chain).event
    BY DEF ControlInv, TailInv
  <2>2. Head(chain) \in Entry /\ Fits(Head(chain).event) /\ chain[1] = Head(chain)
    BY <2>1, HeadFits DEF ControlInv
  <2>. QED BY <2>1, <2>2 DEF Entry
<1>2. chain # <<>> /\ ~ poisoned /\ LogInv'
  BY <1>1, LogGrows DEF ControlInv, TailInv
<1>3. PICK e \in Event : e = h.event /\ Fits(e) /\ e = log[saved + 1]
  BY <1>1
<1>4. /\ \A c : /\ Asked(c)' = Asked(c) \cup {i \in {saved + 1} : e.type = "requested" /\ e.control = c}
                /\ Said(c)' = Said(c) \cup {k \in {saved + 1} : e.type \in Settlements /\ e.control = c}
                /\ Verdicts(c)' = Verdicts(c) \cup {v \in {e.type} : v \in Settlements /\ e.control = c}
      /\ Attempt' = IF e.type = "next" THEN Attempt + 1 ELSE Attempt
  BY <1>3, RecordGrows DEF ControlInv
<1>5. CallersInv'
  <2>1. ASSUME NEW c \in Controls
        PROVE  /\ delivered[c] # 0 => delivered[c] = 1 /\ Asked(c)' # {}
               /\ told[c] # {} => Asked(c)' # {}
    BY <1>4 DEF ControlInv, CallersInv
  <2>2. ASSUME ~ unrecorded, NEW c \in Controls, NEW s \in told[c]
        PROVE  (Said(c)' = {} => s = "lost") /\ \A v \in Verdicts(c)' : s = v
    <3>1. (Said(c) = {} => s = "lost") /\ \A v \in Verdicts(c) : s = v
      BY <2>2 DEF ControlInv, CallersInv
    <3>2. CASE e.type \in Settlements /\ e.control = c
      <4>1. Said(c) = {} /\ e.type = "lost"
        BY <1>3, <2>2, <3>2 DEF Fits
      <4>2. Verdicts(c) = {}
        BY <4>1 DEF Verdicts
      <4>. QED BY <1>4, <3>1, <3>2, <4>1, <4>2
    <3>3. CASE ~ (e.type \in Settlements /\ e.control = c)
      BY <1>4, <3>1, <3>3
    <3>. QED BY <3>2, <3>3
  <2>3. /\ delivered' \in [Controls -> Nat] /\ told' \in [Controls -> SUBSET Settlements]
        /\ unrecorded' \in BOOLEAN /\ unrecorded' = unrecorded
    BY DEF ControlInv, CallersInv
  <2>. QED BY <2>1, <2>2, <2>3 DEF CallersInv
<1>6. ASSUME chain[1].by = "worker"
      PROVE  /\ \A c : Asked(c)' = Asked(c) /\ Said(c)' = Said(c) /\ Verdicts(c)' = Verdicts(c)
             /\ Attempt' = Attempt
             /\ SettledBy(Attempt, saved + 1) => SettledBy(Attempt, saved + 1)'
  <2>1. 1 \in DOMAIN chain
    BY <1>2 DEF ControlInv, ChainInv
  <2>2. e.type \in {"worker", "observer"}
    BY <1>1, <1>3, <1>6, <2>1 DEF ControlInv, ChainInv
  <2>3. /\ \A c : Asked(c)' = Asked(c) /\ Said(c)' = Said(c) /\ Verdicts(c)' = Verdicts(c)
        /\ Attempt' = Attempt
    BY <1>4, <2>2 DEF Settlements
  <2>4. saved \in Nat
    BY DEF ControlInv, LogInv
  <2>5. SettledBy(Attempt, saved + 1) => SettledBy(Attempt, saved + 1)'
    <3>1. PICK a : a = Attempt /\ a = Attempt'
      BY <2>3
    <3>2. SUFFICES ASSUME SettledBy(a, saved + 1), NEW n \in 1..saved', log[n].type = "requested",
                          log[n].attempt = a
                   PROVE  \E k \in Said(log[n].control)' : n < k /\ k < saved' + 1
      BY <3>1 DEF SettledBy
    <3>3. n \in 1..saved /\ n < saved + 1
      BY <1>3, <2>2, <2>4, <3>2
    <3>4. PICK k \in Said(log[n].control) : n < k /\ k < saved + 1
      BY <3>2, <3>3 DEF SettledBy
    <3>5. k \in Nat /\ k < saved' + 1
      BY <2>4, <3>4 DEF Said
    <3>. QED BY <2>3, <3>4, <3>5
  <2>. QED BY <2>3, <2>5
<1>. QED BY <1>2, <1>5, <1>6

\* The caller of a settled append learns the result: what that means for the queue.
LEMMA ResultTaken ==
    ASSUME QueueInv, ChainInv, chain # <<>>, NEW res \in {"ok", "failed"},
           unrecorded => unrecorded', UNCHANGED <<active, told, delivered>>,
           main' = IF chain[1].by = "main" THEN [main EXCEPT !.res = res] ELSE main,
           ops' = IF chain[1].by = "op" THEN [ops EXCEPT ![1].res = res] ELSE ops,
           chain[1].by = "worker" =>
               \A c : Asked(c)' = Asked(c) /\ Said(c)' = Said(c) /\ Verdicts(c)' = Verdicts(c),
           \A y \in Op : chain[1].by = "op" /\ y = [ops[1] EXCEPT !.res = res] =>
               /\ OpInv(y)'
               /\ \A c \in Controls \ {y.control} :
                    Asked(c)' = Asked(c) /\ Said(c)' = Said(c) /\ Verdicts(c)' = Verdicts(c)
    PROVE  QueueInv'
<1>1. PICK h \in Entry : h = chain[1]
  BY DEF ChainInv
<1>2. /\ 1 \in DOMAIN chain /\ h.by \in {"main", "op", "worker"}
      /\ h.by = "op" => OpAppend(h)
      /\ h.by = "main" => MainAppend(h)
  BY <1>1 DEF ChainInv, Entry
<1>3. PICK m \in [step: MainSteps, res: {"none", "ok", "failed"}] : m = main
  BY DEF QueueInv
<1>4. CASE h.by = "op"
  <2>1. ops # <<>>
    BY <1>2, <1>4 DEF OpAppend
  <2>2. PICK x \in Op : x = ops[1]
    BY <2>1 DEF QueueInv
  <2>3. PICK y \in Op : y = [x EXCEPT !.res = res] /\ y.control = x.control
    <3>1. [x EXCEPT !.res = res] \in Op /\ [x EXCEPT !.res = res].control = x.control
      BY DEF Op
    <3>. QED BY <3>1
  <2>4. ops' = [ops EXCEPT ![1] = y] /\ main' = main /\ y = [ops[1] EXCEPT !.res = res]
    BY <1>1, <1>4, <2>2, <2>3
  <2>5. active' \in BOOLEAN
    BY DEF QueueInv
  <2>. QED BY <1>1, <1>4, <2>1, <2>2, <2>3, <2>4, <2>5, HeadMoves
<1>5. CASE h.by = "main"
  <2>1. ops = <<>>
    BY <1>2, <1>5 DEF MainAppend, QueueInv
  <2>2. main' = [m EXCEPT !.res = res] /\ ops' = ops
    BY <1>1, <1>3, <1>5
  <2>3. main' \in [step: MainSteps, res: {"none", "ok", "failed"}]
    BY <2>2
  <2>. QED BY <2>1, <2>2, <2>3, QueueStays
<1>6. CASE h.by = "worker"
  <2>1. main' = main /\ ops' = ops
    BY <1>1, <1>6
  <2>2. main' \in [step: MainSteps, res: {"none", "ok", "failed"}]
        /\ (main'.step \in {"run", "closing"} \/ ops = <<>>)
    BY <2>1 DEF QueueInv
  <2>. QED BY <1>1, <1>6, <2>1, <2>2, QueueStays
<1>. QED BY <1>2, <1>4, <1>5, <1>6

LEMMA CommitKeeps ==
    ASSUME ControlInv, Commit
    PROVE  ControlInv'
<1>1. /\ Len(log) = saved + 1 /\ saved' = saved + 1 /\ UNCHANGED <<log, poisoned, told, delivered, active>>
      /\ chain' = Tail(chain)
      /\ main' = IF Head(chain).by = "main" THEN [main EXCEPT !.res = "ok"] ELSE main
      /\ ops' = IF Head(chain).by = "op" THEN [ops EXCEPT ![1].res = "ok"] ELSE ops
      /\ unrecorded' = unrecorded
  <2>1. unrecorded' = (unrecorded \/ FALSE) /\ unrecorded \in BOOLEAN
    BY DEF Commit, Settle, ControlInv, CallersInv
  <2>. QED BY <2>1 DEF Commit, Settle, caller
<1>2. /\ LogInv' /\ CallersInv' /\ chain # <<>> /\ ~ poisoned
      /\ chain[1].by = "worker" =>
           /\ \A c : Asked(c)' = Asked(c) /\ Said(c)' = Said(c) /\ Verdicts(c)' = Verdicts(c)
           /\ Attempt' = Attempt
           /\ SettledBy(Attempt, saved + 1) => SettledBy(Attempt, saved + 1)'
  BY <1>1, EventCommits
<1>3. Head(chain) = chain[1] /\ saved \in Nat
  BY <1>2 DEF ControlInv, ChainInv, LogInv
<1>4. TailInv'
  BY <1>1, <1>3 DEF TailInv
<1>5. ChainInv'
  <2>1. poisoned' \in BOOLEAN /\ ~ poisoned'
    BY <1>1, <1>2 DEF ControlInv, ChainInv
  <2>2. CASE chain[1].by # "worker"
    BY <1>1, <1>2, <2>1, <2>2, ChainShrinks DEF ControlInv
  <2>3. CASE chain[1].by = "worker"
    <3>1. UNCHANGED <<ops, main>>
      BY <1>1, <1>3, <2>3
    <3>2. \A e \in Entry : (OpAppend(e) => OpAppend(e)') /\ (MainAppend(e) => MainAppend(e)')
      BY <1>1, <1>2, <2>3, <3>1, EntriesKept
    <3>. QED BY <1>1, <1>2, <2>1, <3>2, ChainShrinks DEF ControlInv
  <2>. QED BY <2>2, <2>3
<1>6. ASSUME NEW y \in Op, chain[1].by = "op", y = [ops[1] EXCEPT !.res = "ok"]
      PROVE  /\ OpInv(y)'
             /\ \A c \in Controls \ {y.control} :
                    Asked(c)' = Asked(c) /\ Said(c)' = Said(c) /\ Verdicts(c)' = Verdicts(c)
  <2>1. PICK h \in Entry : h = chain[1] /\ h.event = log[saved + 1]
    BY <1>1, <1>2, <1>3 DEF ControlInv, ChainInv, TailInv
  <2>2. OpAppend(h) /\ h.event \in Event
    BY <1>2, <1>6, <2>1 DEF ControlInv, ChainInv, Entry
  <2>3. PICK e \in Event : e = h.event
    BY <2>2
  <2>4. PICK x \in Op : x = ops[1] /\ x = Head(ops) /\ OpInv(x)
    BY <2>2 DEF OpAppend, ControlInv, QueueInv
  <2>5. /\ y.control = x.control /\ y.step = x.step /\ y.status = x.status /\ y.res = "ok"
        /\ x.control \in Controls /\ x.status \in Settlements
    BY <1>6, <2>4 DEF Op
  <2>6. /\ x.res = "none" /\ x.step \in {"requesting", "receipt", "lost"}
        /\ \/ /\ e.type = "observer" /\ Asked(x.control) # {}
              /\ x.step # "requesting" /\ ~ unrecorded => x.status \in Verdicts(x.control)
           \/ /\ x.step = "requesting" /\ e.type = "requested" /\ e.control = x.control
              /\ Asked(x.control) = {}
           \/ /\ x.step # "requesting" /\ e.type = x.status /\ e.control = x.control
              /\ ~ unrecorded => Said(x.control) = {}
    BY <2>2, <2>3, <2>4 DEF OpAppend
  <2>7. \A c : /\ Asked(c)' = Asked(c) \cup {i \in {saved + 1} : e.type = "requested" /\ e.control = c}
               /\ Said(c)' = Said(c) \cup {k \in {saved + 1} : e.type \in Settlements /\ e.control = c}
               /\ Verdicts(c)' = Verdicts(c) \cup {v \in {e.type} : v \in Settlements /\ e.control = c}
    BY <1>1, <2>1, <2>3, RecordGrows DEF ControlInv
  <2>8. \A c \in Controls \ {y.control} :
          Asked(c)' = Asked(c) /\ Said(c)' = Said(c) /\ Verdicts(c)' = Verdicts(c)
    BY <2>5, <2>6, <2>7 DEF Settlements
  <2>9. OpInv(y)'
    BY <1>1, <2>4, <2>5, <2>6, <2>7 DEF OpInv, Settlements
  <2>. QED BY <2>8, <2>9
<1>7. QueueInv'
  BY <1>1, <1>2, <1>3, <1>6, ResultTaken DEF ControlInv
<1>. QED BY <1>2, <1>4, <1>5, <1>7 DEF ControlInv

\* A rejected append leaves the committed record as it was.
LEMMA AppendRejected ==
    ASSUME ControlInv, chain # <<>>, saved' = saved, log' \in Seq(Event), Len(log') = saved,
           \A i \in 1..saved : log'[i] = log[i], poisoned' = (Tail(chain) # <<>>), Settle("failed")
    PROVE  ControlInv'
<1>1. /\ chain' = Tail(chain) /\ UNCHANGED <<active, told, delivered>>
      /\ main' = IF Head(chain).by = "main" THEN [main EXCEPT !.res = "failed"] ELSE main
      /\ ops' = IF Head(chain).by = "op" THEN [ops EXCEPT ![1].res = "failed"] ELSE ops
      /\ unrecorded' = (unrecorded \/ Head(chain).event.type = "observer")
  BY DEF Settle, caller
<1>2. PICK h \in Entry : h = chain[1] /\ h = Head(chain)
  BY DEF ControlInv, ChainInv
<1>3. unrecorded' \in BOOLEAN /\ (unrecorded => unrecorded')
  BY <1>1
<1>4. saved \in Nat
  BY DEF ControlInv, LogInv
<1>5. /\ \A c : Asked(c)' = Asked(c) /\ Said(c)' = Said(c) /\ Verdicts(c)' = Verdicts(c)
      /\ Attempt' = Attempt
      /\ \A a, i : SettledBy(a, i)' <=> SettledBy(a, i)
  BY <1>4, RecordKept
<1>6. LogInv'
  BY <1>3, LogKept DEF ControlInv
<1>7. TailInv'
  BY <1>4 DEF TailInv
<1>8. CallersInv'
  BY <1>1, <1>3, <1>5, CallersKept DEF ControlInv
<1>9. ChainInv'
  <2>1. poisoned' \in BOOLEAN
    OBVIOUS
  <2>2. CASE h.by # "worker"
    BY <1>1, <1>2, <2>1, <2>2, ChainShrinks DEF ControlInv
  <2>3. CASE h.by = "worker"
    <3>1. UNCHANGED <<ops, main>>
      BY <1>1, <1>2, <2>3
    <3>2. SettledBy(Attempt, saved + 1) => SettledBy(Attempt, saved + 1)'
      BY <1>5 DEF SettledBy
    <3>3. \A e \in Entry : (OpAppend(e) => OpAppend(e)') /\ (MainAppend(e) => MainAppend(e)')
      BY <1>3, <1>5, <3>1, <3>2, EntriesKept
    <3>. QED BY <1>1, <2>1, <3>3, ChainShrinks DEF ControlInv
  <2>. QED BY <2>2, <2>3
<1>10. ASSUME NEW y \in Op, chain[1].by = "op", y = [ops[1] EXCEPT !.res = "failed"]
       PROVE  /\ OpInv(y)'
              /\ \A c \in Controls \ {y.control} :
                    Asked(c)' = Asked(c) /\ Said(c)' = Said(c) /\ Verdicts(c)' = Verdicts(c)
  <2>1. OpAppend(h)
    BY <1>2, <1>10 DEF ControlInv, ChainInv
  <2>2. PICK x \in Op : x = ops[1] /\ x = Head(ops) /\ OpInv(x)
    BY <2>1 DEF OpAppend, ControlInv, QueueInv
  <2>3. y.control = x.control /\ y.step = x.step /\ y.status = x.status /\ y.res = "failed"
    BY <1>10, <2>2 DEF Op
  <2>4. /\ x.res = "none" /\ x.step \in {"requesting", "receipt", "lost"}
        /\ ~ unrecorded' /\ x.step # "requesting" => Said(x.control) = {}
    BY <1>1, <1>2, <2>1, <2>2 DEF OpAppend
  <2>5. OpInv(y)'
    BY <1>1, <1>3, <1>5, <2>2, <2>3, <2>4 DEF OpInv
  <2>. QED BY <1>5, <2>5
<1>11. QueueInv'
  BY <1>1, <1>2, <1>3, <1>5, <1>10, ResultTaken DEF ControlInv
<1>. QED BY <1>6, <1>7, <1>8, <1>9, <1>11 DEF ControlInv

LEMMA PushKeeps ==
    ASSUME ControlInv, Push
    PROVE  ControlInv'
<1>1. /\ chain # <<>> /\ ~ poisoned /\ Len(log) = saved /\ log' = Append(log, Head(chain).event)
      /\ UNCHANGED <<saved, chain, poisoned, main, active, ops, unrecorded, told, delivered>>
  BY DEF Push, caller
<1>2. saved \in Nat /\ log \in Seq(Event) /\ Head(chain).event \in Event /\ unrecorded \in BOOLEAN
  <2>1. PICK h \in Entry : h = Head(chain)
    BY <1>1 DEF ControlInv, ChainInv
  <2>2. h.event \in Event
    BY DEF Entry
  <2>. QED BY <2>1, <2>2 DEF ControlInv, LogInv, CallersInv
<1>3. log' \in Seq(Event) /\ Len(log') = saved + 1 /\ log'[saved + 1] = Head(chain).event
      /\ \A i \in 1..saved : log'[i] = log[i]
  BY <1>1, <1>2
<1>4. /\ \A c : Asked(c)' = Asked(c) /\ Said(c)' = Said(c) /\ Verdicts(c)' = Verdicts(c)
      /\ Attempt' = Attempt
      /\ \A a, i : SettledBy(a, i)' <=> SettledBy(a, i)
  BY <1>1, <1>2, <1>3, RecordKept
<1>5. LogInv'
  BY <1>1, <1>2, <1>3, LogKept DEF ControlInv
<1>6. TailInv' /\ CallersInv'
  BY <1>1, <1>2, <1>3, <1>4, CallersKept DEF ControlInv, TailInv
<1>7. QueueInv'
  <2>1. main' \in [step: MainSteps, res: {"none", "ok", "failed"}]
        /\ (main'.step \in {"run", "closing"} \/ ops = <<>>)
    BY <1>1 DEF ControlInv, QueueInv
  <2>. QED BY <1>1, <1>4, <2>1, QueueStays DEF ControlInv
<1>8. ChainInv'
  <2>1. SettledBy(Attempt, saved + 1) => SettledBy(Attempt, saved + 1)'
    BY <1>1, <1>4 DEF SettledBy
  <2>2. ASSUME NEW n \in DOMAIN chain', NEW e \in Entry, e = chain'[n]
        PROVE  /\ e.by = "worker" => e.event.type \in {"worker", "observer"}
               /\ e.by = "op" => OpAppend(e)'
               /\ e.by = "main" => MainAppend(e)'
    <3>1. /\ e.by = "worker" => e.event.type \in {"worker", "observer"}
          /\ e.by = "op" => OpAppend(e)
          /\ e.by = "main" => MainAppend(e)
      BY <1>1, <2>2 DEF ControlInv, ChainInv
    <3>. QED BY <1>1, <1>4, <2>1, <3>1, EntriesKept
  <2>3. /\ chain' \in Seq(Entry) /\ poisoned' \in BOOLEAN /\ (poisoned' => chain' # <<>>)
        /\ \A m, n \in DOMAIN chain' : chain'[m].by # "worker" /\ chain'[n].by # "worker" => m = n
    BY <1>1 DEF ControlInv, ChainInv
  <2>. QED BY <2>2, <2>3, ChainHolds
<1>. QED BY <1>5, <1>6, <1>7, <1>8 DEF ControlInv

LEMMA CommittedLog ==
    ASSUME LogInv
    PROVE  /\ Committed \in Seq(Event) /\ Len(Committed) = saved
           /\ \A i \in 1..saved : Committed[i] = log[i]
BY DEF Committed, LogInv

LEMMA RejectionsKeep ==
    ASSUME ControlInv, Fail \/ Reject
    PROVE  ControlInv'
<1>1. CASE Fail
  <2>1. /\ Len(log) = saved + 1 /\ log' = Committed /\ poisoned' = (Tail(chain) # <<>>)
        /\ Settle("failed") /\ saved' = saved
    BY <1>1 DEF Fail
  <2>2. chain # <<>>
    BY <2>1 DEF ControlInv, TailInv
  <2>. QED BY <2>1, <2>2, CommittedLog, AppendRejected DEF ControlInv
<1>2. CASE Reject
  <2>1. /\ poisoned /\ poisoned' = (Tail(chain) # <<>>)
        /\ Settle("failed") /\ saved' = saved /\ log' = log
    BY <1>2 DEF Reject
  <2>2. chain # <<>> /\ log' \in Seq(Event) /\ Len(log') = saved
    BY <2>1 DEF ControlInv, TailInv, ChainInv, LogInv
  <2>. QED BY <2>1, <2>2, AppendRejected
<1>. QED BY <1>1, <1>2

\* The observer throws on a committed event; its caller waits for another append.
LEMMA ObserverThrowsKeeps ==
    ASSUME ControlInv, CommitObserverThrows
    PROVE  ControlInv'
<1>1. /\ Len(log) = saved + 1 /\ saved' = saved + 1
      /\ UNCHANGED <<log, poisoned, main, active, ops, unrecorded, told, delivered>>
      /\ Head(chain).event.type # "observer"
      /\ chain' = Append(Tail(chain), [by |-> Head(chain).by,
                                       event |-> [Head(chain).event EXCEPT !.type = "observer",
                                                                           !.control = NoControl]])
  BY DEF CommitObserverThrows, caller
<1>2. /\ LogInv' /\ CallersInv' /\ chain # <<>> /\ ~ poisoned
      /\ chain[1].by = "worker" =>
           /\ \A c : Asked(c)' = Asked(c) /\ Said(c)' = Said(c) /\ Verdicts(c)' = Verdicts(c)
           /\ Attempt' = Attempt
           /\ SettledBy(Attempt, saved + 1) => SettledBy(Attempt, saved + 1)'
  BY <1>1, EventCommits
<1>3. saved \in Nat /\ log[saved + 1] = Head(chain).event
  BY <1>1 DEF ControlInv, LogInv, TailInv
<1>4. TailInv'
  BY <1>1, <1>3 DEF TailInv
<1>5. PICK h \in Entry, e \in Event : h = chain[1] /\ h = Head(chain) /\ e = h.event /\ e = log[saved + 1]
  <2>1. PICK h \in Entry : h = chain[1] /\ h = Head(chain)
    BY <1>2 DEF ControlInv, ChainInv
  <2>2. h.event \in Event
    BY DEF Entry
  <2>. QED BY <1>3, <2>1, <2>2
<1>6. PICK z \in Entry : /\ z = [by |-> h.by, event |-> [e EXCEPT !.type = "observer",
                                                                  !.control = NoControl]]
                         /\ z.by = h.by /\ z.event.type = "observer"
  <2>1. PICK o \in Event : o = [e EXCEPT !.type = "observer", !.control = NoControl] /\ o.type = "observer"
    <3>1. /\ [e EXCEPT !.type = "observer", !.control = NoControl] \in Event
          /\ [e EXCEPT !.type = "observer", !.control = NoControl].type = "observer"
      BY DEF Event
    <3>. QED BY <3>1
  <2>2. h.by \in {"main", "op", "worker"}
    BY DEF Entry
  <2>3. [by |-> h.by, event |-> o] \in Entry
    BY <2>2 DEF Entry
  <2>. QED BY <2>1, <2>3
<1>7. /\ \A c : /\ Asked(c)' = Asked(c) \cup {i \in {saved + 1} : e.type = "requested" /\ e.control = c}
                /\ Said(c)' = Said(c) \cup {k \in {saved + 1} : e.type \in Settlements /\ e.control = c}
                /\ Verdicts(c)' = Verdicts(c) \cup {v \in {e.type} : v \in Settlements /\ e.control = c}
  BY <1>1, <1>5, RecordGrows DEF ControlInv
<1>8. /\ 1 \in DOMAIN chain
      /\ h.by = "op" => OpAppend(h)
      /\ h.by = "main" => MainAppend(h)
      /\ h.by \in {"main", "op", "worker"}
  BY <1>2, <1>5 DEF ControlInv, ChainInv, Entry
<1>9. h.by = "op" =>
        /\ OpAppend(z)'
        /\ \A x \in Op : x = ops[1] =>
             /\ OpInv(x)'
             /\ \A c \in Controls \ {x.control} :
                    Asked(c)' = Asked(c) /\ Said(c)' = Said(c) /\ Verdicts(c)' = Verdicts(c)
  <2>1. SUFFICES ASSUME h.by = "op"
                 PROVE  /\ OpAppend(z)'
                        /\ \A x \in Op : x = ops[1] =>
                             /\ OpInv(x)'
                             /\ \A c \in Controls \ {x.control} :
                                  Asked(c)' = Asked(c) /\ Said(c)' = Said(c) /\ Verdicts(c)' = Verdicts(c)
    OBVIOUS
  <2>2. OpAppend(h)
    BY <1>8, <2>1
  <2>3. PICK x \in Op : x = ops[1] /\ x = Head(ops) /\ OpInv(x)
    BY <2>2 DEF OpAppend, ControlInv, QueueInv
  <2>4. x.control \in Controls /\ x.status \in Settlements
    BY <2>3 DEF Op
  <2>5. /\ ops # <<>> /\ x.res = "none" /\ x.step \in {"requesting", "receipt", "lost"}
        /\ \/ /\ x.step = "requesting" /\ e.type = "requested" /\ e.control = x.control
              /\ Asked(x.control) = {}
           \/ /\ x.step # "requesting" /\ e.type = x.status /\ e.control = x.control
              /\ ~ unrecorded => Said(x.control) = {}
    BY <1>1, <1>5, <2>2, <2>3 DEF OpAppend
  <2>6. \A c \in Controls \ {x.control} :
          Asked(c)' = Asked(c) /\ Said(c)' = Said(c) /\ Verdicts(c)' = Verdicts(c)
    BY <1>7, <2>5 DEF Settlements
  <2>7. OpInv(x)'
    BY <1>1, <1>7, <2>3, <2>4, <2>5 DEF OpInv, Settlements
  <2>8. /\ Asked(x.control)' # {}
        /\ x.step # "requesting" => x.status \in Verdicts(x.control)'
    BY <1>7, <2>3, <2>4, <2>5 DEF OpInv
  <2>9. OpAppend(z)'
    BY <1>1, <1>6, <2>3, <2>5, <2>8 DEF OpAppend
  <2>. QED BY <2>3, <2>6, <2>7, <2>9
<1>10. h.by = "main" => MainAppend(z)' /\ ops = <<>>
  BY <1>1, <1>6, <1>8 DEF MainAppend, ControlInv, QueueInv
<1>11. ChainInv'
  <2>1. PICK t \in Seq(Entry) : /\ t = Tail(chain)
                                /\ \A n \in DOMAIN t : n + 1 \in DOMAIN chain
                                     /\ t[n] = chain[n + 1] /\ n + 1 # 1 /\ n \in Nat
    <3>1. /\ Tail(chain) \in Seq(Entry)
          /\ \A n \in DOMAIN Tail(chain) : n + 1 \in DOMAIN chain
               /\ Tail(chain)[n] = chain[n + 1] /\ n + 1 # 1 /\ n \in Nat
      BY <1>2 DEF ControlInv, ChainInv
    <3>. QED BY <3>1
  <2>2. /\ chain' \in Seq(Entry) /\ DOMAIN chain' = DOMAIN t \cup {Len(t) + 1}
        /\ chain'[Len(t) + 1] = z /\ \A n \in DOMAIN t : chain'[n] = t[n] /\ n # Len(t) + 1
    <3>1. chain' = Append(t, z)
      BY <1>1, <1>5, <1>6, <2>1
    <3>. QED BY <3>1
  <2>3. h.by = "worker" =>
          \A b \in Entry : (OpAppend(b) => OpAppend(b)') /\ (MainAppend(b) => MainAppend(b)')
    BY <1>1, <1>2, <1>5, EntriesKept
  <2>4. ASSUME NEW n \in DOMAIN t
        PROVE  /\ h.by # "worker" => t[n].by = "worker"
               /\ t[n].by = "worker" => t[n].event.type \in {"worker", "observer"}
               /\ t[n].by = "op" => OpAppend(t[n])
               /\ t[n].by = "main" => MainAppend(t[n])
    BY <1>5, <1>8, <2>1 DEF ControlInv, ChainInv
  <2>5. ASSUME NEW n \in DOMAIN chain', NEW b \in Entry, b = chain'[n]
        PROVE  /\ b.by = "worker" => b.event.type \in {"worker", "observer"}
               /\ b.by = "op" => OpAppend(b)'
               /\ b.by = "main" => MainAppend(b)'
    <3>1. CASE n = Len(t) + 1
      BY <1>6, <1>9, <1>10, <2>2, <2>5, <3>1
    <3>2. CASE n \in DOMAIN t
      <4>1. b = t[n]
        BY <2>2, <2>5, <3>2
      <4>2. CASE h.by = "worker"
        BY <2>3, <2>4, <3>2, <4>1, <4>2
      <4>3. CASE h.by # "worker"
        BY <2>4, <3>2, <4>1, <4>3
      <4>. QED BY <4>2, <4>3
    <3>. QED BY <2>2, <2>5, <3>1, <3>2
  <2>6. ASSUME NEW m \in DOMAIN chain', NEW n \in DOMAIN chain',
               chain'[m].by # "worker" /\ chain'[n].by # "worker"
        PROVE  m = n
    <3>1. CASE h.by = "worker"
      <4>1. m \in DOMAIN t /\ n \in DOMAIN t
        BY <1>6, <2>2, <2>6, <3>1
      <4>2. m + 1 = n + 1
        BY <2>1, <2>2, <2>6, <4>1 DEF ControlInv, ChainInv
      <4>. QED BY <2>1, <4>1, <4>2
    <3>2. CASE h.by # "worker"
      BY <2>2, <2>4, <2>6, <3>2
    <3>. QED BY <3>1, <3>2
  <2>7. poisoned' \in BOOLEAN /\ ~ poisoned'
    BY <1>1, <1>2 DEF ControlInv, ChainInv
  <2>. QED BY <2>2, <2>5, <2>6, <2>7, ChainHolds
<1>12. QueueInv'
  <2>1. main' \in [step: MainSteps, res: {"none", "ok", "failed"}]
        /\ (main'.step \in {"run", "closing"} \/ ops = <<>>) /\ active' \in BOOLEAN
    BY <1>1 DEF ControlInv, QueueInv
  <2>2. CASE h.by = "op"
    <3>1. ops # <<>>
      BY <1>8, <2>2 DEF OpAppend
    <3>2. PICK x \in Op : x = ops[1] /\ x.control = ops[1].control /\ ops' = [ops EXCEPT ![1] = x]
      BY <1>1, <3>1 DEF ControlInv, QueueInv
    <3>. QED BY <1>1, <1>9, <2>1, <2>2, <3>1, <3>2, HeadMoves DEF ControlInv
  <2>3. CASE h.by = "main"
    BY <1>1, <1>10, <2>1, <2>3, QueueStays DEF ControlInv
  <2>4. CASE h.by = "worker"
    BY <1>1, <1>2, <1>5, <2>1, <2>4, QueueStays DEF ControlInv
  <2>. QED BY <1>8, <2>2, <2>3, <2>4
<1>. QED BY <1>2, <1>4, <1>11, <1>12 DEF ControlInv

-----------------------------------------------------------------------------
LEMMA StoreStays ==
    ASSUME ControlInv, UNCHANGED store
    PROVE  /\ \A c : Asked(c)' = Asked(c) /\ Said(c)' = Said(c) /\ Verdicts(c)' = Verdicts(c)
           /\ Attempt' = Attempt
           /\ LogInv' /\ unrecorded' = unrecorded /\ unrecorded' \in BOOLEAN
           /\ log' = log /\ saved' = saved /\ poisoned' = poisoned
<1>1. log' = log /\ saved' = saved /\ unrecorded' = unrecorded /\ poisoned' = poisoned
  BY DEF store
<1>2. saved \in Nat /\ LogInv /\ log \in Seq(Event)
    /\ Len(log) \in {saved, saved + 1} /\ unrecorded \in BOOLEAN
  BY DEF ControlInv, LogInv, CallersInv
<1>3. \A i \in 1..saved : log'[i] = log[i]
  BY <1>1
<1>. QED BY <1>1, <1>2, <1>3, LogKept, RecordKept

\* While only the adapter's appends are in the chain, operations and the execution move freely.
LEMMA ChainStays ==
    ASSUME ChainInv, TailInv, UNCHANGED <<log, saved, chain, poisoned>>,
           \A n \in DOMAIN chain : chain[n].by = "worker"
    PROVE  ChainInv' /\ TailInv'
<1>1. TailInv'
  BY DEF TailInv
<1>2. ASSUME NEW n \in DOMAIN chain', NEW e \in Entry, e = chain'[n]
      PROVE  e.by = "worker" /\ e.event.type \in {"worker", "observer"}
  BY <1>2 DEF ChainInv
<1>3. ChainInv'
  BY <1>2, ChainHolds DEF ChainInv
<1>. QED BY <1>1, <1>3

\* No append of an operation waits unless the head does; none of the execution while there
\* are operations.
LEMMA HeadIdle ==
    ASSUME ControlInv, ops # <<>>,
           ~ (Head(ops).res = "none" /\ Head(ops).step \in {"requesting", "receipt", "lost"})
    PROVE  \A n \in DOMAIN chain : chain[n].by = "worker"
<1>1. \A e : ~ OpAppend(e)
  BY DEF OpAppend
<1>2. \A e : ~ MainAppend(e)
  BY DEF MainAppend, ControlInv, QueueInv
<1>. QED BY <1>1, <1>2, WorkersOnly DEF ControlInv

LEMMA HeadIs ==
    ASSUME ControlInv, ops # <<>>
    PROVE  \E x \in Op : /\ x = ops[1] /\ x = Head(ops) /\ OpInv(x) /\ x.control \in Controls
                         /\ x.attempt \in 1..MaxAttempts
<1>1. PICK x \in Op : x = ops[1] /\ x = Head(ops) /\ OpInv(x)
  BY DEF ControlInv, QueueInv
<1>2. x.control \in Controls /\ x.attempt \in 1..MaxAttempts
  BY DEF Op
<1>. QED BY <1>1, <1>2

HeadTo(step, status) == \E called \in BOOLEAN : HeadAt(step, status, called)

LEMMA HeadBecomes ==
    ASSUME QueueInv, ops # <<>>, NEW step, NEW status \in Settlements,
           step \in {"requesting", "handling", "receipt", "lost"},
           HeadTo(step, status)
    PROVE  \E y \in Op : /\ ops' = [ops EXCEPT ![1] = y] /\ y.control = ops[1].control
                         /\ y.attempt = ops[1].attempt
                         /\ y.step = step /\ y.status = status /\ y.res = "none"
<1>1. PICK x \in Op : x = ops[1]
  BY DEF QueueInv
<1>2. \A b \in BOOLEAN : LET y == [x EXCEPT !.step = step, !.status = status, !.called = b, !.res = "none"]
                         IN  /\ y \in Op /\ y.control = x.control /\ y.attempt = x.attempt /\ y.step = step
                             /\ y.status = status /\ y.res = "none"
  BY DEF Op
<1>3. \E b \in BOOLEAN :
        ops' = [ops EXCEPT ![1] = [x EXCEPT !.step = step, !.status = status, !.called = b, !.res = "none"]]
  BY <1>1 DEF HeadTo, HeadAt
<1>. QED BY <1>1, <1>2, <1>3

\* The head appends its request, its receipt or lost evidence.
LEMMA HeadAsks ==
    ASSUME ControlInv, ops # <<>>, NEW step, NEW type,
           HeadAppends(step, type, TRUE) \/ HeadAppends(step, type, FALSE),
           \/ Head(ops).step = "new" /\ step = "requesting" /\ type = "requested"
           \/ /\ Head(ops).step = "requesting" /\ Head(ops).res = "ok"
              /\ step = "receipt" /\ type = "rejected"
           \/ Head(ops).step = "handling" /\ step = "receipt" /\ type \in Settlements
           \/ /\ \/ Head(ops).step = "receipt" /\ Head(ops).res = "failed"
                 \/ Head(ops).step = "untracked"
              /\ step = "lost" /\ type = "lost",
           UNCHANGED <<main, active, told, delivered>>, UNCHANGED store
    PROVE  ControlInv'
<1>1. PICK x \in Op : /\ x = ops[1] /\ x = Head(ops) /\ OpInv(x) /\ x.control \in Controls
                      /\ x.attempt \in 1..MaxAttempts
  BY HeadIs
<1>2. step \in {"requesting", "handling", "receipt", "lost"} /\ type \in Settlements \cup {"requested"}
  BY DEF Settlements
<1>3. PICK status \in Settlements : status = IF type = "requested" THEN "lost" ELSE type
  BY <1>2 DEF Settlements
<1>4. HeadTo(step, status)
  BY <1>3 DEF HeadAppends, HeadTo
<1>5. PICK y \in Op : /\ ops' = [ops EXCEPT ![1] = y] /\ y.control = x.control
                      /\ y.attempt = x.attempt
                      /\ y.step = step /\ y.status = status /\ y.res = "none"
  BY <1>1, <1>2, <1>4, HeadBecomes DEF ControlInv
<1>6. PICK z \in Entry : /\ chain' = Append(chain, z)
                         /\ z.by = "op" /\ z.event.type = type /\ z.event.control = x.control
  <2> DEFINE e == [type |-> type, control |-> x.control, attempt |-> x.attempt]
             z == [by |-> "op", event |-> e]
  <2>1. e \in Event /\ e.type = type /\ e.control = x.control
    BY <1>1, <1>2 DEF Event
  <2>2. chain' = Append(chain, z)
    BY <1>1 DEF HeadAppends, Appended
  <2> HIDE DEF e
  <2>3. z \in Entry /\ z.by = "op" /\ z.event = e
    BY <2>1 DEF Entry
  <2>. QED BY <2>1, <2>2, <2>3
<1>7. /\ \A c : Asked(c)' = Asked(c) /\ Said(c)' = Said(c) /\ Verdicts(c)' = Verdicts(c)
      /\ Attempt' = Attempt
      /\ LogInv' /\ unrecorded' = unrecorded /\ unrecorded' \in BOOLEAN
      /\ log' = log /\ saved' = saved /\ poisoned' = poisoned
  BY StoreStays
<1>8. CallersInv'
  BY <1>7, CallersKept DEF ControlInv
<1>9. OpInv(y)'
  BY <1>1, <1>3, <1>5, <1>7 DEF OpInv
<1>10. QueueInv'
  <2>1. active' \in BOOLEAN
    BY DEF ControlInv, QueueInv
  <2>. QED BY <1>1, <1>5, <1>7, <1>9, <2>1, HeadMoves DEF ControlInv
<1>11. \A n \in DOMAIN chain : chain[n].by = "worker"
  <2>1. x.step \in {"new", "untracked", "handling"} => x.res = "none"
    BY <1>1 DEF OpInv
  <2>. QED BY <1>1, HeadIdle
<1>12. OpAppend(z)'
  <2>1. ops' # <<>> /\ Head(ops)' = y
    BY <1>5 DEF ControlInv, QueueInv
  <2>2. CASE type = "requested"
    BY <1>1, <1>2, <1>5, <1>6, <1>7, <2>1, <2>2 DEF OpAppend, OpInv, Settlements
  <2>3. CASE type # "requested"
    BY <1>1, <1>2, <1>3, <1>5, <1>6, <1>7, <2>1, <2>3 DEF OpAppend, OpInv
  <2>. QED BY <2>2, <2>3
<1>13. ChainInv' /\ TailInv'
  BY <1>6, <1>7, <1>11, <1>12, ChainGrows DEF ControlInv
<1>. QED BY <1>7, <1>8, <1>10, <1>13 DEF ControlInv

\* What a caller is told agrees with what others were told, and with the settlement.
LEMMA CallersLearn ==
    ASSUME CallersInv, NEW c \in Controls, NEW s \in Settlements, Told(c, s), Asked(c) # {},
           UNCHANGED <<delivered, unrecorded>>,
           \A d : Asked(d)' = Asked(d) /\ Said(d)' = Said(d) /\ Verdicts(d)' = Verdicts(d),
           ~ unrecorded => /\ Said(c) = {} => s = "lost"
                           /\ \A v \in Verdicts(c) : s = v
    PROVE  CallersInv'
<1>1. /\ told \in [Controls -> SUBSET Settlements] /\ told' = [told EXCEPT ![c] = @ \cup {s}]
      /\ delivered \in [Controls -> Nat] /\ unrecorded \in BOOLEAN
  BY DEF CallersInv, Told
<1>2. /\ told' \in [Controls -> SUBSET Settlements]
      /\ \A d \in Controls : told'[d] = IF d = c THEN told[c] \cup {s} ELSE told[d]
  BY <1>1
<1>3. ASSUME NEW d \in Controls
      PROVE  /\ delivered'[d] # 0 => delivered'[d] = 1 /\ Asked(d)' # {}
             /\ told'[d] # {} => Asked(d)' # {}
  BY <1>2 DEF CallersInv
<1>4. ASSUME ~ unrecorded, NEW d \in Controls, NEW t \in told'[d]
      PROVE  (Said(d)' = {} => t = "lost") /\ \A v \in Verdicts(d)' : t = v
  <2>1. t \in told[d] \/ (d = c /\ t = s)
    BY <1>2, <1>4
  <2>2. CASE t \in told[d]
    BY <1>4, <2>2 DEF CallersInv
  <2>3. CASE d = c /\ t = s
    BY <1>4, <2>3
  <2>. QED BY <2>1, <2>2, <2>3
<1>. QED BY <1>1, <1>2, <1>3, <1>4 DEF CallersInv

LEMMA OneVerdict ==
    ASSUME LogInv, ~ unrecorded, NEW c \in Controls, NEW s \in Verdicts(c)
    PROVE  Said(c) # {} /\ \A v \in Verdicts(c) : s = v
BY DEF LogInv, Verdicts

\* The head of the queue ends, with a receipt or an error.
LEMMA HeadEnds ==
    ASSUME ControlInv, ops # <<>>, Head(ops).res # "none", ops' = Tail(ops),
           UNCHANGED <<chain, main, active, delivered>>, UNCHANGED store,
           \/ told' = told
           \/ /\ Head(ops).res = "ok" /\ Head(ops).step \in {"receipt", "lost"}
              /\ Told(Head(ops).control, Head(ops).status)
    PROVE  ControlInv'
<1>1. PICK x \in Op : /\ x = ops[1] /\ x = Head(ops) /\ OpInv(x) /\ x.control \in Controls
                      /\ x.attempt \in 1..MaxAttempts
  BY HeadIs
<1>2. /\ \A c : Asked(c)' = Asked(c) /\ Said(c)' = Said(c) /\ Verdicts(c)' = Verdicts(c)
      /\ LogInv' /\ unrecorded' = unrecorded /\ unrecorded' \in BOOLEAN
      /\ log' = log /\ saved' = saved /\ poisoned' = poisoned
  BY StoreStays
<1>3. ChainInv' /\ TailInv'
  BY <1>1, <1>2, HeadIdle, ChainStays DEF ControlInv
<1>4. CallersInv' /\ \A c \in Controls \ {x.control} : told'[c] = told[c]
  <2>1. CASE told' = told
    BY <1>2, <2>1, CallersKept DEF ControlInv
  <2>2. CASE x.res = "ok" /\ x.step \in {"receipt", "lost"} /\ Told(x.control, x.status)
    <3>1. x.status \in Settlements
      BY DEF Op
    <3>2. Asked(x.control) # {}
      BY <1>1, <2>2 DEF OpInv
    <3>3. ~ unrecorded => /\ Said(x.control) = {} => x.status = "lost"
                          /\ \A v \in Verdicts(x.control) : x.status = v
      BY <1>1, <2>2, OneVerdict DEF OpInv, ControlInv
    <3>4. CallersInv'
      BY <1>1, <1>2, <2>2, <3>1, <3>2, <3>3, CallersLearn DEF ControlInv
    <3>5. \A c \in Controls \ {x.control} : told'[c] = told[c]
      BY <2>2 DEF Told, ControlInv, CallersInv
    <3>. QED BY <3>4, <3>5
  <2>. QED BY <1>1, <2>1, <2>2
<1>5. QueueInv'
  BY <1>1, <1>2, <1>4, HeadLeaves DEF ControlInv
<1>. QED BY <1>2, <1>3, <1>4, <1>5 DEF ControlInv

\* The handler is called: once for a control, after its request is committed.
LEMMA DeliverKeeps ==
    ASSUME ControlInv, Deliver
    PROVE  ControlInv'
<1>1. /\ ops # <<>> /\ Head(ops).step = "requesting" /\ Head(ops).res = "ok"
      /\ HeadAt("handling", "lost", TRUE)
      /\ delivered' = [delivered EXCEPT ![Head(ops).control] = @ + 1]
      /\ UNCHANGED <<chain, main, active, told>> /\ UNCHANGED store
  BY DEF Deliver, AtHead
<1>2. PICK x \in Op : /\ x = ops[1] /\ x = Head(ops) /\ OpInv(x) /\ x.control \in Controls
                      /\ x.attempt \in 1..MaxAttempts
  BY <1>1, HeadIs
<1>3. HeadTo("handling", "lost") /\ "lost" \in Settlements
  BY <1>1 DEF HeadTo, Settlements
<1>4. PICK y \in Op : /\ ops' = [ops EXCEPT ![1] = y] /\ y.control = x.control
                      /\ y.step = "handling" /\ y.res = "none"
  BY <1>1, <1>2, <1>3, HeadBecomes DEF ControlInv
<1>5. /\ \A c : Asked(c)' = Asked(c) /\ Said(c)' = Said(c) /\ Verdicts(c)' = Verdicts(c)
      /\ LogInv' /\ unrecorded' = unrecorded /\ unrecorded' \in BOOLEAN
      /\ log' = log /\ saved' = saved /\ poisoned' = poisoned
  BY <1>1, StoreStays
<1>6. ChainInv' /\ TailInv'
  BY <1>1, <1>5, HeadIdle, ChainStays DEF ControlInv
<1>7. delivered[x.control] = 0 /\ Asked(x.control) # {} /\ told[x.control] = {} /\ Said(x.control) = {}
  BY <1>1, <1>2 DEF OpInv
<1>8. /\ delivered' \in [Controls -> Nat]
      /\ \A c \in Controls : delivered'[c] = IF c = x.control THEN 1 ELSE delivered[c]
  BY <1>1, <1>2, <1>7 DEF ControlInv, CallersInv
<1>9. CallersInv'
  BY <1>1, <1>5, <1>7, <1>8 DEF ControlInv, CallersInv
<1>10. OpInv(y)'
  BY <1>1, <1>4, <1>5, <1>7 DEF OpInv
<1>11. QueueInv'
  <2>1. active' \in BOOLEAN
    BY <1>1 DEF ControlInv, QueueInv
  <2>2. \A c \in Controls \ {y.control} : delivered'[c] = delivered[c] /\ told'[c] = told[c]
    BY <1>1, <1>4, <1>8
  <2>. QED BY <1>1, <1>2, <1>4, <1>5, <1>10, <2>1, <2>2, HeadMoves DEF ControlInv
<1>. QED BY <1>5, <1>6, <1>9, <1>11 DEF ControlInv

LEMMA OperationsKeep ==
    ASSUME ControlInv, Operate \/ Answer
    PROVE  ControlInv'
<1>1. {"accepted", "rejected", "lost"} = Settlements
  BY DEF Settlements
<1>2. CASE Request
  BY <1>2, HeadAsks DEF Request, AtHead, caller
<1>3. CASE Refuse
  BY <1>3, HeadAsks DEF Refuse, AtHead, caller
<1>4. CASE Timeout
  BY <1>1, <1>4, HeadAsks DEF Timeout, AtHead, caller
<1>5. CASE Answer
  <2>1. PICK status \in Settlements : HeadAppends("receipt", status, TRUE)
    BY <1>1, <1>5 DEF Answer
  <2>. QED BY <1>5, <2>1, HeadAsks DEF Answer, AtHead, caller
<1>6. CASE Untracked
  BY <1>6, HeadAsks DEF Untracked, AtHead, caller
<1>7. CASE ReceiptFails
  <2>1. CASE HeadAppends("lost", "lost", TRUE) /\ UNCHANGED told
    BY <1>7, <2>1, HeadAsks DEF ReceiptFails, AtHead
  <2>2. CASE HeadThrows /\ UNCHANGED chain
    BY <1>7, <2>2, HeadEnds DEF ReceiptFails, AtHead, HeadThrows
  <2>. QED BY <1>7, <2>1, <2>2 DEF ReceiptFails
<1>8. CASE RequestFails
  BY <1>8, HeadEnds DEF RequestFails, AtHead, HeadThrows
<1>9. CASE ReceiptSaved
  BY <1>9, HeadEnds DEF ReceiptSaved, AtHead, HeadReturns
<1>10. CASE LostSaved
  <2>1. ops # <<>> /\ Head(ops).status = "lost"
    <3>1. ops # <<>> /\ Head(ops).step = "lost"
      BY <1>10 DEF LostSaved, AtHead
    <3>. QED BY <3>1, HeadIs DEF OpInv
  <2>. QED BY <1>10, <2>1, HeadEnds DEF LostSaved, AtHead, HeadReturns
<1>11. CASE LostFails
  BY <1>11, HeadEnds DEF LostFails, AtHead, HeadThrows
<1>12. CASE Deliver
  BY <1>12, DeliverKeeps
<1>. QED BY <1>2, <1>3, <1>4, <1>5, <1>6, <1>7, <1>8, <1>9, <1>10, <1>11, <1>12 DEF Operate

-----------------------------------------------------------------------------
\* The event in memory that is not committed, if it is about a control no operation has, is
\* a mark of the execution.
LEMMA TailEvent ==
    ASSUME ControlInv, Len(log) = saved + 1, NEW c \in Controls, ~ InFlight(c),
           log[saved + 1].control = c, log[saved + 1].type \in Settlements \cup {"requested"}
    PROVE  log[saved + 1].type = "lost" /\ Said(c) = {} /\ main.step = "markSave"
<1>1. PICK h \in Entry : h = chain[1] /\ h.event = log[saved + 1] /\ 1 \in DOMAIN chain
  BY DEF ControlInv, TailInv, ChainInv
<1>2. /\ h.by = "worker" => h.event.type \in {"worker", "observer"}
      /\ h.by = "op" => OpAppend(h)
      /\ h.by = "main" => MainAppend(h)
      /\ h.by \in {"main", "op", "worker"}
  BY <1>1 DEF ControlInv, ChainInv, Entry
<1>3. h.by # "worker"
  BY <1>1, <1>2 DEF Settlements
<1>4. h.by # "op"
  <2>1. SUFFICES ASSUME OpAppend(h) PROVE FALSE
    BY <1>2
  <2>2. Head(ops).control = c /\ 1 \in DOMAIN ops /\ Head(ops) = ops[1]
    BY <1>1, <2>1 DEF OpAppend, ControlInv, QueueInv, Settlements
  <2>. QED BY <2>2 DEF InFlight
<1>5. MainAppend(h)
  BY <1>2, <1>3, <1>4
<1>. QED BY <1>1, <1>5 DEF MainAppend, Settlements

LEMMA AskedBefore ==
    ASSUME LogInv, NEW c \in Controls, NEW i \in Asked(c), NEW k \in Said(c)
    PROVE  i < k
BY DEF LogInv

\* What a caller finds of a control no operation has.
LEMMA CallerReads ==
    ASSUME ControlInv, NEW c \in Controls, ~ InFlight(c), NEW i \in Requests(View, c)
    PROVE  /\ i \in Asked(c) /\ View[i].attempt \in 1..MaxAttempts
           /\ Answers(View, i) = {} => Said(c) = {}
           /\ \A k \in Answers(View, i) : /\ View[k].type \in Settlements
                                          /\ \/ View[k].type \in Verdicts(c)
                                             \/ View[k].type = "lost" /\ Said(c) = {}
<1>1. /\ saved \in Nat /\ log \in Seq(Event) /\ Len(log) \in {saved, saved + 1} /\ LogInv
  BY DEF ControlInv, LogInv
<1>2. /\ View \in Seq(Event) /\ Len(View) \in {saved, saved + 1}
      /\ Len(View) = saved + 1 => Len(log) = saved + 1 /\ View[saved + 1] = log[saved + 1]
      /\ \A n \in 1..saved : View[n] = log[n]
  <2>1. CASE active
    BY <1>1, <2>1 DEF View
  <2>2. CASE ~ active
    BY <1>1, <2>2, CommittedLog DEF View
  <2>. QED BY <2>1, <2>2
<1>3. /\ 1..saved \subseteq DOMAIN View
      /\ \A n \in DOMAIN View : n \in 1..saved \/ (/\ n = saved + 1 /\ Len(log) = saved + 1
                                                 /\ View[n] = log[saved + 1])
  <2>1. PICK v \in Seq(Event), n \in Nat : v = View /\ n = saved /\ Len(v) \in {n, n + 1}
                                         /\ (Len(v) = n + 1 => Len(log) = n + 1 /\ v[n + 1] = log[n + 1])
    BY <1>1, <1>2
  <2>2. 1..n \subseteq DOMAIN v /\ \A m \in DOMAIN v : m \in 1..n \/ (m = n + 1 /\ Len(v) = n + 1)
    BY <2>1
  <2>. QED BY <2>1, <2>2
<1>4. i \in DOMAIN View /\ View[i].type = "requested" /\ View[i].control = c
  BY DEF Requests
<1>5. i \in 1..saved /\ i \in Asked(c) /\ View[i] = log[i]
  <2>1. CASE i \in 1..saved
    BY <1>2, <1>4, <2>1 DEF Asked
  <2>2. CASE i = saved + 1 /\ Len(log) = saved + 1 /\ View[i] = log[saved + 1]
    BY <1>4, <2>2, TailEvent
  <2>. QED BY <1>3, <1>4, <2>1, <2>2
<1>6. View[i].attempt \in 1..MaxAttempts
  <2>1. View[i] \in Event
    BY <1>2, <1>4
  <2>. QED BY <2>1 DEF Event
<1>7. ASSUME Answers(View, i) = {}, NEW k \in Said(c) PROVE FALSE
  <2>1. i < k
    BY <1>1, <1>5, AskedBefore
  <2>2. k \in 1..saved /\ log[k].type \in Settlements /\ log[k].control = c
    BY DEF Said
  <2>3. k \in DOMAIN View /\ View[k] = log[k]
    BY <1>2, <1>3, <2>2
  <2>. QED BY <1>4, <1>7, <2>1, <2>2, <2>3 DEF Answers
<1>8. ASSUME NEW k \in Answers(View, i)
      PROVE  /\ View[k].type \in Settlements
             /\ View[k].type \in Verdicts(c) \/ (View[k].type = "lost" /\ Said(c) = {})
  <2>1. k \in DOMAIN View /\ View[k].type \in Settlements /\ View[k].control = c
    BY <1>4 DEF Answers
  <2>2. CASE k \in 1..saved
    <3>1. View[k] = log[k] /\ k \in Said(c)
      BY <1>2, <2>1, <2>2 DEF Said
    <3>. QED BY <2>1, <3>1 DEF Verdicts
  <2>3. CASE k = saved + 1 /\ Len(log) = saved + 1 /\ View[k] = log[saved + 1]
    BY <2>1, <2>3, TailEvent
  <2>. QED BY <1>3, <2>1, <2>2, <2>3
<1>. QED BY <1>5, <1>6, <1>7, <1>8

LEMMA EntriesStay ==
    ASSUME ChainInv, TailInv, UNCHANGED <<log, saved, chain, poisoned>>,
           \A e \in Entry : (OpAppend(e) => OpAppend(e)') /\ (MainAppend(e) => MainAppend(e)')
    PROVE  ChainInv' /\ TailInv'
<1>1. TailInv'
  BY DEF TailInv
<1>2. ASSUME NEW n \in DOMAIN chain', NEW e \in Entry, e = chain'[n]
      PROVE  /\ e.by = "worker" => e.event.type \in {"worker", "observer"}
             /\ e.by = "op" => OpAppend(e)'
             /\ e.by = "main" => MainAppend(e)'
  BY <1>2 DEF ChainInv
<1>3. ChainInv'
  BY <1>2, ChainHolds DEF ChainInv
<1>. QED BY <1>1, <1>3

\* A caller is told of a settlement, or that there will be none but lost evidence.
LEMMA CallersToldKeep ==
    ASSUME ControlInv, NEW c \in Controls, ControlSettled(c) \/ ControlUnsettled(c)
    PROVE  ControlInv'
<1>1. /\ ~ InFlight(c) /\ UNCHANGED <<chain, main, active, ops, delivered>> /\ UNCHANGED store
  BY DEF ControlSettled, ControlUnsettled
<1>2. PICK s \in Settlements : /\ Told(c, s) /\ Asked(c) # {}
                               /\ s \in Verdicts(c) \/ (s = "lost" /\ Said(c) = {})
  <2>1. CASE ControlSettled(c)
    <3>1. PICK i \in Requests(View, c) : \E k \in Answers(View, i) : Told(c, View[k].type)
      BY <2>1 DEF ControlSettled
    <3>2. PICK k \in Answers(View, i) : Told(c, View[k].type)
      BY <3>1
    <3>. QED BY <1>1, <3>2, CallerReads
  <2>2. CASE ControlUnsettled(c)
    <3>1. PICK i \in Requests(View, c) : Answers(View, i) = {}
      BY <2>2 DEF ControlUnsettled
    <3>2. Told(c, "lost") /\ "lost" \in Settlements
      BY <2>2 DEF ControlUnsettled, Settlements
    <3>. QED BY <1>1, <3>1, <3>2, CallerReads
  <2>. QED BY <2>1, <2>2
<1>3. /\ \A d : Asked(d)' = Asked(d) /\ Said(d)' = Said(d) /\ Verdicts(d)' = Verdicts(d)
      /\ Attempt' = Attempt
      /\ LogInv' /\ unrecorded' = unrecorded /\ unrecorded' \in BOOLEAN
      /\ log' = log /\ saved' = saved /\ poisoned' = poisoned
  BY <1>1, StoreStays
<1>4. ~ unrecorded => /\ Said(c) = {} => s = "lost"
                      /\ \A v \in Verdicts(c) : s = v
  <2>1. CASE s \in Verdicts(c)
    BY <2>1, OneVerdict DEF ControlInv
  <2>2. CASE s = "lost" /\ Said(c) = {}
    BY <2>2 DEF Verdicts
  <2>. QED BY <1>2, <2>1, <2>2
<1>5. CallersInv'
  BY <1>1, <1>2, <1>3, <1>4, CallersLearn DEF ControlInv
<1>6. ChainInv' /\ TailInv'
  <2>1. SettledBy(Attempt, saved + 1) => SettledBy(Attempt, saved + 1)'
    BY <1>3 DEF SettledBy
  <2>2. \A e \in Entry : (OpAppend(e) => OpAppend(e)') /\ (MainAppend(e) => MainAppend(e)')
    BY <1>1, <1>3, <2>1, EntriesKept
  <2>. QED BY <1>1, <1>3, <2>2, EntriesStay DEF ControlInv
<1>7. ASSUME NEW n \in DOMAIN ops', NEW x \in Op, x = ops'[n] PROVE OpInv(x)'
  <2>1. x = ops[n] /\ n \in DOMAIN ops /\ OpInv(x)
    BY <1>1, <1>7 DEF ControlInv, QueueInv
  <2>2. x.control \in Controls /\ x.control # c
    BY <1>1, <2>1 DEF Op, InFlight
  <2>3. told'[x.control] = told[x.control] /\ delivered'[x.control] = delivered[x.control]
    BY <1>1, <1>2, <2>2 DEF Told, ControlInv, CallersInv
  <2>. QED BY <1>3, <2>1, <2>3, OpKept
<1>8. QueueInv'
  <2>1. ops' \in Seq(Op)
    BY <1>1 DEF ControlInv, QueueInv
  <2>2. (\A n \in DOMAIN ops : OpInv(ops[n]))'
    BY <1>7, <2>1, OpsHold
  <2>. QED BY <1>1, <2>2 DEF ControlInv, QueueInv
<1>. QED BY <1>3, <1>5, <1>6, <1>8 DEF ControlInv

LEMMA CallersQueue ==
    ASSUME ControlInv, NEW c \in Controls, NEW a \in 1..MaxAttempts, ControlNew(c, a) \/ ControlUntracked(c)
    PROVE  ControlInv'
<1>1. PICK b \in 1..MaxAttempts, step \in {"new", "untracked"} :
        /\ Queued(c, b, step) /\ ~ InFlight(c) /\ active /\ main.step = "run"
        /\ step = "new" => Asked(c) = {}
        /\ step = "untracked" => Asked(c) # {} /\ Said(c) = {}
  <2>1. CASE ControlNew(c, a)
    <3>1. active /\ Requests(View, c) = {} /\ Queued(c, a, "new") /\ ~ InFlight(c) /\ main.step = "run"
      BY <2>1 DEF ControlNew
    <3>2. Asked(c) = {}
      <4>1. DOMAIN log = 1..Len(log) /\ 1..saved \subseteq 1..Len(log)
        BY DEF ControlInv, LogInv
      <4>. QED BY <3>1, <4>1 DEF Asked, View, Requests
    <3>. QED BY <3>1, <3>2
  <2>2. CASE ControlUntracked(c)
    <3>1. PICK i \in Requests(View, c) :
            Answers(View, i) = {} /\ Tracked(i) /\ Queued(c, View[i].attempt, "untracked")
      BY <2>2 DEF ControlUntracked
    <3>2. ~ InFlight(c) /\ active /\ main.step = "run"
      BY <2>2, <3>1 DEF ControlUntracked, Tracked
    <3>3. View[i].attempt \in 1..MaxAttempts /\ Asked(c) # {} /\ Said(c) = {}
      BY <3>1, <3>2, CallerReads
    <3>. QED BY <3>1, <3>2, <3>3
  <2>. QED BY <2>1, <2>2
<1>2. /\ UNCHANGED <<chain, main, active, told, delivered>> /\ UNCHANGED store
  BY <1>1 DEF Queued, caller
<1>3. /\ \A d : Asked(d)' = Asked(d) /\ Said(d)' = Said(d) /\ Verdicts(d)' = Verdicts(d)
      /\ Attempt' = Attempt
      /\ LogInv' /\ unrecorded' = unrecorded /\ unrecorded' \in BOOLEAN
      /\ log' = log /\ saved' = saved /\ poisoned' = poisoned
  BY <1>2, StoreStays
<1>4. CallersInv'
  BY <1>2, <1>3, CallersKept DEF ControlInv
<1>5. PICK y \in Op : /\ ops' = Append(ops, y) /\ y.control = c /\ y.step = step /\ y.status = "lost"
                      /\ y.res = "none"
  <2> DEFINE r == [control |-> c, attempt |-> b, step |-> step, status |-> "lost",
                   called |-> FALSE, res |-> "none"]
  <2>1. r \in Op
    BY DEF Op, Settlements
  <2>2. ops' = Append(ops, r)
    BY <1>1 DEF Queued
  <2>. QED BY <2>1, <2>2
<1>6. step = "new" => Said(c) = {} /\ told[c] = {} /\ delivered[c] = 0
  BY <1>1 DEF ControlInv, LogInv, CallersInv
<1>7. OpInv(y)'
  BY <1>1, <1>2, <1>3, <1>5, <1>6 DEF OpInv
<1>8. QueueInv'
  BY <1>1, <1>2, <1>3, <1>5, <1>7, QueueGrows DEF ControlInv
<1>9. ChainInv' /\ TailInv'
  <2>1. ops # <<>> => ops' # <<>> /\ Head(ops') = Head(ops)
    BY <1>5 DEF ControlInv, QueueInv
  <2>2. ASSUME NEW e \in Entry, OpAppend(e) PROVE OpAppend(e)'
    <3>1. ops # <<>>
      BY <2>2 DEF OpAppend
    <3>. QED BY <1>3, <2>1, <2>2, <3>1 DEF OpAppend
  <2>3. \A e \in Entry : ~ MainAppend(e)
    BY <1>1 DEF MainAppend
  <2>. QED BY <1>2, <1>3, <2>2, <2>3, EntriesStay DEF ControlInv
<1>. QED BY <1>3, <1>4, <1>8, <1>9 DEF ControlInv

-----------------------------------------------------------------------------
\* The execution moves when no append of it or of an operation waits.
LEMMA AllWorkers ==
    ASSUME ControlInv, ops = <<>>, ~ (main.res = "none" /\ main.step \in {"markSave", "settling"})
    PROVE  \A n \in DOMAIN chain : chain[n].by = "worker"
<1>1. \A e \in Entry : ~ OpAppend(e) /\ ~ MainAppend(e)
  BY DEF OpAppend, MainAppend
<1>. QED BY <1>1, WorkersOnly DEF ControlInv

LEMMA QueueEmpty ==
    ASSUME ops = <<>>, ops' = ops, active' \in BOOLEAN, NEW step \in MainSteps, MainAt(step)
    PROVE  QueueInv'
<1>1. main' \in [step: MainSteps, res: {"none", "ok", "failed"}]
  BY DEF MainAt
<1>2. ops' \in Seq(Op) /\ DOMAIN ops' = {}
  OBVIOUS
<1>. QED BY <1>1, <1>2 DEF QueueInv

\* The execution moves on without an append.
LEMMA MainMoves ==
    ASSUME ControlInv, ops = <<>>, ~ (main.res = "none" /\ main.step \in {"markSave", "settling"}),
           NEW step \in MainSteps, MainAt(step), active' \in BOOLEAN,
           UNCHANGED <<chain, ops, told, delivered>>, UNCHANGED store
    PROVE  ControlInv'
<1>1. /\ \A c : Asked(c)' = Asked(c) /\ Said(c)' = Said(c) /\ Verdicts(c)' = Verdicts(c)
      /\ LogInv' /\ unrecorded' = unrecorded /\ unrecorded' \in BOOLEAN
      /\ log' = log /\ saved' = saved /\ poisoned' = poisoned
  BY StoreStays
<1>2. CallersInv' /\ QueueInv'
  BY <1>1, CallersKept, QueueEmpty DEF ControlInv
<1>3. ChainInv' /\ TailInv'
  BY <1>1, AllWorkers, ChainStays DEF ControlInv
<1>. QED BY <1>1, <1>2, <1>3 DEF ControlInv

\* The execution appends a mark or the end of the attempt.
LEMMA MainAppends ==
    ASSUME ControlInv, ops = <<>>, ~ (main.res = "none" /\ main.step \in {"markSave", "settling"}),
           NEW step \in {"markSave", "settling"}, MainAt(step), active' \in BOOLEAN,
           NEW e \in Event, chain' = Append(chain, [by |-> "main", event |-> e]),
           \/ /\ step = "markSave" /\ e.type = "lost" /\ e.control \in Controls
              /\ Asked(e.control) # {} /\ Said(e.control) = {}
           \/ /\ step = "settling" /\ e.type \in {"next", "terminal"}
              /\ e.attempt = Attempt /\ SettledBy(Attempt, saved + 1)
              /\ e.type = "next" => Attempt < MaxAttempts,
           UNCHANGED <<ops, told, delivered>>, UNCHANGED store
    PROVE  ControlInv'
<1>1. /\ \A c : Asked(c)' = Asked(c) /\ Said(c)' = Said(c) /\ Verdicts(c)' = Verdicts(c)
      /\ Attempt' = Attempt
      /\ LogInv' /\ unrecorded' = unrecorded /\ unrecorded' \in BOOLEAN
      /\ log' = log /\ saved' = saved /\ poisoned' = poisoned
  BY StoreStays
<1>2. CallersInv' /\ QueueInv'
  BY <1>1, CallersKept, QueueEmpty DEF ControlInv, MainSteps
<1>3. PICK z \in Entry : chain' = Append(chain, z) /\ z.by = "main" /\ z.event = e
  <2>1. [by |-> "main", event |-> e] \in Entry
    BY DEF Entry
  <2>. QED BY <2>1
<1>4. MainAppend(z)'
  <2>1. main'.res = "none" /\ main'.step = step
    BY DEF MainAt
  <2>2. SettledBy(Attempt, saved + 1) => SettledBy(Attempt, saved + 1)'
    BY <1>1 DEF SettledBy
  <2>. QED BY <1>1, <1>3, <2>1, <2>2 DEF MainAppend
<1>5. ChainInv' /\ TailInv'
  BY <1>1, <1>3, <1>4, AllWorkers, ChainGrows DEF ControlInv
<1>. QED BY <1>1, <1>2, <1>5 DEF ControlInv

\* While only the adapter's appends are in the chain, a request without a settlement in the
\* log in memory is committed, and has no committed one.
LEMMA PendingIs ==
    ASSUME ControlInv, \A n \in DOMAIN chain : chain[n].by = "worker"
    PROVE  /\ \A i \in Pending : log[i].control \in Controls /\ Asked(log[i].control) # {}
                                 /\ Said(log[i].control) = {}
           /\ Pending = {} => SettledBy(Attempt, saved + 1)
<1>1. /\ saved \in Nat /\ log \in Seq(Event) /\ Len(log) \in {saved, saved + 1} /\ LogInv
  BY DEF ControlInv, LogInv
<1>2. \A n \in DOMAIN log : n \in 1..saved \/ log[n].type \in {"worker", "observer"}
  <2>1. CASE Len(log) = saved + 1
    <3>1. 1 \in DOMAIN chain /\ chain[1].event = log[saved + 1]
      BY <2>1 DEF ControlInv, TailInv, ChainInv
    <3>2. log[saved + 1].type \in {"worker", "observer"}
      BY <3>1 DEF ControlInv, ChainInv
    <3>. QED BY <1>1, <2>1, <3>2
  <2>2. CASE Len(log) = saved
    BY <1>1, <2>2
  <2>. QED BY <1>1, <2>1, <2>2
<1>3. 1..saved \subseteq DOMAIN log
  BY <1>1
<1>4. ASSUME NEW i \in Pending
      PROVE  /\ log[i].control \in Controls /\ Asked(log[i].control) # {}
             /\ Said(log[i].control) = {}
  <2>1. i \in DOMAIN log /\ log[i].type = "requested" /\ Answers(log, i) = {}
    BY DEF Pending
  <2>2. i \in 1..saved
    BY <1>2, <2>1
  <2>3. PICK c \in Controls : c = log[i].control
    BY <1>1, <2>1, <2>2 DEF LogInv
  <2>4. i \in Asked(c)
    BY <2>1, <2>2, <2>3 DEF Asked
  <2>5. ASSUME NEW k \in Said(c) PROVE FALSE
    <3>1. i < k
      BY <1>1, <2>4, AskedBefore
    <3>. QED BY <1>3, <2>1, <2>3, <3>1 DEF Said, Answers
  <2>. QED BY <2>3, <2>4, <2>5
<1>5. ASSUME Pending = {} PROVE SettledBy(Attempt, saved + 1)
  <2>1. SUFFICES ASSUME NEW n \in 1..saved, log[n].type = "requested", log[n].attempt = Attempt
                 PROVE  \E k \in Said(log[n].control) : n < k /\ k < saved + 1
    BY DEF SettledBy
  <2>2. PICK k \in Answers(log, n) : TRUE
    BY <1>3, <1>5, <2>1 DEF Pending
  <2>3. k \in DOMAIN log /\ k > n /\ log[k].type \in Settlements /\ log[k].control = log[n].control
    BY DEF Answers
  <2>4. k \in 1..saved
    BY <1>2, <2>3 DEF Settlements
  <2>. QED BY <1>1, <2>3, <2>4 DEF Said
<1>. QED BY <1>4, <1>5

LEMMA ExecutionKeeps ==
    ASSUME ControlInv, Execute
    PROVE  ControlInv'
<1>1. /\ main.step \notin {"run", "closing"} => ops = <<>>
      /\ main.step \in MainSteps /\ main.res \in {"none", "ok", "failed"} /\ active \in BOOLEAN
  BY DEF ControlInv, QueueInv
<1>2. {"gap", "run", "closing", "markSave", "settling", "stopped", "done"} = MainSteps
  BY DEF MainSteps
<1>3. CASE BeginAttempt
  <2>1. /\ main.step = "gap" /\ MainAt("run") /\ active' = TRUE
        /\ UNCHANGED <<chain, ops, told, delivered>> /\ UNCHANGED store
    BY <1>3 DEF BeginAttempt, caller
  <2>. QED BY <1>1, <1>2, <2>1, MainMoves
<1>4. CASE MarkLost
  <2>1. /\ main.step = "closing" /\ ops = <<>> /\ MainAt("markSave")
        /\ UNCHANGED <<active, ops, told, delivered>> /\ UNCHANGED store
    BY <1>4 DEF MarkLost, Drained, caller
  <2>2. PICK i \in Pending : Appended("main", "lost", log[i].control, Attempt)
    BY <1>4 DEF MarkLost
  <2>3. log[i].control \in Controls /\ Asked(log[i].control) # {} /\ Said(log[i].control) = {}
    BY <2>1, AllWorkers, PendingIs
  <2>4. Attempt \in 1..MaxAttempts
    BY DEF ControlInv, LogInv
  <2>5. PICK e \in Event : e = [type |-> "lost", control |-> log[i].control, attempt |-> Attempt]
    BY <2>3, <2>4 DEF Event, Settlements
  <2>6. chain' = Append(chain, [by |-> "main", event |-> e]) /\ e.type = "lost"
        /\ e.control = log[i].control /\ active' \in BOOLEAN
    BY <1>1, <2>1, <2>2, <2>5 DEF Appended
  <2>. QED BY <2>1, <2>3, <2>6, MainAppends
<1>5. CASE Marked
  <2>1. /\ main.step = "markSave" /\ main.res # "none" /\ active' = (active /\ main.res = "ok")
        /\ UNCHANGED <<chain, ops, told, delivered>> /\ UNCHANGED store
    BY <1>5 DEF Marked, caller
  <2>2. MainAt("closing") \/ MainAt("stopped")
    BY <1>5 DEF Marked, MainAt
  <2>3. active' \in BOOLEAN
    BY <2>1
  <2>. QED BY <1>1, <1>2, <2>1, <2>2, <2>3, MainMoves
<1>6. CASE EndAttempt
  <2>1. /\ main.step = "closing" /\ ops = <<>> /\ MainAt("settling") /\ Pending = {} /\ active' = FALSE
        /\ UNCHANGED <<ops, told, delivered>> /\ UNCHANGED store
    BY <1>6 DEF EndAttempt, Drained, caller
  <2>2. SettledBy(Attempt, saved + 1)
    BY <2>1, AllWorkers, PendingIs
  <2>3. Attempt \in 1..MaxAttempts
    BY DEF ControlInv, LogInv
  <2>4. PICK type \in {"next", "terminal"} : /\ Appended("main", type, NoControl, Attempt)
                                             /\ type = "next" => Attempt < MaxAttempts
    BY <1>6 DEF EndAttempt, EndAppended
  <2>5. PICK e \in Event : e = [type |-> type, control |-> NoControl, attempt |-> Attempt]
    BY <2>3 DEF Event
  <2>6. chain' = Append(chain, [by |-> "main", event |-> e]) /\ e.type = type /\ e.attempt = Attempt
        /\ active' \in BOOLEAN
    BY <2>1, <2>4, <2>5 DEF Appended
  <2>. QED BY <2>1, <2>2, <2>4, <2>6, MainAppends
<1>7. CASE AttemptEnded
  <2>1. /\ main.step = "settling" /\ main.res # "none"
        /\ UNCHANGED <<chain, ops, active, told, delivered>> /\ UNCHANGED store
    BY <1>7 DEF AttemptEnded, caller
  <2>2. MainAt("stopped") \/ MainAt("done") \/ MainAt("gap")
    BY <1>1, <1>7, <2>1 DEF AttemptEnded, MainAt
  <2>. QED BY <1>1, <1>2, <2>1, <2>2, MainMoves
<1>8. CASE Recover
  <2>1. /\ main.step = "stopped" /\ UNCHANGED <<chain, ops, active, told, delivered>> /\ UNCHANGED store
    BY <1>8 DEF Recover, caller
  <2>2. MainAt("done") \/ MainAt("closing")
    BY <1>8 DEF Recover, MainAt
  <2>. QED BY <1>1, <1>2, <2>1, <2>2, MainMoves
<1>. QED BY <1>3, <1>4, <1>5, <1>6, <1>7, <1>8 DEF Execute

LEMMA WorkerEmitKeeps ==
    ASSUME ControlInv, WorkerEmit
    PROVE  ControlInv'
<1>1. /\ UNCHANGED <<main, active, ops, told, delivered>> /\ UNCHANGED store
      /\ Appended("worker", "worker", NoControl, Attempt)
  BY DEF WorkerEmit, caller
<1>2. /\ \A c : Asked(c)' = Asked(c) /\ Said(c)' = Said(c) /\ Verdicts(c)' = Verdicts(c)
      /\ LogInv' /\ unrecorded' = unrecorded /\ unrecorded' \in BOOLEAN
      /\ log' = log /\ saved' = saved /\ poisoned' = poisoned
  BY <1>1, StoreStays
<1>3. CallersInv'
  BY <1>1, <1>2, CallersKept DEF ControlInv
<1>4. QueueInv'
  <2>1. main' \in [step: MainSteps, res: {"none", "ok", "failed"}]
        /\ (main'.step \in {"run", "closing"} \/ ops = <<>>)
    BY <1>1 DEF ControlInv, QueueInv
  <2>. QED BY <1>1, <1>2, <2>1, QueueStays DEF ControlInv
<1>5. PICK z \in Entry : chain' = Append(chain, z) /\ z.by = "worker" /\ z.event.type = "worker"
  <2>1. Attempt \in 1..MaxAttempts
    BY DEF ControlInv, LogInv
  <2>2. PICK e \in Event : e = [type |-> "worker", control |-> NoControl, attempt |-> Attempt]
                           /\ e.type = "worker"
    <3>1. [type |-> "worker", control |-> NoControl, attempt |-> Attempt] \in Event
      BY <2>1 DEF Event
    <3>. QED BY <3>1
  <2>3. [by |-> "worker", event |-> e] \in Entry
    BY DEF Entry
  <2>. QED BY <1>1, <2>2, <2>3 DEF Appended
<1>6. ChainInv' /\ TailInv'
  BY <1>1, <1>2, <1>5, ChainGrows DEF ControlInv
<1>. QED BY <1>2, <1>3, <1>4, <1>6 DEF ControlInv

LEMMA CloseKeeps ==
    ASSUME ControlInv, Close
    PROVE  ControlInv'
<1>1. /\ main.step = "run" /\ MainAt("closing")
      /\ UNCHANGED <<chain, active, ops, told, delivered>> /\ UNCHANGED store
  BY DEF Close, caller
<1>2. /\ \A c : Asked(c)' = Asked(c) /\ Said(c)' = Said(c) /\ Verdicts(c)' = Verdicts(c)
      /\ LogInv' /\ unrecorded' = unrecorded /\ unrecorded' \in BOOLEAN
      /\ log' = log /\ saved' = saved /\ poisoned' = poisoned
  BY <1>1, StoreStays
<1>3. CallersInv'
  BY <1>1, <1>2, CallersKept DEF ControlInv
<1>4. QueueInv'
  <2>1. main' \in [step: MainSteps, res: {"none", "ok", "failed"}] /\ main'.step \in {"run", "closing"}
    BY <1>1 DEF MainAt, MainSteps
  <2>. QED BY <1>1, <1>2, <2>1, QueueStays DEF ControlInv
<1>5. ChainInv' /\ TailInv'
  <2>1. ASSUME NEW e \in Entry, OpAppend(e) PROVE OpAppend(e)'
    BY <1>1, <1>2, <2>1 DEF OpAppend
  <2>2. \A e \in Entry : ~ MainAppend(e)
    BY <1>1 DEF MainAppend
  <2>. QED BY <1>1, <1>2, <2>1, <2>2, EntriesStay DEF ControlInv
<1>. QED BY <1>2, <1>3, <1>4, <1>5 DEF ControlInv

LEMMA CrashKeeps ==
    ASSUME ControlInv, Crash
    PROVE  ControlInv'
<1>1. /\ log' = Committed /\ chain' = <<>> /\ poisoned' = FALSE /\ MainAt("stopped") /\ active' = FALSE
      /\ ops' = <<>> /\ UNCHANGED <<saved, unrecorded, delivered, told>>
  BY DEF Crash
<1>2. /\ Committed \in Seq(Event) /\ Len(Committed) = saved /\ saved \in Nat /\ unrecorded \in BOOLEAN
      /\ \A i \in 1..saved : Committed[i] = log[i]
  BY CommittedLog DEF ControlInv, LogInv, CallersInv
<1>3. LogInv'
  BY <1>1, <1>2, LogKept DEF ControlInv
<1>4. CallersInv'
  <2>1. \A c : Asked(c)' = Asked(c) /\ Said(c)' = Said(c) /\ Verdicts(c)' = Verdicts(c)
    BY <1>1, <1>2, RecordKept
  <2>. QED BY <1>1, <1>2, <2>1, CallersKept DEF ControlInv
<1>5. TailInv'
  BY <1>1, <1>2 DEF TailInv
<1>6. ChainInv'
  <2>1. chain' \in Seq(Entry) /\ DOMAIN chain' = {}
    BY <1>1
  <2>. QED BY <1>1, <2>1, ChainHolds
<1>7. QueueInv'
  <2>1. main' \in [step: MainSteps, res: {"none", "ok", "failed"}]
    BY <1>1 DEF MainAt, MainSteps
  <2>2. ops' \in Seq(Op) /\ DOMAIN ops' = {}
    BY <1>1
  <2>. QED BY <1>1, <2>1, <2>2 DEF QueueInv
<1>. QED BY <1>3, <1>4, <1>5, <1>6, <1>7 DEF ControlInv

LEMMA ControlBegins == Init => ControlInv /\ FaultsInv
<1>1. SUFFICES ASSUME Init PROVE ControlInv /\ FaultsInv
  OBVIOUS
<1>2. /\ log = <<>> /\ saved = 0 /\ chain = <<>> /\ poisoned = FALSE /\ active = FALSE
      /\ main = [step |-> "gap", res |-> "none"] /\ ops = <<>> /\ unrecorded = FALSE /\ faults = {}
      /\ delivered = [c \in Controls |-> 0] /\ told = [c \in Controls |-> {}]
  BY <1>1 DEF Init
<1>3. 1..saved = {} /\ \A c : Asked(c) = {} /\ Said(c) = {}
  BY <1>2 DEF Asked, Said
<1>4. Attempt = 1
  <2>1. {i \in 1..saved : log[i].type = "next"} = {}
    BY <1>3
  <2>. QED BY <2>1, FS_EmptySet DEF Attempt
<1>5. LogInv /\ TailInv
  BY <1>2, <1>3, <1>4, BoundsAssumption DEF LogInv, TailInv
<1>6. ChainInv
  <2>1. chain \in Seq(Entry) /\ DOMAIN chain = {}
    BY <1>2
  <2>. QED BY <1>2, <2>1 DEF ChainInv
<1>7. QueueInv
  <2>1. ops \in Seq(Op) /\ DOMAIN ops = {}
    BY <1>2
  <2>. QED BY <1>2, <2>1 DEF QueueInv, MainSteps
<1>8. CallersInv
  BY <1>2 DEF CallersInv
<1>9. FaultsInv
  BY <1>2, FS_EmptySet, BoundsAssumption DEF FaultsInv
<1>. QED BY <1>5, <1>6, <1>7, <1>8, <1>9 DEF ControlInv

LEMMA FaultsBounded ==
    ASSUME ControlInv, FaultsInv, NEW kind \in {"save", "observer", "crash"}, Fault(kind)
    PROVE  FaultsInv'
<1>1. Emitted \in Nat
  <2>1. PICK n \in Nat, m \in Nat : DOMAIN log = 1..n /\ DOMAIN chain = 1..m
    BY DEF ControlInv, LogInv, ChainInv
  <2>2. /\ IsFiniteSet({i \in DOMAIN log : log[i].type = "worker"})
        /\ IsFiniteSet({k \in DOMAIN chain : chain[k].by = "worker"})
    <3>1. /\ {i \in DOMAIN log : log[i].type = "worker"} \subseteq 1..n
          /\ {k \in DOMAIN chain : chain[k].by = "worker"} \subseteq 1..m
      BY <2>1
    <3>. QED BY <3>1, FiniteParts
  <2>. QED BY <2>2, FS_CardinalityType DEF Emitted
<1>2. IsFiniteSet(faults)
  <2>1. IsFiniteSet({"save", "observer", "crash"})
    <3>1. /\ {"save", "observer"} = {"save"} \cup {"observer"}
          /\ {"save", "observer", "crash"} = {"save", "observer"} \cup {"crash"}
      OBVIOUS
    <3>2. IsFiniteSet({"save"})
      BY FS_Singleton
    <3>3. IsFiniteSet({"save", "observer"})
      BY <3>1, <3>2, FS_AddElement
    <3>. QED BY <3>1, <3>3, FS_AddElement
  <2>. QED BY <2>1, FS_Subset DEF FaultsInv
<1>3. Cardinality(faults') = Cardinality(faults) + 1 /\ Cardinality(faults) \in Nat
  BY <1>2, FS_AddElement, FS_CardinalityType DEF Fault
<1>. QED BY <1>1, <1>3, BoundsAssumption DEF Fault, FaultsInv

LEMMA ControlStep ==
    ASSUME ControlInv, FaultsInv, [Next]_vars
    PROVE  ControlInv' /\ FaultsInv'
<1>1. CASE UNCHANGED vars
  <2>1. /\ UNCHANGED <<chain, main, active, ops, told, delivered, faults>> /\ UNCHANGED store
    BY <1>1 DEF vars, store
  <2>2. ControlInv'
    <3>1. /\ \A c : Asked(c)' = Asked(c) /\ Said(c)' = Said(c) /\ Verdicts(c)' = Verdicts(c)
          /\ Attempt' = Attempt
          /\ LogInv' /\ unrecorded' = unrecorded /\ unrecorded' \in BOOLEAN
          /\ log' = log /\ saved' = saved /\ poisoned' = poisoned
      BY <2>1, StoreStays
    <3>2. CallersInv'
      BY <2>1, <3>1, CallersKept DEF ControlInv
    <3>3. QueueInv'
      <4>1. main' \in [step: MainSteps, res: {"none", "ok", "failed"}]
            /\ (main'.step \in {"run", "closing"} \/ ops = <<>>)
        BY <2>1 DEF ControlInv, QueueInv
      <4>. QED BY <2>1, <3>1, <4>1, QueueStays DEF ControlInv
    <3>4. ChainInv' /\ TailInv'
      <4>1. SettledBy(Attempt, saved + 1) => SettledBy(Attempt, saved + 1)'
        BY <3>1 DEF SettledBy
      <4>2. \A e \in Entry : (OpAppend(e) => OpAppend(e)') /\ (MainAppend(e) => MainAppend(e)')
        BY <2>1, <3>1, <4>1, EntriesKept
      <4>. QED BY <2>1, <3>1, <4>2, EntriesStay DEF ControlInv
    <3>. QED BY <3>1, <3>2, <3>3, <3>4 DEF ControlInv
  <2>. QED BY <2>1, <2>2 DEF FaultsInv
<1>2. CASE Push
  BY <1>2, PushKeeps DEF Push, FaultsInv
<1>3. CASE Commit
  BY <1>3, CommitKeeps DEF Commit, FaultsInv
<1>4. CASE CommitObserverThrows
  BY <1>4, ObserverThrowsKeeps, FaultsBounded DEF CommitObserverThrows
<1>5. CASE Fail
  BY <1>5, RejectionsKeep, FaultsBounded DEF Fail
<1>6. CASE Reject
  BY <1>6, RejectionsKeep DEF Reject, FaultsInv
<1>7. ASSUME NEW c \in Controls,
             (\E a \in 1..MaxAttempts : ControlNew(c, a)) \/ ControlUntracked(c)
      PROVE  ControlInv' /\ FaultsInv'
  <2>1. 1 \in 1..MaxAttempts
    BY BoundsAssumption
  <2>2. PICK a \in 1..MaxAttempts : ControlNew(c, a) \/ ControlUntracked(c)
    BY <1>7, <2>1
  <2>3. UNCHANGED faults
    BY <2>2 DEF ControlNew, ControlUntracked, Queued, store
  <2>. QED BY <2>2, <2>3, CallersQueue DEF FaultsInv
<1>8. ASSUME NEW c \in Controls, ControlSettled(c) \/ ControlUnsettled(c)
      PROVE  ControlInv' /\ FaultsInv'
  <2>1. UNCHANGED faults
    BY <1>8 DEF ControlSettled, ControlUnsettled, store
  <2>. QED BY <1>8, <2>1, CallersToldKeep DEF FaultsInv
<1>9. CASE Operate \/ Answer
  <2>1. UNCHANGED faults
    BY <1>9 DEF Operate, Answer, Request, RequestFails, Refuse, Deliver, Timeout, ReceiptSaved,
                ReceiptFails, Untracked, LostSaved, LostFails, store
  <2>. QED BY <1>9, <2>1, OperationsKeep DEF FaultsInv
<1>10. CASE Execute
  <2>1. UNCHANGED faults
    BY <1>10 DEF Execute, BeginAttempt, MarkLost, Marked, EndAttempt, AttemptEnded, Recover, store
  <2>. QED BY <1>10, <2>1, ExecutionKeeps DEF FaultsInv
<1>11. CASE WorkerEmit
  BY <1>11, WorkerEmitKeeps DEF WorkerEmit, store, FaultsInv
<1>12. CASE Close
  BY <1>12, CloseKeeps DEF Close, store, FaultsInv
<1>13. CASE Crash
  BY <1>13, CrashKeeps, FaultsBounded DEF Crash
<1>. QED BY <1>1, <1>2, <1>3, <1>4, <1>5, <1>6, <1>7, <1>8, <1>9, <1>10, <1>11, <1>12, <1>13 DEF Next

LEMMA TypesHold == ControlInv /\ FaultsInv => TypeOK
<1>1. SUFFICES ASSUME ControlInv, FaultsInv PROVE TypeOK
  OBVIOUS
<1>2. \A n \in DOMAIN chain : chain[n].by \in {"main", "op", "worker"} /\ chain[n].event \in Event
  <2>1. SUFFICES ASSUME NEW n \in DOMAIN chain
                 PROVE  chain[n].by \in {"main", "op", "worker"} /\ chain[n].event \in Event
    OBVIOUS
  <2>2. PICK e \in Entry : e = chain[n]
    BY <1>1 DEF ControlInv, ChainInv
  <2>. QED BY <2>2 DEF Entry
<1>. QED BY <1>1, <1>2 DEF TypeOK, ControlInv, LogInv, ChainInv, QueueInv, CallersInv, FaultsInv

\* The committed record, read as callers do.
LEMMA CommittedReads ==
    ASSUME LogInv, NEW c
    PROVE  /\ Requests(Committed, c) = Asked(c)
           /\ \A i \in Asked(c) : \A k \in Answers(Committed, i) :
                k \in Said(c) /\ log[k].type \in Verdicts(c)
<1>1. /\ DOMAIN Committed = 1..saved /\ \A i \in 1..saved : Committed[i] = log[i]
  BY CommittedLog DEF LogInv
<1>2. Requests(Committed, c) = Asked(c)
  BY <1>1 DEF Requests, Asked
<1>3. ASSUME NEW i \in Asked(c), NEW k \in Answers(Committed, i)
      PROVE  k \in Said(c) /\ log[k].type \in Verdicts(c)
  BY <1>1, <1>3 DEF Answers, Asked, Said, Verdicts
<1>. QED BY <1>2, <1>3

\* For any controls, attempts and faults: a control reaches the handler at most once, and only
\* after its request is committed.
LEMMA DeliveredOnceHolds == ControlInv /\ FaultsInv => DeliveredOnce
<1>1. SUFFICES ASSUME ControlInv, FaultsInv PROVE DeliveredOnce
  OBVIOUS
<1>2. ASSUME NEW c \in Controls, delivered[c] > 0
      PROVE  delivered[c] = 1 /\ Requests(Committed, c) # {}
  BY <1>1, <1>2, CommittedReads DEF ControlInv, CallersInv
<1>. QED BY <1>1, <1>2, TypesHold DEF DeliveredOnce

LEMMA FenceHolds == ControlInv => FencedByEvidence
<1>1. SUFFICES ASSUME ControlInv, NEW i \in 1..saved, Ends(i), NEW n \in 1..i,
                      log[n].type = "requested", log[n].attempt = log[i].attempt
               PROVE  \E k \in Answers(log, n) : k < i
  BY DEF FencedByEvidence
<1>2. saved \in Nat /\ n < i /\ n \in 1..saved /\ 1..saved \subseteq DOMAIN log
  <2>1. n # i
    BY <1>1 DEF Ends
  <2>. QED BY <1>1, <2>1 DEF ControlInv, LogInv
<1>3. SettledBy(log[i].attempt, i)
  BY <1>1 DEF ControlInv, LogInv
<1>4. PICK k \in Said(log[n].control) : n < k /\ k < i
  BY <1>1, <1>2, <1>3 DEF SettledBy
<1>. QED BY <1>2, <1>4 DEF Answers, Said

LEMMA AtMostOne ==
    ASSUME NEW S, \A i, j \in S : i = j
    PROVE  Cardinality(S) <= 1
<1>1. CASE S = {}
  BY <1>1, FS_EmptySet
<1>2. CASE S # {}
  <2>1. PICK i \in S : S = {i}
    BY <1>2
  <2>2. Cardinality({i}) = 1
    BY FS_Singleton
  <2>. QED BY <2>1, <2>2
<1>. QED BY <1>1, <1>2

LEMMA SettledOnceHolds == ControlInv /\ ~ unrecorded => SettledOnce
<1>1. SUFFICES ASSUME ControlInv, ~ unrecorded, NEW c \in Controls
               PROVE  /\ Cardinality(Requests(log, c)) <= 1
                      /\ \A k \in DOMAIN log : log[k].type \in Settlements /\ log[k].control = c =>
                           \E i \in Requests(log, c) : Answers(log, i) = {k}
  BY DEF SettledOnce
<1>2. /\ saved \in Nat /\ LogInv /\ 1..saved \subseteq DOMAIN log
      /\ \A n \in DOMAIN log : n \in 1..saved \/ (n = saved + 1 /\ Len(log) = saved + 1)
  <2>1. LogInv /\ saved \in Nat /\ log \in Seq(Event) /\ Len(log) \in {saved, saved + 1}
    BY <1>1 DEF ControlInv, LogInv
  <2>2. PICK v \in Seq(Event), m \in Nat : v = log /\ m = saved /\ Len(v) \in {m, m + 1}
    BY <2>1
  <2>3. 1..m \subseteq DOMAIN v /\ \A n \in DOMAIN v : n \in 1..m \/ (n = m + 1 /\ Len(v) = m + 1)
    BY <2>2
  <2>. QED BY <2>1, <2>2, <2>3
<1>3. Len(log) = saved + 1 => Fits(log[saved + 1])
  BY <1>1, HeadFits DEF ControlInv, TailInv
<1>4. /\ \A i, j \in Asked(c) : i = j
      /\ \A k, l \in Said(c) : k = l
      /\ \A k \in Said(c) : \E i \in Asked(c) : i < k
  BY <1>1 DEF ControlInv, LogInv
<1>5. \A i \in Requests(log, c) :
        i \in Asked(c) \/ (i = saved + 1 /\ Asked(c) = {})
  BY <1>2, <1>3 DEF Requests, Asked, Fits
<1>6. Cardinality(Requests(log, c)) <= 1
  BY <1>4, <1>5, AtMostOne
<1>7. \A k \in DOMAIN log : log[k].type \in Settlements /\ log[k].control = c =>
        k \in Said(c) \/ (k = saved + 1 /\ Said(c) = {} /\ Asked(c) # {})
  BY <1>1, <1>2, <1>3 DEF Said, Fits
<1>8. ASSUME NEW k \in DOMAIN log, log[k].type \in Settlements, log[k].control = c
      PROVE  \E i \in Requests(log, c) : Answers(log, i) = {k}
  <2>1. PICK i \in Asked(c) : i < k /\ i \in 1..saved
    <3>1. CASE k \in Said(c)
      BY <1>4, <3>1 DEF Asked
    <3>2. CASE k = saved + 1 /\ Asked(c) # {}
      BY <1>2, <3>2 DEF Asked
    <3>. QED BY <1>7, <1>8, <3>1, <3>2
  <2>2. i \in Requests(log, c) /\ log[i].control = c
    BY <1>2 DEF Asked, Requests
  <2>3. k \in Answers(log, i)
    BY <1>2, <1>8, <2>1, <2>2 DEF Answers
  <2>4. ASSUME NEW l \in Answers(log, i) PROVE l = k
    <3>1. l \in DOMAIN log /\ log[l].type \in Settlements /\ log[l].control = c
      BY <2>2 DEF Answers
    <3>. QED BY <1>4, <1>7, <1>8, <3>1
  <2>. QED BY <2>2, <2>3, <2>4
<1>. QED BY <1>6, <1>8

LEMMA ReceiptsHold == ControlInv => ReceiptsAgree
<1>1. SUFFICES ASSUME ControlInv, ~ unrecorded, NEW c \in Controls, NEW status \in told[c],
                      NEW i \in Requests(Committed, c), NEW k \in Answers(Committed, i)
               PROVE  log[k].type = status
  BY SettledOnceHolds DEF ReceiptsAgree
<1>2. log[k].type \in Verdicts(c)
  BY <1>1, CommittedReads DEF ControlInv
<1>. QED BY <1>1, <1>2 DEF ControlInv, CallersInv

\* For any controls, attempts and faults, the inductive invariant of the live controls.
THEOREM ControlInvariant == Spec => [](ControlInv /\ FaultsInv)
<1>1. Init => ControlInv /\ FaultsInv
  BY ControlBegins
<1>2. (ControlInv /\ FaultsInv) /\ [Next]_vars => (ControlInv /\ FaultsInv)'
  BY ControlStep
<1>. QED BY <1>1, <1>2, PTL DEF Spec

\* A control reaches the handler of the adapter at most once, and only after its request is
\* committed.
THEOREM HandlersCalledOnce == Spec => []DeliveredOnce
BY ControlInvariant, DeliveredOnceHolds, PTL

\* No attempt ends before every control requested of it has its settlement on record.
THEOREM AttemptsFenced == Spec => []FencedByEvidence
BY ControlInvariant, FenceHolds, PTL

\* Callers are told what the record says of a control, now or later, unless the failure of an
\* observer could not be saved.
THEOREM CallersToldTruly == Spec => []ReceiptsAgree
BY ControlInvariant, ReceiptsHold, PTL
=============================================================================
