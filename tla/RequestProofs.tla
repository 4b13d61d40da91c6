---------------------------- MODULE RequestProofs ----------------------------
(***************************************************************************)
(* Proofs about RequestHandling, for any number of requests and responses  *)
(* of any length: a translated response that failed never looks like one   *)
(* that did not, and a fault that is not the client's doing is logged as   *)
(* an error.                                                               *)
(***************************************************************************)
EXTENDS RequestHandling, TLAPS

USE RequestAssumption

Levels == {"info", "warn", "error"}
Statuses == {"2xx", "4xx", "5xx"}
Faults == {"refused", "broken", "unreadable", "timeout", "canceled"}

Pcs == {"none", "received", "calling", "explaining", "collecting", "copying", "done", "cut"}
Upstreams == {"none", "asked", "replied", "ended"}
Tails == {"none", "complete", "cut", "errorEvent"}

\* What is known of a request.
Known ==
  [pc : Pcs, kind : Kinds, client : {"waiting", "gone"}, canceled : BOOLEAN,
   upstream : Upstreams, answer : Statuses, parts : Nat,
   fault : Faults \cup {"none"}, status : Statuses \cup {"none"}, sent : Nat,
   tail : Tails, logged : SUBSET Levels]

\* A client that waits cancels nothing.
CancelsItself(q) == q.client = "waiting" => ~q.canceled /\ q.fault # "canceled"

\* How far the upstream is at each step of the handler: a reply that has ended is one
\* that was read without a fault, and before it is asked nothing can go wrong with it.
InStep(q) ==
  /\ q.upstream = "ended" => q.fault = "none"
  /\ q.pc \in {"none", "received"} =>
       q.upstream = "none" /\ q.fault = "none" /\ q.status = "none"
  /\ q.pc \in {"explaining", "collecting", "copying"} => q.upstream \in {"replied", "ended"}
  /\ q.pc = "explaining" => q.answer # "2xx"
  /\ q.pc = "collecting" => q.kind = "buffered"
  /\ q.pc \in {"calling", "explaining", "collecting", "copying"} =>
       q.kind \in {"passThrough"} \cup Translated

\* How the request is answered once its handler is done.
Answered(q) ==
  q.pc = "done" =>
    /\ q.kind \in Translated /\ q.fault # "none" => q.status # "2xx" \/ q.tail = "errorEvent"
    /\ q.client = "waiting" /\ (q.fault # "none" \/ q.status = "5xx") => "error" \in q.logged

RequestOK(q) == q \in Known /\ CancelsItself(q) /\ InStep(q) /\ Answered(q)

\* The inductive invariant: requests have nothing to do with each other.
RequestInv == request \in [Requests -> Known] /\ \A r \in Requests : RequestOK(request[r])

-----------------------------------------------------------------------------

LEMMA UnbornIsOK == RequestOK(Unborn)
BY DEF RequestOK, Unborn, Known, CancelsItself, InStep, Answered, Kinds, Levels, Statuses, Pcs,
       Tails, Translated, Upstreams

\* A field may change within its type.
LEMMA FieldsChange ==
  ASSUME NEW k \in Known
  PROVE  /\ \A x \in Pcs : [k EXCEPT !.pc = x] \in Known
         /\ \A x \in {"waiting", "gone"} : [k EXCEPT !.client = x] \in Known
         /\ \A x \in BOOLEAN : [k EXCEPT !.canceled = x] \in Known
         /\ \A x \in Upstreams : [k EXCEPT !.upstream = x] \in Known
         /\ \A x \in Statuses : [k EXCEPT !.answer = x] \in Known
         /\ \A x \in Nat : [k EXCEPT !.parts = x] \in Known
         /\ \A x \in Nat : [k EXCEPT !.sent = x] \in Known
         /\ \A x \in Statuses \cup {"none"} : [k EXCEPT !.status = x] \in Known
         /\ \A x \in Faults \cup {"none"} : [k EXCEPT !.fault = x] \in Known
         /\ \A x \in Tails : [k EXCEPT !.tail = x] \in Known
         /\ \A x \in SUBSET Levels : [k EXCEPT !.logged = x] \in Known
         /\ \A x \in Levels : [k EXCEPT !.logged = @ \cup {x}] \in Known
BY DEF Known

LEMMA OneRequestMoves ==
  ASSUME RequestInv, NEW r \in Requests, NEW q, RequestOK(q), Handle(r, q)
  PROVE  RequestInv'
BY DEF RequestInv, RequestOK, Handle

\* A handler that returns leaves a request that is accounted for, if what it told the
\* client and what it logged fit the fault.
LEMMA ReturnIsOK ==
  ASSUME NEW k \in Known, CancelsItself(k), k.upstream = "ended" => k.fault = "none",
         NEW level \in Levels,
         k.kind \in Translated /\ k.fault # "none" => k.status # "2xx" \/ k.tail = "errorEvent",
         k.client = "waiting" /\ (k.fault # "none" \/ k.status = "5xx") =>
           level = "error" \/ "error" \in k.logged
  PROVE  RequestOK(Return(k, level))
<1> DEFINE q == Return(k, level)
<1>1. /\ q \in Known
      /\ q.pc = "done" /\ q.kind = k.kind /\ q.client = k.client /\ q.canceled = k.canceled
      /\ q.upstream = k.upstream /\ q.fault = k.fault /\ q.status = k.status
      /\ q.tail = k.tail /\ q.logged = k.logged \cup {level}
  <2>1. q \in Known
    <3> DEFINE p == [k EXCEPT !.pc = "done"]
    <3>1. p \in Known
      BY FieldsChange DEF Pcs
    <3> HIDE DEF p
    <3>2. [p EXCEPT !.logged = @ \cup {level}] \in Known
      BY <3>1, FieldsChange
    <3> QED BY <3>2 DEF Return, p
  <2> QED BY <2>1 DEF Return, Known
<1> HIDE DEF q
<1>2. RequestOK(q)
  BY <1>1 DEF RequestOK, CancelsItself, InStep, Answered
<1> QED BY <1>2 DEF q

\* The level of a failure is a warning only for a client that left.
LEMMA FailureLevels ==
  ASSUME NEW k \in Known, CancelsItself(k)
  PROVE  /\ UpstreamFailureLevel(k) \in Levels
         /\ k.client = "waiting" => UpstreamFailureLevel(k) = "error"
         /\ SummaryLevel(k) \in Levels
         /\ k.status = "5xx" => SummaryLevel(k) = "error"
BY DEF UpstreamFailureLevel, SummaryLevel, Levels, CancelsItself

\* ServeHTTP up to the upstream's response.
LEMMA CallingKeepsOK ==
  ASSUME RequestInv, NEW r \in Requests,
         \/ Arrive(r) \/ BodyFails(r) \/ Refuse(r) \/ AnswerLocally(r) \/ EstimateFaults(r)
         \/ Call(r) \/ CallFails(r) \/ CallReturns(r)
  PROVE  RequestInv'
<1> DEFINE k == request[r]
<1>0. k \in Known
  BY DEF RequestInv, RequestOK
<1>1. CancelsItself(k) /\ InStep(k) /\ Answered(k)
  BY DEF RequestInv, RequestOK
<1>2. ASSUME NEW q, RequestOK(q), Handle(r, q) PROVE RequestInv'
  BY <1>2, OneRequestMoves
<1> HIDE DEF k

<1>3. CASE Arrive(r)
  <2>1. PICK kind \in Kinds : Handle(r, [Unborn EXCEPT !.pc = "received", !.kind = kind])
    BY <1>3 DEF Arrive, k
  <2> DEFINE q == [Unborn EXCEPT !.pc = "received", !.kind = kind]
  <2>2. RequestOK(q)
    BY DEF Unborn, RequestOK, Known, CancelsItself, InStep, Answered, Levels, Statuses, Pcs, Tails,
           Upstreams
  <2> QED BY <1>2, <2>1, <2>2
<1>4. ASSUME k.pc = "received",
             Handle(r, Return([k EXCEPT !.status = "4xx"], "warn"))
      PROVE  RequestInv'
  <2> DEFINE q == [k EXCEPT !.status = "4xx"]
  <2>1. /\ q \in Known
        /\ q.client = k.client /\ q.canceled = k.canceled /\ q.upstream = "none"
        /\ q.fault = "none" /\ q.status = "4xx"
    <3>1. q \in Known
      BY <1>0, <1>1, <1>4, FieldsChange DEF Pcs, Statuses, Faults, Tails, Levels, Upstreams, InStep
    <3> QED BY <1>0, <1>1, <1>4, <3>1 DEF Known, InStep
  <2> HIDE DEF q
  <2>2. RequestOK(Return(q, "warn"))
    BY <1>0, <1>1, <2>1, ReturnIsOK DEF CancelsItself, Levels
  <2> QED BY <1>2, <1>4, <2>2 DEF q
<1>5. CASE BodyFails(r)
  BY <1>4, <1>5 DEF BodyFails, At, k
<1>6. CASE Refuse(r)
  BY <1>4, <1>6 DEF Refuse, At, k
<1>7. CASE AnswerLocally(r)
  <2>1. PICK status \in {"2xx", "4xx"}, lines \in {{}, {"info"}} :
          Handle(r, [k EXCEPT !.pc = "done", !.status = status, !.tail = "complete",
                              !.logged = lines])
    BY <1>7 DEF AnswerLocally, k
  <2> DEFINE q == [k EXCEPT !.pc = "done", !.status = status, !.tail = "complete",
                            !.logged = lines]
  <2>2. k.fault = "none" /\ k.upstream = "none"
    BY <1>1, <1>7 DEF AnswerLocally, At, InStep, k
  <2>3. /\ q \in Known
        /\ q.pc = "done" /\ q.client = k.client /\ q.canceled = k.canceled
        /\ q.upstream = "none" /\ q.fault = "none" /\ q.status \in {"2xx", "4xx"}
    <3>1. q \in Known
      BY <1>0, <1>1, <2>2, FieldsChange DEF Pcs, Statuses, Faults, Tails, Levels, Upstreams
    <3> QED BY <1>0, <1>1, <2>2, <3>1 DEF Known, Levels
  <2> HIDE DEF q
  <2>4. RequestOK(q)
    BY <1>0, <1>1, <2>3 DEF RequestOK, CancelsItself, InStep, Answered
  <2> QED BY <1>2, <2>1, <2>4 DEF q
<1>8. CASE EstimateFaults(r)
  <2> DEFINE q == [k EXCEPT !.pc = "done", !.tail = "cut"]
  <2>1. k.fault = "none" /\ k.upstream = "none" /\ k.status = "none" /\ Handle(r, q)
    BY <1>1, <1>8 DEF EstimateFaults, At, InStep, k
  <2>2. /\ q \in Known
        /\ q.pc = "done" /\ q.client = k.client /\ q.canceled = k.canceled
        /\ q.upstream = "none" /\ q.fault = "none" /\ q.status = "none"
    <3>1. q \in Known
      BY <1>0, <1>1, <2>1, FieldsChange DEF Pcs, Statuses, Faults, Tails, Levels, Upstreams
    <3> QED BY <1>0, <1>1, <2>1, <3>1 DEF Known
  <2> HIDE DEF q
  <2>3. RequestOK(q)
    BY <1>0, <1>1, <2>2 DEF RequestOK, CancelsItself, InStep, Answered
  <2> QED BY <1>2, <2>1, <2>3
<1>9. CASE Call(r)
  <2> DEFINE q == [k EXCEPT !.pc = "calling",
                            !.upstream = IF k.canceled THEN "none" ELSE "asked",
                            !.fault = IF k.canceled THEN "canceled" ELSE "none"]
  <2>1. k.kind \in {"passThrough"} \cup Translated /\ Handle(r, q)
    BY <1>9 DEF Call, k
  <2>2. /\ q \in Known
        /\ q.pc = "calling" /\ q.kind = k.kind /\ q.client = k.client
        /\ q.canceled = k.canceled /\ q.upstream \in {"none", "asked"}
        /\ ~k.canceled => q.fault = "none"
    <3>1. q \in Known
      BY <1>0, FieldsChange DEF Pcs, Statuses, Faults, Tails, Levels, Upstreams
    <3> QED BY <1>0, <3>1 DEF Known
  <2> HIDE DEF q
  <2>3. RequestOK(q)
    BY <1>0, <1>1, <2>1, <2>2 DEF RequestOK, CancelsItself, InStep, Answered
  <2> QED BY <1>2, <2>1, <2>3
<1>10. CASE CallFails(r)
  <2> DEFINE q == [k EXCEPT !.status = "5xx"]
             level == UpstreamFailureLevel(k)
  <2>1. k.fault # "none" /\ Handle(r, Return(q, level))
    BY <1>10 DEF CallFails, k
  <2>2. /\ q \in Known
        /\ q.client = k.client /\ q.canceled = k.canceled /\ q.upstream = k.upstream
        /\ q.fault = k.fault /\ q.status = "5xx"
    <3>1. q \in Known
      BY <1>0, FieldsChange DEF Pcs, Statuses, Faults, Tails, Levels, Upstreams
    <3> QED BY <1>0, <3>1 DEF Known
  <2>3. level \in Levels /\ (k.client = "waiting" => level = "error")
    BY <1>0, <1>1, FailureLevels
  <2> HIDE DEF q, level
  <2>4. RequestOK(Return(q, level))
    BY <1>0, <1>1, <2>2, <2>3, ReturnIsOK DEF CancelsItself, InStep
  <2> QED BY <1>2, <2>1, <2>4
<1>11. CASE CallReturns(r)
  <2>1. k.pc = "calling" /\ k.upstream \in {"replied", "ended"}
    BY <1>11 DEF CallReturns, At, k
  <2>2. ASSUME NEW pc \in {"explaining", "collecting", "copying"},
               pc = "explaining" => k.answer # "2xx",
               pc = "collecting" => k.kind = "buffered",
               NEW q \in Known,
               q.pc = pc, q.kind = k.kind, q.client = k.client, q.canceled = k.canceled,
               q.upstream = k.upstream, q.fault = k.fault, q.answer = k.answer, Handle(r, q)
        PROVE  RequestInv'
    <3>1. RequestOK(q)
      BY <1>0, <1>1, <2>1, <2>2 DEF RequestOK, CancelsItself, InStep, Answered
    <3> QED BY <1>2, <2>2, <3>1
  <2>3. ASSUME NEW pc \in {"explaining", "collecting"},
               pc = "explaining" => k.answer # "2xx",
               pc = "collecting" => k.kind = "buffered",
               Handle(r, [k EXCEPT !.pc = pc])
        PROVE  RequestInv'
    <3> DEFINE q == [k EXCEPT !.pc = pc]
    <3>1. q \in Known
      BY <1>0, FieldsChange DEF Pcs
    <3>2. /\ q.pc = pc /\ q.kind = k.kind /\ q.client = k.client /\ q.canceled = k.canceled
          /\ q.upstream = k.upstream /\ q.fault = k.fault /\ q.answer = k.answer
      BY <1>0 DEF Known
    <3>3. Handle(r, q)
      BY <2>3
    <3> HIDE DEF q
    <3> QED BY <2>2, <2>3, <3>1, <3>2, <3>3
  <2>4. ASSUME Handle(r, [k EXCEPT !.pc = "copying", !.status = k.answer])
        PROVE  RequestInv'
    <3> DEFINE q == [k EXCEPT !.pc = "copying", !.status = k.answer]
    <3>1. q \in Known
      <4>1. k.answer \in Statuses \cup {"none"}
        BY <1>0 DEF Known
      <4> QED BY <1>0, <4>1, FieldsChange DEF Pcs
    <3>2. /\ q.pc = "copying" /\ q.kind = k.kind /\ q.client = k.client
          /\ q.canceled = k.canceled /\ q.upstream = k.upstream /\ q.fault = k.fault
          /\ q.answer = k.answer
      BY <1>0 DEF Known
    <3>3. Handle(r, q)
      BY <2>4
    <3> HIDE DEF q
    <3> QED BY <2>2, <3>1, <3>2, <3>3
  <2>5. CASE k.kind \in Translated /\ k.answer # "2xx"
    BY <1>11, <2>3, <2>5 DEF CallReturns, k
  <2>6. CASE ~(k.kind \in Translated /\ k.answer # "2xx") /\ k.kind = "buffered"
    BY <1>11, <2>3, <2>6 DEF CallReturns, k
  <2>7. CASE ~(k.kind \in Translated /\ k.answer # "2xx") /\ k.kind # "buffered"
    BY <1>11, <2>4, <2>7 DEF CallReturns, k
  <2> QED BY <2>5, <2>6, <2>7
<1> QED BY <1>3, <1>5, <1>6, <1>7, <1>8, <1>9, <1>10, <1>11

\* The body, once there is a response.
LEMMA AnsweringKeepsOK ==
  ASSUME RequestInv, NEW r \in Requests,
         \/ Copy(r) \/ CopyEnds(r) \/ PassThroughFails(r) \/ StreamFails(r)
         \/ Collected(r) \/ CollectFails(r) \/ Explain(r)
  PROVE  RequestInv'
<1> DEFINE k == request[r]
<1>0. k \in Known
  BY DEF RequestInv, RequestOK
<1>1. CancelsItself(k) /\ InStep(k) /\ Answered(k)
  BY DEF RequestInv, RequestOK
<1>2. ASSUME NEW q, RequestOK(q), Handle(r, q) PROVE RequestInv'
  BY <1>2, OneRequestMoves
<1> HIDE DEF k

<1>3. CASE Copy(r)
  <2> DEFINE q == [k EXCEPT !.parts = @ - 1, !.sent = @ + 1]
  <2>1. k.pc = "copying" /\ k.parts > 0 /\ Handle(r, q)
    BY <1>3 DEF Copy, At, k
  <2>2. /\ q \in Known
        /\ q.pc = k.pc /\ q.kind = k.kind /\ q.client = k.client /\ q.canceled = k.canceled
        /\ q.upstream = k.upstream /\ q.fault = k.fault
    <3>1. q \in Known
      <4>1. k.parts - 1 \in Nat /\ k.sent + 1 \in Nat
        BY <1>0, <2>1 DEF Known
      <4>2. [k EXCEPT !.parts = @ - 1].sent = k.sent
        BY <1>0 DEF Known
      <4> QED BY <1>0, <4>1, <4>2, FieldsChange
    <3> QED BY <1>0, <3>1 DEF Known
  <2> HIDE DEF q
  <2>3. RequestOK(q)
    BY <1>0, <1>1, <2>1, <2>2 DEF RequestOK, CancelsItself, InStep, Answered
  <2> QED BY <1>2, <2>1, <2>3
<1>4. CASE CopyEnds(r)
  <2> DEFINE q == [k EXCEPT !.tail = "complete"]
             level == SummaryLevel(k)
  <2>1. k.upstream = "ended" /\ Handle(r, Return(q, level))
    BY <1>4 DEF CopyEnds, k
  <2>2. /\ q \in Known
        /\ q.client = k.client /\ q.canceled = k.canceled /\ q.upstream = k.upstream
        /\ q.fault = k.fault /\ q.status = k.status
    <3>1. q \in Known
      BY <1>0, FieldsChange DEF Tails
    <3> QED BY <1>0, <3>1 DEF Known
  <2>3. level \in Levels /\ (k.status = "5xx" => level = "error")
    BY <1>0, <1>1, FailureLevels
  <2> HIDE DEF q, level
  <2>4. RequestOK(Return(q, level))
    BY <1>0, <1>1, <2>1, <2>2, <2>3, ReturnIsOK DEF CancelsItself, InStep
  <2> QED BY <1>2, <2>1, <2>4
<1>5. CASE PassThroughFails(r)
  <2>1. PICK unwritable \in BOOLEAN :
          /\ IF unwritable THEN k.client = "gone" /\ k.parts > 0 ELSE k.fault # "none"
          /\ LET q == [k EXCEPT !.canceled = @ \/ unwritable, !.tail = "cut"]
             IN  Handle(r, Return([q EXCEPT !.logged = @ \cup {UpstreamFailureLevel(q)}],
                                  SummaryLevel(q)))
    BY <1>5 DEF PassThroughFails, k
  <2> DEFINE q == [k EXCEPT !.canceled = @ \/ unwritable, !.tail = "cut"]
             level == UpstreamFailureLevel(q)
             p == [q EXCEPT !.logged = @ \cup {level}]
             summary == SummaryLevel(q)
  <2>2. k.kind = "passThrough"
    BY <1>5 DEF PassThroughFails, k
  <2>3. /\ q \in Known /\ CancelsItself(q)
        /\ q.kind = k.kind /\ q.upstream = k.upstream /\ q.fault = k.fault
    <3>1. q \in Known
      BY <1>0, <1>1, <2>1, FieldsChange DEF Pcs, Statuses, Faults, Tails, Levels, Upstreams
    <3> QED BY <1>0, <1>1, <2>1, <3>1 DEF Known, CancelsItself
  <2> HIDE DEF q
  <2>4. /\ level \in Levels /\ summary \in Levels
        /\ q.client = "waiting" => level = "error"
    BY <2>3, FailureLevels
  <2> HIDE DEF level, summary
  <2>5. /\ p \in Known
        /\ p.kind = q.kind /\ p.client = q.client /\ p.canceled = q.canceled
        /\ p.upstream = q.upstream /\ p.fault = q.fault /\ p.logged = q.logged \cup {level}
    <3>1. p \in Known
      BY <2>3, <2>4, FieldsChange
    <3> QED BY <2>3, <2>4, <3>1 DEF Known
  <2> HIDE DEF p
  <2>6. RequestOK(Return(p, summary))
    BY <1>0, <1>1, <2>2, <2>3, <2>4, <2>5, ReturnIsOK DEF CancelsItself, InStep, Translated
  <2> QED BY <1>2, <2>1, <2>6 DEF p, q, level, summary
<1>6. CASE StreamFails(r)
  <2> DEFINE q == [k EXCEPT !.tail = "errorEvent"]
             p == [q EXCEPT !.logged = @ \cup {"error"}]
             summary == SummaryLevel(q)
  <2>1. Handle(r, Return(p, summary))
    BY <1>6 DEF StreamFails, k
  <2>2. q \in Known
    BY <1>0, FieldsChange DEF Tails
  <2>6. CancelsItself(q)
    BY <1>0, <1>1 DEF Known, CancelsItself
  <2>3. summary \in Levels
    <3> HIDE DEF q
    <3> QED BY <2>2, <2>6, FailureLevels
  <2>4. /\ p \in Known
        /\ p.client = k.client /\ p.canceled = k.canceled /\ p.upstream = k.upstream
        /\ p.fault = k.fault /\ p.tail = "errorEvent" /\ "error" \in p.logged
    <3>1. p \in Known
      <4> HIDE DEF q
      <4> QED BY <2>2, FieldsChange DEF Levels
    <3> QED BY <1>0, <3>1 DEF Known, Levels
  <2> HIDE DEF p, summary
  <2>5. RequestOK(Return(p, summary))
    BY <1>0, <1>1, <2>3, <2>4, ReturnIsOK DEF CancelsItself, InStep
  <2> QED BY <1>2, <2>1, <2>5
<1>7. CASE Collected(r)
  <2> DEFINE q == [k EXCEPT !.status = "2xx", !.sent = 1, !.tail = "complete"]
  <2>1. k.upstream = "ended" /\ Handle(r, Return(q, "info"))
    BY <1>7 DEF Collected, k
  <2>2. /\ q \in Known
        /\ q.client = k.client /\ q.canceled = k.canceled /\ q.upstream = k.upstream
        /\ q.fault = k.fault /\ q.status = "2xx"
    <3>1. q \in Known
      BY <1>0, FieldsChange DEF Pcs, Statuses, Faults, Tails, Levels, Upstreams
    <3> QED BY <1>0, <3>1 DEF Known
  <2> HIDE DEF q
  <2>3. RequestOK(Return(q, "info"))
    BY <1>0, <1>1, <2>1, <2>2, ReturnIsOK DEF CancelsItself, InStep, Levels
  <2> QED BY <1>2, <2>1, <2>3
<1>8. CASE CollectFails(r)
  <2> DEFINE q == [k EXCEPT !.status = "5xx"]
             level == IF k.fault = "unreadable" THEN "error" ELSE UpstreamFailureLevel(k)
  <2>1. Handle(r, Return(q, level))
    BY <1>8 DEF CollectFails, k
  <2>2. /\ q \in Known
        /\ q.client = k.client /\ q.canceled = k.canceled /\ q.upstream = k.upstream
        /\ q.fault = k.fault /\ q.status = "5xx"
    <3>1. q \in Known
      BY <1>0, FieldsChange DEF Pcs, Statuses, Faults, Tails, Levels, Upstreams
    <3> QED BY <1>0, <3>1 DEF Known
  <2>3. level \in Levels /\ (k.client = "waiting" => level = "error")
    BY <1>0, <1>1, FailureLevels DEF Levels
  <2> HIDE DEF q, level
  <2>4. RequestOK(Return(q, level))
    BY <1>0, <1>1, <2>2, <2>3, ReturnIsOK DEF CancelsItself, InStep
  <2> QED BY <1>2, <2>1, <2>4
<1>9. CASE Explain(r)
  <2> DEFINE q == [k EXCEPT !.status = k.answer, !.tail = "complete"]
  <2>1. k.pc = "explaining" /\ Handle(r, Return(q, "error"))
    BY <1>9 DEF Explain, At, k
  <2>2. /\ q \in Known
        /\ q.client = k.client /\ q.canceled = k.canceled /\ q.upstream = k.upstream
        /\ q.fault = k.fault /\ q.status = k.answer
    <3>1. q \in Known
      <4>1. k.answer \in Statuses \cup {"none"}
        BY <1>0 DEF Known
      <4> QED BY <1>0, <4>1, FieldsChange DEF Tails
    <3> QED BY <1>0, <3>1 DEF Known
  <2> HIDE DEF q
  <2>3. RequestOK(Return(q, "error"))
    BY <1>0, <1>1, <2>1, <2>2, ReturnIsOK DEF CancelsItself, InStep, Levels
  <2> QED BY <1>2, <2>1, <2>3
<1> QED BY <1>3, <1>4, <1>5, <1>6, <1>7, <1>8, <1>9

\* The upstream, the timer and the client: nothing they do changes an answer, since all
\* of it is done before the handler returns.
LEMMA EnvironmentKeepsOK ==
  ASSUME RequestInv, NEW r \in Requests, Environment(r)
  PROVE  RequestInv'
<1> DEFINE k == request[r]
<1>0. k \in Known
  BY DEF RequestInv, RequestOK
<1>1. CancelsItself(k) /\ InStep(k) /\ Answered(k)
  BY DEF RequestInv, RequestOK
<1>2. ASSUME NEW q, RequestOK(q), Handle(r, q) PROVE RequestInv'
  BY <1>2, OneRequestMoves
<1> HIDE DEF k

\* What the upstream and the timer do, while the handler reads.
<1>3. ASSUME k.upstream \in {"asked", "replied"}, InFlight(r),
             NEW q \in Known, Handle(r, q),
             q.pc = k.pc, q.kind = k.kind, q.client = k.client, q.canceled = k.canceled,
             q.pc \in {"explaining", "collecting", "copying"} => q.upstream \in {"replied", "ended"},
             q.pc = "explaining" => q.answer = k.answer,
             q.upstream = "ended" => q.fault = "none",
             q.fault # "canceled"
      PROVE  RequestInv'
  <2>1. RequestOK(q)
    BY <1>0, <1>1, <1>3 DEF RequestOK, CancelsItself, InStep, Answered, InFlight, k
  <2> QED BY <1>2, <1>3, <2>1
<1>4. Reading(r) => k.upstream \in {"asked", "replied"} /\ InFlight(r) /\ k.fault = "none"
  BY DEF Reading, k
<1>5. CASE Reply(r)
  <2>1. PICK answer \in Statuses :
          Handle(r, [k EXCEPT !.upstream = "replied", !.answer = answer])
    BY <1>5 DEF Reply, Statuses, k
  <2> DEFINE q == [k EXCEPT !.upstream = "replied", !.answer = answer]
  <2>2. /\ q \in Known
        /\ q.pc = k.pc /\ q.kind = k.kind /\ q.client = k.client /\ q.canceled = k.canceled
        /\ q.upstream = "replied" /\ q.fault = k.fault
    <3>1. q \in Known
      BY <1>0, FieldsChange DEF Pcs, Statuses, Faults, Tails, Levels, Upstreams
    <3> QED BY <1>0, <3>1 DEF Known
  <2>3. Reading(r) /\ k.pc # "explaining"
    BY <1>1, <1>5 DEF Reply, InStep, k
  <2> HIDE DEF q
  <2> QED BY <1>3, <1>4, <2>1, <2>2, <2>3 DEF q
<1>6. CASE Produce(r)
  <2> DEFINE q == [k EXCEPT !.parts = @ + 1]
  <2>1. Reading(r) /\ Handle(r, q)
    BY <1>6 DEF Produce, k
  <2>2. /\ q \in Known
        /\ q.pc = k.pc /\ q.kind = k.kind /\ q.client = k.client /\ q.canceled = k.canceled
        /\ q.upstream = k.upstream /\ q.fault = k.fault /\ q.answer = k.answer
    <3>1. q \in Known
      <4>1. k.parts + 1 \in Nat
        BY <1>0 DEF Known
      <4> QED BY <1>0, <4>1, FieldsChange
    <3> QED BY <1>0, <3>1 DEF Known
  <2> HIDE DEF q
  <2> QED BY <1>1, <1>3, <1>4, <2>1, <2>2 DEF InStep
<1>7. CASE EndReply(r)
  <2> DEFINE q == [k EXCEPT !.upstream = "ended"]
  <2>1. Reading(r) /\ Handle(r, q)
    BY <1>7 DEF EndReply, k
  <2>2. /\ q \in Known
        /\ q.pc = k.pc /\ q.kind = k.kind /\ q.client = k.client /\ q.canceled = k.canceled
        /\ q.upstream = "ended" /\ q.fault = k.fault /\ q.answer = k.answer
    <3>1. q \in Known
      BY <1>0, FieldsChange DEF Pcs, Statuses, Faults, Tails, Levels, Upstreams
    <3> QED BY <1>0, <3>1 DEF Known
  <2> HIDE DEF q
  <2> QED BY <1>1, <1>3, <1>4, <2>1, <2>2 DEF InStep
<1>8. ASSUME NEW fault \in Faults \ {"canceled"}, Reading(r),
             Handle(r, [k EXCEPT !.fault = fault])
      PROVE  RequestInv'
  <2> DEFINE q == [k EXCEPT !.fault = fault]
  <2>1. /\ q \in Known
        /\ q.pc = k.pc /\ q.kind = k.kind /\ q.client = k.client /\ q.canceled = k.canceled
        /\ q.upstream = k.upstream /\ q.fault = fault /\ q.answer = k.answer
    <3>1. q \in Known
      BY <1>0, FieldsChange DEF Pcs, Statuses, Faults, Tails, Levels, Upstreams
    <3> QED BY <1>0, <3>1 DEF Known
  <2>2. Handle(r, q)
    BY <1>8
  <2> HIDE DEF q
  <2> QED BY <1>1, <1>3, <1>4, <1>8, <2>1, <2>2 DEF InStep
<1>9. CASE UpstreamFails(r)
  <2>1. PICK fault \in {"refused", "broken", "unreadable"} :
          Handle(r, [k EXCEPT !.fault = fault])
    BY <1>9 DEF UpstreamFails, k
  <2> QED BY <1>8, <1>9, <2>1 DEF UpstreamFails, Faults, k
<1>10. CASE TimesOut(r)
  BY <1>8, <1>10 DEF TimesOut, Faults, k
<1>11. CASE HangUp(r)
  <2> DEFINE q == [k EXCEPT !.client = "gone"]
  <2>1. InFlight(r) /\ Handle(r, q)
    BY <1>11 DEF HangUp, k
  <2>2. /\ q \in Known
        /\ q.pc = k.pc /\ q.kind = k.kind /\ q.client = "gone" /\ q.status = k.status
        /\ q.upstream = k.upstream /\ q.fault = k.fault /\ q.answer = k.answer
    <3>1. q \in Known
      BY <1>0, FieldsChange DEF Pcs, Statuses, Faults, Tails, Levels, Upstreams
    <3> QED BY <1>0, <3>1 DEF Known
  <2> HIDE DEF q
  <2>3. RequestOK(q)
    BY <1>0, <1>1, <2>1, <2>2 DEF RequestOK, CancelsItself, InStep, Answered, InFlight, k
  <2> QED BY <1>2, <2>1, <2>3
<1>12. CASE Cancel(r)
  <2> DEFINE fault == IF Reading(r) THEN "canceled" ELSE k.fault
             q == [k EXCEPT !.canceled = TRUE, !.fault = fault]
  <2>1. InFlight(r) /\ k.client = "gone" /\ Handle(r, q)
    BY <1>12 DEF Cancel, k
  <2>2. /\ q \in Known
        /\ q.pc = k.pc /\ q.kind = k.kind /\ q.client = k.client /\ q.status = k.status
        /\ q.upstream = k.upstream /\ q.fault = fault /\ q.answer = k.answer
    <3>1. q \in Known
      BY <1>0, FieldsChange DEF Pcs, Statuses, Faults, Tails, Levels, Upstreams
    <3> QED BY <1>0, <3>1 DEF Known
  <2>3. k.upstream \notin {"asked", "replied"} => fault = k.fault
    BY <1>4
  <2> HIDE DEF q, fault
  <2>4. RequestOK(q)
    BY <1>0, <1>1, <2>1, <2>2, <2>3 DEF RequestOK, CancelsItself, InStep, Answered, InFlight, k
  <2> QED BY <1>2, <2>1, <2>4
<1> QED BY <1>5, <1>6, <1>7, <1>9, <1>10, <1>11, <1>12 DEF Environment

\* The end of the process cuts what is in flight.
LEMMA ServerKeepsOK ==
  ASSUME RequestInv, Shutdown \/ ShutdownExpires \/ Exit
  PROVE  RequestInv'
<1>1. CASE Shutdown \/ ShutdownExpires
  BY <1>1 DEF Shutdown, ShutdownExpires, RequestInv
<1>2. CASE Exit
  <2>1. ASSUME NEW r \in Requests PROVE RequestOK([request[r] EXCEPT !.pc = "cut"])
    <3> DEFINE k == request[r]
               q == [k EXCEPT !.pc = "cut"]
    <3>1. k \in Known /\ CancelsItself(k) /\ InStep(k)
      BY DEF RequestInv, RequestOK
    <3>2. q \in Known
      BY <3>1, FieldsChange DEF Pcs
    <3>3. /\ q.pc = "cut" /\ q.client = k.client /\ q.canceled = k.canceled
          /\ q.upstream = k.upstream /\ q.fault = k.fault
      BY <3>1 DEF Known
    <3> HIDE DEF q
    <3>4. RequestOK(q)
      BY <3>1, <3>2, <3>3 DEF RequestOK, CancelsItself, InStep, Answered
    <3> QED BY <3>4 DEF q
  <2> QED BY <1>2, <2>1 DEF Exit, RequestInv, RequestOK
<1> QED BY <1>1, <1>2

LEMMA RequestInvHolds == Spec => []RequestInv
<1>1. Init => RequestInv
  BY UnbornIsOK DEF Init, RequestInv, RequestOK
<1>2. RequestInv /\ [Next]_vars => RequestInv'
  <2>1. ASSUME RequestInv, UNCHANGED vars PROVE RequestInv'
    BY <2>1 DEF vars, RequestInv
  <2> QED
    BY <2>1, CallingKeepsOK, AnsweringKeepsOK, EnvironmentKeepsOK, ServerKeepsOK
       DEF Next, HandlerStep
<1> QED BY <1>1, <1>2, PTL DEF Spec

\* However a translated response fails, and whatever else happens to the request, the
\* client can tell it from one that did not (serveOpenAIChat, serveTranslatedStream).
THEOREM FailuresShow == Spec => []FailureIsNeverASuccess
<1>1. RequestInv => FailureIsNeverASuccess
  BY DEF RequestInv, RequestOK, Answered, FailureIsNeverASuccess, At
<1> QED BY <1>1, RequestInvHolds, PTL

\* Every fault that is not the client's doing leaves an error line, and is not taken
\* for a cancellation (upstreamFailureLevel).
THEOREM FaultsAreLogged == Spec => []FaultsAreErrors
<1>1. RequestInv => FaultsAreErrors
  BY DEF RequestInv, RequestOK, Answered, FaultsAreErrors
<1> QED BY <1>1, RequestInvHolds, PTL
=============================================================================
