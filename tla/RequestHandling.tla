--------------------------- MODULE RequestHandling ---------------------------
(***************************************************************************)
(* main.go: the proxy daemon answering requests, each in a goroutine of    *)
(* its own, between a client that may hang up at any moment, an upstream   *)
(* that may fail at any moment, the timer of the provider's timeout, and   *)
(* a SIGTERM.                                                              *)
(*                                                                         *)
(* What the translated stream says event by event is StreamTranslator's    *)
(* matter; here it is a number of parts and the way it ends.               *)
(***************************************************************************)
EXTENDS Naturals

CONSTANTS
  Requests,       \* the requests the daemon gets
  MaxParts        \* bound: the parts of an upstream response body

ASSUME RequestAssumption == MaxParts \in Nat

VARIABLES
  request,        \* what is known of each request, see Unborn
  server,         \* "listening", "closing" once Shutdown is called, "exited"
  drained         \* Shutdown's own 5 seconds have passed

vars == <<request, server, drained>>

\* How ServeHTTP will treat a request: the gate or the checks refuse it, the proxy
\* answers it by itself, it is passed through (anthropic and systemone), or it is
\* translated (openai-chat), buffered or as a stream.
Kinds == {"refused", "local", "passThrough", "buffered", "stream"}
Translated == {"buffered", "stream"}

\* pc: where the handler is.  canceled: the request's context is.  upstream: how
\* far the upstream's reply is, answer: its status class, parts: what of its body
\* was not read yet, fault: why reading on fails.  status: what the client was
\* told, tail: how the body ended for it.  logged: the levels of the lines.
Unborn ==
  [pc |-> "none", kind |-> "local", client |-> "waiting", canceled |-> FALSE,
   upstream |-> "none", answer |-> "2xx", parts |-> 0, fault |-> "none",
   status |-> "none", sent |-> 0, tail |-> "none", logged |-> {}]

Init ==
  /\ request = [r \in Requests |-> Unborn]
  /\ server = "listening"
  /\ drained = FALSE

InFlight(r) == request[r].pc \notin {"none", "done", "cut"}

\* The handler's next step turns what is known of r into q.
Handle(r, q) ==
  /\ request' = [request EXCEPT ![r] = q]
  /\ UNCHANGED <<server, drained>>

At(r, pc) == server # "exited" /\ request[r].pc = pc

\* The handler returns after it wrote a line at this level.
Return(q, level) == [q EXCEPT !.pc = "done", !.logged = @ \cup {level}]

\* upstreamFailureLevel: a client abort is a warning, all else is an error.
\* Mutant: a deadline is taken for the client's decision too.
UpstreamFailureLevelLenient(q) ==
  IF q.fault \in {"canceled", "timeout"} \/ q.canceled THEN "warn" ELSE "error"

UpstreamFailureLevel(q) ==
  IF q.fault = "canceled" \/ q.canceled THEN "warn" ELSE "error"

\* logRequest.
SummaryLevel(q) == IF q.status = "5xx" THEN "error" ELSE "info"

-----------------------------------------------------------------------------
(* ServeHTTP up to the upstream call. *)

Arrive(r) ==
  /\ server = "listening"
  /\ request[r].pc = "none"
  /\ \E kind \in Kinds : Handle(r, [Unborn EXCEPT !.pc = "received", !.kind = kind])

\* The caller hangs up before its body is read.
BodyFails(r) ==
  /\ At(r, "received")
  /\ request[r].client = "gone"
  /\ Handle(r, Return([request[r] EXCEPT !.status = "4xx"], "warn"))

\* No token, no JSON, no model, no route, or nothing that can be translated.
Refuse(r) ==
  /\ At(r, "received")
  /\ request[r].kind \in {"refused"} \cup Translated
  /\ Handle(r, Return([request[r] EXCEPT !.status = "4xx"], "warn"))

\* healthz, resolve, which may know no route, and count_tokens, the one with a
\* summary line.
AnswerLocally(r) ==
  /\ At(r, "received")
  /\ request[r].kind = "local"
  /\ \E status \in {"2xx", "4xx"}, lines \in {{}, {"info"}} :
       /\ lines # {} => status = "2xx"
       /\ Handle(r, [request[r] EXCEPT !.pc = "done", !.status = status,
                                       !.tail = "complete", !.logged = lines])

\* estimateRequestTokens faults on a message without a role; net/http recovers
\* and drops the connection.
EstimateFaults(r) ==
  /\ At(r, "received")
  /\ request[r].kind \in {"local"} \cup Translated
  /\ Handle(r, [request[r] EXCEPT !.pc = "done", !.tail = "cut"])

Call(r) ==
  /\ At(r, "received")
  /\ request[r].kind \in {"passThrough"} \cup Translated
  /\ Handle(r, [request[r] EXCEPT
                  !.pc = "calling",
                  !.upstream = IF request[r].canceled THEN "none" ELSE "asked",
                  !.fault = IF request[r].canceled THEN "canceled" ELSE "none"])

\* client.Do returns an error: refused, timed out or canceled.  A fault of the body
\* is not one of the call.
CallFails(r) ==
  /\ At(r, "calling")
  /\ request[r].fault \in {"refused", "timeout", "canceled"}
  /\ LET q == request[r]
     IN  Handle(r, Return([q EXCEPT !.status = "5xx"], UpstreamFailureLevel(q)))

\* client.Do returns a response.  A status is committed before the first byte,
\* except that a buffered or a failed translation reads the body first.
CallReturns(r) ==
  /\ At(r, "calling")
  /\ request[r].upstream \in {"replied", "ended"}
  /\ LET q == request[r]
     IN  Handle(r,
           IF q.kind \in Translated /\ q.answer # "2xx" THEN [q EXCEPT !.pc = "explaining"]
           ELSE IF q.kind = "buffered" THEN [q EXCEPT !.pc = "collecting"]
           ELSE [q EXCEPT !.pc = "copying", !.status = q.answer])

-----------------------------------------------------------------------------
(* passThrough and serveTranslatedStream, once the status is committed. *)

Copy(r) ==
  /\ At(r, "copying")
  /\ request[r].parts > 0
  /\ Handle(r, [request[r] EXCEPT !.parts = @ - 1, !.sent = @ + 1])

CopyEnds(r) ==
  /\ At(r, "copying")
  /\ request[r].parts = 0
  /\ request[r].upstream = "ended"
  /\ LET q == request[r]
     IN  Handle(r, Return([q EXCEPT !.tail = "complete"], SummaryLevel(q)))

\* io.Copy stops at the first byte it cannot read, or cannot write to a client
\* that is gone; net/http cancels the context of a request whose write failed.
PassThroughFails(r) ==
  /\ At(r, "copying")
  /\ request[r].kind = "passThrough"
  /\ \E unwritable \in BOOLEAN :
       /\ IF unwritable THEN request[r].client = "gone" /\ request[r].parts > 0
          ELSE request[r].fault # "none"
       /\ LET q == [request[r] EXCEPT !.canceled = @ \/ unwritable, !.tail = "cut"]
          IN  Handle(r, Return([q EXCEPT !.logged = @ \cup {UpstreamFailureLevel(q)}],
                               SummaryLevel(q)))

\* Mutant: the failure of a stream is logged and not told to the client.
StreamFailsSilently(r) ==
  /\ At(r, "copying")
  /\ request[r].kind = "stream"
  /\ request[r].fault # "none"
  /\ LET q == [request[r] EXCEPT !.tail = "complete"]
     IN  Handle(r, Return([q EXCEPT !.logged = @ \cup {"error"}], SummaryLevel(q)))

\* The translator returns an error: it is logged, whatever its cause, and the
\* client is told in band.  A translator whose client is gone reads on.
StreamFails(r) ==
  /\ At(r, "copying")
  /\ request[r].kind = "stream"
  /\ request[r].fault # "none"
  /\ LET q == [request[r] EXCEPT !.tail = "errorEvent"]
     IN  Handle(r, Return([q EXCEPT !.logged = @ \cup {"error"}], SummaryLevel(q)))

-----------------------------------------------------------------------------
(* serveOpenAIChat without a stream, and serveTranslatedError. *)

Collected(r) ==
  /\ At(r, "collecting")
  /\ request[r].upstream = "ended"
  /\ Handle(r, Return([request[r] EXCEPT !.status = "2xx", !.sent = 1, !.tail = "complete"],
                      "info"))

\* The body cannot be read to its end, or cannot be translated.
CollectFails(r) ==
  /\ At(r, "collecting")
  /\ request[r].fault # "none"
  /\ LET q == request[r]
     IN  Handle(r, Return([q EXCEPT !.status = "5xx"],
                          IF q.fault = "unreadable" THEN "error" ELSE UpstreamFailureLevel(q)))

\* The upstream's own status in the Anthropic envelope, with what could be read.
Explain(r) ==
  /\ At(r, "explaining")
  /\ request[r].upstream = "ended" \/ request[r].fault # "none"
  /\ Handle(r, Return([request[r] EXCEPT !.status = request[r].answer, !.tail = "complete"],
                      "error"))

HandlerStep(r) ==
  \/ BodyFails(r) \/ Refuse(r) \/ AnswerLocally(r) \/ EstimateFaults(r) \/ Call(r)
  \/ CallFails(r) \/ CallReturns(r)
  \/ Copy(r) \/ CopyEnds(r) \/ PassThroughFails(r) \/ StreamFails(r)
  \/ Collected(r) \/ CollectFails(r) \/ Explain(r)

-----------------------------------------------------------------------------
(* The upstream, the timer and the client. *)

Reading(r) ==
  /\ InFlight(r)
  /\ request[r].upstream \in {"asked", "replied"}
  /\ request[r].fault = "none"

Reply(r) ==
  /\ Reading(r)
  /\ request[r].upstream = "asked"
  /\ \E answer \in {"2xx", "4xx", "5xx"} :
       Handle(r, [request[r] EXCEPT !.upstream = "replied", !.answer = answer])

Produce(r) ==
  /\ Reading(r)
  /\ request[r].upstream = "replied"
  /\ request[r].parts + request[r].sent < MaxParts
  /\ Handle(r, [request[r] EXCEPT !.parts = @ + 1])

EndReply(r) ==
  /\ Reading(r)
  /\ request[r].upstream = "replied"
  /\ Handle(r, [request[r] EXCEPT !.upstream = "ended"])

\* It cannot be reached, or its connection breaks; or a body that is to be
\* translated makes no sense.
UpstreamFails(r) ==
  /\ Reading(r)
  /\ \E fault \in IF request[r].upstream = "asked" THEN {"refused"} ELSE {"broken", "unreadable"} :
       /\ fault = "unreadable" => request[r].kind \in Translated /\ request[r].answer = "2xx"
       /\ Handle(r, [request[r] EXCEPT !.fault = fault])

\* Mutant: no timeout on the client of the upstream call.
TimesOutNever(r) == Reading(r) /\ FALSE /\ UNCHANGED vars

\* http.Client.Timeout covers the call and the reading of the body.
TimesOut(r) ==
  /\ Reading(r)
  /\ Handle(r, [request[r] EXCEPT !.fault = "timeout"])

HangUp(r) ==
  /\ InFlight(r)
  /\ request[r].client = "waiting"
  /\ Handle(r, [request[r] EXCEPT !.client = "gone"])

\* net/http notices it and cancels the context the upstream call was made with.
Cancel(r) ==
  /\ InFlight(r)
  /\ request[r].client = "gone"
  /\ ~request[r].canceled
  /\ Handle(r, [request[r] EXCEPT !.canceled = TRUE,
                                  !.fault = IF Reading(r) THEN "canceled" ELSE @])

Environment(r) ==
  \/ Reply(r) \/ Produce(r) \/ EndReply(r) \/ UpstreamFails(r)
  \/ TimesOut(r) \/ HangUp(r) \/ Cancel(r)

-----------------------------------------------------------------------------
(* runServer. *)

\* SIGTERM: Shutdown closes the listener and waits for the requests in flight,
\* for 5 seconds at the most.
Shutdown ==
  /\ server = "listening"
  /\ server' = "closing"
  /\ UNCHANGED <<request, drained>>

ShutdownExpires ==
  /\ server = "closing"
  /\ drained' = TRUE
  /\ UNCHANGED <<request, server>>

\* ListenAndServe returns as soon as Shutdown is called, runServer returns after
\* it, and the process ends.
Exit ==
  /\ server = "closing"
  /\ server' = "exited"
  /\ request' = [r \in Requests |->
                   IF InFlight(r) THEN [request[r] EXCEPT !.pc = "cut"] ELSE request[r]]
  /\ UNCHANGED drained

Next ==
  \/ \E r \in Requests : Arrive(r) \/ HandlerStep(r) \/ Environment(r)
  \/ Shutdown \/ ShutdownExpires \/ Exit

Spec == Init /\ [][Next]_vars

\* A handler that can go on goes on, and the timer fires.  Nothing is asked of the
\* upstream, and of the client only that it reads what it is sent or hangs up.
FairSpec ==
  /\ Spec
  /\ \A r \in Requests : WF_vars(HandlerStep(r)) /\ WF_vars(TimesOut(r))

-----------------------------------------------------------------------------
(* Properties. *)

\* A translated response whose upstream failed part way is never a success to the
\* client: either the status says so or an error event ends the stream, so that
\* it does not take half a message for a whole one (serveOpenAIChat,
\* serveTranslatedStream).
FailureIsNeverASuccess ==
  \A r \in Requests :
    /\ At(r, "done")
    /\ request[r].kind \in Translated
    /\ request[r].fault # "none"
    => request[r].status # "2xx" \/ request[r].tail = "errorEvent"

\* A fault that is not the client's doing leaves an error line, at every place and
\* time it can strike, the provider's timeout included (docs/DECISIONS.md section 13).
FaultsAreErrors ==
  \A r \in Requests :
    /\ request[r].pc = "done"
    /\ request[r].client = "waiting"
    /\ request[r].fault # "none" \/ request[r].status = "5xx"
    => "error" \in request[r].logged

\* Every request ends, whatever the upstream does and however long it takes: the
\* provider's timeout bounds the reading of the body as well as the call.
RequestsEnd ==
  \A r \in Requests : InFlight(r) ~> ~InFlight(r)

\* The claim of docs/DECISIONS.md:166-168: the daemon "shuts down with a 5s bound of
\* its own", draining its connections: it exits once no request is in flight, or
\* once the bound has passed.
ExitsDrained ==
  [][server # "exited" /\ server' = "exited" =>
       drained \/ \A r \in Requests : ~InFlight(r)]_vars
=============================================================================
