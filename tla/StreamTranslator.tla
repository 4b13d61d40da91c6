-------------------------- MODULE StreamTranslator --------------------------
(***************************************************************************)
(* stream.go: the translation of an upstream OpenAI chat-completions       *)
(* stream into the Anthropic event sequence, and serveTranslatedStream,    *)
(* which runs it and reports its failure in band.                          *)
(*                                                                         *)
(* One upstream event is read at a time (dispatch).  The parts of a chunk  *)
(* are then handled one by one, each by one of the append functions; the   *)
(* events a part produces reach the client before the next part is         *)
(* handled, because emit flushes.  The text of a fragment is abstracted to *)
(* its source: reasoning, text, or the index of a tool call.               *)
(***************************************************************************)
EXTENDS AnthropicClient

CONSTANTS
  Chunks,         \* the chunks the upstream may send
  MaxChunks       \* bound on the events read from one upstream stream

FinishReasons == {"stop", "length", "tool_calls", "content_filter"}

\* One entry of delta.tool_calls; `named' and `args' tell whether the name
\* and the arguments string are non-empty.
ToolCall == [call : Calls, named : BOOLEAN, args : BOOLEAN]

Chunk == [reasoning : BOOLEAN, content : BOOLEAN, calls : Seq(ToolCall),
          finish : FinishReasons \cup {"none"}, usage : Reports \cup {"none"}]

ASSUME StreamAssumption ==
  /\ Chunks \subseteq Chunk
  /\ MaxChunks \in Nat

VARIABLES
  wire,        \* [client, nextIndex, openIndex, state]: what the append
               \* functions change, with the client each emit reaches
  started,
  finished,
  tools,       \* the accumulator of each upstream call index
  stopReason,
  usage,
  run,         \* where run() is: "reading", "failed" (it returned an
               \* error), "returned" (the handler is over)
  todo,        \* the parts of the current chunk not yet handled
  reads,       \* events read so far
  heard        \* what the upstream has sent, kept for the properties

vars == <<wire, started, finished, tools, stopReason, usage, run, todo, reads, heard>>

\* An index with no accumulator yet is one with nothing recorded.
EmptyAccumulator == [named |-> FALSE, opened |-> FALSE, pending |-> 0]

Init ==
  /\ wire = [client |-> Fresh, nextIndex |-> 0, openIndex |-> NoIndex, state |-> "start"]
  /\ started = FALSE
  /\ finished = FALSE
  /\ tools = [c \in Calls |-> EmptyAccumulator]
  /\ stopReason = "end_turn"
  /\ usage = "none"
  /\ run = "reading"
  /\ todo = <<>>
  /\ reads = 0
  /\ heard = [sent |-> [x \in Sources |-> 0], last |-> "none", interleaved |-> FALSE,
              finish |-> "none", usage |-> "none"]

-----------------------------------------------------------------------------
(* The block operations, on the wire record. *)

OpenBlock(w, source) ==
  [client |-> BlockStart(w.client, w.nextIndex, source),
   nextIndex |-> w.nextIndex + 1,
   openIndex |-> w.nextIndex,
   state |-> KindOf(source)]

\* A content delta goes to whatever block is open.
Delta(w, source, n) ==
  [w EXCEPT !.client = BlockDelta(@, w.openIndex, source, n)]

\* Mutant: a thinking block closes without its signature.
CloseBlockUnsigned(w) ==
  IF w.openIndex < 0 THEN w
  ELSE [client |-> BlockStop(w.client, w.openIndex), nextIndex |-> w.nextIndex,
        openIndex |-> NoIndex, state |-> "start"]

CloseBlock(w) ==
  IF w.openIndex < 0 THEN w
  ELSE LET signed == IF w.state = "thinking" THEN SignatureDelta(w.client, w.openIndex)
                     ELSE w.client
       IN  [client |-> BlockStop(signed, w.openIndex),
            nextIndex |-> w.nextIndex,
            openIndex |-> NoIndex,
            state |-> "start"]

AppendReasoning(w) ==
  IF w.state \in {"text", "tool"} THEN w
  ELSE Delta(IF w.state = "thinking" THEN w ELSE OpenBlock(CloseBlock(w), "reasoning"),
             "reasoning", 1)

\* Mutant: text after a tool call opens a text block.
AppendTextReopening(w) ==
  Delta(IF w.state = "text" THEN w ELSE OpenBlock(CloseBlock(w), "text"), "text", 1)

AppendText(w) ==
  IF w.state = "tool" THEN w
  ELSE Delta(IF w.state = "text" THEN w ELSE OpenBlock(CloseBlock(w), "text"), "text", 1)

\* The accumulator once the fragment's name is recorded.
Named(acc, part) == [acc EXCEPT !.named = @ \/ part.named]

Size(part) == IF part.args THEN 1 ELSE 0

\* Mutant: what was held for the name is not flushed.
AppendToolCallUnflushed(w, acc, part) ==
  CASE acc.opened -> IF part.args THEN Delta(w, part.source, 1) ELSE w
    [] ~acc.opened /\ ~Named(acc, part).named -> w
    [] OTHER -> LET opened == OpenBlock(CloseBlock(w), part.source)
                IN  IF part.args THEN Delta(opened, part.source, 1) ELSE opened

\* Mutant: arguments that precede their name go out at once.
AppendToolCallUnheld(w, acc, part) ==
  CASE acc.opened \/ (~Named(acc, part).named /\ w.state = "tool") ->
         IF part.args THEN Delta(w, part.source, 1) ELSE w
    [] ~acc.opened /\ ~Named(acc, part).named /\ w.state # "tool" -> w
    [] OTHER -> Delta(OpenBlock(CloseBlock(w), part.source), part.source,
                      acc.pending + Size(part))

\* A call that is open takes its arguments at once, one without a name holds
\* them, and the fragment that brings the name opens the block and flushes.
AppendToolCall(w, acc, part) ==
  CASE acc.opened -> IF part.args THEN Delta(w, part.source, 1) ELSE w
    [] ~acc.opened /\ ~Named(acc, part).named -> w
    [] OTHER -> LET opened == OpenBlock(CloseBlock(w), part.source)
                    held == acc.pending + Size(part)
                IN  IF held > 0 THEN Delta(opened, part.source, held) ELSE opened

Accumulate(acc, part) ==
  CASE acc.opened -> Named(acc, part)
    [] ~acc.opened /\ ~Named(acc, part).named -> [acc EXCEPT !.pending = @ + Size(part)]
    [] OTHER -> [named |-> TRUE, opened |-> TRUE, pending |-> 0]

StartMessage(w, begun) ==
  IF begun THEN w ELSE [w EXCEPT !.client = MessageStart(@)]

FinishMessage(w, reason, report) ==
  [CloseBlock(w) EXCEPT
     !.client = MessageStop(MessageDelta(@, reason,
                              IF report = "none" THEN "estimate" ELSE report))]

\* Mutant: an unrecognised reason is passed through.
MapStopReasonRaw(finish) ==
  CASE finish = "tool_calls" -> "tool_use"
    [] OTHER -> finish

MapStopReason(finish) ==
  CASE finish = "length" -> "max_tokens"
    [] finish = "tool_calls" -> "tool_use"
    [] finish = "content_filter" -> "refusal"
    [] OTHER -> "end_turn"

-----------------------------------------------------------------------------
(* The upstream's events. *)

\* handleChunk's order: reasoning, content, then the tool calls.
Parts(chunk) ==
     (IF chunk.reasoning
      THEN <<[source |-> "reasoning", named |-> FALSE, args |-> TRUE]>> ELSE <<>>)
  \o (IF chunk.content
      THEN <<[source |-> "text", named |-> FALSE, args |-> TRUE]>> ELSE <<>>)
  \o [i \in 1 .. Len(chunk.calls) |->
        [source |-> chunk.calls[i].call, named |-> chunk.calls[i].named,
         args |-> chunk.calls[i].args]]

Reading == run = "reading" /\ todo = <<>>

RecordFinish(chunk) ==
  IF chunk.finish = "none" THEN stopReason ELSE MapStopReason(chunk.finish)

\* Mutant: usage is only read from a chunk that carries a choice.
RecordUsageWithChoice(chunk) ==
  IF chunk.usage = "none" \/ (chunk.finish = "none" /\ Parts(chunk) = <<>>)
  THEN usage ELSE chunk.usage

RecordUsage(chunk) == IF chunk.usage = "none" THEN usage ELSE chunk.usage

\* dispatch of a chunk: start, then handleChunk.  The finish reason and the
\* usage are recorded; only finish() reads them, after every part.
ReadChunk(chunk) ==
  /\ Reading
  /\ reads < MaxChunks
  /\ reads' = reads + 1
  /\ wire' = StartMessage(wire, started)
  /\ started' = TRUE
  /\ stopReason' = RecordFinish(chunk)
  /\ usage' = RecordUsage(chunk)
  /\ todo' = Parts(chunk)
  /\ heard' = [heard EXCEPT !.finish = IF chunk.finish = "none" THEN @ ELSE chunk.finish,
                            !.usage = IF chunk.usage = "none" THEN @ ELSE chunk.usage]
  /\ UNCHANGED <<finished, tools, run>>

\* The upstream has sent one more fragment of `part's source.  It interleaves
\* its calls when it returns to one after sending a fragment of another.
Hear(part) ==
  heard' = [heard EXCEPT
    !.sent[part.source] = @ + Size(part),
    !.last = IF part.source \in Calls THEN part.source ELSE @,
    !.interleaved = \/ @
                    \/ /\ part.source \in Calls
                       /\ part.source # heard.last
                       /\ tools[part.source] # EmptyAccumulator]

HandlePart ==
  /\ run = "reading"
  /\ todo # <<>>
  /\ LET part == Head(todo)
     IN  /\ wire' = CASE part.source = "reasoning" -> AppendReasoning(wire)
                      [] part.source = "text" -> AppendText(wire)
                      [] OTHER -> AppendToolCall(wire, tools[part.source], part)
         /\ tools' = IF part.source \in Calls
                     THEN [tools EXCEPT ![part.source] = Accumulate(@, part)]
                     ELSE tools
         /\ Hear(part)
  /\ todo' = Tail(todo)
  /\ UNCHANGED <<started, finished, stopReason, usage, run, reads>>

\* [DONE], or a clean end of the body: start, finish, and run returns.
Finish ==
  /\ Reading
  /\ wire' = LET w == StartMessage(wire, started)
             IN  IF finished THEN w ELSE FinishMessage(w, stopReason, usage)
  /\ started' = TRUE
  /\ finished' = TRUE
  /\ run' = "returned"
  /\ UNCHANGED <<tools, stopReason, usage, todo, reads, heard>>

\* Mutant: the handler ignores the error run returns.
ReadFailsSilently ==
  /\ Reading
  /\ run' = "returned"
  /\ UNCHANGED <<wire, started, finished, tools, stopReason, usage, todo, reads, heard>>

\* An unreadable chunk, an event over maxEventBytes, or a failed read, which
\* includes the provider's timeout: run returns an error.
ReadFails ==
  /\ Reading
  /\ run' = "failed"
  /\ UNCHANGED <<wire, started, finished, tools, stopReason, usage, todo, reads, heard>>

\* serveTranslatedStream reports the error in band: the status is committed.
EmitError ==
  /\ run = "failed"
  /\ run' = "returned"
  /\ wire' = [wire EXCEPT !.client = ErrorEvent(@)]
  /\ UNCHANGED <<started, finished, tools, stopReason, usage, todo, reads, heard>>

Next ==
  \/ \E chunk \in Chunks : ReadChunk(chunk)
  \/ HandlePart
  \/ Finish
  \/ ReadFails
  \/ EmitError

Spec == Init /\ [][Next]_vars

\* The handler goroutine keeps running, and the client's Timeout (positive for
\* every provider) fails a body read that chunks alone would keep alive.
Fairness == WF_vars(HandlePart) /\ WF_vars(EmitError) /\ SF_vars(ReadFails)

FairSpec == Spec /\ Fairness
=============================================================================
