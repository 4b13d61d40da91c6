-------------------------- MODULE StreamProperties --------------------------
(***************************************************************************)
(* The properties of StreamTranslator.                                     *)
(***************************************************************************)
EXTENDS StreamTranslator

client == wire.client

Wire == [client : Client, nextIndex : Nat, openIndex : Nat \cup {NoIndex},
         state : Kinds \cup {"start"}]

Part == [source : Sources, named : BOOLEAN, args : BOOLEAN]

\* Every variable has its type: in particular the translator only ever reports
\* an Anthropic stop reason, whatever finish reasons the upstream sends.
TypeOK ==
  /\ wire \in Wire
  /\ started \in BOOLEAN
  /\ finished \in BOOLEAN
  /\ tools \in [Calls -> [named : BOOLEAN, opened : BOOLEAN, pending : Nat]]
  /\ stopReason \in Reasons
  /\ usage \in Reports \cup {"none"}
  /\ run \in {"reading", "failed", "returned"}
  /\ todo \in Seq(Part)
  /\ reads \in 0 .. MaxChunks

-----------------------------------------------------------------------------
(* The translator's bookkeeping agrees with what the client was told. *)

PhaseAgrees ==
  client.phase = CASE finished -> "done"
                   [] ~finished /\ run = "returned" -> "failed"
                   [] ~finished /\ run # "returned" /\ started -> "streaming"
                   [] OTHER -> "waiting"

\* The open block is the last one allocated, is of the kind the state names,
\* and is the only one not sealed.
Synced(w) ==
  /\ w.nextIndex = Len(w.client.blocks)
  /\ w.openIndex = w.client.open
  /\ w.openIndex \in {NoIndex, w.nextIndex - 1}
  /\ (w.state = "start") <=> (w.openIndex = NoIndex)
  /\ \A i \in 1 .. Len(w.client.blocks) :
       w.client.blocks[i].sealed <=> (i # w.openIndex + 1)
  /\ w.openIndex # NoIndex =>
       KindOf(w.client.blocks[w.openIndex + 1].source) = w.state

\* The client and the translator never lose sync: the translator sends no event
\* the client rejects, so a delta never goes to a closed block, to no block, or
\* to a block of another kind (closeBlock, openBlock and the append functions).
InSync == PhaseAgrees /\ Synced(wire)

-----------------------------------------------------------------------------
(* Why a block never opens out of order: the state remembers what the      *)
(* message holds, and it never returns to an earlier one.                  *)

Ordered(w) ==
  /\ w.state = "start" => w.client.blocks = <<>>
  /\ w.state = "thinking" =>
       \A i \in 1 .. Len(w.client.blocks) : KindOf(w.client.blocks[i].source) = "thinking"
  /\ w.state = "text" =>
       \A i \in 1 .. Len(w.client.blocks) - 1 :
         KindOf(w.client.blocks[i].source) = "thinking"

\* The inductive invariant.  A call that is open keeps the tool state, which is
\* why its later fragments always find a block open.
Inductive ==
  /\ TypeOK
  /\ InSync
  /\ run # "returned" => ~finished
  /\ run = "reading" =>
       /\ Ordered(wire)
       /\ \A c \in Calls : tools[c].opened => wire.state = "tool"
  /\ todo # <<>> => started /\ run = "reading"

View(w) ==
  [i \in 1 .. Len(w.client.blocks) |->
     [kind |-> KindOf(w.client.blocks[i].source), sealed |-> w.client.blocks[i].sealed]]

\* Blocks come thinking, text, tool calls, the first two at most once, each
\* sealed before the next opens, and the message ends once: the events of
\* stream.go implement AnthropicMessage.
Message == INSTANCE AnthropicMessage WITH
  phase <- client.phase,
  blocks <- View(wire)

MessageSpec == Message!Spec

-----------------------------------------------------------------------------
(* Where the upstream's fragments end up. *)

\* The total of a list of counts.
Total(counts) ==
  LET upTo[i \in 0 .. Len(counts)] == IF i = 0 THEN 0 ELSE upTo[i - 1] + counts[i]
  IN  upTo[Len(counts)]

\* What the blocks of a message received of a source, block by block.
Got(bs, source) == [i \in 1 .. Len(bs) |-> bs[i].got[source]]

Delivered(source) == Total(Got(client.blocks, source))

Held(source) == IF source \in Calls THEN tools[source].pending ELSE 0

HasBlock(kinds) == \E i \in 1 .. Len(client.blocks) : KindOf(client.blocks[i].source) \in kinds

\* No fragment is duplicated, and none is lost but for two reasons: reasoning
\* that arrives after content began, and text that arrives after a tool call
\* began.  A tool call's arguments are delivered or held for its name.
FragmentsAccounted ==
  \A source \in Sources :
    LET accounted == Delivered(source) + Held(source)
    IN  /\ accounted <= heard.sent[source]
        /\ accounted < heard.sent[source] =>
             \/ source = "reasoning" /\ HasBlock({"text", "tool"})
             \/ source = "text" /\ HasBlock({"tool"})

OwnFragmentsOnly ==
  \A i \in 1 .. Len(client.blocks) : \A x \in Sources \ {client.blocks[i].source} :
    client.blocks[i].got[x] = 0

\* As long as the upstream sends each call's fragments without returning to an
\* earlier call, every block holds the fragments of its own source only.
SequentialCallsKeepApart == heard.interleaved \/ OwnFragmentsOnly

\* The claim of docs/PLAN_OPENAI_CHAT_DIALECT.md:439-446: fragments of parallel
\* calls are keyed by their index, so each reaches the block of its own call.
ParallelCallsKeepApart == OwnFragmentsOnly

\* A complete message reports the last finish reason and the last usage the
\* upstream sent, in whichever chunk they came, and the estimate only when the
\* upstream never reported.
ClosingReport ==
  client.phase = "done" =>
    /\ client.reason = MapStopReason(heard.finish)
    /\ client.usage = IF heard.usage = "none" THEN "estimate" ELSE heard.usage

\* Every stream ends for the client, complete or with an in-band error.
StreamEnds == <>(client.phase \in {"done", "failed"})
=============================================================================
