-------------------------- MODULE AnthropicClient --------------------------
(***************************************************************************)
(* The caller's side of a translated stream: what an Anthropic client      *)
(* assembles from the server-sent events it receives, one operator per     *)
(* event kind.  The client is not part of the repository; it is modelled   *)
(* from the events stream.go writes and from the block grammar its         *)
(* comments rely on.  An event the client cannot accept makes the message  *)
(* "malformed", which it never leaves.                                     *)
(*                                                                         *)
(* Content is abstracted to where it came from: every delta carries some   *)
(* number of upstream fragments of one source, and a block counts what it  *)
(* received from each source.                                              *)
(***************************************************************************)
EXTENDS Integers, Sequences

CONSTANTS
  Calls,          \* the upstream's tool_calls[].index values
  Reports         \* the usage reports the upstream may send

\* The strings name what is not a tool call and not an upstream report.
ASSUME ClientAssumption ==
  /\ {"reasoning", "text", "none"} \cap Calls = {}
  /\ {"none", "estimate"} \cap Reports = {}

NoIndex == -1

Sources == {"reasoning", "text"} \cup Calls

Kinds == {"thinking", "text", "tool"}

KindOf(source) ==
  CASE source = "reasoning" -> "thinking"
    [] source = "text" -> "text"
    [] OTHER -> "tool"

Reasons == {"end_turn", "max_tokens", "tool_use", "refusal"}

Phases == {"waiting", "streaming", "closing", "done", "failed", "malformed"}

Block == [source : Sources, sealed : BOOLEAN, got : [Sources -> Nat]]

Client == [phase : Phases, open : Nat \cup {NoIndex}, blocks : Seq(Block),
           reason : Reasons \cup {"none"}, usage : Reports \cup {"none", "estimate"}]

Fresh == [phase |-> "waiting", open |-> NoIndex, blocks |-> <<>>,
          reason |-> "none", usage |-> "none"]

Malformed(c) == [c EXCEPT !.phase = "malformed"]

\* Block i is the open one, and it holds the kind of content `source' has.
Accepts(c, i, source) ==
  /\ c.phase = "streaming"
  /\ i = c.open
  /\ i + 1 \in 1 .. Len(c.blocks)
  /\ KindOf(c.blocks[i + 1].source) = KindOf(source)

MessageStart(c) ==
  IF c.phase = "waiting" THEN [c EXCEPT !.phase = "streaming"] ELSE Malformed(c)

BlockStart(c, i, source) ==
  IF c.phase = "streaming" /\ c.open = NoIndex /\ i = Len(c.blocks)
  THEN [c EXCEPT !.open = i,
                 !.blocks = Append(@, [source |-> source, sealed |-> FALSE,
                                       got |-> [x \in Sources |-> 0]])]
  ELSE Malformed(c)

\* n fragments of `source' arrive in a content delta for block i.
BlockDelta(c, i, source, n) ==
  IF Accepts(c, i, source)
  THEN [c EXCEPT !.blocks[i + 1].got[source] = @ + n]
  ELSE Malformed(c)

\* Only a thinking block takes a signature, which is its last delta.
SignatureDelta(c, i) ==
  IF Accepts(c, i, "reasoning")
  THEN [c EXCEPT !.blocks[i + 1].sealed = TRUE]
  ELSE Malformed(c)

\* A thinking block must have been signed before it stops.
BlockStop(c, i) ==
  IF /\ c.phase = "streaming"
     /\ i = c.open
     /\ i + 1 \in 1 .. Len(c.blocks)
     /\ KindOf(c.blocks[i + 1].source) = "thinking" => c.blocks[i + 1].sealed
  THEN [c EXCEPT !.open = NoIndex, !.blocks[i + 1].sealed = TRUE]
  ELSE Malformed(c)

\* The closing report: why the message stopped and what it used.
MessageDelta(c, reason, usage) ==
  IF c.phase = "streaming" /\ c.open = NoIndex
  THEN [c EXCEPT !.phase = "closing", !.reason = reason, !.usage = usage]
  ELSE Malformed(c)

MessageStop(c) ==
  IF c.phase = "closing" THEN [c EXCEPT !.phase = "done"] ELSE Malformed(c)

ErrorEvent(c) ==
  IF c.phase \in {"waiting", "streaming"}
  THEN [c EXCEPT !.phase = "failed"]
  ELSE Malformed(c)
=============================================================================
