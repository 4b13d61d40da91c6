-------------------------- MODULE AnthropicMessage --------------------------
(***************************************************************************)
(* What a translated stream promises its caller, without the events that   *)
(* deliver it: a message is a growing list of blocks, of which only the    *)
(* last one may still be open; blocks come thinking, then text, then tool  *)
(* calls; and the message ends once, either complete with every block      *)
(* sealed or cut short by an error.                                        *)
(*                                                                         *)
(* This is the order stream.go's comments and                              *)
(* docs/PLAN_OPENAI_CHAT_DIALECT.md (section 4.5) state.  StreamTranslator *)
(* implements it.                                                          *)
(***************************************************************************)
EXTENDS Naturals, Sequences

VARIABLES
  phase,      \* how far the message has come
  blocks      \* <<[kind, sealed], ...>>

vars == <<phase, blocks>>

Kinds == {"thinking", "text", "tool"}

\* A block may follow another one of a lower rank; tool calls may repeat.
MayFollow(kind, earlier) ==
  CASE kind = "thinking" -> FALSE
    [] kind = "text" -> earlier = "thinking"
    [] kind = "tool" -> TRUE

Sealed(bs) == [i \in 1 .. Len(bs) |-> [kind |-> bs[i].kind, sealed |-> TRUE]]

Init == phase = "waiting" /\ blocks = <<>>

Begin == phase = "waiting" /\ phase' = "streaming" /\ UNCHANGED blocks

\* Opening a block seals the one before it.
OpenBlock(kind) ==
  /\ phase = "streaming"
  /\ \A i \in 1 .. Len(blocks) : MayFollow(kind, blocks[i].kind)
  /\ blocks' = Append(Sealed(blocks), [kind |-> kind, sealed |-> FALSE])
  /\ UNCHANGED phase

Complete ==
  /\ phase \in {"waiting", "streaming"}
  /\ phase' = "done"
  /\ blocks' = Sealed(blocks)

Abort ==
  /\ phase \in {"waiting", "streaming"}
  /\ phase' = "failed"
  /\ UNCHANGED blocks

Next == Begin \/ Complete \/ Abort \/ \E kind \in Kinds : OpenBlock(kind)

Spec == Init /\ [][Next]_vars
=============================================================================
