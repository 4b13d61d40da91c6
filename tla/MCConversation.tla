--------------------------- MODULE MCConversation ---------------------------
(***************************************************************************)
(* Prompts with and without text and images, in either order, and none at  *)
(* all; answers of each kind of block, with up to two calls, and an empty  *)
(* one.  Five messages hold two answers with a prompt before, between and  *)
(* after them.                                                             *)
(***************************************************************************)
EXTENDS Conversation

MCPrompts == {<<>>, <<"text">>, <<"image">>, <<"image", "text">>, <<"text", "text">>}

Answering(reasoning, content, calls) ==
  [reasoning |-> reasoning, content |-> content, calls |-> calls]

MCReplies ==
  {Answering(FALSE, TRUE, 0), Answering(TRUE, TRUE, 1), Answering(FALSE, FALSE, 2),
   Answering(TRUE, FALSE, 0), Answering(FALSE, FALSE, 0), Answering(FALSE, FALSE, 1)}
=============================================================================
