----------------------------- MODULE Conversation -----------------------------
(***************************************************************************)
(* translate.go: a conversation through an openai-chat route.  Every       *)
(* request carries the whole transcript, which translateAnthropicRequest   *)
(* turns into a chat; every answer is turned into an assistant message by  *)
(* translateOpenAIResponse and joins the transcript, so what one request   *)
(* loses or reorders, the later ones live with.                            *)
(*                                                                         *)
(* A block is known by its place <<message, block>> in the transcript,     *)
(* which also stands for the id of a tool call.  A message whose content   *)
(* is a string is one with a single text block, or none if it is empty.    *)
(***************************************************************************)
EXTENDS SequencesExt

CONSTANTS
  Prompts,        \* the blocks a user's message may hold
  Replies,        \* what the upstream may answer
  MaxMessages     \* bound on the messages of a transcript

NoPlace == <<0, 0>>

Reply == [reasoning : BOOLEAN, content : BOOLEAN, calls : Nat]

ASSUME ConversationAssumption ==
  /\ \A p \in Prompts : p \in Seq({"text", "image"})
  /\ Replies \subseteq Reply
  /\ MaxMessages \in Nat

VARIABLES
  system,         \* whether the requests have a system prompt
  transcript,     \* <<[role, blocks], ...>>, a block being [type, answers]
  chat,           \* the messages of the latest upstream request
  turn            \* "user", or "upstream" while the request is out

vars == <<system, transcript, chat, turn>>

Plain(type) == [type |-> type, answers |-> NoPlace]

\* The elements of s that are in S, in order.
Those(s, S) == FlattenSeq([i \in 1 .. Len(s) |-> IF s[i] \in S THEN <<s[i]>> ELSE <<>>])

Places(i, message, type) ==
  Those([j \in 1 .. Len(message.blocks) |-> <<i, j>>],
        {i} \X {j \in 1 .. Len(message.blocks) : message.blocks[j].type = type})

-----------------------------------------------------------------------------
(* translateAnthropicMessages. *)

\* One message per tool result.
ToolMessages(i, message) ==
  LET results == Places(i, message, "tool_result")
  IN  [k \in 1 .. Len(results) |->
         [role |-> "tool", answers |-> message.blocks[results[k][2]].answers,
          content |-> <<results[k]>>, structured |-> FALSE, calls |-> <<>>]]

\* What is left of a message: its text, as a string, or with its images as an array;
\* and its calls.
Spoken(i, message) ==
  LET images == Places(i, message, "image")
  IN  [role |-> message.role, answers |-> NoPlace,
       content |-> Places(i, message, "text") \o images, structured |-> images # <<>>,
       calls |-> Places(i, message, "tool_use")]

\* The results first.  A message with neither text nor calls leaves nothing else,
\* images or not.
Entries(i, message) ==
  IF Places(i, message, "text") = <<>> /\ Places(i, message, "tool_use") = <<>>
  THEN ToolMessages(i, message)
  ELSE Append(ToolMessages(i, message), Spoken(i, message))

\* Mutant: tool messages have a role in common, too.
MergeableTools(last, next) ==
  ~next.structured /\ ~last.structured /\ last.role = next.role /\ last.calls = <<>>

Mergeable(last, next) ==
  /\ ~next.structured
  /\ ~last.structured
  /\ last.role = next.role
  /\ last.calls = <<>>
  /\ last.answers = NoPlace

\* Mutant: the message with the role is looked for further back.
MergeInAnywhere(out, next) ==
  IF \E k \in 1 .. Len(out) : Mergeable(out[k], next)
  THEN LET k == CHOOSE k \in 1 .. Len(out) : Mergeable(out[k], next)
       IN  [out EXCEPT ![k].content = @ \o next.content]
  ELSE Append(out, next)

\* Mutant: the later message takes the place of the earlier one.
MergeInReplacing(out, next) ==
  IF out # <<>> /\ Mergeable(Last(out), next)
  THEN [out EXCEPT ![Len(out)].content = next.content]
  ELSE Append(out, next)

\* Only the content of the later message is kept.
MergeIn(out, next) ==
  IF out # <<>> /\ Mergeable(Last(out), next)
  THEN [out EXCEPT ![Len(out)].content = @ \o next.content]
  ELSE Append(out, next)

MergeSameRole(messages) ==
  LET merged[k \in 0 .. Len(messages)] ==
        IF k = 0 THEN <<>> ELSE MergeIn(merged[k - 1], messages[k])
  IN  merged[Len(messages)]

TranslateMessages(messages) ==
  MergeSameRole(FlattenSeq([i \in 1 .. Len(messages) |-> Entries(i, messages[i])]))

SystemMessage ==
  [role |-> "system", answers |-> NoPlace, content |-> <<NoPlace>>,
   structured |-> FALSE, calls |-> <<>>]

TranslateRequest ==
  (IF system THEN <<SystemMessage>> ELSE <<>>) \o TranslateMessages(transcript)

-----------------------------------------------------------------------------
(* translateOpenAIResponse: thinking, then text, then the calls. *)

TranslateResponse(reply) ==
  [role |-> "assistant",
   blocks |-> (IF reply.reasoning THEN <<Plain("thinking")>> ELSE <<>>)
              \o (IF reply.content THEN <<Plain("text")>> ELSE <<>>)
              \o [k \in 1 .. reply.calls |-> Plain("tool_use")]]

-----------------------------------------------------------------------------

Init ==
  /\ system \in BOOLEAN
  /\ transcript = <<>>
  /\ chat = <<>>
  /\ turn = "user"

\* The calls of the last message, which the next one has to answer.
OpenCalls ==
  IF transcript = <<>> THEN <<>>
  ELSE Places(Len(transcript), Last(transcript), "tool_use")

Says(message) ==
  /\ Len(transcript) < MaxMessages
  /\ transcript' = Append(transcript, message)
  /\ UNCHANGED system

\* The user says something, perhaps again while no answer came, together with the
\* results of the calls that are open.
UserSays(prompt) ==
  /\ prompt # <<>> \/ OpenCalls # <<>>
  /\ Says([role |-> "user",
           blocks |-> [k \in 1 .. Len(OpenCalls) |->
                         [type |-> "tool_result", answers |-> OpenCalls[k]]]
                      \o [k \in 1 .. Len(prompt) |-> Plain(prompt[k])]])
  /\ turn' = "user"
  /\ UNCHANGED chat

Request ==
  /\ turn = "user"
  /\ transcript # <<>>
  /\ Last(transcript).role = "user"
  /\ chat' = TranslateRequest
  /\ turn' = "upstream"
  /\ UNCHANGED <<system, transcript>>

Answer(reply) ==
  /\ turn = "upstream"
  /\ Says(TranslateResponse(reply))
  /\ turn' = "user"
  /\ UNCHANGED chat

Next ==
  \/ \E prompt \in Prompts : UserSays(prompt)
  \/ Request
  \/ \E reply \in Replies : Answer(reply)

Spec == Init /\ [][Next]_vars

-----------------------------------------------------------------------------
(* Properties. *)

Asked == turn = "upstream"

\* The places of all blocks of a type, in the order of the transcript.
All(type) ==
  FlattenSeq([i \in 1 .. Len(transcript) |-> Places(i, transcript[i], type)])

OfType(type) ==
  {p \in (1 .. Len(transcript)) \X Nat :
     /\ p[2] \in 1 .. Len(transcript[p[1]].blocks)
     /\ transcript[p[1]].blocks[p[2]].type = type}

Sent == FlattenSeq([k \in 1 .. Len(chat) |-> chat[k].content])

SentOf(type) == Those(Sent, OfType(type))

\* Every text and every tool result reaches the upstream once, in the order it was
\* said, under the role that said it, however messages are merged; an image does
\* unless its message has nothing else to say (translateAnthropicMessages,
\* mergeSameRole).
ContentSurvives ==
  Asked =>
    /\ SentOf("text") = All("text")
    /\ SentOf("tool_result") = All("tool_result")
    /\ SentOf("image") =
         Those(All("image"),
               {p \in OfType("image") : Places(p[1], transcript[p[1]], "text") # <<>>})
    /\ \A k \in 1 .. Len(chat) : chat[k].role \in {"user", "assistant"} =>
         \A n \in 1 .. Len(chat[k].content) :
           transcript[chat[k].content[n][1]].role = chat[k].role

\* The message the tool message k answers to: the last before it that is none.
Caller(k) == CHOOSE h \in 0 .. k - 1 :
  /\ h = 0 \/ chat[h].role # "tool"
  /\ \A m \in h + 1 .. k - 1 : chat[m].role = "tool"

Answered(k) ==
  /\ Caller(k) # 0
  /\ \E n \in 1 .. Len(chat[Caller(k)].calls) : chat[Caller(k)].calls[n] = chat[k].answers

\* The claim of translate.go:296: "Tool messages and tool calls are left alone, since
\* merging them would break the call-and-result pairing a chat-completions upstream
\* matches on".  Every tool message answers a call of the message right before it.
PairingKept ==
  Asked => \A k \in 1 .. Len(chat) : chat[k].role = "tool" => Answered(k)

\* Every user message has something to say that is not an image.
UserHeard ==
  \A i \in 1 .. Len(transcript) :
    transcript[i].role = "user" =>
      \E j \in 1 .. Len(transcript[i].blocks) :
        transcript[i].blocks[j].type \in {"text", "tool_result"}

\* As long as no message of the user's vanishes, every call reaches the upstream
\* and a result of its own follows at once: "a chat-completions upstream sees tool calls
\* answered immediately" (translateAnthropicMessages).
CallsAnsweredAtOnce ==
  Asked /\ UserHeard =>
    /\ PairingKept
    /\ FlattenSeq([k \in 1 .. Len(chat) |-> chat[k].calls]) = All("tool_use")
    /\ FlattenSeq([k \in 1 .. Len(chat) |->
         IF chat[k].role = "tool" THEN <<chat[k].answers>> ELSE <<>>]) = All("tool_use")

\* The next request of a conversation repeats the last one but for its last message,
\* which is what the upstream's prompt cache lives on.
RepeatsLastRequest ==
  [][chat # <<>> /\ chat' # chat => IsPrefix(Front(chat), chat')]_vars
=============================================================================
