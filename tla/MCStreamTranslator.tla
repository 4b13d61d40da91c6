------------------------ MODULE MCStreamTranslator ------------------------
(***************************************************************************)
(* Two tool calls and the chunks that matter for them: reasoning, text,    *)
(* both at once, a named and an unnamed fragment of each call, two calls   *)
(* in one chunk, a finish reason alone and with usage, usage alone.        *)
(***************************************************************************)
EXTENDS StreamProperties

CONSTANTS c0, c1, r1

Quiet == [reasoning |-> FALSE, content |-> FALSE, calls |-> <<>>,
          finish |-> "none", usage |-> "none"]

Fragment(c, named, args) == [call |-> c, named |-> named, args |-> args]

Calling(calls) == [Quiet EXCEPT !.calls = calls]

MCChunks ==
  { [Quiet EXCEPT !.reasoning = TRUE],
    [Quiet EXCEPT !.content = TRUE],
    [Quiet EXCEPT !.reasoning = TRUE, !.content = TRUE],
    Calling(<<Fragment(c0, TRUE, FALSE), Fragment(c1, TRUE, TRUE)>>),
    [Quiet EXCEPT !.finish = "tool_calls", !.usage = r1],
    [Quiet EXCEPT !.finish = "length"],
    [Quiet EXCEPT !.usage = r1] }
  \cup { Calling(<<Fragment(c, named, args)>>) :
           c \in {c0, c1}, named \in BOOLEAN, args \in BOOLEAN }

MCCalls == {c0, c1}
MCReports == {r1}
=============================================================================
