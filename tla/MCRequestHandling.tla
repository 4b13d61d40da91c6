-------------------------- MODULE MCRequestHandling --------------------------
(***************************************************************************)
(* Two requests at a time, which share nothing but the server they would   *)
(* be cut with, and bodies of two parts: enough for a failure before,      *)
(* between and after the parts.                                            *)
(***************************************************************************)
EXTENDS RequestHandling

CONSTANTS r1, r2

MCRequests == {r1, r2}
OneRequest == {r1}
MCMaxParts == 2
OnePart == 1
=============================================================================
