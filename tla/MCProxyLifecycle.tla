------------------------- MODULE MCProxyLifecycle -------------------------
(***************************************************************************)
(* One shell, whose commands do not overlap, or two, whose commands do;    *)
(* three process ids, enough for a daemon, its successor and a process     *)
(* that is not a proxy.                                                    *)
(***************************************************************************)
EXTENDS ProxyLifecycle

CONSTANTS sh1, sh2, p1, p2, p3

OneShell == {sh1}
TwoShells == {sh1, sh2}
MCPids == {p1, p2, p3}
=============================================================================
