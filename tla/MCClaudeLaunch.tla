--------------------------- MODULE MCClaudeLaunch ---------------------------
(***************************************************************************)
(* One launch.  Three signals are one more than the channel and the        *)
(* handler can hold between them, so one of them is dropped.               *)
(***************************************************************************)
EXTENDS ClaudeLaunch

ThreeSignals == 3
=============================================================================
