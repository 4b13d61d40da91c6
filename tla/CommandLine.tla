----------------------------- MODULE CommandLine -----------------------------
(***************************************************************************)
(* The commands that keep files and need no daemon: the profile store, the *)
(* rc files and the installed binary, side by side on one host.  No two of *)
(* the three parts share a file, so that a behaviour of them all is any    *)
(* interleaving of three that have nothing to do with each other; the      *)
(* steps of one behaviour here are those of one part.                      *)
(***************************************************************************)
EXTENDS ProfileStore, ShellHooks, SelfUpdate

VARIABLE part     \* the part this behaviour is about

commandVars == <<vars, hooksVars, updateVars, part>>

Parts == {"profiles", "hooks", "update"}

CommandInit == part \in Parts /\ Init /\ HooksInit /\ UpdateInit

CommandNext ==
  /\ \/ part = "profiles" /\ Next /\ UNCHANGED <<hooksVars, updateVars>>
     \/ part = "hooks" /\ HooksNext /\ UNCHANGED <<vars, updateVars>>
     \/ part = "update" /\ UpdateNext /\ UNCHANGED <<vars, hooksVars>>
  /\ UNCHANGED part

CommandSpec == CommandInit /\ [][CommandNext]_commandVars

-----------------------------------------------------------------------------
(* Properties. *)

\* The types of the variables of the three parts.
CommandTypes == TypeOK /\ HooksTypeOK /\ UpdateTypeOK

\* What is replaced by a rename is whole at every moment, whatever fails half way and
\* whichever process is killed, as long as the machine stays up: a profile is all of what
\* some command wrote, or is not there, and the binary is a release (main.go:1365-1367: "a
\* reader sees either the old file or the new one and never a truncated write";
\* replaceBinary).
ReplacedFilesAreWhole == ProfilesAreWhole /\ InstalledIsWhole
=============================================================================
