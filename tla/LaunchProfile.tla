---------------------------- MODULE LaunchProfile ----------------------------
(***************************************************************************)
(* A launch together with the expansion of its profile's env block: the    *)
(* main goroutine scans the block before it creates the settings file.     *)
(***************************************************************************)
EXTENDS ClaudeLaunch, EnvExpand

launchVars == <<vars, expansion>>

LaunchInit == Init /\ ExpandInit

\* The block is read, unless there is no profile at all.
Untouched == scan.status = "next" /\ DOMAIN expanded = {}

\* expandProfileData comes first; the launch itself does not start before it is over.
ExpandStep ==
  /\ main = "prepare"
  /\ Expand
  /\ UNCHANGED vars

\* Only a block that expanded as a whole is written.
Prepared == scan.status = "done"

\* No profile, one that does not parse, one whose env is no object or does not expand, or
\* no room for the temporary file.
PreparationFails == PrepareFails /\ (Untouched \/ scan.status \in {"failed", "done"})

\* Mutant: the file is created before the block is expanded.
CreatesSettingsEarly == CreateTemp

CreatesSettings == CreateTemp /\ Prepared

LaunchesPlain == LaunchPlain /\ Untouched

LaunchMain ==
  \/ ExpandStep
  \/ (PreparationFails \/ CreatesSettings \/ LaunchesPlain) /\ UNCHANGED expansion
  \/ MainStep /\ main # "prepare" /\ UNCHANGED expansion

LaunchNext ==
  \/ LaunchMain
  \/ /\ \/ Receive
        \/ \E g \in {"main", "handler"} : Cleanup(g)
        \/ Signal \/ Killed \/ ClaudeEnds
     /\ UNCHANGED expansion

\* Both goroutines are scheduled.  claude owes no one its end.
LaunchSpec ==
  /\ LaunchInit /\ [][LaunchNext]_launchVars
  /\ WF_launchVars(LaunchMain \/ (Cleanup("main") /\ UNCHANGED expansion))
  /\ WF_launchVars((Receive \/ Cleanup("handler")) /\ UNCHANGED expansion)

-----------------------------------------------------------------------------
(* Properties. *)

\* No file with any of a profile in it exists before every string of the env block has been
\* expanded: a variable that is not set, whichever value of the block refers to it, stops
\* the launch with nothing on the disk (buildClaudeCommand, expandProfileData,
\* writeLaunchSettings).  Values like "a$b" are excepted, as in ExpandsByPlace.
SettingsAreExpanded ==
  settings # "absent" =>
    /\ scan.status = "done"
    /\ \A k \in Strings : k \in DOMAIN expanded /\ (WithinWords(block[k]) \/ AllSet(block[k]))
=============================================================================
