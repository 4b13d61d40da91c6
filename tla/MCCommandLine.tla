---------------------------- MODULE MCCommandLine ----------------------------
(***************************************************************************)
(* Profiles: two shells, in a directory one level below the root, and two  *)
(* profiles, one of which has the longer name.  One shell runs two         *)
(* commands while the other runs one, so two markers may change during a   *)
(* search.                                                                 *)
(*                                                                         *)
(* Hooks: three runs of init and uninstall over two rc files, and an edit. *)
(* One of the files may hold all that matters when the other is not there, *)
(* or both are there and plain.                                            *)
(*                                                                         *)
(* Update: two of them, and releases whose tags differ in length, in a     *)
(* number of two digits and not at all.                                    *)
(***************************************************************************)
EXTENDS CommandLine

TwoShells == {"s1", "s2"}
TwoNames == {"lab", "office"}
Lengths == [n \in TwoNames |-> IF n = "lab" THEN 3 ELSE 6]
TwoModels == {"m1", "m2"}
OneText == {"t"}
TwoDirectories == 2
ThreeCommands == [s \in TwoShells |-> IF s = "s1" THEN 2 ELSE 1]

ThreeRuns == {"r1", "r2", "r3"}
TwoFiles == 2
TwoLines == {"path", "prompt"}
OneEdit == 1

Plain == File(<<"path">>, FALSE)

SomeFiles ==
  {NoFile, Plain, File(<<>>, TRUE), File(<<"path", "blank">>, FALSE),
   File(<<"path", "mention">>, TRUE), File(<<"indented", "path">>, TRUE),
   File(<<"prompt", "comment", "hook", "path">>, TRUE)}

TwoUpdates == {"u1", "u2"}
SomeTags == {<<1, 9>>, <<1, 10>>, <<1, 10, 0>>, <<2>>}
Eleven == 11

\* Commands make the rest of what the store may hold.
SmallStore ==
  /\ profiles["office"] = [is |-> "whole", text |-> "t", model |-> "m1"]
  /\ profiles["lab"] \in {Absent, Invalid, [is |-> "whole", text |-> "t", model |-> "m1"]}
  /\ markers[0] = "office" /\ markers[1] = "absent" /\ markers[2] # "office"

\* The parts a behaviour is not about are at one of their first states.
EmptyStore ==
  /\ \A n \in Names : profiles[n] = Absent
  /\ \A p \in Places : markers[p] = "absent"

SmallInit ==
  /\ part \in Parts
  /\ Init
  /\ IF part = "profiles" THEN SmallStore ELSE EmptyStore
  /\ HooksInit
  /\ IF part = "hooks" THEN rc[2] = NoFile \/ rc = <<Plain, Plain>> ELSE rc = <<NoFile, NoFile>>
  /\ UpdateInit
  /\ part # "update" => binary.version = LocalBuild /\ latest = <<1, 9>>

SmallSpec == SmallInit /\ [][CommandNext]_commandVars
=============================================================================
