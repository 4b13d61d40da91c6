----------------------------- MODULE SelfUpdate -----------------------------
(***************************************************************************)
(* main.go: update, which looks up the latest release and puts it in the   *)
(* place of the installed binary.  An update is a process that runs the    *)
(* binary as it was when it began; others may run at the same time, and    *)
(* releases come and go.  A tag is the sequence of its numbers.            *)
(***************************************************************************)
EXTENDS Integers, Sequences

CONSTANTS
  Updates,        \* the runs of update
  Tags,           \* the tags of releases
  Base            \* larger than every number of a tag

\* The version of a binary that carries no tag.
LocalBuild == <<>>

ASSUME UpdateAssumption ==
  /\ Base \in Nat
  /\ Tags \subseteq Seq(0 .. Base - 1) \ {LocalBuild}
  /\ \A tag \in Tags : Len(tag) <= 3

VARIABLES
  binary,         \* the installed binary: its version, and whether the file is whole
  latest,         \* the tag of the latest release
  update,         \* the state of each update
  download,       \* the temporary file of each
  disturbed       \* the updates during which another one replaced the binary

updateVars == <<binary, latest, update, download, disturbed>>

NotBegun == [pc |-> "not begun", current |-> LocalBuild, byPath |-> FALSE, force |-> FALSE,
             tag |-> LocalBuild]

UpdateInit ==
  /\ binary \in [version : Tags \cup {LocalBuild}, whole : {TRUE}]
  /\ latest \in Tags
  /\ update = [u \in Updates |-> NotBegun]
  /\ download = [u \in Updates |-> "absent"]
  /\ disturbed = {}

-----------------------------------------------------------------------------
(* compareVersions *)

Part(tag, i) == IF i <= Len(tag) THEN tag[i] ELSE 0

\* Mutant: of two tags that differ in length only the shorter is the older.
CompareLengths(a, b) ==
  LET differ == {i \in 1 .. Len(a) : i <= Len(b) /\ a[i] # b[i]}
      first  == CHOOSE i \in differ : \A j \in differ : i <= j
  IN  IF differ = {} THEN Len(a) - Len(b) ELSE a[first] - b[first]

\* The first part that differs decides; a part that is missing is 0.
Compare(a, b) ==
  LET differ == {i \in 1 .. Len(a) + Len(b) : Part(a, i) # Part(b, i)}
      first  == CHOOSE i \in differ : \A j \in differ : i <= j
  IN  IF differ = {} THEN 0 ELSE IF Part(a, first) < Part(b, first) THEN -1 ELSE 1

-----------------------------------------------------------------------------

InUpdate(u, pc) == update[u].pc = pc

UpdateGoes(u, pc) == update' = [update EXCEPT ![u].pc = pc]

\* The shell starts the binary by its path, or finds it on PATH, so that os.Args[0] is
\* the bare name, which is no file of the directory it runs in.
BeginUpdate(u) ==
  /\ InUpdate(u, "not begun")
  /\ \E byPath \in BOOLEAN, force \in BOOLEAN :
       update' = [update EXCEPT ![u] = [NotBegun EXCEPT !.pc = "look up", !.current = binary.version,
                                                        !.byPath = byPath, !.force = force]]
  /\ UNCHANGED <<binary, latest, download, disturbed>>

LookUp(u) ==
  /\ InUpdate(u, "look up")
  /\ update' = [update EXCEPT ![u].pc = "decide", ![u].tag = latest]
  /\ UNCHANGED <<binary, latest, download, disturbed>>

LookUpFails(u) ==
  /\ InUpdate(u, "look up")
  /\ UpdateGoes(u, "failed")
  /\ UNCHANGED <<binary, latest, download, disturbed>>

\* A local build is replaced only when that is asked for, and a build that is not a file
\* by the name it was started with is taken for one.
Decide(u) ==
  LET r == update[u]
  IN  /\ InUpdate(u, "decide")
      /\ UpdateGoes(u,
           IF r.current = LocalBuild THEN IF r.force THEN "create" ELSE "kept"
           ELSE IF ~r.byPath THEN "create"
           ELSE IF Compare(r.current, r.tag) >= 0 THEN "kept" ELSE "create")
      /\ UNCHANGED <<binary, latest, download, disturbed>>

CreateDownload(u) ==
  /\ InUpdate(u, "create")
  /\ \/ download' = [download EXCEPT ![u] = "torn"] /\ UpdateGoes(u, "download")
     \/ UNCHANGED download /\ UpdateGoes(u, "failed")
  /\ UNCHANGED <<binary, latest, disturbed>>

Download(u) ==
  /\ InUpdate(u, "download")
  /\ download' = [download EXCEPT ![u] = "whole"]
  /\ UpdateGoes(u, "install")
  /\ UNCHANGED <<binary, latest, disturbed>>

\* The download breaks off or the release is gone, or Chmod or Rename fails.
DownloadFails(u) ==
  /\ InUpdate(u, "download") \/ InUpdate(u, "install")
  /\ download' = [download EXCEPT ![u] = "absent"]
  /\ UpdateGoes(u, "failed")
  /\ UNCHANGED <<binary, latest, disturbed>>

Running(u) == update[u].pc \in {"look up", "decide", "create", "download", "install"}

Install(u) ==
  /\ InUpdate(u, "install")
  /\ binary' = [version |-> update[u].tag, whole |-> download[u] = "whole"]
  /\ download' = [download EXCEPT ![u] = "absent"]
  /\ UpdateGoes(u, "updated")
  /\ disturbed' = disturbed \cup {v \in Updates \ {u} : Running(v)}
  /\ UNCHANGED latest

UpdateKilled(u) ==
  /\ Running(u)
  /\ UpdateGoes(u, "killed")
  /\ download' = [download EXCEPT ![u] = "absent"]
  /\ UNCHANGED <<binary, latest, disturbed>>

\* A release is published, or withdrawn so that an earlier one is the latest.
Publish ==
  /\ latest' \in Tags
  /\ UNCHANGED <<binary, update, download, disturbed>>

UpdateStep(u) ==
  \/ BeginUpdate(u) \/ LookUp(u) \/ LookUpFails(u) \/ Decide(u) \/ CreateDownload(u)
  \/ Download(u) \/ DownloadFails(u) \/ Install(u) \/ UpdateKilled(u)

UpdateNext == (\E u \in Updates : UpdateStep(u)) \/ Publish

UpdateSpec == UpdateInit /\ [][UpdateNext]_updateVars

-----------------------------------------------------------------------------
(* Properties. *)

\* The types of the variables; past the look-up an update has the tag of a release.
UpdateTypeOK ==
  /\ binary \in [version : Tags \cup {LocalBuild}, whole : BOOLEAN]
  /\ latest \in Tags
  /\ update \in [Updates -> [pc : {"not begun", "look up", "decide", "create", "download",
                                 "install", "kept", "updated", "failed", "killed"},
                            current : Tags \cup {LocalBuild}, byPath : BOOLEAN, force : BOOLEAN,
                            tag : Tags \cup {LocalBuild}]]
  /\ \A u \in Updates :
       update[u].pc \in {"decide", "create", "download", "install"} => update[u].tag \in Tags
  /\ download \in [Updates -> {"absent", "torn", "whole"}]
  /\ disturbed \subseteq Updates

\* The number a tag stands for when each of its parts is a digit, of three.
Weight(tag) == (Part(tag, 1) * Base + Part(tag, 2)) * Base + Part(tag, 3)

Replaces(u) == InUpdate(u, "install") /\ update'[u].pc = "updated"

\* The installed binary is a whole release at every moment, also while it is replaced,
\* when a download breaks off and when an update is killed (replaceBinary).
InstalledIsWhole == binary.whole

\* A release that is started by its path is replaced by a newer one only, if no other
\* update replaces it meanwhile, whatever is published while the update runs; a local
\* build only when that is asked for (updateCLI).
NewerReplacesOlder ==
  [][\A u \in Updates :
       Replaces(u) /\ u \notin disturbed =>
         IF binary.version = LocalBuild THEN update[u].force
         ELSE update[u].byPath => Weight(binary'.version) > Weight(binary.version)]_updateVars
=============================================================================
