---------------------------- MODULE ProfileStore ----------------------------
(***************************************************************************)
(* main.go: the profiles, the markers that select one of them, and the     *)
(* commands on both: create, model, delete, local, global, launch and run. *)
(*                                                                         *)
(* A command is a process of its own that shares nothing with the others   *)
(* but the file system, so every system call it makes is a step.  A launch *)
(* looks for a marker in its directory, then in the parent, and so on, and *)
(* then at the global one: the places 1 .. Depth are the directories, the  *)
(* root first, and place 0 is the global marker, where the search ends.    *)
(***************************************************************************)
EXTENDS Naturals

CONSTANTS
  Shells,         \* the shells commands are run from
  Names,          \* the names of profiles
  Length,         \* how long each name is
  Models,         \* what a profile's model may be
  Texts,          \* what the rest of a profile may be
  Depth,          \* how deep the deepest directory is
  MaxCommands     \* bound on the commands that are run from each shell

Unreadable == {"empty", "mixed"}

ASSUME StoreAssumption ==
  /\ Depth \in Nat /\ MaxCommands \in [Shells -> Nat]
  /\ Length \in [Names -> Nat]
  /\ Names \cap (Unreadable \cup {"absent", "none", "nothing", "malformed"}) = {}

Places == 0 .. Depth

\* What a profile's file may be: a document that parses, a whole file that does not, for
\* its top level is no object, or a part of a file, an empty one included.
Document == [is : {"whole"}, text : Texts, model : Models]
Absent == [is |-> "absent"]
Invalid == [is |-> "invalid"]
Torn == [is |-> "torn"]

\* A command, at one of its system calls, and what it has in memory.
Command ==
  [pc : {"idle", "check", "source", "load", "temp", "write", "rename", "delete", "truncate",
         "fill", "unlinked", "unset", "search", "read"},
   cmd : {"none", "create", "model", "delete", "select", "unselect", "launch", "run"},
   name : Names \cup {"none"}, from : Places, place : Places, force : BOOLEAN,
   model : Models \cup {"none"}, doc : Document \cup {Absent},
   report : {"none", "done", "failed", "unwritten", "killed", "plain", "nothing", "malformed"}]

VARIABLES
  profiles,       \* what the file of each profile holds
  markers,        \* what each marker holds: a name, or what readProfileName rejects
  temporary,      \* what the temporary file of each shell's command holds
  cli,            \* the state of each shell's command
  commands,       \* how many each shell began; bounded by MaxCommands
  history         \* what the properties need to know of the past

files == <<profiles, markers, temporary>>
vars == <<profiles, markers, temporary, cli, commands, history>>

Idle == [pc |-> "idle", cmd |-> "none", name |-> "none", from |-> 0, place |-> 0,
         force |-> FALSE, model |-> "none", doc |-> Absent, report |-> "none"]

NothingYet == [touched |-> {}, answers |-> {}, contents |-> {}]

Init ==
  /\ profiles \in [Names -> {Absent, Invalid} \cup Document]
  /\ markers \in [Places -> {"absent"} \cup Names]
  /\ temporary = [s \in Shells |-> Absent]
  /\ cli = [s \in Shells |-> Idle]
  /\ commands = [s \in Shells |-> 0]
  /\ history = [interrupted |-> FALSE, crossed |-> {}, since |-> [s \in Shells |-> NothingYet]]

-----------------------------------------------------------------------------
(* Steps within a command. *)

At(s, pc) == cli[s].pc = pc

Becomes(s, r) == cli' = [cli EXCEPT ![s] = r]

Goes(s, pc) == Becomes(s, [cli[s] EXCEPT !.pc = pc])

\* The command is over; what it says is all that is left of it.
Over(what) == [Idle EXCEPT !.report = what]

Reports(s, what) == Becomes(s, Over(what))

Creation(n, force) ==
  [Idle EXCEPT !.cmd = "create", !.name = n, !.force = force,
               !.pc = IF force THEN "source" ELSE "check"]
ModelChange(n, m) == [Idle EXCEPT !.cmd = "model", !.name = n, !.model = m, !.pc = "load"]
Deletion(n) == [Idle EXCEPT !.cmd = "delete", !.name = n, !.pc = "delete"]
Selection(n, p) == [Idle EXCEPT !.cmd = "select", !.name = n, !.place = p, !.pc = "truncate"]
Unselection(p) == [Idle EXCEPT !.cmd = "unselect", !.place = p, !.pc = "unset"]

\* "launch" without a profile insists on one, "run" and the wrapper do not; at place 0
\* it is "launch global".
Launching(c, p) == [Idle EXCEPT !.cmd = c, !.from = p, !.place = p, !.pc = "search"]

Begin(s) ==
  /\ At(s, "idle")
  /\ commands[s] < MaxCommands[s]
  /\ commands' = [commands EXCEPT ![s] = @ + 1]
  /\ \/ \E n \in Names, force \in BOOLEAN : Becomes(s, Creation(n, force))
     \/ \E n \in Names, m \in Models : Becomes(s, ModelChange(n, m))
     \/ \E n \in Names : Becomes(s, Deletion(n))
     \/ \E n \in Names, p \in Places : Becomes(s, Selection(n, p))
     \/ \E p \in Places : Becomes(s, Unselection(p))
     \/ \E c \in {"launch", "run"}, p \in Places : Becomes(s, Launching(c, p))
  /\ UNCHANGED files

\* Mutant: --force is assumed.
CheckForced(s) ==
  /\ At(s, "check")
  /\ Goes(s, "source")
  /\ UNCHANGED <<files, commands>>

\* profileCreate without --force: any file of the name will do, a broken one too.
Check(s) ==
  /\ At(s, "check")
  /\ IF profiles[cli[s].name] = Absent THEN Goes(s, "source") ELSE Reports(s, "failed")
  /\ UNCHANGED <<files, commands>>

\* The --from file, if it can be read and parses, or the template.
Source(s) ==
  /\ At(s, "source")
  /\ \/ \E d \in Document : Becomes(s, [cli[s] EXCEPT !.pc = "temp", !.doc = d])
     \/ Reports(s, "failed")
  /\ UNCHANGED <<files, commands>>

\* Mutant: a profile that does not parse is changed, too.
LoadUnparsed(s) ==
  /\ At(s, "load")
  /\ IF profiles[cli[s].name] # Absent
     THEN Becomes(s, [cli[s] EXCEPT !.pc = "temp", !.doc = profiles[cli[s].name]])
     ELSE Reports(s, "failed")
  /\ UNCHANGED <<files, commands>>

\* setProfileModel reads the profile and changes its own copy.
Load(s) ==
  /\ At(s, "load")
  /\ LET d == profiles[cli[s].name]
     IN  IF d \in Document
         THEN Becomes(s, [cli[s] EXCEPT !.pc = "temp", !.doc = [d EXCEPT !.model = cli[s].model]])
         ELSE Reports(s, "failed")
  /\ UNCHANGED <<files, commands>>

\* writeProfileFile: a temporary file in the same directory, its contents, its name.
CreateTemp(s) ==
  /\ At(s, "temp")
  /\ \/ temporary' = [temporary EXCEPT ![s] = Torn] /\ Goes(s, "write")
     \/ UNCHANGED temporary /\ Reports(s, "failed")
  /\ UNCHANGED <<profiles, markers, commands>>

WriteTemp(s) ==
  /\ At(s, "write")
  /\ temporary' = [temporary EXCEPT ![s] = cli[s].doc]
  /\ Goes(s, "rename")
  /\ UNCHANGED <<profiles, markers, commands>>

\* Mutant: an error of Write is not looked at.
WriteFailsUnseen(s) ==
  /\ At(s, "write") \/ At(s, "rename")
  /\ Goes(s, "rename")
  /\ UNCHANGED <<files, commands>>

\* Write, Chmod, Close or Rename fails: the file is removed.
WriteFails(s) ==
  /\ At(s, "write") \/ At(s, "rename")
  /\ temporary' = [temporary EXCEPT ![s] = Absent]
  /\ Reports(s, "failed")
  /\ UNCHANGED <<profiles, markers, commands>>

Rename(s) ==
  /\ At(s, "rename")
  /\ profiles' = [profiles EXCEPT ![cli[s].name] = temporary[s]]
  /\ temporary' = [temporary EXCEPT ![s] = Absent]
  /\ Reports(s, "done")
  /\ UNCHANGED <<markers, commands>>

Delete(s) ==
  /\ At(s, "delete")
  /\ profiles' = [profiles EXCEPT ![cli[s].name] = Absent]
  /\ Reports(s, IF profiles[cli[s].name] = Absent THEN "failed" ELSE "done")
  /\ UNCHANGED <<markers, temporary, commands>>

-----------------------------------------------------------------------------
(* The markers: os.WriteFile opens and truncates, and then writes at the   *)
(* start of what it opened, whatever has become of it in the meantime.     *)

\* Mutant: the file is opened without O_TRUNC.
TruncateNot(s) ==
  /\ At(s, "truncate")
  /\ markers' = [markers EXCEPT ![cli[s].place] = IF @ = "absent" THEN "empty" ELSE @]
  /\ Goes(s, "fill")
  /\ UNCHANGED <<profiles, temporary, commands>>

Truncate(s) ==
  /\ At(s, "truncate")
  /\ markers' = [markers EXCEPT ![cli[s].place] = "empty"]
  /\ Goes(s, "fill")
  /\ UNCHANGED <<profiles, temporary, commands>>

\* A longer name that another command wrote meanwhile keeps its tail, a line of its own; a
\* tail of one byte is its newline, which readProfileName trims.
Overlaid(n, held) ==
  CASE held \in Names -> {IF Length[held] > Length[n] + 1 THEN "mixed" ELSE n}
    [] held = "mixed" -> {n, "mixed"}
    [] OTHER          -> {n}

Fill(s) ==
  /\ At(s, "fill")
  /\ \/ /\ \E held \in Overlaid(cli[s].name, markers[cli[s].place]) :
             markers' = [markers EXCEPT ![cli[s].place] = held]
        /\ Reports(s, "done")
     \/ Reports(s, "unwritten") /\ UNCHANGED markers
  /\ UNCHANGED <<profiles, temporary, commands>>

\* The file it opened is no longer the marker: another command removed it.
FillUnlinked(s) ==
  /\ At(s, "unlinked")
  /\ Reports(s, "done")
  /\ UNCHANGED <<files, commands>>

Unset(s) ==
  /\ At(s, "unset")
  /\ markers' = [markers EXCEPT ![cli[s].place] = "absent"]
  /\ cli' = [t \in Shells |->
               IF t = s THEN Over("done")
               ELSE IF At(t, "fill") /\ cli[t].place = cli[s].place
               THEN [cli[t] EXCEPT !.pc = "unlinked"]
               ELSE cli[t]]
  /\ UNCHANGED <<profiles, temporary, commands>>

\* resolveLaunch takes no marker and one it cannot read for an error of its own;
\* resolveProvider takes either for no profile, and claude is started without one.
Unresolved(s, why) == Reports(s, IF cli[s].cmd = "run" THEN "plain" ELSE why)

\* Mutant: a marker that cannot be read is passed over.
SearchLenient(s) ==
  /\ At(s, "search")
  /\ LET p == cli[s].place
     IN  CASE markers[p] \in Names -> Becomes(s, [cli[s] EXCEPT !.pc = "read", !.name = markers[p]])
           [] OTHER -> IF p = 0 THEN Unresolved(s, "nothing")
                       ELSE Becomes(s, [cli[s] EXCEPT !.place = p - 1])
  /\ UNCHANGED <<files, commands>>

\* findLocalProfile and findGlobalProfile, one marker at a time: only one that is
\* not there sends the search on.
Search(s) ==
  /\ At(s, "search")
  /\ LET p == cli[s].place
     IN  CASE markers[p] \in Unreadable -> Unresolved(s, "malformed")
           [] markers[p] = "absent"     -> IF p = 0 THEN Unresolved(s, "nothing")
                                           ELSE Becomes(s, [cli[s] EXCEPT !.place = p - 1])
           [] OTHER -> Becomes(s, [cli[s] EXCEPT !.pc = "read", !.name = markers[p]])
  /\ UNCHANGED <<files, commands>>

\* buildClaudeCommand reads the profile that was found.
Read(s) ==
  /\ At(s, "read")
  /\ Reports(s, IF profiles[cli[s].name] \in Document THEN "done" ELSE "failed")
  /\ UNCHANGED <<files, commands>>

\* The process ends by a signal it does not handle or a fault.  The temporary file that may
\* be left has a name of its own, and no command looks at it again.  The machine going
\* down is not among these: nothing is synced before the rename (main.go:1369-1391), so
\* what a file holds after a loss of power is up to the file system.
Killed(s) ==
  /\ ~At(s, "idle")
  /\ Reports(s, "killed")
  /\ temporary' = [temporary EXCEPT ![s] = Absent]
  /\ UNCHANGED <<profiles, markers, commands>>

-----------------------------------------------------------------------------
(* What is remembered for the properties only. *)

\* What a search that took no time would find from place p up.
Resolved(m, p) ==
  LET set == {q \in 0 .. p : m[q] # "absent"}
      q   == CHOOSE q \in set : \A r \in set : r <= q
  IN  IF set = {} THEN "nothing" ELSE IF m[q] \in Names THEN m[q] ELSE "malformed"

\* While a command of s runs: the markers that changed, what its search would have
\* found at once, and what its profile held.
Since(s) ==
  LET before == IF At(s, "idle") THEN NothingYet ELSE history.since[s]
      r      == IF At(s, "idle") THEN cli'[s] ELSE cli[s]
  IN  [touched  |-> before.touched \cup
                      {p \in Places : ~At(s, "idle") /\ r.pc = "search" /\ markers'[p] # markers[p]},
       answers  |-> before.answers \cup
                      (IF r.pc = "search" THEN {Resolved(markers', r.from)} ELSE {}),
       contents |-> before.contents \cup
                      (IF r.cmd \in {"create", "model"} THEN {profiles'[r.name]} ELSE {})]

Remember ==
  history' =
    [interrupted |-> history.interrupted
       \/ \E s \in Shells : ~At(s, "idle") /\ cli'[s].report \in {"killed", "unwritten"},
     crossed |-> history.crossed \cup
       {p \in Places : \E s, t \in Shells : /\ s # t
                                            /\ cli'[s].pc = "fill" /\ cli'[s].place = p
                                            /\ cli'[t].pc = "fill" /\ cli'[t].place = p},
     since |-> [s \in Shells |-> IF cli'[s].pc = "idle" THEN NothingYet ELSE Since(s)]]

Step(s) ==
  \/ Check(s) \/ Source(s) \/ Load(s)
  \/ CreateTemp(s) \/ WriteTemp(s) \/ WriteFails(s) \/ Rename(s)
  \/ Delete(s)
  \/ Truncate(s) \/ Fill(s) \/ FillUnlinked(s) \/ Unset(s)
  \/ Search(s) \/ Read(s)

Next == (\E s \in Shells : Begin(s) \/ Step(s) \/ Killed(s)) /\ Remember

Spec == Init /\ [][Next]_vars

-----------------------------------------------------------------------------
(* Properties. *)

\* The types of the variables; no part of a file is ever in a command's memory.
TypeOK ==
  /\ profiles \in [Names -> {Absent, Invalid, Torn} \cup Document]
  /\ markers \in [Places -> {"absent"} \cup Unreadable \cup Names]
  /\ temporary \in [Shells -> {Absent, Torn} \cup Document]
  /\ cli \in [Shells -> Command]
  /\ commands \in [Shells -> Nat] /\ \A s \in Shells : commands[s] <= MaxCommands[s]

\* A profile is the whole of what some command wrote, or is not there, whatever fails
\* half way and whoever is killed (main.go:1365-1367: "a reader sees either the old
\* file or the new one and never a truncated write").
ProfilesAreWhole == \A n \in Names : profiles[n] # Torn

\* When no command runs, none was interrupted and no two wrote it at once, a marker is
\* one name: a longer one that it held before leaves nothing (set*Profile).
MarkersAreReadable ==
  (\A s \in Shells : At(s, "idle")) /\ ~history.interrupted =>
    \A p \in Places \ history.crossed : markers[p] \notin Unreadable

\* A profile that was there from the beginning of a create without --force to its end
\* is not replaced, and a model change puts its model, and nothing else, into what the
\* profile held at some moment since it began (profileCreate, setProfileModel).
EffectIsOfItsTime(s) ==
  LET held == history.since[s].contents
      r    == cli[s]
  IN  r.pc = "rename" /\ cli'[s].report = "done" =>
        /\ r.cmd = "create" => r.force \/ Absent \in held
        /\ r.cmd = "model"  => \E d \in held \cap Document :
                                 profiles'[r.name] = [d EXCEPT !.model = r.model]

EffectsAreOfTheirTime == [][\A s \in Shells : EffectIsOfItsTime(s)]_vars

\* The search takes time.  If no more than one marker changes meanwhile it still finds
\* what it would have found at once at some moment since it began; of two that change it
\* may see the later change and miss the earlier (findLocalProfile, findProfile).
SearchAnswers(s) ==
  LET answer == IF cli'[s].pc = "read" THEN cli'[s].name ELSE cli'[s].report
  IN  /\ At(s, "search")
      /\ cli'[s].pc # "search"
      /\ answer # "killed"
      => \E a \in history.since[s].answers :
           answer = IF a \notin Names /\ cli[s].cmd = "run" THEN "plain" ELSE a

ResolvesAtOnePoint ==
  [][\A s \in Shells : \/ \E p, q \in history.since[s].touched : p # q
                       \/ SearchAnswers(s)]_vars
=============================================================================
