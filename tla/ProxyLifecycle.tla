--------------------------- MODULE ProxyLifecycle ---------------------------
(***************************************************************************)
(* main.go: the proxy start, stop, restart and status commands, the pid    *)
(* files they share, and the daemon they manage.                           *)
(*                                                                         *)
(* Each command is a process of its own that shares nothing with the       *)
(* others but the file system and the process table, so every system call  *)
(* it makes is a step.  The daemon binds one port, and processes that are  *)
(* not proxies come and go in the same table: "alien" ones the user may    *)
(* signal and "foreign" ones the user may not.  A command may be killed    *)
(* between any two of its system calls.                                    *)
(***************************************************************************)
EXTENDS Naturals, FiniteSets

CONSTANTS
  Clis,           \* the shells commands are run from
  Pids            \* the process ids of the machine

Files == {"current", "legacy"}      \* pidPath and legacyPidPath

\* Process ids and the other contents a pid file can have are told apart.
ASSUME LifecycleAssumption == {"absent", "torn", "none"} \cap Pids = {}

VARIABLES
  files,          \* what each pid file holds; "torn" is an empty file
  table,          \* the process table
  cli,            \* the state of each shell's command
  history         \* the daemons whose start ended before it recorded them, and whether
                  \* two others met at the port; kept for the properties

vars == <<files, table, cli, history>>

Commands == {"start", "stop", "restart", "status"}

\* A daemon is "starting" until it binds; "signalled" is one that got SIGTERM
\* and has not exited yet; a "zombie" is a child its parent has not reaped.
Daemons == {"starting", "serving", "signalled"}
HoldsPort == {"serving", "signalled"}
Processes == Daemons \cup {"free", "zombie", "alien", "foreign"}

Idle == [pc |-> "idle", cmd |-> "status", file |-> "current", pid |-> "none",
         report |-> "none"]

\* An older release may have left a pid file, of a daemon still up or long gone.
Init ==
  /\ \E p \in Pids, up \in BOOLEAN, left \in BOOLEAN :
       /\ files = [f \in Files |-> IF f = "legacy" /\ left THEN p ELSE "absent"]
       /\ table = [q \in Pids |-> IF q = p /\ left /\ up THEN "serving" ELSE "free"]
  /\ cli = [c \in Clis |-> Idle]
  /\ history = [strays |-> {}, conflict |-> FALSE]

-----------------------------------------------------------------------------
(* Steps within a command. *)

Report(r, what) == [Idle EXCEPT !.cmd = r.cmd, !.report = what]

\* proxyStart begins by looking for a running proxy.
Starting(r) == [r EXCEPT !.cmd = "start", !.pc = "read", !.file = "current"]

\* What each command does when proxyRunningPID found nothing running.
NothingRunning(r) ==
  CASE r.cmd = "start"   -> [r EXCEPT !.pc = "spawn"]
    [] r.cmd = "restart" -> Starting(r)
    [] r.cmd = "stop"    -> Report(r, "nothing")
    [] r.cmd = "status"  -> Report(r, "down")

\* What each command does with the pid of a process that answers signal 0.
Running(r) ==
  CASE r.cmd = "start"  -> Report(r, "already")
    [] r.cmd = "status" -> Report(r, "up")
    [] OTHER            -> [r EXCEPT !.pc = "terminate"]

\* proxyRunningPID goes on to the legacy file, and then gives up.
NextFile(r) ==
  IF r.file = "current" THEN [r EXCEPT !.file = "legacy", !.pc = "read"]
  ELSE NothingRunning(r)

At(c, pc) == cli[c].pc = pc

Becomes(c, r) == cli' = [cli EXCEPT ![c] = r]

\* Mutant: start does not look for a running proxy first.
BeginUnchecked(c, cmd) ==
  /\ At(c, "idle")
  /\ Becomes(c, [Idle EXCEPT !.pc = IF cmd = "start" THEN "spawn" ELSE "read", !.cmd = cmd])
  /\ UNCHANGED <<files, table, history>>

Begin(c, cmd) ==
  /\ At(c, "idle")
  /\ Becomes(c, [Idle EXCEPT !.pc = "read", !.cmd = cmd])
  /\ UNCHANGED <<files, table, history>>

\* Mutant: the contents of the file are not checked.
ReadPidUnchecked(c) ==
  /\ At(c, "read")
  /\ LET r == cli[c]
         content == files[r.file]
     IN  Becomes(c, IF content # "absent"
                    THEN [r EXCEPT !.pid = content, !.pc = "probe"]
                    ELSE NextFile(r))
  /\ UNCHANGED <<files, table, history>>

\* readPID: an absent file and an unreadable pid are both skipped.
ReadPid(c) ==
  /\ At(c, "read")
  /\ LET r == cli[c]
         content == files[r.file]
     IN  Becomes(c, IF content \in Pids
                    THEN [r EXCEPT !.pid = content, !.pc = "probe"]
                    ELSE NextFile(r))
  /\ UNCHANGED <<files, table, history>>

\* Signal 0.  Any error, a refusal included, counts as a process that is gone.
Probe(c) ==
  /\ At(c, "probe")
  /\ LET r == cli[c]
         state == table[r.pid]
     IN  Becomes(c, IF state \in {"free", "foreign"}
                    THEN [r EXCEPT !.pc = "unlink"]
                    ELSE Running(r))
  /\ UNCHANGED <<files, table, history>>

Unlink(c) ==
  /\ At(c, "unlink")
  /\ files' = [files EXCEPT ![cli[c].file] = "absent"]
  /\ Becomes(c, NextFile(cli[c]))
  /\ UNCHANGED <<table, history>>

HasChild(c) == cli[c].pc \in {"truncate", "write", "grace"}

IsChild(p) == \E c \in Clis : cli[c].pid = p /\ HasChild(c)

\* A process is gone once its parent has waited for it; a start that is over
\* leaves its child to init.
Gone(p) == IF IsChild(p) THEN "zombie" ELSE "free"

Exit(p) == table' = [table EXCEPT ![p] = Gone(p)]

\* SIGTERM: a daemon that has not installed its handler dies of it at once.
Terminate(c) ==
  /\ At(c, "terminate")
  /\ LET p == cli[c].pid
     IN  /\ table' = [table EXCEPT ![p] = CASE @ = "serving"  -> "signalled"
                                            [] @ = "starting" -> Gone(p)
                                            [] @ = "alien"    -> "free"
                                            [] OTHER          -> @]
         /\ Becomes(c, IF table[p] = "foreign"
                       THEN Report(cli[c], "refused")
                       ELSE [cli[c] EXCEPT !.pc = "wait"])
  /\ UNCHANGED <<files, history>>

\* Mutant: stop does not wait for the process it signalled.
WaitNot(c) ==
  /\ At(c, "wait")
  /\ Becomes(c, [cli[c] EXCEPT !.pc = "forget"])
  /\ UNCHANGED <<files, table, history>>

\* waitForExit polls until signal 0 fails.  Whether it fails once the pid is used
\* again depends on whether os.Process holds a pidfd, so both can happen.
Wait(c) ==
  /\ At(c, "wait")
  /\ table[cli[c].pid] \notin {"signalled", "zombie"}
  /\ Becomes(c, [cli[c] EXCEPT !.pc = "forget"])
  /\ UNCHANGED <<files, table, history>>

\* Mutant: a stop that gives up still removes the pid file.
WaitExpiresForgetting(c) ==
  /\ At(c, "wait")
  /\ files' = [files EXCEPT ![cli[c].file] = "absent"]
  /\ Becomes(c, Report(cli[c], "expired"))
  /\ UNCHANGED <<table, history>>

\* Mutant: stop waits for ever.
WaitExpiresNever(c) == At(c, "wait") /\ FALSE /\ UNCHANGED vars

\* proxyStopGrace has passed.
WaitExpires(c) ==
  /\ At(c, "wait")
  /\ Becomes(c, Report(cli[c], "expired"))
  /\ UNCHANGED <<files, table, history>>

\* stop is done, and restart goes on to start.
Forget(c) ==
  /\ At(c, "forget")
  /\ files' = [files EXCEPT ![cli[c].file] = "absent"]
  /\ Becomes(c, IF cli[c].cmd = "restart" THEN Starting(cli[c])
                ELSE Report(cli[c], "stopped"))
  /\ UNCHANGED <<table, history>>

\* A config that does not load, a log that does not open, a failed fork.
SpawnFails(c) ==
  /\ At(c, "spawn")
  /\ Becomes(c, Report(cli[c], "failed"))
  /\ UNCHANGED <<files, table, history>>

Spawn(c) ==
  /\ At(c, "spawn")
  /\ \E p \in Pids :
       /\ table[p] = "free"
       /\ table' = [table EXCEPT ![p] = "starting"]
       /\ Becomes(c, [cli[c] EXCEPT !.pc = "truncate", !.pid = p])
       /\ history' = [history EXCEPT !.strays = @ \ {p}]
  /\ UNCHANGED files

\* os.WriteFile opens the file with O_TRUNC and then writes the pid.
Truncate(c) ==
  /\ At(c, "truncate")
  /\ files' = [files EXCEPT !["current"] = "torn"]
  /\ Becomes(c, [cli[c] EXCEPT !.pc = "write"])
  /\ UNCHANGED <<table, history>>

WritePid(c) ==
  /\ At(c, "write")
  /\ files' = [files EXCEPT !["current"] = cli[c].pid]
  /\ Becomes(c, [cli[c] EXCEPT !.pc = "grace"])
  /\ UNCHANGED <<table, history>>

\* A child that exited is reaped by its parent, or by init after it.
Reap(p) == table' = [table EXCEPT ![p] = IF @ = "zombie" THEN "free" ELSE @]

\* The start that c runs is over before its child is recorded.
GoesAstray(c) == history' = [history EXCEPT !.strays = @ \cup {cli[c].pid}]

\* Either half of the write fails: start returns and leaves its child running.
WriteFails(c) ==
  /\ At(c, "truncate") \/ At(c, "write")
  /\ GoesAstray(c)
  /\ Becomes(c, Report(cli[c], "failed"))
  /\ Reap(cli[c].pid)
  /\ UNCHANGED files

\* The child exits within proxyStartGrace.
ChildDied(c) ==
  /\ At(c, "grace")
  /\ table[cli[c].pid] = "zombie"
  /\ Reap(cli[c].pid)
  /\ Becomes(c, [cli[c] EXCEPT !.pc = "undo"])
  /\ UNCHANGED <<files, history>>

Undo(c) ==
  /\ At(c, "undo")
  /\ files' = [files EXCEPT !["current"] = "absent"]
  /\ Becomes(c, Report(cli[c], "failed"))
  /\ UNCHANGED <<table, history>>

GracePasses(c) ==
  /\ At(c, "grace")
  /\ Reap(cli[c].pid)
  /\ Becomes(c, Report(cli[c], "started"))
  /\ UNCHANGED <<files, history>>

Step(c) ==
  \/ ReadPid(c) \/ Probe(c) \/ Unlink(c)
  \/ Terminate(c) \/ Wait(c) \/ WaitExpires(c) \/ Forget(c)
  \/ Spawn(c) \/ SpawnFails(c) \/ Truncate(c) \/ WritePid(c) \/ WriteFails(c)
  \/ ChildDied(c) \/ Undo(c) \/ GracePasses(c)

-----------------------------------------------------------------------------
(* The daemon and the rest of the machine. *)

\* ListenAndServe: one process can hold the port.
Bind(p) ==
  /\ table[p] = "starting"
  /\ \A q \in Pids : table[q] \notin HoldsPort
  /\ table' = [table EXCEPT ![p] = "serving"]
  /\ UNCHANGED <<files, cli, history>>

\* It is a conflict of ours unless one of the two was left without a record.
BindRefused(p) ==
  /\ table[p] = "starting"
  /\ \E q \in Pids : table[q] \in HoldsPort
  /\ Exit(p)
  /\ history' = [history EXCEPT !.conflict =
                   @ \/ \E q \in Pids : table[q] \in HoldsPort /\ {p, q} \cap history.strays = {}]
  /\ UNCHANGED <<files, cli>>

\* A shutdown that ends, or a crash.
Ends(p) ==
  /\ table[p] \in Daemons
  /\ Exit(p)
  /\ UNCHANGED <<files, cli, history>>

\* Processes that are not proxies take the ids that are free.
AlienStarts(p) ==
  /\ table[p] = "free"
  /\ \E kind \in {"alien", "foreign"} : table' = [table EXCEPT ![p] = kind]
  /\ UNCHANGED <<files, cli, history>>

AlienEnds(p) ==
  /\ table[p] \in {"alien", "foreign"}
  /\ table' = [table EXCEPT ![p] = "free"]
  /\ UNCHANGED <<files, cli, history>>

\* The command alone is killed, wherever it is; init takes its child over, and a start
\* killed between the fork and the write of the pid leaves it without a record.
Killed(c) ==
  /\ ~At(c, "idle")
  /\ IF HasChild(c) THEN Reap(cli[c].pid) ELSE UNCHANGED table
  /\ IF At(c, "truncate") \/ At(c, "write") THEN GoesAstray(c) ELSE UNCHANGED history
  /\ Becomes(c, Report(cli[c], "killed"))
  /\ UNCHANGED files

\* Only the files survive.
Reboot ==
  /\ table' = [p \in Pids |-> "free"]
  /\ cli' = [c \in Clis |-> Idle]
  /\ UNCHANGED <<files, history>>

Machine ==
  \/ \E p \in Pids : Bind(p) \/ BindRefused(p) \/ Ends(p) \/ AlienStarts(p) \/ AlienEnds(p)
  \/ Reboot

Next ==
  \/ \E c \in Clis : Step(c) \/ Killed(c) \/ \E cmd \in Commands : Begin(c, cmd)
  \/ Machine

Spec == Init /\ [][Next]_vars

\* A command that is running keeps running, unless it is killed: its waits are bounded by
\* a timer.
FairSpec == Spec /\ \A c \in Clis : WF_vars(Step(c))

-----------------------------------------------------------------------------
(* Properties. *)

Outcomes == {"none", "already", "started", "failed", "stopped", "nothing", "refused",
             "expired", "up", "down", "killed"}

\* Every variable has its type.
TypeOK ==
  /\ files \in [Files -> Pids \cup {"absent", "torn"}]
  /\ table \in [Pids -> Processes]
  /\ cli \in [Clis -> [pc : {"idle", "read", "probe", "unlink", "terminate", "wait",
                             "forget", "spawn", "truncate", "write", "grace", "undo"},
                       cmd : Commands, file : Files, pid : Pids \cup {"none"},
                       report : Outcomes]]
  /\ history \in [strays : SUBSET Pids, conflict : BOOLEAN]

Stray(p) == p \in history.strays

Quiet == \A c \in Clis : At(c, "idle")

\* Whatever daemons crash, machines reboot, commands are killed and process ids are used
\* again around commands run one at a time, a daemon that is up when no command is
\* running is named by a pid file, so that status and stop can see it.  Excepted are the
\* daemons whose own start was killed between the fork (main.go:1822) and the end of
\* os.WriteFile (main.go:1828), or could not write: those the code does leave without a
\* record, and the start after it does not find them (proxyStart, proxyStop,
\* proxyRunningPID).
DaemonIsRecorded ==
  Quiet =>
    \A p \in Pids : table[p] \in Daemons => Stray(p) \/ \E f \in Files : files[f] = p

\* A start or the second half of a restart never finds the port held by a daemon that
\* was recorded: "a restart would race its own predecessor" (docs/DECISIONS.md
\* section 11).  A stray daemon, and one that a stray one keeps from the port, are excepted.
NoSelfConflict == ~history.conflict

\* stop reports a proxy as stopped only when no proxy but a stray one holds the port any
\* more (proxyStop, waitForExit).
StopFreesThePort ==
  [][\A c \in Clis :
       cli[c].report # "stopped" /\ cli'[c].report = "stopped" =>
         \A p \in Pids : table[p] \in HoldsPort => Stray(p)]_vars

\* Every command ends, whatever the daemon does.
CommandsEnd == \A c \in Clis : ~At(c, "idle") ~> At(c, "idle")

\* The claim of docs/PROXY.md:85-86: start "refuses to start a second daemon while
\* one is running".  Whenever no command is running and a daemon serves, a start
\* begun then finds a pid file whose process answers signal 0.  What two earlier
\* starts that overlapped did to the file is what can break it, though neither was killed
\* or failed to write.
RefusesSecondDaemon ==
  /\ history.strays = {}
  /\ Quiet
  /\ \E p \in Pids : table[p] = "serving"
  => \E f \in Files : files[f] \in Pids /\ table[files[f]] \notin {"free", "foreign"}
=============================================================================
