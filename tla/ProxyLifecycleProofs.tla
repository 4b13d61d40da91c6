------------------------- MODULE ProxyLifecycleProofs -------------------------
(***************************************************************************)
(* Proofs about ProxyLifecycle, for any number of process ids and, as far  *)
(* as the types go, of shells.  The rest is about commands run one at a    *)
(* time, that is, from one shell: a daemon that is up is named by a pid    *)
(* file, no two daemons are ever up, and stop frees the port; whatever is  *)
(* killed, but for the daemons whose start was over before it could record *)
(* them.  Commands that overlap break the first of these, see              *)
(* RefusesSecondDaemon.                                                    *)
(***************************************************************************)
EXTENDS ProxyLifecycle, TLAPS

USE LifecycleAssumption

Shell ==
  [pc : {"idle", "read", "probe", "unlink", "terminate", "wait",
         "forget", "spawn", "truncate", "write", "grace", "undo"},
   cmd : Commands, file : Files, pid : Pids \cup {"none"}, report : Outcomes]

\* From its probe on a command has a pid in hand.
HasPid == {"probe", "unlink", "terminate", "wait", "forget", "truncate", "write", "grace", "undo"}

ShellOK(r) == r \in Shell /\ (r.pc \in HasPid => r.pid \in Pids)

TypeInv == TypeOK /\ \A c \in Clis : ShellOK(cli[c])

IsUp(p) == table[p] \in Daemons

\* Commands are run one at a time.
OneShellOnly == \A c, d \in Clis : c = d

\* The child that start has not recorded yet.
Awaits(r, p) == r.pc \in {"truncate", "write"} /\ r.pid = p

Unrecorded(c, p) == Awaits(cli[c], p)

\* No two pid files name a process, so what one of them names is all there is.
OneRecord == files["current"] \notin Pids \/ files["legacy"] \notin Pids

Covered ==
  \A p \in Pids : IsUp(p) => \/ \E f \in Files : files[f] = p
                             \/ \E c \in Clis : Unrecorded(c, p)
                             \/ Stray(p)

\* What a command has established by the time it is at a step.
Established(c) ==
  LET r == cli[c]
  IN  /\ r.pc = "read" /\ r.file = "legacy" => files["current"] \notin Pids
      /\ r.pc \in {"probe", "unlink", "terminate", "wait", "forget"} => files[r.file] = r.pid
      /\ r.pc \in {"unlink", "forget", "undo"} => ~IsUp(r.pid)
      /\ r.pc = "wait" => table[r.pid] \notin {"starting", "serving"}
      /\ r.pc \in {"spawn", "truncate", "write"} => \A f \in Files : files[f] \notin Pids
      /\ r.pc \in {"grace", "undo"} => files["current"] = r.pid

Orderly ==
  /\ OneRecord
  /\ Covered
  /\ \A c \in Clis : Established(c)
  /\ ~history.conflict

\* The inductive invariant.
LifecycleInv == TypeInv /\ Orderly

-----------------------------------------------------------------------------
(* The types. *)

LEMMA ReportsAreOK ==
  ASSUME NEW r \in Shell, NEW what \in Outcomes
  PROVE  ShellOK(Report(r, what)) /\ Report(r, what).pc = "idle"
BY DEF Report, Idle, Shell, ShellOK, HasPid, Files, Commands

LEMMA StartingIsOK ==
  ASSUME NEW r \in Shell
  PROVE  /\ ShellOK(Starting(r))
         /\ Starting(r).pc = "read" /\ Starting(r).file = "current"
BY DEF Starting, Shell, ShellOK, HasPid, Files, Commands

\* A command that found nothing running looks again, starts a daemon or is over.
LEMMA NothingRunningIsOK ==
  ASSUME NEW r \in Shell
  PROVE  LET q == NothingRunning(r)
         IN  /\ ShellOK(q)
             /\ q.pc \in {"idle", "spawn"} \/ (q.pc = "read" /\ q.file = "current")
<1>1. CASE r.cmd = "start"
  BY <1>1 DEF NothingRunning, Shell, ShellOK, HasPid
<1>2. CASE r.cmd = "restart"
  BY <1>2, StartingIsOK DEF NothingRunning
<1>3. CASE r.cmd = "stop"
  BY <1>3, ReportsAreOK DEF NothingRunning, Outcomes
<1>4. CASE r.cmd = "status"
  BY <1>4, ReportsAreOK DEF NothingRunning, Outcomes
<1> QED BY <1>1, <1>2, <1>3, <1>4 DEF Shell, Commands

LEMMA RunningIsOK ==
  ASSUME NEW r \in Shell, r.pid \in Pids
  PROVE  LET q == Running(r)
         IN  /\ ShellOK(q)
             /\ q.pc = "idle" \/ q = [r EXCEPT !.pc = "terminate"]
<1>1. CASE r.cmd = "start"
  BY <1>1, ReportsAreOK DEF Running, Outcomes
<1>2. CASE r.cmd = "status"
  BY <1>2, ReportsAreOK DEF Running, Outcomes
<1>3. CASE r.cmd \notin {"start", "status"}
  <2>1. Running(r) = [r EXCEPT !.pc = "terminate"]
    BY <1>3 DEF Running
  <2> QED BY <2>1 DEF Shell, ShellOK
<1> QED BY <1>1, <1>2, <1>3

\* After the current file comes the legacy one, and then what nothing running leads to.
LEMMA NextFileIsOK ==
  ASSUME NEW r \in Shell
  PROVE  LET q == NextFile(r)
         IN  /\ ShellOK(q)
             /\ \/ q.pc = "read" /\ q.file = "legacy" /\ r.file = "current"
                \/ q.pc = "read" /\ q.file = "current" /\ r.file = "legacy"
                \/ q.pc = "spawn" /\ r.file = "legacy"
                \/ q.pc = "idle"
<1>1. CASE r.file = "current"
  <2>1. NextFile(r) = [r EXCEPT !.file = "legacy", !.pc = "read"]
    BY <1>1 DEF NextFile
  <2> QED BY <1>1, <2>1 DEF Shell, ShellOK, HasPid, Files
<1>2. CASE r.file = "legacy"
  <2>1. NextFile(r) = NothingRunning(r)
    BY <1>2 DEF NextFile
  <2> QED BY <1>2, <2>1, NothingRunningIsOK
<1> QED BY <1>1, <1>2 DEF Shell, Files

LEMMA OneShellMoves ==
  ASSUME TypeInv, NEW c \in Clis, NEW r, ShellOK(r), Becomes(c, r)
  PROVE  /\ cli' \in [Clis -> Shell]
         /\ \A d \in Clis : ShellOK(cli'[d])
         /\ cli'[c] = r
BY DEF TypeInv, TypeOK, Shell, ShellOK, Becomes

\* What the actions of a command do to it, and to the files and processes.
LEMMA ShellStepIsTyped ==
  ASSUME TypeInv, NEW c \in Clis,
         Step(c) \/ Killed(c) \/ \E cmd \in Commands : Begin(c, cmd)
  PROVE  TypeInv'
<1> DEFINE r == cli[c]
<1>1. ShellOK(r) /\ r \in Shell /\ (r.pc \in HasPid => r.pid \in Pids)
  BY DEF TypeInv, ShellOK
<1>2. /\ files \in [Files -> Pids \cup {"absent", "torn"}]
      /\ table \in [Pids -> Processes] /\ history \in [strays : SUBSET Pids, conflict : BOOLEAN]
  BY DEF TypeInv, TypeOK
<1>3. ASSUME NEW q, ShellOK(q), Becomes(c, q),
             files' \in [Files -> Pids \cup {"absent", "torn"}],
             table' \in [Pids -> Processes], history' \in [strays : SUBSET Pids, conflict : BOOLEAN]
      PROVE  TypeInv'
  BY <1>3, OneShellMoves DEF TypeInv, TypeOK, Shell
<1>4. ASSUME NEW what \in Outcomes
      PROVE  ShellOK(Report(r, what))
  BY <1>1, ReportsAreOK
<1>5. \A pc \in {"unlink", "forget", "write", "grace", "undo", "wait"} :
        r.pc \in HasPid => ShellOK([r EXCEPT !.pc = pc])
  BY <1>1 DEF ShellOK, Shell, HasPid
<1>6. \A p \in Pids : Gone(p) \in Processes
  BY DEF Gone, Processes
<1> USE DEF At
<1>10. ASSUME NEW cmd \in Commands, Begin(c, cmd) PROVE TypeInv'
  <2>1. ShellOK([Idle EXCEPT !.pc = "read", !.cmd = cmd])
    BY DEF ShellOK, Shell, Idle, HasPid, Files, Outcomes
  <2> QED BY <1>2, <1>3, <1>10, <2>1 DEF Begin
<1>11. CASE ReadPid(c)
  <2>1. ASSUME files[r.file] \in Pids
        PROVE  ShellOK([r EXCEPT !.pid = files[r.file], !.pc = "probe"])
    BY <1>1, <2>1 DEF ShellOK, Shell
  <2>2. ShellOK(NextFile(r))
    BY <1>1, NextFileIsOK
  <2> QED BY <1>2, <1>3, <1>11, <2>1, <2>2 DEF ReadPid
<1>12. CASE Probe(c)
  <2>1. r.pid \in Pids /\ r.pc \in HasPid
    BY <1>1, <1>12 DEF Probe, HasPid
  <2>2. ShellOK(Running(r)) /\ ShellOK([r EXCEPT !.pc = "unlink"])
    BY <1>1, <1>5, <2>1, RunningIsOK
  <2> QED BY <1>2, <1>3, <1>12, <2>2 DEF Probe
<1>13. CASE Unlink(c)
  BY <1>1, <1>2, <1>3, <1>13, NextFileIsOK DEF Unlink, Shell
<1>14. CASE Terminate(c)
  <2>1. r.pid \in Pids /\ r.pc \in HasPid
    BY <1>1, <1>14 DEF Terminate, HasPid
  <2>2. table' \in [Pids -> Processes]
    BY <1>2, <1>6, <1>14, <2>1 DEF Terminate, Processes, Daemons
  <2>3. ShellOK([r EXCEPT !.pc = "wait"]) /\ ShellOK(Report(r, "refused"))
    BY <1>4, <1>5, <2>1 DEF Outcomes
  <2> QED BY <1>2, <1>3, <1>14, <2>2, <2>3 DEF Terminate
<1>15. CASE Wait(c)
  BY <1>2, <1>3, <1>5, <1>15 DEF Wait, HasPid
<1>16. CASE WaitExpires(c)
  BY <1>2, <1>3, <1>4, <1>16 DEF WaitExpires, Outcomes
<1>17. CASE Forget(c)
  <2>1. ShellOK(Starting(r)) /\ ShellOK(Report(r, "stopped"))
    BY <1>1, <1>4, StartingIsOK DEF Outcomes
  <2>2. files' \in [Files -> Pids \cup {"absent", "torn"}]
    BY <1>1, <1>2, <1>17 DEF Forget, Shell
  <2> QED BY <1>2, <1>3, <1>17, <2>1, <2>2 DEF Forget
<1>18. CASE Spawn(c)
  <2>1. PICK p \in Pids : /\ table' = [table EXCEPT ![p] = "starting"]
                          /\ Becomes(c, [r EXCEPT !.pc = "truncate", !.pid = p])
    BY <1>18 DEF Spawn
  <2>2. ShellOK([r EXCEPT !.pc = "truncate", !.pid = p])
    BY <1>1 DEF ShellOK, Shell
  <2>3. table' \in [Pids -> Processes] /\ history' \in [strays : SUBSET Pids, conflict : BOOLEAN]
    BY <1>2, <1>18, <2>1 DEF Spawn, Processes, Daemons
  <2> QED BY <1>2, <1>3, <1>18, <2>1, <2>2, <2>3 DEF Spawn
<1>19. CASE SpawnFails(c)
  BY <1>2, <1>3, <1>4, <1>19 DEF SpawnFails, Outcomes
<1>20. CASE Truncate(c)
  <2>1. files' \in [Files -> Pids \cup {"absent", "torn"}]
    BY <1>2, <1>20 DEF Truncate, Files
  <2> QED BY <1>2, <1>3, <1>5, <1>20, <2>1 DEF Truncate, HasPid
<1>21. CASE WritePid(c)
  <2>1. files' \in [Files -> Pids \cup {"absent", "torn"}]
    BY <1>1, <1>2, <1>21 DEF WritePid, Files, HasPid
  <2> QED BY <1>2, <1>3, <1>5, <1>21, <2>1 DEF WritePid, HasPid
<1>22. CASE WriteFails(c)
  <2>1. table' \in [Pids -> Processes] /\ history' \in [strays : SUBSET Pids, conflict : BOOLEAN]
    BY <1>1, <1>2, <1>22 DEF WriteFails, GoesAstray, Reap, Processes, HasPid
  <2> QED BY <1>2, <1>3, <1>4, <1>22, <2>1 DEF WriteFails, Outcomes
<1>23. CASE ChildDied(c)
  <2>1. table' \in [Pids -> Processes]
    BY <1>2, <1>23 DEF ChildDied, Reap, Processes
  <2> QED BY <1>2, <1>3, <1>5, <1>23, <2>1 DEF ChildDied, HasPid
<1>24. CASE Undo(c)
  <2>1. files' \in [Files -> Pids \cup {"absent", "torn"}]
    BY <1>2, <1>24 DEF Undo, Files
  <2> QED BY <1>2, <1>3, <1>4, <1>24, <2>1 DEF Undo, Outcomes
<1>25. CASE GracePasses(c)
  <2>1. table' \in [Pids -> Processes]
    BY <1>2, <1>25 DEF GracePasses, Reap, Processes
  <2> QED BY <1>2, <1>3, <1>4, <1>25, <2>1 DEF GracePasses, Outcomes
<1>26. CASE Killed(c)
  <2>1. table' \in [Pids -> Processes]
    BY <1>2, <1>26 DEF Killed, Reap, Processes
  <2>2. history' \in [strays : SUBSET Pids, conflict : BOOLEAN]
    BY <1>1, <1>2, <1>26 DEF Killed, GoesAstray, HasPid
  <2> QED BY <1>2, <1>3, <1>4, <1>26, <2>1, <2>2 DEF Killed, Outcomes
<1> QED
  BY <1>10, <1>11, <1>12, <1>13, <1>14, <1>15, <1>16, <1>17, <1>18, <1>19, <1>20, <1>21,
     <1>22, <1>23, <1>24, <1>25, <1>26 DEF Step

LEMMA MachineIsTyped == ASSUME TypeInv, Machine PROVE TypeInv'
<1>1. table \in [Pids -> Processes] /\ history \in [strays : SUBSET Pids, conflict : BOOLEAN]
  BY DEF TypeInv, TypeOK
<1>2. \A p \in Pids : Gone(p) \in Processes
  BY DEF Gone, Processes
<1>3. ASSUME NEW p \in Pids,
             Bind(p) \/ BindRefused(p) \/ Ends(p) \/ AlienStarts(p) \/ AlienEnds(p)
      PROVE  TypeInv'
  <2>1. table' \in [Pids -> Processes]
    BY <1>1, <1>2, <1>3 DEF Bind, BindRefused, Ends, AlienStarts, AlienEnds, Exit,
                            Processes, Daemons
  <2>2. history' \in [strays : SUBSET Pids, conflict : BOOLEAN] /\ UNCHANGED <<files, cli>>
    BY <1>1, <1>3 DEF Bind, BindRefused, Ends, AlienStarts, AlienEnds
  <2> QED BY <2>1, <2>2 DEF TypeInv, TypeOK, ShellOK
<1>4. CASE Reboot
  <2>1. ShellOK(Idle)
    BY DEF ShellOK, Shell, Idle, Commands, Files, Outcomes, HasPid
  <2>2. cli' \in [Clis -> Shell] /\ \A c \in Clis : ShellOK(cli'[c])
    BY <1>4, <2>1 DEF Reboot, ShellOK
  <2>3. table' \in [Pids -> Processes]
    BY <1>4 DEF Reboot, Processes
  <2> QED BY <1>4, <2>2, <2>3 DEF Reboot, TypeInv, TypeOK, Shell
<1> QED BY <1>3, <1>4 DEF Machine

LEMMA InitIsTyped == Init => TypeInv
<1> SUFFICES ASSUME Init PROVE TypeInv
  OBVIOUS
<1>1. ShellOK(Idle)
  BY DEF ShellOK, Shell, Idle, Commands, Files, Outcomes, HasPid
<1>2. cli \in [Clis -> Shell] /\ \A c \in Clis : ShellOK(cli[c])
  BY <1>1 DEF Init, ShellOK
<1>3. /\ files \in [Files -> Pids \cup {"absent", "torn"}]
      /\ table \in [Pids -> Processes]
  BY DEF Init, Processes, Daemons
<1> QED BY <1>2, <1>3 DEF Init, TypeInv, TypeOK, Shell

LEMMA NextIsTyped == TypeInv /\ [Next]_vars => TypeInv'
<1>1. ASSUME TypeInv, UNCHANGED vars PROVE TypeInv'
  BY <1>1 DEF vars, TypeInv, TypeOK, ShellOK
<1> QED BY <1>1, ShellStepIsTyped, MachineIsTyped DEF Next

\* Whatever overlaps, crashes and reboots, a command that signals, waits for or records
\* a process has the id of one in hand (readPID, proxyStart).
THEOREM LifecycleIsTyped == Spec => []TypeOK
<1>1. TypeInv => TypeOK
  BY DEF TypeInv
<1> QED BY <1>1, InitIsTyped, NextIsTyped, PTL DEF Spec

-----------------------------------------------------------------------------
(* One command at a time. *)

\* What of the types the steps below need.
LEMMA ShellFacts ==
  ASSUME TypeInv, NEW c \in Clis
  PROVE  /\ cli[c] \in Shell /\ (cli[c].pc \in HasPid => cli[c].pid \in Pids)
         /\ files \in [Files -> Pids \cup {"absent", "torn"}]
         /\ table \in [Pids -> Processes]
BY DEF TypeInv, TypeOK, ShellOK

\* Where no file names a process and no child waits to be recorded, stray daemons only
\* are up.
LEMMA NothingIsUp ==
  ASSUME TypeInv, Orderly, OneShellOnly, NEW c \in Clis,
         cli[c].pc \notin {"truncate", "write"}, \A f \in Files : files[f] \notin Pids
  PROVE  \A p \in Pids : IsUp(p) => Stray(p)
BY DEF Orderly, Covered, Unrecorded, Awaits, OneShellOnly

\* What keeps a state in order, for a step of the one command from r to q.
LEMMA OrderIsKept ==
  ASSUME TypeInv, Orderly, OneShellOnly, NEW c \in Clis, NEW q, ShellOK(q), Becomes(c, q),
         ~history'.conflict,
         OneRecord', Established(c)',
         \A p \in Pids : IsUp(p)' => \/ \E f \in Files : files'[f] = p
                                    \/ Awaits(q, p)
                                    \/ Stray(p)'
  PROVE  Orderly'
<1>1. cli'[c] = q /\ \A d \in Clis : d = c
  BY OneShellMoves DEF OneShellOnly
<1>2. Covered'
  BY <1>1 DEF Covered, Unrecorded
<1>3. \A d \in Clis : Established(d)'
  BY <1>1
<1> QED BY <1>2, <1>3 DEF Orderly

\* The same, where the history stays as it is.
LEMMA OrderStays ==
  ASSUME TypeInv, Orderly, OneShellOnly, NEW c \in Clis, NEW q, ShellOK(q), Becomes(c, q),
         UNCHANGED history,
         OneRecord', Established(c)',
         \A p \in Pids : IsUp(p)' => \/ \E f \in Files : files'[f] = p
                                    \/ Awaits(q, p)
                                    \/ Stray(p)
  PROVE  Orderly'
<1>1. ~history'.conflict /\ \A p : Stray(p)' = Stray(p)
  BY DEF Orderly, Stray
<1> QED BY <1>1, OrderIsKept

LEMMA ShellStepIsOrderly ==
  ASSUME TypeInv, Orderly, OneShellOnly, NEW c \in Clis, TypeInv',
         Step(c) \/ Killed(c) \/ \E cmd \in Commands : Begin(c, cmd)
  PROVE  Orderly'
<1> DEFINE r == cli[c]
<1>1. /\ r \in Shell /\ (r.pc \in HasPid => r.pid \in Pids)
      /\ files \in [Files -> Pids \cup {"absent", "torn"}]
      /\ table \in [Pids -> Processes]
  BY ShellFacts
<1>2. OneRecord /\ Covered /\ Established(c) /\ "current" \in Files /\ "legacy" \in Files
  BY DEF Orderly, Files
<1>3. ASSUME r.pc \notin {"truncate", "write"}
      PROVE  \A p \in Pids : IsUp(p) => Stray(p) \/ \E f \in Files : files[f] = p
  BY <1>2, <1>3 DEF Covered, Unrecorded, Awaits, OneShellOnly
<1>4. \A d \in Clis : d = c
  BY DEF OneShellOnly
\* A step that leaves the files as they are and starts no daemon.
<1>9. ASSUME NEW q, ShellOK(q), Becomes(c, q), UNCHANGED <<files, history>>,
             r.pc \notin {"truncate", "write"}, OneRecord', Established(c)',
             \A p \in Pids : IsUp(p)' => IsUp(p)
      PROVE  Orderly'
  <2>1. \A p \in Pids : IsUp(p)' => Stray(p) \/ \E f \in Files : files[f] = p
    BY <1>3, <1>9
  <2>2. ASSUME NEW p \in Pids, IsUp(p)'
        PROVE  (\E f \in Files : files'[f] = p) \/ Stray(p)
    BY <1>9, <2>1, <2>2
  <2> QED BY <1>9, <2>2, OrderStays
\* A step that changes the command alone.
<1>5. ASSUME NEW q, ShellOK(q), Becomes(c, q), UNCHANGED <<files, table, history>>,
             r.pc \notin {"truncate", "write"}, Established(c)'
      PROVE  Orderly'
  BY <1>2, <1>5, <1>9 DEF OneRecord, IsUp
<1>6. ASSUME NEW q, ShellOK(q), Becomes(c, q)
      PROVE  cli'[c] = q
  BY <1>6, OneShellMoves
<1>7. history \in [strays : SUBSET Pids, conflict : BOOLEAN] /\ ~history.conflict
  BY DEF TypeInv, TypeOK, Orderly
<1> USE DEF At
<1>10. ASSUME NEW cmd \in Commands, Begin(c, cmd) PROVE Orderly'
  <2> DEFINE q == [Idle EXCEPT !.pc = "read", !.cmd = cmd]
  <2>1. ShellOK(q) /\ q.pc = "read" /\ q.file = "current"
    BY DEF ShellOK, Shell, Idle, HasPid, Files, Outcomes
  <2>2. Becomes(c, q) /\ UNCHANGED <<files, table, history>> /\ r.pc = "idle"
    BY <1>10 DEF Begin
  <2> HIDE DEF q
  <2>3. Established(c)'
    BY <1>6, <2>1, <2>2 DEF Established
  <2> QED BY <1>5, <2>1, <2>2, <2>3
<1>11. CASE ReadPid(c)
  <2>0. r.pc = "read" /\ UNCHANGED <<files, table, history>>
    BY <1>11 DEF ReadPid
  <2>1. CASE files[r.file] \in Pids
    <3> DEFINE q == [r EXCEPT !.pid = files[r.file], !.pc = "probe"]
    <3>1. ShellOK(q) /\ q.pc = "probe" /\ q.pid = files[r.file] /\ q.file = r.file
      BY <1>1, <2>1 DEF ShellOK, Shell
    <3>2. Becomes(c, q)
      BY <1>11, <2>1 DEF ReadPid
    <3> HIDE DEF q
    <3>3. Established(c)'
      BY <1>6, <2>0, <3>1, <3>2 DEF Established
    <3> QED BY <1>5, <2>0, <3>1, <3>2, <3>3
  <2>2. CASE files[r.file] \notin Pids
    <3> DEFINE q == NextFile(r)
    <3>1. /\ ShellOK(q)
          /\ \/ q.pc = "read" /\ q.file = "legacy" /\ r.file = "current"
             \/ q.pc = "read" /\ q.file = "current" /\ r.file = "legacy"
             \/ q.pc = "spawn" /\ r.file = "legacy"
             \/ q.pc = "idle"
      BY <1>1, NextFileIsOK
    <3>2. Becomes(c, q)
      BY <1>11, <2>2 DEF ReadPid
    <3> HIDE DEF q
    <3>3. Established(c)'
      BY <1>2, <1>6, <2>0, <2>2, <3>1, <3>2 DEF Established, Files
    <3> QED BY <1>5, <2>0, <3>1, <3>2, <3>3
  <2> QED BY <2>1, <2>2
<1>12. CASE Probe(c)
  <2>0. /\ r.pc = "probe" /\ UNCHANGED <<files, table, history>> /\ r.pid \in Pids
        /\ files[r.file] = r.pid
    BY <1>1, <1>2, <1>12 DEF Probe, HasPid, Established
  <2>1. CASE table[r.pid] \in {"free", "foreign"}
    <3> DEFINE q == [r EXCEPT !.pc = "unlink"]
    <3>1. ShellOK(q) /\ q.pc = "unlink" /\ q.pid = r.pid /\ q.file = r.file
      BY <1>1, <2>0 DEF ShellOK, Shell
    <3>2. Becomes(c, q)
      BY <1>12, <2>1 DEF Probe
    <3> HIDE DEF q
    <3>3. Established(c)'
      BY <1>6, <2>0, <2>1, <3>1, <3>2 DEF Established, IsUp, Daemons
    <3> QED BY <1>5, <2>0, <3>1, <3>2, <3>3
  <2>2. CASE table[r.pid] \notin {"free", "foreign"}
    <3> DEFINE q == Running(r)
    <3>1. ShellOK(q) /\ (q.pc = "idle" \/ (q.pc = "terminate" /\ q.pid = r.pid /\ q.file = r.file))
      BY <1>1, <2>0, RunningIsOK DEF Shell
    <3>2. Becomes(c, q)
      BY <1>12, <2>2 DEF Probe
    <3> HIDE DEF q
    <3>3. Established(c)'
      BY <1>6, <2>0, <3>1, <3>2 DEF Established
    <3> QED BY <1>5, <2>0, <3>1, <3>2, <3>3
  <2> QED BY <2>1, <2>2
<1>13. CASE Unlink(c)
  <2> DEFINE q == NextFile(r)
  <2>0. /\ r.pc = "unlink" /\ UNCHANGED <<table, history>>
        /\ files[r.file] = r.pid /\ r.pid \in Pids /\ ~IsUp(r.pid)
        /\ files' = [files EXCEPT ![r.file] = "absent"] /\ Becomes(c, q)
    BY <1>1, <1>2, <1>13 DEF Unlink, HasPid, Established
  <2>1. /\ ShellOK(q)
        /\ \/ q.pc = "read" /\ q.file = "legacy" /\ r.file = "current"
           \/ q.pc = "read" /\ q.file = "current" /\ r.file = "legacy"
           \/ q.pc = "spawn" /\ r.file = "legacy"
           \/ q.pc = "idle"
    BY <1>1, NextFileIsOK
  <2> HIDE DEF q
  <2>2. r.file \in Files /\ \A f \in Files : files'[f] \notin Pids
    BY <1>1, <1>2, <2>0 DEF OneRecord, Files, Shell
  <2>3. Established(c)' /\ OneRecord'
    BY <1>6, <2>0, <2>1, <2>2 DEF Established, OneRecord, Files
  <2>4. \A p \in Pids : IsUp(p)' => Stray(p)
    BY <1>1, <1>2, <1>3, <2>0 DEF OneRecord, IsUp, Files, Shell
  <2> QED BY <2>0, <2>1, <2>3, <2>4, OrderStays
<1>14. CASE Terminate(c)
  <2>0. /\ r.pc = "terminate" /\ UNCHANGED <<files, history>>
        /\ files[r.file] = r.pid /\ r.pid \in Pids
    BY <1>1, <1>2, <1>14 DEF Terminate, HasPid, Established
  <2>1. /\ \A p \in Pids : IsUp(p)' => IsUp(p)
        /\ table'[r.pid] \notin {"starting", "serving"}
    BY <1>1, <1>14, <2>0 DEF Terminate, IsUp, Daemons, Gone
  <2>2. PICK q : /\ ShellOK(q) /\ Becomes(c, q)
                 /\ q.pc = "idle" \/ (q.pc = "wait" /\ q.pid = r.pid /\ q.file = r.file)
    <3>1. ShellOK([r EXCEPT !.pc = "wait"])
      BY <1>1, <2>0 DEF ShellOK, Shell
    <3>2. ShellOK(Report(r, "refused")) /\ Report(r, "refused").pc = "idle"
      BY <1>1, ReportsAreOK DEF Outcomes
    <3>3. [r EXCEPT !.pc = "wait"].pc = "wait" /\ [r EXCEPT !.pc = "wait"].pid = r.pid
          /\ [r EXCEPT !.pc = "wait"].file = r.file
      BY <1>1 DEF Shell
    <3> QED BY <1>14, <3>1, <3>2, <3>3 DEF Terminate
  <2>3. Established(c)' /\ OneRecord'
    BY <1>2, <1>6, <2>0, <2>1, <2>2 DEF Established, OneRecord
  <2> QED BY <1>9, <2>0, <2>1, <2>2, <2>3
<1>15. CASE Wait(c)
  <2> DEFINE q == [r EXCEPT !.pc = "forget"]
  <2>0. /\ r.pc = "wait" /\ UNCHANGED <<files, table, history>> /\ r.pid \in Pids
        /\ files[r.file] = r.pid /\ table[r.pid] \notin Daemons /\ Becomes(c, q)
    BY <1>1, <1>2, <1>15 DEF Wait, HasPid, Established, Daemons
  <2>1. ShellOK(q) /\ q.pc = "forget" /\ q.pid = r.pid /\ q.file = r.file
    BY <1>1, <2>0 DEF ShellOK, Shell
  <2> HIDE DEF q
  <2>2. Established(c)'
    BY <1>6, <2>0, <2>1 DEF Established, IsUp
  <2> QED BY <1>5, <2>0, <2>1, <2>2
<1>16. ASSUME NEW what \in Outcomes, Becomes(c, Report(r, what)), UNCHANGED <<files, table, history>>,
              r.pc \notin {"truncate", "write"}
       PROVE  Orderly'
  <2>1. ShellOK(Report(r, what)) /\ Report(r, what).pc = "idle"
    BY <1>1, ReportsAreOK
  <2>2. Established(c)'
    BY <1>6, <1>16, <2>1 DEF Established
  <2> QED BY <1>5, <1>16, <2>1, <2>2
<1>17. CASE Forget(c)
  <2>0. /\ r.pc = "forget" /\ UNCHANGED <<table, history>>
        /\ files[r.file] = r.pid /\ r.pid \in Pids /\ ~IsUp(r.pid)
        /\ files' = [files EXCEPT ![r.file] = "absent"]
    BY <1>1, <1>2, <1>17 DEF Forget, HasPid, Established
  <2>1. PICK q : /\ ShellOK(q) /\ Becomes(c, q)
                 /\ q.pc = "idle" \/ (q.pc = "read" /\ q.file = "current")
    <3>1. ShellOK(Report(r, "stopped")) /\ Report(r, "stopped").pc = "idle"
      BY <1>1, ReportsAreOK DEF Outcomes
    <3> QED BY <1>1, <1>17, <3>1, StartingIsOK DEF Forget
  <2>2. OneRecord' /\ Established(c)'
    BY <1>1, <1>2, <1>6, <2>0, <2>1 DEF OneRecord, Established, Files, Shell
  <2>3. \A p \in Pids : IsUp(p)' => Stray(p)
    BY <1>1, <1>2, <1>3, <2>0 DEF OneRecord, IsUp, Files, Shell
  <2> QED BY <2>0, <2>1, <2>2, <2>3, OrderStays
<1>18. CASE Spawn(c)
  <2>0. /\ r.pc = "spawn" /\ UNCHANGED files
        /\ \A f \in Files : files[f] \notin Pids
    BY <1>2, <1>18 DEF Spawn, Established
  <2>1. PICK p \in Pids : /\ table' = [table EXCEPT ![p] = "starting"]
                          /\ Becomes(c, [r EXCEPT !.pc = "truncate", !.pid = p])
                          /\ history' = [history EXCEPT !.strays = @ \ {p}]
    BY <1>18 DEF Spawn
  <2> DEFINE q == [r EXCEPT !.pc = "truncate", !.pid = p]
  <2>2. Becomes(c, q) /\ ShellOK(q) /\ q.pc = "truncate" /\ q.pid = p
    BY <1>1, <2>1 DEF ShellOK, Shell
  <2> HIDE DEF q
  <2>3. Established(c)' /\ OneRecord'
    BY <1>2, <1>6, <2>0, <2>1, <2>2 DEF Established, OneRecord
  <2>4. ~history'.conflict /\ \A x \in Pids : x # p => Stray(x)' = Stray(x)
    BY <1>7, <2>1 DEF Stray
  <2>5. \A x \in Pids : IsUp(x)' => x = p \/ Stray(x)'
    <3>1. \A x \in Pids : IsUp(x) => Stray(x)
      BY <2>0, NothingIsUp
    <3>2. \A x \in Pids : x # p => (IsUp(x)' <=> IsUp(x))
      BY <1>1, <2>1 DEF IsUp
    <3> QED BY <2>4, <3>1, <3>2
  <2> QED BY <2>0, <2>1, <2>2, <2>3, <2>4, <2>5, OrderIsKept DEF Awaits
<1>20. CASE Truncate(c)
  <2> DEFINE q == [r EXCEPT !.pc = "write"]
  <2>0. /\ r.pc = "truncate" /\ UNCHANGED <<table, history>> /\ r.pid \in Pids
        /\ \A f \in Files : files[f] \notin Pids
        /\ files' = [files EXCEPT !["current"] = "torn"] /\ Becomes(c, q)
    BY <1>1, <1>2, <1>20 DEF Truncate, HasPid, Established
  <2>1. ShellOK(q) /\ q.pc = "write" /\ q.pid = r.pid
    BY <1>1, <2>0 DEF ShellOK, Shell
  <2> HIDE DEF q
  <2>2. \A f \in Files : files'[f] \notin Pids
    BY <1>1, <2>0
  <2>3. Established(c)' /\ OneRecord'
    BY <1>2, <1>6, <2>0, <2>1, <2>2 DEF Established, OneRecord
  <2>4. \A p \in Pids : IsUp(p)' => p = q.pid \/ Stray(p)
    BY <1>2, <1>4, <2>0, <2>1 DEF Covered, Unrecorded, Awaits, IsUp
  <2> QED BY <2>0, <2>1, <2>3, <2>4, OrderStays DEF Awaits
<1>21. CASE WritePid(c)
  <2> DEFINE q == [r EXCEPT !.pc = "grace"]
  <2>0. /\ r.pc = "write" /\ UNCHANGED <<table, history>> /\ r.pid \in Pids
        /\ \A f \in Files : files[f] \notin Pids
        /\ files' = [files EXCEPT !["current"] = r.pid] /\ Becomes(c, q)
    BY <1>1, <1>2, <1>21 DEF WritePid, HasPid, Established
  <2>1. ShellOK(q) /\ q.pc = "grace" /\ q.pid = r.pid
    BY <1>1, <2>0 DEF ShellOK, Shell
  <2> HIDE DEF q
  <2>2. files'["current"] = r.pid /\ files'["legacy"] \notin Pids
    BY <1>1, <1>2, <2>0
  <2>3. Established(c)' /\ OneRecord'
    BY <1>6, <2>0, <2>1, <2>2 DEF Established, OneRecord
  <2>4. \A p \in Pids : IsUp(p)' => p = r.pid \/ Stray(p)
    BY <1>2, <1>4, <2>0 DEF Covered, Unrecorded, Awaits, IsUp
  <2> QED BY <1>2, <2>0, <2>1, <2>2, <2>3, <2>4, OrderStays
\* The command is over, and a child that it had not recorded goes astray.
<1>8. ASSUME NEW what \in Outcomes, Becomes(c, Report(r, what)), UNCHANGED files,
             \A p \in Pids : IsUp(p)' => IsUp(p),
             \/ r.pc \notin {"truncate", "write"} /\ UNCHANGED history
             \/ r.pc \in {"truncate", "write"} /\ GoesAstray(c)
      PROVE  Orderly'
  <2> DEFINE q == Report(r, what)
  <2>1. ShellOK(q) /\ q.pc = "idle"
    BY <1>1, ReportsAreOK
  <2>2. Becomes(c, q)
    BY <1>8
  <2> HIDE DEF q
  <2>3. OneRecord' /\ Established(c)'
    BY <1>2, <1>6, <1>8, <2>1, <2>2 DEF OneRecord, Established
  <2>4. CASE r.pc \notin {"truncate", "write"}
    BY <1>8, <1>9, <2>1, <2>2, <2>3, <2>4
  <2>5. CASE r.pc \in {"truncate", "write"}
    <3>1. ~history'.conflict /\ \A p \in Pids : Stray(p) \/ p = r.pid => Stray(p)'
      BY <1>7, <1>8, <2>5 DEF GoesAstray, Stray
    <3>2. \A p \in Pids : IsUp(p)' => (\E f \in Files : files'[f] = p) \/ Stray(p)'
      BY <1>2, <1>4, <1>8, <3>1 DEF Covered, Unrecorded, Awaits
    <3> QED BY <2>1, <2>2, <2>3, <3>1, <3>2, OrderIsKept
  <2> QED BY <2>4, <2>5
<1>22. CASE WriteFails(c)
  <2>1. r.pc \in {"truncate", "write"} /\ r.pid \in Pids
    BY <1>1, <1>22 DEF WriteFails, HasPid
  <2>2. \A p \in Pids : IsUp(p)' => IsUp(p)
    BY <1>1, <1>22, <2>1 DEF WriteFails, Reap, IsUp, Daemons
  <2> QED BY <1>8, <1>22, <2>1, <2>2 DEF WriteFails, Outcomes
<1>23. CASE ChildDied(c)
  <2> DEFINE q == [r EXCEPT !.pc = "undo"]
  <2>0. /\ r.pc = "grace" /\ UNCHANGED <<files, history>> /\ r.pid \in Pids
        /\ files["current"] = r.pid /\ Becomes(c, q)
        /\ table' = [table EXCEPT ![r.pid] = "free"]
    BY <1>1, <1>2, <1>23 DEF ChildDied, HasPid, Established, Reap
  <2>1. ShellOK(q) /\ q.pc = "undo" /\ q.pid = r.pid
    BY <1>1, <2>0 DEF ShellOK, Shell
  <2> HIDE DEF q
  <2>2. table'[r.pid] \notin Daemons /\ \A p \in Pids : IsUp(p)' => IsUp(p)
    BY <1>1, <2>0 DEF IsUp, Daemons
  <2>3. Established(c)' /\ OneRecord'
    BY <1>2, <1>6, <2>0, <2>1, <2>2 DEF Established, OneRecord, IsUp
  <2> QED BY <1>9, <2>0, <2>1, <2>2, <2>3
<1>24. CASE Undo(c)
  <2> DEFINE q == Report(r, "failed")
  <2>0. /\ r.pc = "undo" /\ UNCHANGED <<table, history>> /\ r.pid \in Pids
        /\ files["current"] = r.pid /\ ~IsUp(r.pid) /\ Becomes(c, q)
        /\ files' = [files EXCEPT !["current"] = "absent"]
    BY <1>1, <1>2, <1>24 DEF Undo, HasPid, Established
  <2>1. ShellOK(q) /\ q.pc = "idle"
    BY <1>1, ReportsAreOK DEF Outcomes
  <2> HIDE DEF q
  <2>2. OneRecord' /\ Established(c)'
    BY <1>1, <1>2, <1>6, <2>0, <2>1 DEF OneRecord, Established
  <2>3. \A p \in Pids : IsUp(p)' => Stray(p)
    BY <1>1, <1>2, <1>3, <2>0 DEF OneRecord, IsUp, Files
  <2> QED BY <2>0, <2>1, <2>2, <2>3, OrderStays
<1>25. CASE GracePasses(c)
  <2> DEFINE q == Report(r, "started")
  <2>0. r.pc = "grace" /\ UNCHANGED <<files, history>> /\ r.pid \in Pids /\ Becomes(c, q)
    BY <1>1, <1>25 DEF GracePasses, HasPid
  <2>1. ShellOK(q) /\ q.pc = "idle"
    BY <1>1, ReportsAreOK DEF Outcomes
  <2> HIDE DEF q
  <2>2. \A p \in Pids : IsUp(p)' => IsUp(p)
    BY <1>1, <1>25, <2>0 DEF GracePasses, Reap, IsUp, Daemons
  <2>3. OneRecord' /\ Established(c)'
    BY <1>2, <1>6, <2>0, <2>1 DEF OneRecord, Established
  <2> QED BY <1>9, <2>0, <2>1, <2>2, <2>3
<1>26. CASE Killed(c)
  <2>1. \A p \in Pids : IsUp(p)' => IsUp(p)
    BY <1>1, <1>26 DEF Killed, Reap, IsUp, Daemons
  <2> QED BY <1>8, <1>26, <2>1 DEF Killed, Outcomes
<1> QED
  BY <1>10, <1>11, <1>12, <1>13, <1>14, <1>15, <1>16, <1>17, <1>18, <1>20, <1>21,
     <1>22, <1>23, <1>24, <1>25, <1>26 DEF Step, WaitExpires, SpawnFails, Outcomes

\* The rest of the machine starts no daemon, and ends one at most.
LEMMA MachineIsOrderly ==
  ASSUME TypeInv, Orderly, OneShellOnly, Machine
  PROVE  Orderly'
<1>1. CASE Reboot
  <2>1. /\ UNCHANGED <<files, history>> /\ \A p \in Pids : ~IsUp(p)'
        /\ \A c \in Clis : cli'[c].pc = "idle"
    BY <1>1 DEF Reboot, IsUp, Daemons, Idle
  <2>2. OneRecord' /\ Covered'
    BY <2>1 DEF Orderly, OneRecord, Covered
  <2>3. \A c \in Clis : Established(c)'
    BY <2>1 DEF Established
  <2> QED BY <2>1, <2>2, <2>3 DEF Orderly
<1>2. ASSUME NEW p \in Pids,
             Bind(p) \/ BindRefused(p) \/ Ends(p) \/ AlienStarts(p) \/ AlienEnds(p)
      PROVE  Orderly'
  <2>1. table \in [Pids -> Processes] /\ history \in [strays : SUBSET Pids, conflict : BOOLEAN]
    BY DEF TypeInv, TypeOK
  \* No two daemons are up that are not stray, whoever named them.
  <2>2. \A q \in Pids : IsUp(p) /\ IsUp(q) /\ ~Stray(p) /\ ~Stray(q) => q = p
    <3>1. ASSUME NEW q \in Pids, IsUp(p), IsUp(q), ~Stray(p), ~Stray(q) PROVE q = p
      <4>1. /\ (\E f \in Files : files[f] = p) \/ (\E c \in Clis : Unrecorded(c, p))
            /\ (\E f \in Files : files[f] = q) \/ (\E c \in Clis : Unrecorded(c, q))
        BY <3>1 DEF Orderly, Covered
      <4>2. \A c \in Clis, x \in Pids :
              Unrecorded(c, x) => cli[c].pid = x /\ \A f \in Files : files[f] \notin Pids
        BY DEF Orderly, Established, Unrecorded, Awaits
      <4>3. \A f, g \in Files : files[f] \in Pids /\ files[g] \in Pids => f = g
        BY DEF Orderly, OneRecord, Files
      <4> QED BY <4>1, <4>2, <4>3 DEF OneShellOnly
    <3> QED BY <3>1
  <2>3. ~history'.conflict /\ \A q \in Pids : Stray(q)' = Stray(q)
    <3>1. CASE BindRefused(p)
      <4>1. \A q \in Pids : table[q] \in HoldsPort => {p, q} \cap history.strays # {}
        BY <2>2, <3>1 DEF BindRefused, IsUp, Daemons, HoldsPort, Stray
      <4> QED BY <2>1, <3>1, <4>1 DEF BindRefused, Orderly, Stray
    <3>2. CASE UNCHANGED history
      BY <3>2 DEF Orderly, Stray
    <3> QED BY <1>2, <3>1, <3>2 DEF Bind, Ends, AlienStarts, AlienEnds
  <2>4. /\ UNCHANGED <<files, cli>>
        /\ \A q \in Pids : IsUp(q)' => IsUp(q)
        /\ \A q \in Pids : table[q] \notin {"starting", "serving"} =>
             table'[q] \notin {"starting", "serving"}
    BY <1>2, <2>1 DEF Bind, BindRefused, Ends, AlienStarts, AlienEnds, Exit, Gone, IsUp, Daemons
  <2>5. OneRecord' /\ Covered'
    BY <2>3, <2>4 DEF Orderly, OneRecord, Covered, Unrecorded, Awaits
  <2>6. ASSUME NEW c \in Clis PROVE Established(c)'
    <3>1. Established(c) /\ (cli[c].pc \in HasPid => cli[c].pid \in Pids) /\ cli'[c] = cli[c]
      BY <2>4 DEF Orderly, TypeInv, ShellOK
    <3>2. cli[c].pc \in {"unlink", "forget", "undo"} => ~IsUp(cli[c].pid)'
      BY <2>4, <3>1 DEF Established, HasPid
    <3>3. cli[c].pc = "wait" => table'[cli[c].pid] \notin {"starting", "serving"}
      BY <2>4, <3>1 DEF Established, HasPid
    <3> QED BY <2>4, <3>1, <3>2, <3>3 DEF Established
  <2> QED BY <2>3, <2>5, <2>6 DEF Orderly
<1> QED BY <1>1, <1>2 DEF Machine

\* Nothing an earlier release left behind is out of order.
LEMMA InitIsOrderly == Init => Orderly
<1> SUFFICES ASSUME Init PROVE Orderly
  OBVIOUS
<1>1. /\ files["current"] = "absent" /\ \A c \in Clis : cli[c].pc = "idle"
      /\ \A p \in Pids : IsUp(p) => files["legacy"] = p
  BY DEF Init, IsUp, Daemons, Files, Idle
<1>2. OneRecord /\ Covered /\ \A c \in Clis : Established(c)
  BY <1>1 DEF OneRecord, Covered, Established, Files
<1> QED BY <1>2 DEF Orderly, Init

LEMMA NextIsOrderly == OneShellOnly /\ LifecycleInv /\ [Next]_vars => LifecycleInv'
<1> SUFFICES ASSUME OneShellOnly, LifecycleInv, [Next]_vars PROVE TypeInv' /\ Orderly'
  BY DEF LifecycleInv
<1>1. TypeInv /\ TypeInv' /\ Orderly
  BY NextIsTyped DEF LifecycleInv
<1>2. CASE UNCHANGED vars
  BY <1>1, <1>2 DEF vars, Orderly, OneRecord, Covered, Unrecorded, Awaits, Established, IsUp, Stray
<1> QED BY <1>1, <1>2, ShellStepIsOrderly, MachineIsOrderly DEF Next

LEMMA InvHolds == ASSUME OneShellOnly PROVE Spec => []LifecycleInv
<1>1. Init => LifecycleInv
  BY InitIsTyped, InitIsOrderly DEF LifecycleInv
<1>2. LifecycleInv /\ [Next]_vars => LifecycleInv'
  BY NextIsOrderly
<1> QED BY <1>1, <1>2, PTL DEF Spec

\* Commands run one at a time never leave a daemon that no pid file names, whatever
\* crashes, reboots, is killed and takes the ids of processes that are gone; but for the
\* daemons of a start that was killed or failed before it had written the pid (proxyStart,
\* proxyStop).
THEOREM DaemonsAreRecorded == ASSUME OneShellOnly PROVE Spec => []DaemonIsRecorded
<1>1. LifecycleInv => DaemonIsRecorded
  BY DEF LifecycleInv, Orderly, Covered, Unrecorded, Awaits, IsUp, DaemonIsRecorded, Quiet, At
<1> QED BY <1>1, InvHolds, PTL

\* No daemon finds the port held by another one, unless one of the two is stray.
THEOREM NoDaemonMeetsAnother == ASSUME OneShellOnly PROVE Spec => []NoSelfConflict
<1>1. LifecycleInv => NoSelfConflict
  BY DEF LifecycleInv, Orderly, NoSelfConflict
<1> QED BY <1>1, InvHolds, PTL

\* No other step reports that the daemon was stopped.
LEMMA OnlyForgetStops ==
  ASSUME TypeInv, OneShellOnly, Next, NEW c \in Clis,
         cli[c].report # "stopped", cli'[c].report = "stopped"
  PROVE  Forget(c)
<1> DEFINE r == cli[c]
<1>1. r \in Shell /\ \A d \in Clis : d = c
  BY ShellFacts DEF OneShellOnly
<1>2. ASSUME NEW q, Becomes(c, q) PROVE q.report = "stopped"
  BY <1>2 DEF Becomes, TypeInv, TypeOK
<1>3. \A what : Report(r, what).report = what
  BY DEF Report, Idle
<1>4. NothingRunning(r).report # "stopped" /\ Running(r).report # "stopped"
  BY <1>1, <1>3 DEF NothingRunning, Running, Starting, Shell, Commands
<1>5. NextFile(r).report # "stopped"
  BY <1>1, <1>4 DEF NextFile, Shell
<1>6. ~Machine
  BY DEF Machine, Bind, BindRefused, Ends, AlienStarts, AlienEnds, Reboot, Idle
<1>7. \A cmd \in Commands : ~Begin(c, cmd)
  <2>1. \A cmd \in Commands : [Idle EXCEPT !.pc = "read", !.cmd = cmd].report = "none"
    BY DEF Idle
  <2> QED BY <1>2, <2>1 DEF Begin
<1>8. ~ReadPid(c) /\ ~Unlink(c)
  <2>1. \A p : [r EXCEPT !.pid = p, !.pc = "probe"].report = r.report
    BY <1>1 DEF Shell
  <2> QED BY <1>2, <1>5, <2>1 DEF ReadPid, Unlink
<1>9. ~Probe(c)
  BY <1>1, <1>2, <1>4 DEF Probe, Shell
<1>10. ~Terminate(c)
  BY <1>1, <1>2, <1>3 DEF Terminate, Shell
<1>11. ~Wait(c) /\ ~Truncate(c) /\ ~WritePid(c) /\ ~ChildDied(c)
  <2>1. \A pc : [r EXCEPT !.pc = pc].report = r.report
    BY <1>1 DEF Shell
  <2> QED BY <1>2, <2>1 DEF Wait, Truncate, WritePid, ChildDied
<1>12. ~WaitExpires(c) /\ ~SpawnFails(c) /\ ~WriteFails(c) /\ ~Undo(c) /\ ~GracePasses(c)
  BY <1>2, <1>3 DEF WaitExpires, SpawnFails, WriteFails, Undo, GracePasses
<1>13. ~Spawn(c)
  <2>1. \A p : [r EXCEPT !.pc = "truncate", !.pid = p].report = r.report
    BY <1>1 DEF Shell
  <2> QED BY <1>2, <2>1 DEF Spawn
<1>14. ~Killed(c)
  BY <1>2, <1>3 DEF Killed
<1> QED
  BY <1>1, <1>6, <1>7, <1>8, <1>9, <1>10, <1>11, <1>12, <1>13, <1>14 DEF Next, Step

\* When stop says so, nothing but a stray daemon holds the port (proxyStop, waitForExit).
THEOREM StopIsTrue == ASSUME OneShellOnly PROVE Spec => StopFreesThePort
<1> DEFINE Told == \A c \in Clis : cli[c].report # "stopped" /\ cli'[c].report = "stopped" =>
                     \A p \in Pids : table[p] \in HoldsPort => Stray(p)
<1>1. LifecycleInv /\ [Next]_vars => [Told]_vars
  <2> SUFFICES ASSUME LifecycleInv, Next, NEW c \in Clis,
                      cli[c].report # "stopped", cli'[c].report = "stopped"
               PROVE  \A p \in Pids : table[p] \in HoldsPort => Stray(p)
    OBVIOUS
  <2>1. TypeInv /\ Orderly
    BY DEF LifecycleInv
  <2>2. Forget(c)
    BY <2>1, OnlyForgetStops
  <2>3. /\ files[cli[c].file] = cli[c].pid /\ cli[c].pid \in Pids /\ ~IsUp(cli[c].pid)
        /\ cli[c].pc = "forget" /\ cli[c].file \in Files
    BY <2>1, <2>2, ShellFacts DEF Forget, At, Orderly, Established, HasPid, Shell
  <2>4. \A p \in Pids : IsUp(p) => Stray(p) \/ \E f \in Files : files[f] = p
    BY <2>1, <2>3 DEF Orderly, Covered, Unrecorded, Awaits, OneShellOnly
  <2>5. \A p \in Pids : IsUp(p) => Stray(p)
    BY <2>1, <2>3, <2>4 DEF Orderly, OneRecord, Files
  <2> QED BY <2>5 DEF IsUp, Daemons, HoldsPort
<1> QED BY <1>1, InvHolds, PTL DEF Spec, StopFreesThePort
=============================================================================
