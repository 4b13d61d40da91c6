----------------------------- MODULE ClaudeLaunch -----------------------------
(***************************************************************************)
(* main.go: one launch of claude.  The profile is expanded into a private  *)
(* temporary settings file, claude runs against it, and the file is to be  *)
(* gone once the launch returns.                                           *)
(*                                                                         *)
(* Two goroutines share launchCleanups without a lock: the main one, which *)
(* registers the removal of the file and runs it when claude returns, and  *)
(* the one that waits for a signal and runs it then.                       *)
(***************************************************************************)
EXTENDS Naturals

CONSTANT MaxSignals        \* bound: the signals one launch gets

ASSUME LaunchAssumption == MaxSignals \in Nat

VARIABLES
  main,           \* where the main goroutine is
  handler,        \* where the signal goroutine is
  cleanups,       \* launchCleanups; "torn" while its slice header is being stored,
                  \* "crossed" when two stores overlap, "mixed" what that may leave
  settings,       \* the temporary file
  claude,         \* the claude process
  channel,        \* the signals waiting in interrupts
  signals,        \* how many signals were sent; bounded by MaxSignals
  seen            \* the launchCleanups each goroutine's range loop runs over

vars == <<main, handler, cleanups, settings, claude, channel, signals, seen>>

ChannelCapacity == 1

Ended == {"exited", "killed"}

Init ==
  /\ main = "prepare"
  /\ handler = "receive"
  /\ cleanups = "empty"
  /\ settings = "absent"
  /\ claude = "none"
  /\ channel = 0
  /\ signals = 0
  /\ seen = [g \in {"main", "handler"} |-> "empty"]

Alive == main \notin Ended

-----------------------------------------------------------------------------
(* The main goroutine: buildClaudeCommand, writeLaunchSettings, runExec. *)

\* The profile is missing or does not expand: nothing was created yet.
PrepareFails ==
  /\ main = "prepare"
  /\ main' = "exited"
  /\ UNCHANGED <<handler, cleanups, settings, claude, channel, signals, seen>>

\* runProjectClaude outside a project starts claude without settings of its own.
LaunchPlain ==
  /\ main = "prepare"
  /\ main' = "start"
  /\ UNCHANGED <<handler, cleanups, settings, claude, channel, signals, seen>>

CreateTemp ==
  /\ main = "prepare"
  /\ settings' = "created"
  /\ main' = "write"
  /\ UNCHANGED <<handler, cleanups, claude, channel, signals, seen>>

WriteSettings ==
  /\ main = "write"
  /\ settings' = "expanded"
  /\ main' = "register"
  /\ UNCHANGED <<handler, cleanups, claude, channel, signals, seen>>

\* Mutant: a failed write leaves the file.
WriteSettingsFailsUnclean ==
  /\ main = "write"
  /\ main' = "exited"
  /\ UNCHANGED <<handler, cleanups, settings, claude, channel, signals, seen>>

\* Chmod, Write or Close fails: the file is removed on the way out.
WriteSettingsFails ==
  /\ main = "write"
  /\ settings' = "absent"
  /\ main' = "exited"
  /\ UNCHANGED <<handler, cleanups, claude, channel, signals, seen>>

\* Mutant: the removal is deferred where the file is built instead of registered.
RegisterEager ==
  /\ main = "register"
  /\ cleanups' = "torn"
  /\ settings' = "absent"
  /\ main' = "registered"
  /\ UNCHANGED <<handler, claude, channel, signals, seen>>

\* append stores the length, capacity and pointer of launchCleanups one by one.
Register ==
  /\ main = "register"
  /\ cleanups' = "torn"
  /\ main' = "registered"
  /\ UNCHANGED <<handler, settings, claude, channel, signals, seen>>

\* The stores of the handler's nil that fall within it may win, all or some.
Registered ==
  /\ main = "registered"
  /\ cleanups' \in IF cleanups = "torn" THEN {"removal"} ELSE {"removal", "empty", "mixed"}
  /\ main' = "start"
  /\ UNCHANGED <<handler, settings, claude, channel, signals, seen>>

StartClaude ==
  /\ main = "start"
  /\ claude' = "running"
  /\ main' = "wait"
  /\ UNCHANGED <<handler, cleanups, settings, channel, signals, seen>>

\* claude is not on PATH or does not start: runExec returns the error.
StartFails ==
  /\ main = "start"
  /\ main' = "range"
  /\ UNCHANGED <<handler, cleanups, settings, claude, channel, signals, seen>>

\* Mutant: os.Exit on claude's own status, which skips the deferred cleanup.
ClaudeReturnedUnclean ==
  /\ main = "wait"
  /\ claude = "returned"
  /\ main' \in {"range", "exited"}
  /\ UNCHANGED <<handler, cleanups, settings, claude, channel, signals, seen>>

\* Whatever claude's exit status is, runLaunchCleanups runs before the process ends.
ClaudeReturned ==
  /\ main = "wait"
  /\ claude = "returned"
  /\ main' = "range"
  /\ UNCHANGED <<handler, cleanups, settings, claude, channel, signals, seen>>

-----------------------------------------------------------------------------
(* runLaunchCleanups, in either goroutine: range reads the slice, each     *)
(* function removes its file, and the slice is set to nil.  A range over a *)
(* torn slice sees it empty, sees all of it, or faults; over a mixed one,  *)
(* whose length has no array behind it, it faults.                         *)

Where(g) == IF g = "main" THEN main ELSE handler

Goes(g, to) ==
  IF g = "main" THEN main' = to /\ UNCHANGED handler
  ELSE handler' = to /\ UNCHANGED main

RangeOver(g) ==
  /\ Alive
  /\ Where(g) = "range"
  /\ cleanups # "mixed"
  /\ \E slice \in IF cleanups = "torn" THEN {"empty", "removal"} ELSE {cleanups} :
       seen' = [seen EXCEPT ![g] = slice]
  /\ Goes(g, "remove")
  /\ UNCHANGED <<cleanups, settings, claude, channel, signals>>

RangeFaults(g) ==
  /\ Alive
  /\ Where(g) = "range"
  /\ cleanups \in {"torn", "mixed"}
  /\ main' = "killed"
  /\ UNCHANGED <<handler, cleanups, settings, claude, channel, signals, seen>>

RemoveFile(g) ==
  /\ Alive
  /\ Where(g) = "remove"
  /\ settings' = IF seen[g] = "removal" THEN "absent" ELSE settings
  /\ Goes(g, "reset")
  /\ UNCHANGED <<cleanups, claude, channel, signals, seen>>

Reset(g) ==
  /\ Alive
  /\ Where(g) = "reset"
  /\ cleanups' = IF cleanups = "torn" THEN "crossed" ELSE "empty"
  /\ Goes(g, IF g = "main" THEN "exited" ELSE "done")
  /\ UNCHANGED <<settings, claude, channel, signals, seen>>

\* Mutant: the handler's receive is not followed by the cleanup.
ReceiveOnly ==
  /\ Alive
  /\ handler = "receive"
  /\ channel > 0
  /\ channel' = channel - 1
  /\ handler' = "done"
  /\ UNCHANGED <<main, cleanups, settings, claude, signals, seen>>

\* The handler receives one signal and no other.
Receive ==
  /\ Alive
  /\ handler = "receive"
  /\ channel > 0
  /\ channel' = channel - 1
  /\ handler' = "range"
  /\ UNCHANGED <<main, cleanups, settings, claude, signals, seen>>

-----------------------------------------------------------------------------
(* The terminal and claude. *)

\* Mutant: the channel is taken to have room for every signal.
SignalQueued ==
  /\ Alive
  /\ signals < MaxSignals
  /\ signals' = signals + 1
  /\ channel' = channel + 1
  /\ UNCHANGED <<main, handler, cleanups, settings, claude, seen>>

\* SIGINT or SIGTERM: signal.Notify drops it when the channel is full.
Signal ==
  /\ Alive
  /\ signals < MaxSignals
  /\ signals' = signals + 1
  /\ channel' = IF channel < ChannelCapacity THEN channel + 1 ELSE channel
  /\ UNCHANGED <<main, handler, cleanups, settings, claude, seen>>

\* A signal Notify was not asked for: a hangup, a quit, a kill.
Killed ==
  /\ Alive
  /\ main' = "killed"
  /\ UNCHANGED <<handler, cleanups, settings, claude, channel, signals, seen>>

\* claude ends when it chooses to; it takes a SIGINT of the terminal as a key.
ClaudeEnds ==
  /\ claude = "running"
  /\ claude' = "returned"
  /\ UNCHANGED <<main, handler, cleanups, settings, channel, signals, seen>>

MainStep ==
  \/ PrepareFails \/ LaunchPlain \/ CreateTemp \/ WriteSettings \/ WriteSettingsFails
  \/ Register \/ Registered \/ StartClaude \/ StartFails \/ ClaudeReturned

Cleanup(g) == RangeOver(g) \/ RangeFaults(g) \/ RemoveFile(g) \/ Reset(g)

Next ==
  \/ MainStep
  \/ Receive
  \/ \E g \in {"main", "handler"} : Cleanup(g)
  \/ Signal \/ Killed \/ ClaudeEnds

Spec == Init /\ [][Next]_vars

\* Both goroutines are scheduled.  claude owes no one its end.
FairSpec ==
  /\ Spec
  /\ WF_vars(MainStep \/ Cleanup("main"))
  /\ WF_vars(Receive \/ Cleanup("handler"))

-----------------------------------------------------------------------------
(* Properties. *)

\* Every variable has its type, and the channel never holds more than it can.
TypeOK ==
  /\ main \in {"prepare", "write", "register", "registered", "start", "wait", "range",
               "remove", "reset"} \cup Ended
  /\ handler \in {"receive", "range", "remove", "reset", "done"}
  /\ cleanups \in {"empty", "torn", "crossed", "mixed", "removal"}
  /\ settings \in {"absent", "created", "expanded"}
  /\ claude \in {"none", "running", "returned"}
  /\ channel \in 0..ChannelCapacity
  /\ signals \in 0..MaxSignals
  /\ seen \in [{"main", "handler"} -> {"empty", "removal"}]

\* The handler read launchCleanups before the removal was in it.
HandlerCameEarly == handler \in {"remove", "reset", "done"} /\ seen["handler"] = "empty"

\* However the launch returns, by a failure half way, by claude's end or by both
\* with signals in between, no copy of the expanded profile is left; a signal
\* that is taken before the removal is registered is the exception, see
\* SettingsRemoved (writeLaunchSettings, runExec, runLaunchCleanups).
ReturnLeavesNoSettings ==
  main = "exited" /\ ~HandlerCameEarly => settings = "absent"

\* Until a signal is taken claude runs against the whole of its settings: the
\* cleanup never runs ahead of the launch (buildClaudeCommand, runExec).
ClaudeHasItsSettings ==
  claude = "running" /\ handler = "receive" /\ cleanups = "removal" /\ Alive
    => settings = "expanded"

\* A signal that waits while the removal is registered leads to the removal of
\* the file, even if claude goes on, unless the process is killed outright
\* (main.go:2597-2600).
SignalRemovesSettings ==
  channel > 0 /\ handler = "receive" /\ cleanups = "removal" ~>
    settings = "absent" \/ main = "killed"

\* The claim of docs/DECISIONS.md:462-463: the copy "is removed when the launch
\* returns, on a non-zero exit and on an interrupt alike".
SettingsRemoved == main = "exited" => settings = "absent"
=============================================================================
