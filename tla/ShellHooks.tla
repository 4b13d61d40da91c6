------------------------------ MODULE ShellHooks ------------------------------
(***************************************************************************)
(* main.go: init, which appends the wrapper's hook to the rc files of the  *)
(* shells, and uninstall, which takes it out again.                        *)
(*                                                                         *)
(* A file is its lines and whether the last one is terminated.  Each run   *)
(* of a command is a process, which goes through the files in order; the   *)
(* user edits the same files.                                              *)
(***************************************************************************)
EXTENDS Naturals, SequencesExt

CONSTANTS
  Runs,           \* the runs of init and uninstall
  Files,          \* how many rc files are gone through
  UserLines,      \* lines a user writes that have nothing to do with the hook
  Contents,       \* what a file may hold at first
  MaxEdits        \* bound on the user's edits

\* Lines of this program: the blank line, the comment and the hook that init writes; a
\* hook with blanks before it; a line that mentions the hook, as one commented out does.
OurLines == {"blank", "comment", "hook"}
LineKinds == OurLines \cup {"indented", "mention"} \cup UserLines

NoFile == [lines |-> <<>>, terminated |-> TRUE, is |-> "absent"]
File(lines, terminated) == [lines |-> lines, terminated |-> terminated, is |-> "present"]

ASSUME HooksAssumption ==
  /\ Files \in Nat \ {0} /\ MaxEdits \in Nat
  /\ UserLines \cap (OurLines \cup {"indented", "mention"}) = {}
  /\ \A c \in Contents :
       /\ c = NoFile \/ c = File(c.lines, c.terminated)
       /\ c.lines \in Seq(LineKinds) /\ c.terminated \in BOOLEAN

VARIABLES
  rc,             \* the files
  run,            \* the state of each run
  edits,          \* how often the user edited; bounded by MaxEdits
  own,            \* what the user wrote into each file, blank lines aside
  past            \* what else the properties need to know

hooksVars == <<rc, run, edits, own, past>>

\* A hook is compared without the blanks around it.
IsHook(l) == l \in {"hook", "indented"}

Hooks(lines) == {i \in DOMAIN lines : IsHook(lines[i])}

\* The lines of the user's, in order.
Own(lines) ==
  LET upTo[i \in 0 .. Len(lines)] ==
        IF i = 0 THEN <<>>
        ELSE IF lines[i] \in UserLines \cup {"mention"} THEN Append(upTo[i - 1], lines[i])
        ELSE upTo[i - 1]
  IN  upTo[Len(lines)]

Unstarted == [pc |-> "unstarted", cmd |-> "none", file |-> 0, read |-> NoFile]

HooksInit ==
  /\ rc \in [1 .. Files -> Contents]
  /\ run = [r \in Runs |-> Unstarted]
  /\ edits = 0
  /\ own = [f \in 1 .. Files |-> Own(rc[f].lines)]
  /\ past = [lost |-> FALSE, overlapped |-> FALSE, edited |-> [f \in 1 .. Files |-> TRUE],
             origin |-> [f \in 1 .. Files |-> NoFile]]

-----------------------------------------------------------------------------

InRun(r, pc) == run[r].pc = pc

\* The file it is at.
TheFile(r) == rc[run[r].file]

RunGoes(r, pc) == run' = [run EXCEPT ![r].pc = pc]

Ends(r) == run' = [run EXCEPT ![r] = [Unstarted EXCEPT !.pc = "over"]]

\* On to the next file, or the end.
NextFile(r) ==
  IF run[r].file = Files THEN Ends(r)
  ELSE run' = [run EXCEPT ![r] = [@ EXCEPT !.pc = "look", !.file = run[r].file + 1, !.read = NoFile]]

BeginRun(r) ==
  /\ InRun(r, "unstarted")
  /\ \E c \in {"init", "uninstall"} :
       run' = [run EXCEPT ![r] = [Unstarted EXCEPT !.pc = "look", !.cmd = c, !.file = 1]]
  /\ UNCHANGED <<rc, edits, own, past>>

\* The file is not there: nothing is created.
Skip(r) ==
  /\ InRun(r, "look")
  /\ TheFile(r) = NoFile
  /\ NextFile(r)
  /\ UNCHANGED <<rc, edits, own, past>>

LookFails(r) ==
  /\ InRun(r, "look")
  /\ Ends(r)
  /\ UNCHANGED <<rc, edits, own, past>>

\* Mutant: init looks for the line it would write.
MentionsExact(lines) == \E i \in DOMAIN lines : lines[i] = "hook"

\* init looks for "ccbunshin init bash" anywhere in the file.
Mentions(lines) == \E i \in DOMAIN lines : lines[i] \in {"hook", "indented", "mention"}

AlreadyHooked(r) ==
  /\ InRun(r, "look") /\ run[r].cmd = "init"
  /\ TheFile(r) # NoFile
  /\ Mentions(TheFile(r).lines)
  /\ NextFile(r)
  /\ UNCHANGED <<rc, edits, own, past>>

Unhooked(r) ==
  /\ InRun(r, "look") /\ run[r].cmd = "init"
  /\ TheFile(r) # NoFile
  /\ ~Mentions(TheFile(r).lines)
  /\ RunGoes(r, "append")
  /\ UNCHANGED <<rc, edits, own, past>>

\* Another run has read the file and is to write it yet.
HeldBy(f, t) == run[t].pc \in {"truncate", "rewrite"} /\ run[t].file = f
Held(f, r) == \E t \in Runs \ {r} : HeldBy(f, t)

\* The newline in front ends an unterminated line and is a blank line after any other.
Appended(c) ==
  File(c.lines \o (IF c.terminated THEN <<"blank">> ELSE <<>>) \o <<"comment", "hook">>, TRUE)

\* O_APPEND: the end of the file as it is now.
AppendHook(r) ==
  LET f == run[r].file
  IN  /\ InRun(r, "append")
      /\ rc' = [rc EXCEPT ![f] = Appended(@)]
      /\ past' = [past EXCEPT !.edited[f] = FALSE, !.origin[f] = rc[f],
                              !.overlapped = @ \/ Mentions(rc[f].lines),
                              !.lost = @ \/ Held(f, r)]
      /\ NextFile(r)
      /\ UNCHANGED <<edits, own>>

AppendFails(r) ==
  /\ InRun(r, "append")
  /\ Ends(r)
  /\ UNCHANGED <<rc, edits, own, past>>

-----------------------------------------------------------------------------
(* uninstallCLI *)

\* Mutant: the line above the comment goes along, whatever it is.
WithoutLastAny(kept) ==
  IF kept = <<>> \/ Last(kept) # "comment" THEN kept
  ELSE LET before == Front(kept) IN IF before # <<>> THEN Front(before) ELSE before

\* Mutant: the blank line stays.
WithoutLastComment(kept) == IF kept = <<>> \/ Last(kept) # "comment" THEN kept ELSE Front(kept)

\* A hook takes the comment above it along, and that the blank line above it.
WithoutLast(kept) ==
  IF kept = <<>> \/ Last(kept) # "comment" THEN kept
  ELSE LET before == Front(kept)
       IN  IF before # <<>> /\ Last(before) = "blank" THEN Front(before) ELSE before

\* The lines one by one.
Kept(lines) ==
  LET upTo[i \in 0 .. Len(lines)] ==
        IF i = 0 THEN <<>>
        ELSE IF IsHook(lines[i]) THEN WithoutLast(upTo[i - 1])
        ELSE Append(upTo[i - 1], lines[i])
  IN  upTo[Len(lines)]

\* No line at all is written as one that is empty.
Rewritten(lines) == File(IF Kept(lines) = <<>> THEN <<"blank">> ELSE Kept(lines), TRUE)

NothingToRemove(r) ==
  /\ InRun(r, "look") /\ run[r].cmd = "uninstall"
  /\ TheFile(r) # NoFile
  /\ Hooks(TheFile(r).lines) = {}
  /\ NextFile(r)
  /\ UNCHANGED <<rc, edits, own, past>>

ReadHooks(r) ==
  /\ InRun(r, "look") /\ run[r].cmd = "uninstall"
  /\ Hooks(TheFile(r).lines) # {}
  /\ run' = [run EXCEPT ![r].pc = "truncate", ![r].read = TheFile(r)]
  /\ UNCHANGED <<rc, edits, own, past>>

\* os.WriteFile empties the file first.
Empty(r) ==
  LET f == run[r].file
  IN  /\ InRun(r, "truncate")
      /\ rc' = [rc EXCEPT ![f] = File(<<>>, TRUE)]
      /\ RunGoes(r, "rewrite")
      /\ UNCHANGED <<edits, own, past>>

\* What was written into the file since it was emptied is overwritten as far as the new
\* text goes.
Rewrite(r) ==
  LET f == run[r].file
      now == rc[f].lines
  IN  /\ InRun(r, "rewrite")
      /\ past' = [past EXCEPT !.lost = @ \/ Held(f, r)]
      /\ \E n \in 0 .. Len(now) :
           rc' = [rc EXCEPT ![f] = File(Rewritten(run[r].read.lines).lines \o SubSeq(now, n + 1, Len(now)),
                                        TRUE)]
      /\ NextFile(r)
      /\ UNCHANGED <<edits, own>>

RewriteFails(r) ==
  /\ InRun(r, "rewrite")
  /\ past' = [past EXCEPT !.lost = TRUE]
  /\ Ends(r)
  /\ UNCHANGED <<rc, edits, own>>

RunKilled(r) ==
  /\ ~InRun(r, "unstarted") /\ ~InRun(r, "over")
  /\ past' = [past EXCEPT !.lost = @ \/ InRun(r, "rewrite")]
  /\ Ends(r)
  /\ UNCHANGED <<rc, edits, own>>

\* The user saves a file with a line more at its end, terminated or not.
Edit(f) ==
  /\ edits < MaxEdits
  /\ rc[f] # NoFile
  /\ edits' = edits + 1
  /\ \E l \in UserLines \cup {"mention", "blank"}, t \in BOOLEAN :
       rc' = [rc EXCEPT ![f] = File(Append(@.lines, l), t)]
  /\ own' = [own EXCEPT ![f] = @ \o Own(<<rc'[f].lines[Len(rc'[f].lines)]>>)]
  /\ past' = [past EXCEPT !.edited[f] = TRUE,
                          !.lost = @ \/ \E t \in Runs : HeldBy(f, t)]
  /\ UNCHANGED run

RunStep(r) ==
  \/ BeginRun(r) \/ Skip(r) \/ LookFails(r) \/ RunKilled(r)
  \/ AlreadyHooked(r) \/ Unhooked(r) \/ AppendHook(r) \/ AppendFails(r)
  \/ NothingToRemove(r) \/ ReadHooks(r) \/ Empty(r) \/ Rewrite(r) \/ RewriteFails(r)

HooksNext == (\E r \in Runs : RunStep(r)) \/ \E f \in 1 .. Files : Edit(f)

HooksSpec == HooksInit /\ [][HooksNext]_hooksVars

-----------------------------------------------------------------------------
(* Properties. *)

\* A run, at a file or not, and what it has read.
IsRun(r) ==
  /\ DOMAIN r = {"pc", "cmd", "file", "read"}
  /\ r.pc \in {"unstarted", "look", "append", "truncate", "rewrite", "over"}
  /\ r.cmd \in {"none", "init", "uninstall"}
  /\ r.file \in IF r.pc \in {"unstarted", "over"} THEN {0} ELSE 1 .. Files

\* The types of the variables: a file that is not there has no lines, and a run is at
\* one of the files until it is over.
HooksTypeOK ==
  /\ DOMAIN rc = 1 .. Files
  /\ \A f \in 1 .. Files : rc[f] = NoFile \/ rc[f] = File(rc[f].lines, rc[f].terminated)
  /\ DOMAIN run = Runs
  /\ \A r \in Runs : IsRun(run[r])
  /\ edits \in 0 .. MaxEdits

\* Whatever is installed and uninstalled again, and wherever the user writes in between,
\* the user's lines are all there, in order, a last one without its newline among them.
\* An uninstall that is killed between emptying the file and writing it, or that writes
\* back what it read before the file changed, is the exception (uninstallCLI).
UserLinesSurvive ==
  \A f \in 1 .. Files :
    \/ past.lost
    \/ \E r \in Runs : InRun(r, "rewrite") /\ run[r].file = f
    \/ Own(rc[f].lines) = own[f]

\* A file has one hook at most, hand-indented ones included, as often as init is run,
\* unless two of them look before either writes (README.md:204: "re-running never
\* duplicates a hook").
HooksOnce ==
  \A f \in 1 .. Files :
    past.lost \/ past.overlapped \/ \A i, j \in Hooks(rc[f].lines) : i = j

\* What is left of a file without a newline at its end, or without lines.
Restored(c) ==
  LET lines == IF ~c.terminated /\ Last(c.lines) = "blank" THEN Front(c.lines) ELSE c.lines
  IN  IF lines = <<>> THEN <<"blank">> ELSE lines

\* An uninstall gives back every line of what init found, and no more, if the user did
\* not write in between: "the comment line and blank line init added above the hook go
\* with it" (main.go:1562).  Only a last line of nothing but blanks is not given back.
UninstallRestores ==
  [][\A r \in Runs :
       LET f == run[r].file
       IN  /\ InRun(r, "rewrite") /\ run'[r].pc # "rewrite"
           /\ ~past'.lost /\ ~past.overlapped /\ ~past.edited[f]
           => rc'[f].lines = Restored(past.origin[f])]_hooksVars
=============================================================================
