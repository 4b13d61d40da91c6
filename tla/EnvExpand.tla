------------------------------ MODULE EnvExpand ------------------------------
(***************************************************************************)
(* profileenv.go: the expansion of $NAME and ${NAME} in the values of a    *)
(* profile's env block, with $$ for a literal dollar.                      *)
(*                                                                         *)
(* A text is a sequence of symbols, one for each kind of byte the scanner  *)
(* tells apart.  The values of the block are expanded one after another in *)
(* the order a Go map is ranged over, any order, into a map of their own;  *)
(* a variable that is not set fails the block.                             *)
(***************************************************************************)
EXTENDS Naturals, Sequences

CONSTANTS
  Letters,        \* bytes that may start a variable's name, the underscore among them
  Digits,         \* bytes that may follow in one
  Blocks,         \* the env blocks a profile may have
  Env             \* the process environment: the text of every variable that is set

Dollar == "$"
Open == "{"
Close == "}"

\* A value of the block that is not a string.
Number == <<"number">>

\* The symbols a name is made of are told from the others; every text is a sequence of them.
ASSUME ExpandAssumption ==
  /\ {Dollar, Open, Close} \cap (Letters \cup Digits) = {}
  /\ Letters \cap Digits = {}
  /\ \A name \in DOMAIN Env : Env[name] \in Seq(STRING)
  /\ \A b \in Blocks : \A k \in DOMAIN b : b[k] \in Seq(STRING)

VARIABLES
  block,          \* the env block of the profile, not yet replaced
  expanded,       \* the values that are done
  scan            \* the value that is being scanned, how far, and what came of it

expansion == <<block, expanded, scan>>

Strings == {k \in DOMAIN block : block[k] # Number}

ExpandInit ==
  /\ block \in Blocks
  /\ expanded = <<>>
  /\ scan = [status |-> "next", key |-> "none", at |-> 0, out |-> <<>>]

-----------------------------------------------------------------------------
(* envNameAt *)

NameByte(c, first) == c \in Letters \/ (c \in Digits /\ ~first)

ValidName(text, from, to) == from <= to /\ \A j \in from .. to : NameByte(text[j], j = from)

Least(S) == CHOOSE x \in S : \A y \in S : x <= y

\* Where the scan goes on after the first name byte that is not one.
NameStop(text, from) ==
  Least({j \in from .. Len(text) + 1 : j > Len(text) \/ ~NameByte(text[j], j = from)})

\* The name that starts after the dollar and where the text goes on; the empty set is
\* no name, which a brace without its counterpart and $1 are.
NameAt(text, from) ==
  LET closes == {j \in from .. Len(text) : text[j] = Close}
      stop   == NameStop(text, from)
  IN  IF text[from] = Open
      THEN {[name |-> SubSeq(text, from + 1, Least(closes) - 1), end |-> Least(closes) + 1] :
              i \in {j \in {1} : closes # {} /\ ValidName(text, from + 1, Least(closes) - 1)}}
      ELSE {[name |-> SubSeq(text, from, stop - 1), end |-> stop] : i \in {j \in {1} : stop > from}}

-----------------------------------------------------------------------------
(* expandEnvString, an iteration of its loop a step *)

Text == block[scan.key]

Scanning == scan.status = "scan" /\ scan.at <= Len(Text)

\* A dollar that is not the last byte.
AtDollar == Scanning /\ Text[scan.at] = Dollar /\ scan.at < Len(Text)

Emit(symbols, next) ==
  /\ scan' = [scan EXCEPT !.out = @ \o symbols, !.at = next]
  /\ UNCHANGED <<block, expanded>>

BeginValue ==
  /\ scan.status = "next"
  /\ \E k \in Strings \ DOMAIN expanded :
       scan' = [status |-> "scan", key |-> k, at |-> 1, out |-> <<>>]
  /\ UNCHANGED <<block, expanded>>

Copied ==
  /\ Scanning /\ ~AtDollar
  /\ Emit(<<Text[scan.at]>>, scan.at + 1)

\* Mutant: the second dollar of a pair is looked at again.
EscapedTwice ==
  /\ AtDollar /\ Text[scan.at + 1] = Dollar
  /\ Emit(<<Dollar>>, scan.at + 1)

Escaped ==
  /\ AtDollar /\ Text[scan.at + 1] = Dollar
  /\ Emit(<<Dollar>>, scan.at + 2)

\* No name follows: the dollar stands for itself.
BareDollar ==
  /\ AtDollar /\ Text[scan.at + 1] # Dollar /\ NameAt(Text, scan.at + 1) = {}
  /\ Emit(<<Dollar>>, scan.at + 1)

\* The value is taken as it is, dollars and all.
Reference ==
  /\ AtDollar /\ Text[scan.at + 1] # Dollar
  /\ \E n \in NameAt(Text, scan.at + 1) :
       n.name \in DOMAIN Env /\ Emit(Env[n.name], n.end)

ReferenceUnset ==
  /\ AtDollar /\ Text[scan.at + 1] # Dollar
  /\ \E n \in NameAt(Text, scan.at + 1) : n.name \notin DOMAIN Env
  /\ scan' = [scan EXCEPT !.status = "failed"]
  /\ UNCHANGED <<block, expanded>>

EndValue ==
  /\ scan.status = "scan" /\ scan.at > Len(Text)
  /\ expanded' = [k \in DOMAIN expanded \cup {scan.key} |->
                    IF k = scan.key THEN scan.out ELSE expanded[k]]
  /\ scan' = [status |-> "next", key |-> "none", at |-> 0, out |-> <<>>]
  /\ UNCHANGED block

\* The numbers stay in the block as they are; nothing of it was replaced before.
EndBlock ==
  /\ scan.status = "next"
  /\ Strings \subseteq DOMAIN expanded
  /\ scan' = [scan EXCEPT !.status = "done"]
  /\ UNCHANGED <<block, expanded>>

Expand ==
  \/ BeginValue \/ Copied \/ Escaped \/ BareDollar \/ Reference \/ ReferenceUnset
  \/ EndValue \/ EndBlock

-----------------------------------------------------------------------------
(* What a text means, place by place and without a scan: the reference for *)
(* the properties.                                                         *)

\* How many dollars in a row end at i.
DollarsTo(text, i) == i - CHOOSE j \in 0 .. i : /\ j = 0 \/ text[j] # Dollar
                                                /\ \A l \in j + 1 .. i : text[l] = Dollar

\* The references of a text: a dollar that pairs leave over, and the longest name after it.
References(text) ==
  {r \in [from : 1 .. Len(text), to : 1 .. Len(text), braced : BOOLEAN] :
     /\ text[r.from] = Dollar /\ DollarsTo(text, r.from) % 2 = 1
     /\ IF r.braced
        THEN /\ r.from + 1 < r.to /\ text[r.from + 1] = Open /\ text[r.to] = Close
             /\ ValidName(text, r.from + 2, r.to - 1)
        ELSE /\ ValidName(text, r.from + 1, r.to)
             /\ r.to = Len(text) \/ ~NameByte(text[r.to + 1], FALSE)}

NameOf(text, r) ==
  IF r.braced THEN SubSeq(text, r.from + 2, r.to - 1) ELSE SubSeq(text, r.from + 1, r.to)

AllSet(text) == \A r \in References(text) : NameOf(text, r) \in DOMAIN Env

\* What comes of place i: the value of the reference that starts there, nothing within a
\* reference or for the second dollar of a pair, and else the symbol itself.
Part(text, i) ==
  IF \E r \in References(text) : r.from = i
    THEN Env[NameOf(text, CHOOSE r \in References(text) : r.from = i)]
  ELSE IF \/ \E r \in References(text) : r.from < i /\ i <= r.to
          \/ text[i] = Dollar /\ DollarsTo(text, i) % 2 = 0
    THEN <<>>
  ELSE <<text[i]>>

\* What comes of the first i places.
MeaningTo(text, i) ==
  LET upTo[n \in 0 .. Len(text)] == IF n = 0 THEN <<>> ELSE upTo[n - 1] \o Part(text, n)
  IN  upTo[i]

Meaning(text) == MeaningTo(text, Len(text))

-----------------------------------------------------------------------------
(* Properties. *)

\* The values of profileenv.go:22-23, which "a value like "100%" or "a$b" passes through
\* unchanged" is about but for the first: each dollar stands between two letters.
WithinWords(text) ==
  LET dollars == {i \in 1 .. Len(text) : text[i] = Dollar}
  IN  /\ dollars # {}
      /\ \A i \in dollars :
           i \in 2 .. Len(text) - 1 /\ text[i - 1] \in Letters /\ text[i + 1] \in Letters

\* Whatever surrounds a reference - pairs of dollars, braces, digits, another reference,
\* a value with dollars of its own - the scan yields what the text means place by place
\* (expandEnvString, envNameAt; the tests have one reference to a value).  Excepted are
\* values like "a$b": the comment has them unchanged, and the code expands them.
ExpandsByPlace ==
  \A k \in DOMAIN expanded :
    WithinWords(block[k]) \/ (AllSet(block[k]) /\ expanded[k] = Meaning(block[k]))
=============================================================================
