----------------------------- MODULE LaunchProofs -----------------------------
(***************************************************************************)
(* Proofs about a launch of claude, for any number of signals and any env  *)
(* block: the two goroutines' invariants, first of ClaudeLaunch alone and  *)
(* then of the launch together with the expansion of its profile; and that *)
(* the expansion yields what a text means place by place, for texts and    *)
(* values of any length.                                                   *)
(***************************************************************************)
EXTENDS LaunchProfile, TLAPS, WellFoundedInduction, SequenceTheorems

USE LaunchAssumption

\* The main goroutine has registered the removal and not ranged over it yet.
Registering == {"registered", "start", "wait", "range"}

\* What the main goroutine finds at each of its steps.
MainFinds ==
  /\ main \in {"prepare", "write", "register"} =>
       cleanups = "empty" /\ seen["handler"] = "empty"
  /\ main = "prepare" => settings = "absent"
  /\ main = "register" => settings = "expanded"
  /\ main = "registered" => cleanups \in {"torn", "crossed"}
  /\ main \in {"start", "wait", "range", "remove", "reset"} =>
       cleanups \in {"removal", "empty", "mixed"}
  /\ claude = "running" /\ Alive => main = "wait"

\* What the handler has done by then.
HandlerFinds ==
  /\ cleanups = "crossed" => main \in {"registered", "killed"} /\ handler = "done"
  /\ handler \in {"reset", "done"} /\ seen["handler"] = "removal" => settings = "absent"
  /\ handler = "receive" /\ cleanups \in {"torn", "removal"} /\ main \in Registering =>
       settings = "expanded"

\* Who is to remove the settings that are there, unless the handler came too early.
Covered ==
  settings # "absent" /\ ~HandlerCameEarly =>
    /\ main \in Registering => cleanups \in {"torn", "removal"}
    /\ main = "remove" => seen["main"] = "removal"
    /\ main \notin {"reset", "exited"}

\* The inductive invariant.
LaunchInv == TypeOK /\ MainFinds /\ HandlerFinds /\ Covered

-----------------------------------------------------------------------------

LEMMA InitIsLaunchInv == Init => LaunchInv
BY DEF Init, LaunchInv, TypeOK, MainFinds, HandlerFinds, Covered, Registering, Alive, Ended,
       HandlerCameEarly, ChannelCapacity

\* The main goroutine, up to the end of claude.
LEMMA MainKeepsInv ==
  ASSUME LaunchInv, MainStep
  PROVE  LaunchInv'
<1> USE DEF LaunchInv, TypeOK, MainFinds, HandlerFinds, Covered, Registering, Alive, Ended,
            HandlerCameEarly
<1>1. CASE PrepareFails
  BY <1>1 DEF PrepareFails
<1>2. CASE LaunchPlain
  BY <1>2 DEF LaunchPlain
<1>3. CASE CreateTemp
  BY <1>3 DEF CreateTemp
<1>4. CASE WriteSettings
  BY <1>4 DEF WriteSettings
<1>5. CASE WriteSettingsFails
  BY <1>5 DEF WriteSettingsFails
<1>6. CASE Register
  BY <1>6 DEF Register
<1>7. CASE Registered
  BY <1>7 DEF Registered
<1>8. CASE StartClaude
  BY <1>8 DEF StartClaude
<1>9. CASE StartFails
  BY <1>9 DEF StartFails
<1>10. CASE ClaudeReturned
  BY <1>10 DEF ClaudeReturned
<1> QED
  BY <1>1, <1>2, <1>3, <1>4, <1>5, <1>6, <1>7, <1>8, <1>9, <1>10 DEF MainStep

\* runLaunchCleanups in the main goroutine.
LEMMA MainCleanupKeepsInv ==
  ASSUME LaunchInv, Cleanup("main")
  PROVE  LaunchInv'
<1> USE DEF LaunchInv, TypeOK, MainFinds, HandlerFinds, Covered, Registering, Alive, Ended,
            HandlerCameEarly, Where, Goes
<1>1. CASE RangeOver("main")
  BY <1>1 DEF RangeOver
<1>2. CASE RangeFaults("main")
  BY <1>2 DEF RangeFaults
<1>3. CASE RemoveFile("main")
  BY <1>3 DEF RemoveFile
<1>4. CASE Reset("main")
  BY <1>4 DEF Reset
<1> QED BY <1>1, <1>2, <1>3, <1>4 DEF Cleanup

\* The same in the handler, after the signal it received.
LEMMA HandlerKeepsInv ==
  ASSUME LaunchInv, Receive \/ Cleanup("handler")
  PROVE  LaunchInv'
<1> USE DEF LaunchInv, TypeOK, MainFinds, HandlerFinds, Covered, Registering, Alive, Ended,
            HandlerCameEarly, Where, Goes
<1>1. CASE RangeOver("handler")
  BY <1>1 DEF RangeOver
<1>2. CASE RangeFaults("handler")
  BY <1>2 DEF RangeFaults
<1>3. CASE RemoveFile("handler")
  BY <1>3 DEF RemoveFile
<1>4. CASE Reset("handler")
  BY <1>4 DEF Reset
<1>5. CASE Receive
  BY <1>5 DEF Receive, ChannelCapacity
<1> QED BY <1>1, <1>2, <1>3, <1>4, <1>5 DEF Cleanup

\* The terminal and claude.
LEMMA OutsideKeepsInv ==
  ASSUME LaunchInv, Signal \/ Killed \/ ClaudeEnds
  PROVE  LaunchInv'
<1> USE DEF LaunchInv, TypeOK, MainFinds, HandlerFinds, Covered, Registering, Alive, Ended,
            HandlerCameEarly
<1>1. CASE Signal
  BY <1>1 DEF Signal, ChannelCapacity
<1>2. CASE Killed
  BY <1>2 DEF Killed
<1>3. CASE ClaudeEnds
  BY <1>3 DEF ClaudeEnds
<1> QED BY <1>1, <1>2, <1>3

LEMMA NextKeepsInv == LaunchInv /\ [Next]_vars => LaunchInv'
<1>1. ASSUME LaunchInv, UNCHANGED vars PROVE LaunchInv'
  BY <1>1 DEF vars, LaunchInv, TypeOK, MainFinds, HandlerFinds, Covered, Alive, HandlerCameEarly
<1> QED
  BY <1>1, MainKeepsInv, MainCleanupKeepsInv, HandlerKeepsInv, OutsideKeepsInv DEF Next

LEMMA LaunchInvHolds == Spec => []LaunchInv
BY InitIsLaunchInv, NextKeepsInv, PTL DEF Spec

-----------------------------------------------------------------------------
(* The launch with the expansion. *)

\* What prepares a profile adds to the launch is out of its sight: every behaviour of
\* both together is one of ClaudeLaunch, which starts when the block has expanded.
THEOREM LaunchRefines == LaunchSpec => Spec
<1>1. LaunchInit => Init
  BY DEF LaunchInit
<1>2. [LaunchNext]_launchVars => [Next]_vars
  BY DEF LaunchNext, LaunchMain, ExpandStep, PreparationFails, CreatesSettings, LaunchesPlain,
         Next, MainStep, launchVars
<1> QED BY <1>1, <1>2, PTL DEF LaunchSpec, Spec

\* Every variable of the launch has its type, and interrupts never holds more than one.
THEOREM LaunchIsTyped == LaunchSpec => []TypeOK
<1>1. LaunchInv => TypeOK
  BY DEF LaunchInv
<1> QED BY <1>1, LaunchInvHolds, LaunchRefines, PTL

\* A launch that returns leaves no settings file, wherever a signal falls, unless the
\* handler took one before the removal was registered (runLaunchCleanups).
THEOREM NothingIsLeft == LaunchSpec => []ReturnLeavesNoSettings
<1>1. LaunchInv => ReturnLeavesNoSettings
  BY DEF LaunchInv, Covered, ReturnLeavesNoSettings
<1> QED BY <1>1, LaunchInvHolds, LaunchRefines, PTL

\* Nothing removes the settings under claude before a signal is taken.
THEOREM ClaudeKeepsItsSettings == LaunchSpec => []ClaudeHasItsSettings
<1>1. LaunchInv => ClaudeHasItsSettings
  BY DEF LaunchInv, MainFinds, HandlerFinds, Registering, ClaudeHasItsSettings
<1> QED BY <1>1, LaunchInvHolds, LaunchRefines, PTL

-----------------------------------------------------------------------------
(* The expansion: numbers, dollars in a row, names and references. *)

\* A set of naturals has a least one: induction over data, without an operator.
LEMMA LeastNatural ==
  ASSUME NEW T, T \subseteq Nat, T # {}
  PROVE  \E m \in T : \A n \in T : m <= n
<1>1. \E m \in T : \A n \in T : ~(<<n, m>> \in OpToRel(<, Nat))
  BY NatLessThanWellFounded, WFMin, Zenon
<1>2. PICK m \in T : \A n \in T : ~(<<n, m>> \in OpToRel(<, Nat))
  BY <1>1
<1>3. ASSUME NEW n \in T PROVE m <= n
  <2>1. ~ (<<n, m>> \in OpToRel(<, Nat)) BY <1>2
  <2>2. m \in Nat /\ n \in Nat OBVIOUS
  <2>3. ~(n < m) BY <2>1, <2>2, Zenon DEF OpToRel
  <2> QED BY <2>2, <2>3
<1> QED BY <1>3

LEMMA LeastIs ==
  ASSUME NEW T, T \subseteq Nat, T # {}
  PROVE  Least(T) \in T /\ \A n \in T : Least(T) <= n
BY LeastNatural DEF Least

\* The place before the dollars in a row that end at i.
Before(text, i, j) ==
  /\ j = 0 \/ text[j] # Dollar
  /\ \A l \in j + 1 .. i : text[l] = Dollar

LEMMA OneBefore ==
  ASSUME NEW text, NEW i \in Nat, NEW j \in 0 .. i, NEW k \in 0 .. i,
         Before(text, i, j), Before(text, i, k)
  PROVE  j = k
<1>1. ~(j < k)
  <2>1. ASSUME j < k PROVE FALSE
    <3>1. k \in j + 1 .. i /\ k # 0 BY <2>1
    <3> QED BY <3>1 DEF Before
  <2> QED BY <2>1
<1>2. ~(k < j)
  <2>1. ASSUME k < j PROVE FALSE
    <3>1. j \in k + 1 .. i /\ j # 0 BY <2>1
    <3> QED BY <3>1 DEF Before
  <2> QED BY <2>1
<1> QED BY <1>1, <1>2

LEMMA DollarsToIs ==
  ASSUME NEW text, NEW i \in Nat, NEW j \in 0 .. i, Before(text, i, j)
  PROVE  DollarsTo(text, i) = i - j
<1> DEFINE c == CHOOSE c \in 0 .. i : Before(text, i, c)
<1>1. c \in 0 .. i /\ Before(text, i, c)
  OBVIOUS
<1>2. DollarsTo(text, i) = i - c
  BY DEF DollarsTo, Before
<1> HIDE DEF c
<1>3. c = j
  BY <1>1, OneBefore
<1> QED BY <1>2, <1>3

\* There is such a place.
LEMMA SomeBefore ==
  ASSUME NEW text, NEW i \in Nat
  PROVE  \E j \in 0 .. i : Before(text, i, j)
<1> DEFINE T == {n \in Nat : ~ \E j \in 0 .. n : Before(text, n, j)}
<1>1. SUFFICES ASSUME T # {} PROVE FALSE
  OBVIOUS
<1>2. PICK n \in T : \A k \in T : n <= k
  <2>1. T \subseteq Nat OBVIOUS
  <2> HIDE DEF T
  <2> QED BY <1>1, <2>1, LeastNatural
<1>3. n \in Nat /\ ~ \E j \in 0 .. n : Before(text, n, j)
  BY <1>2
<1>4. n # 0 /\ text[n] = Dollar
  <2>1. n = 0 \/ text[n] # Dollar => Before(text, n, n)
    BY <1>3 DEF Before
  <2> QED BY <1>3, <2>1
<1>5. n - 1 \in Nat /\ n - 1 \notin T
  BY <1>2, <1>3, <1>4
<1>6. PICK j \in 0 .. n - 1 : Before(text, n - 1, j)
  BY <1>5
<1>7. Before(text, n, j) /\ j \in 0 .. n
  BY <1>3, <1>4, <1>6 DEF Before
<1> QED BY <1>3, <1>7

\* DollarsTo, place by place.
LEMMA DollarsFromStart ==
  ASSUME NEW text PROVE DollarsTo(text, 0) = 0
<1>1. Before(text, 0, 0) /\ 0 \in Nat /\ 0 \in 0 .. 0
  BY DEF Before
<1>2. DollarsTo(text, 0) = 0 - 0
  BY <1>1, DollarsToIs
<1> QED BY <1>2

LEMMA DollarsEnd ==
  ASSUME NEW text, NEW i \in Nat, text[i] # Dollar
  PROVE  DollarsTo(text, i) = 0
<1>1. Before(text, i, i) /\ i \in 0 .. i
  BY DEF Before
<1>2. DollarsTo(text, i) = i - i
  BY <1>1, DollarsToIs
<1> QED BY <1>2

LEMMA DollarsGoOn ==
  ASSUME NEW text, NEW i \in Nat, text[i + 1] = Dollar
  PROVE  /\ DollarsTo(text, i) \in Nat
         /\ DollarsTo(text, i + 1) = DollarsTo(text, i) + 1
<1>1. PICK j \in 0 .. i : Before(text, i, j)
  BY SomeBefore
<1>2. Before(text, i + 1, j) /\ j \in 0 .. i + 1 /\ i + 1 \in Nat
  BY <1>1 DEF Before
<1>3. DollarsTo(text, i) = i - j
  BY <1>1, DollarsToIs
<1>4. DollarsTo(text, i + 1) = i + 1 - j
  BY <1>2, DollarsToIs
<1> QED BY <1>1, <1>3, <1>4

\* A dollar is left over when the one before it is one of a pair, and the other way round.
LEMMA OddThenEven ==
  ASSUME NEW n \in Nat
  PROVE  /\ n % 2 = 1 => (n + 1) % 2 = 0
         /\ n % 2 = 0 => (n + 1) % 2 = 1
         /\ (0 + 1) % 2 = 1
OBVIOUS

-----------------------------------------------------------------------------
(* A reference is where NameAt finds a name. *)

\* A special symbol is no part of a name.
LEMMA NoName ==
  ASSUME NEW c, NEW first \in BOOLEAN, NameByte(c, first)
  PROVE  c # Dollar /\ c # Open /\ c # Close
BY ExpandAssumption DEF NameByte

\* What the definition says of a reference.
Shape(text, r) ==
  /\ r.from \in 1 .. Len(text) /\ r.to \in 1 .. Len(text) /\ r.braced \in BOOLEAN
  /\ r = [from |-> r.from, to |-> r.to, braced |-> r.braced]
  /\ text[r.from] = Dollar /\ DollarsTo(text, r.from) % 2 = 1
  /\ r.braced =>
       /\ r.from + 2 <= r.to - 1
       /\ text[r.from + 1] = Open /\ text[r.to] = Close
       /\ \A j \in r.from + 2 .. r.to - 1 : NameByte(text[j], j = r.from + 2)
  /\ ~r.braced =>
       /\ r.from + 1 <= r.to
       /\ \A j \in r.from + 1 .. r.to : NameByte(text[j], j = r.from + 1)
       /\ r.to = Len(text) \/ ~NameByte(text[r.to + 1], FALSE)

LEMMA ReferenceIs ==
  ASSUME NEW text, NEW r \in References(text)
  PROVE  Shape(text, r)
BY DEF References, ValidName, Shape

LEMMA Extent ==
  ASSUME NEW L, NEW text \in Seq(L), NEW r \in References(text)
  PROVE  /\ Len(text) \in Nat /\ r.from \in Nat /\ r.to \in Nat
         /\ 1 <= r.from /\ r.from + 1 <= r.to /\ r.to <= Len(text)
<1>1. Shape(text, r)
  BY ReferenceIs
<1>2. Len(text) \in Nat
  OBVIOUS
<1>3. /\ r.from \in Nat /\ r.to \in Nat
      /\ 1 <= r.from /\ r.to <= Len(text)
  BY <1>1, <1>2 DEF Shape
<1>4. r.braced => r.from + 2 <= r.to - 1
  BY <1>1 DEF Shape
<1>5. ~r.braced => r.from + 1 <= r.to
  BY <1>1 DEF Shape
<1> QED BY <1>2, <1>3, <1>4, <1>5

\* One dollar starts one reference.
LEMMA OneReference ==
  ASSUME NEW L, NEW text \in Seq(L), NEW r \in References(text), NEW q \in References(text),
         r.from = q.from
  PROVE  r = q
<1>0. Len(text) \in Nat
  OBVIOUS
<1>r. Shape(text, r) /\ Shape(text, q)
  BY ReferenceIs
<1>1. r.braced => ~NameByte(text[r.from + 1], TRUE)
  BY <1>r, NoName DEF Shape
<1>2. q.braced => ~NameByte(text[q.from + 1], TRUE)
  BY <1>r, NoName DEF Shape
<1>3. ~r.braced => NameByte(text[r.from + 1], TRUE)
  BY <1>0, <1>r DEF Shape, NameByte
<1>4. ~q.braced => NameByte(text[q.from + 1], TRUE)
  BY <1>0, <1>r DEF Shape, NameByte
<1>5. r.braced = q.braced
  BY <1>1, <1>2, <1>3, <1>4, <1>r DEF Shape
<1>6. CASE r.braced
  <2>1. ASSUME NEW a \in {r, q}, NEW b \in {r, q}, a.to < b.to PROVE FALSE
    <3>1. /\ a.braced /\ b.braced /\ a.from = b.from
          /\ a \in References(text) /\ b \in References(text)
      BY <1>5, <1>6
    <3>2. a.to \in b.from + 2 .. b.to - 1 /\ text[a.to] = Close
      BY <1>0, <2>1, <3>1, <1>r DEF Shape
    <3>3. NameByte(text[a.to], a.to = b.from + 2)
      BY <3>1, <3>2, <1>r DEF Shape
    <3> QED BY <3>2, <3>3, NoName
  <2>2. r.to \in Nat /\ q.to \in Nat
    BY <1>0, <1>r DEF Shape
  <2>3. r.to = q.to
    BY <2>1, <2>2
  <2> QED BY <1>5, <2>3, <1>r DEF Shape
<1>7. CASE ~r.braced
  <2>1. ASSUME NEW a \in {r, q}, NEW b \in {r, q}, a.to < b.to PROVE FALSE
    <3>1. /\ ~a.braced /\ ~b.braced /\ a.from = b.from
          /\ a \in References(text) /\ b \in References(text)
      BY <1>5, <1>7
    <3>2. /\ a.to + 1 \in b.from + 1 .. b.to /\ a.to + 1 # b.from + 1
          /\ ~NameByte(text[a.to + 1], FALSE)
      BY <1>0, <2>1, <3>1, <1>r DEF Shape, NameByte
    <3>3. NameByte(text[a.to + 1], a.to + 1 = b.from + 1)
      BY <3>1, <3>2, <1>r DEF Shape
    <3> QED BY <3>2, <3>3
  <2>2. r.to \in Nat /\ q.to \in Nat
    BY <1>0, <1>r DEF Shape
  <2>3. r.to = q.to
    BY <2>1, <2>2
  <2> QED BY <1>5, <2>3, <1>r DEF Shape
<1> QED BY <1>6, <1>7

\* The places within a reference are no dollars, so that none starts there.
LEMMA NoneWithin ==
  ASSUME NEW L, NEW text \in Seq(L), NEW r \in References(text),
         NEW i \in Nat, r.from < i, i <= r.to
  PROVE  text[i] # Dollar
<1>0. Len(text) \in Nat
  OBVIOUS
<1>r. Shape(text, r)
  BY ReferenceIs
<1>1. CASE r.braced
  <2>1. i = r.from + 1 \/ i = r.to \/ i \in r.from + 2 .. r.to - 1
    BY <1>0, <1>r DEF Shape
  <2>2. i = r.from + 1 => text[i] = Open
    BY <1>1, <1>r DEF Shape
  <2>3. i = r.to => text[i] = Close
    BY <1>1, <1>r DEF Shape
  <2>4. i \in r.from + 2 .. r.to - 1 => NameByte(text[i], i = r.from + 2)
    BY <1>1, <1>r DEF Shape
  <2>5. Open # Dollar /\ Close # Dollar
    BY DEF Open, Close, Dollar
  <2> QED BY <2>1, <2>2, <2>3, <2>4, <2>5, NoName
<1>2. CASE ~r.braced
  <2>1. i \in r.from + 1 .. r.to
    BY <1>0, <1>r DEF Shape
  <2>2. NameByte(text[i], i = r.from + 1)
    BY <1>2, <2>1, <1>r DEF Shape
  <2> QED BY <2>2, NoName
<1> QED BY <1>1, <1>2, <1>r DEF Shape

\* What envNameAt finds after an odd dollar is a reference, with its name.
LEMMA FoundIsReference ==
  ASSUME NEW L, NEW text \in Seq(L), NEW a \in 1 .. Len(text), a < Len(text),
         text[a] = Dollar, DollarsTo(text, a) % 2 = 1, NEW n \in NameAt(text, a + 1)
  PROVE  \E r \in References(text) : r.from = a /\ r.to + 1 = n.end /\ NameOf(text, r) = n.name
<1>0. Len(text) \in Nat /\ a \in Nat
  OBVIOUS
<1>1. CASE text[a + 1] = Open
  <2> DEFINE closes == {j \in a + 1 .. Len(text) : text[j] = Close}
             c == Least(closes)
  <2>1. /\ closes # {} /\ ValidName(text, a + 1 + 1, c - 1)
        /\ n = [name |-> SubSeq(text, a + 1 + 1, c - 1), end |-> c + 1]
    BY <1>1 DEF NameAt
  <2>2. c \in closes
    <3>1. closes \subseteq Nat BY <1>0
    <3> HIDE DEF closes
    <3> QED BY <2>1, <3>1, LeastIs
  <2>3. c \in a + 1 .. Len(text) /\ text[c] = Close
    BY <2>2
  <2> HIDE DEF closes, c
  <2> DEFINE r == [from |-> a, to |-> c, braced |-> TRUE]
  <2>4. a + 1 + 1 = a + 2
    BY <1>0
  <2>5. ValidName(text, a + 2, c - 1) /\ a + 2 <= c - 1
    BY <2>1, <2>4 DEF ValidName
  <2>6. r \in References(text)
    BY <1>0, <1>1, <2>3, <2>5 DEF References
  <2>7. NameOf(text, r) = n.name /\ n.end = r.to + 1 /\ r.from = a
    BY <2>1, <2>4 DEF NameOf
  <2> QED BY <2>6, <2>7
<1>2. CASE text[a + 1] # Open
  <2> DEFINE stops == {j \in a + 1 .. Len(text) + 1 : j > Len(text) \/ ~NameByte(text[j], j = a + 1)}
             s == NameStop(text, a + 1)
  <2>1. /\ s > a + 1
        /\ n = [name |-> SubSeq(text, a + 1, s - 1), end |-> s]
    BY <1>2 DEF NameAt
  <2>2. s \in stops /\ \A j \in stops : s <= j
    <3>1. stops \subseteq Nat BY <1>0
    <3>2. Len(text) + 1 \in stops BY <1>0
    <3>3. s = Least(stops) BY DEF NameStop
    <3> HIDE DEF stops
    <3> QED BY <3>1, <3>2, <3>3, LeastIs
  <2>3. \A j \in a + 1 .. s - 1 : NameByte(text[j], j = a + 1)
    BY <1>0, <2>2
  <2>4. s \in Nat /\ s <= Len(text) + 1 /\ (s = Len(text) + 1 \/ ~NameByte(text[s], FALSE))
    BY <1>0, <2>1, <2>2 DEF NameByte
  <2> HIDE DEF stops, s
  <2> DEFINE r == [from |-> a, to |-> s - 1, braced |-> FALSE]
  <2>5. ValidName(text, a + 1, s - 1)
    BY <1>0, <2>1, <2>3, <2>4 DEF ValidName
  <2>6. s - 1 + 1 = s /\ s - 1 \in 1 .. Len(text)
    BY <1>0, <2>1, <2>4
  <2>7. s - 1 = Len(text) \/ ~NameByte(text[s - 1 + 1], FALSE)
    BY <1>0, <2>4, <2>6 DEF NameByte
  <2>8. r \in References(text)
    BY <1>0, <2>5, <2>6, <2>7 DEF References
  <2>9. NameOf(text, r) = n.name /\ r.to + 1 = n.end /\ r.from = a
    BY <2>1, <2>6 DEF NameOf
  <2> QED BY <2>8, <2>9
<1> QED BY <1>1, <1>2

\* And it finds every one.
LEMMA ReferenceIsFound ==
  ASSUME NEW L, NEW text \in Seq(L), NEW r \in References(text)
  PROVE  NameAt(text, r.from + 1) # {}
<1> DEFINE a == r.from
<1>r. Shape(text, r)
  BY ReferenceIs
<1>0. Len(text) \in Nat /\ a \in Nat /\ r.to \in Nat /\ r.to <= Len(text)
  BY <1>r DEF Shape
<1>1. CASE r.braced
  <2> DEFINE closes == {j \in a + 1 .. Len(text) : text[j] = Close}
             c == Least(closes)
  <2>1. r.to \in closes
    BY <1>0, <1>1, <1>r DEF Shape
  <2>2. c \in closes /\ \A j \in closes : c <= j
    <3>1. closes \subseteq Nat BY <1>0
    <3> HIDE DEF closes
    <3> QED BY <2>1, <3>1, LeastIs
  <2>3. text[a + 1] = Open /\ Open # Close
    BY <1>1, <1>r DEF Open, Close, Shape
  <2>4. c = r.to
    <3>1. c \in Nat /\ c <= r.to /\ c >= a + 1 /\ text[c] = Close
      BY <1>0, <2>1, <2>2
    <3>2. c # a + 1
      BY <2>3, <3>1
    <3>3. c < r.to => c \in a + 2 .. r.to - 1
      BY <1>0, <3>1, <3>2
    <3>4. c < r.to => NameByte(text[c], c = a + 2)
      BY <1>1, <3>3, <1>r DEF Shape
    <3>5. c >= r.to
      BY <1>0, <3>1, <3>4, ExpandAssumption DEF NameByte
    <3> QED BY <1>0, <3>1, <3>5
  <2>5. a + 1 + 1 = a + 2
    BY <1>0
  <2>6. ValidName(text, a + 1 + 1, c - 1)
    BY <1>1, <2>4, <2>5, <1>r DEF ValidName, Shape
  <2>7. closes # {}
    BY <2>1
  <2> QED BY <2>3, <2>6, <2>7 DEF NameAt
<1>2. CASE ~r.braced
  <2> DEFINE stops == {j \in a + 1 .. Len(text) + 1 : j > Len(text) \/ ~NameByte(text[j], j = a + 1)}
             s == NameStop(text, a + 1)
  <2>1. a + 1 <= Len(text) /\ NameByte(text[a + 1], TRUE)
    BY <1>0, <1>2, <1>r DEF Shape, NameByte
  <2>2. s \in stops
    <3>1. stops \subseteq Nat BY <1>0
    <3>2. Len(text) + 1 \in stops BY <1>0, <2>1
    <3>3. s = Least(stops) BY DEF NameStop
    <3> HIDE DEF stops
    <3> QED BY <3>1, <3>2, <3>3, LeastIs
  <2>3. s \in Nat /\ s > a + 1
    BY <1>0, <2>1, <2>2 DEF NameByte
  <2>4. text[a + 1] # Open
    BY <2>1, NoName
  <2> HIDE DEF s
  <2> QED BY <2>3, <2>4 DEF NameAt, s
<1> QED BY <1>1, <1>2, <1>r DEF Shape

-----------------------------------------------------------------------------
(* The meaning of the first places of a text, place by place. *)

\* f holds what comes of the first i places, for every i up to n.
Means(text, f, n) ==
  f = [i \in 0 .. n |-> IF i = 0 THEN <<>> ELSE f[i - 1] \o Part(text, i)]

LEMMA MeansExists ==
  ASSUME NEW text, NEW n \in Nat
  PROVE  \E f : Means(text, f, n)
<1> DEFINE T == {m \in Nat : ~ \E f : Means(text, f, m)}
<1>1. SUFFICES ASSUME T # {} PROVE FALSE
  OBVIOUS
<1>2. PICK m \in T : \A k \in T : m <= k
  <2>1. T \subseteq Nat OBVIOUS
  <2> HIDE DEF T
  <2> QED BY <1>1, <2>1, LeastNatural
<1>3. m \in Nat /\ ~ \E f : Means(text, f, m)
  BY <1>2
<1>4. m # 0
  <2>1. Means(text, [i \in 0 .. 0 |-> <<>>], 0)
    BY DEF Means
  <2> QED BY <1>3, <2>1
<1>5. m - 1 \in Nat /\ m - 1 \notin T
  BY <1>2, <1>3, <1>4
<1>6. PICK f : Means(text, f, m - 1)
  BY <1>5
<1> DEFINE g == [i \in 0 .. m |-> IF i = m THEN f[m - 1] \o Part(text, m) ELSE f[i]]
<1>7. \A i \in 0 .. m - 1 : f[i] = IF i = 0 THEN <<>> ELSE f[i - 1] \o Part(text, i)
  BY <1>6 DEF Means
<1>8. g[m] = f[m - 1] \o Part(text, m) /\ \A i \in 0 .. m - 1 : g[i] = f[i]
  BY <1>3, <1>4
<1>9. g = [i \in 0 .. m |-> g[i]]
  OBVIOUS
<1> HIDE DEF g
<1>10. ASSUME NEW i \in 0 .. m
       PROVE  g[i] = IF i = 0 THEN <<>> ELSE g[i - 1] \o Part(text, i)
  <2>1. CASE i = m
    <3>1. g[i - 1] = f[m - 1] /\ i # 0
      BY <1>3, <1>4, <1>5, <1>8, <2>1
    <3> QED BY <1>8, <2>1, <3>1
  <2>2. CASE i # m /\ i # 0
    <3>1. i \in 0 .. m - 1 /\ i - 1 \in 0 .. m - 1
      BY <1>3, <2>2
    <3>2. g[i] = f[i] /\ g[i - 1] = f[i - 1]
      BY <1>8, <3>1
    <3> QED BY <1>7, <2>2, <3>1, <3>2
  <2>3. CASE i = 0
    <3>1. 0 \in 0 .. m - 1
      BY <1>3, <1>4
    <3> QED BY <1>7, <1>8, <2>3, <3>1
  <2> QED BY <2>1, <2>2, <2>3
<1>11. Means(text, g, m)
  BY <1>9, <1>10 DEF Means
<1> QED BY <1>3, <1>11

\* MeaningTo, as its two equations.
LEMMA MeaningIs ==
  ASSUME NEW L, NEW text \in Seq(L)
  PROVE  /\ MeaningTo(text, 0) = <<>>
         /\ \A i \in 1 .. Len(text) : MeaningTo(text, i) = MeaningTo(text, i - 1) \o Part(text, i)
<1> DEFINE f == CHOOSE f : Means(text, f, Len(text))
<1>0. Len(text) \in Nat
  OBVIOUS
<1>1. Means(text, f, Len(text))
  BY <1>0, MeansExists
<1>2. ASSUME NEW i PROVE MeaningTo(text, i) = f[i]
  BY DEF MeaningTo, Means
<1> HIDE DEF f
<1>3. \A i \in 0 .. Len(text) : f[i] = IF i = 0 THEN <<>> ELSE f[i - 1] \o Part(text, i)
  BY <1>1 DEF Means
<1>4. f[0] = <<>>
  BY <1>0, <1>3
<1>5. ASSUME NEW i \in 1 .. Len(text)
      PROVE  f[i] = f[i - 1] \o Part(text, i)
  <2>1. i \in 0 .. Len(text) /\ i # 0
    BY <1>0
  <2>2. f[i] = IF i = 0 THEN <<>> ELSE f[i - 1] \o Part(text, i)
    BY <1>3, <2>1
  <2> QED BY <2>1, <2>2
<1> QED BY <1>2, <1>4, <1>5

-----------------------------------------------------------------------------
(* What comes of the place the scan has reached. *)

\* Every reference that starts before a ends there and names a variable that is set.
Passed(text, a) ==
  \A r \in References(text) : r.from < a => r.to < a /\ NameOf(text, r) \in DOMAIN Env

\* A dollar at a is one the pairs before it leave over.
Unpaired(text, a) ==
  a <= Len(text) /\ text[a] = Dollar => DollarsTo(text, a) % 2 = 1

\* After a symbol that is not a dollar, pairs start anew.
LEMMA FreshStart ==
  ASSUME NEW text, NEW a \in Nat, a = 0 \/ text[a] # Dollar
  PROVE  Unpaired(text, a + 1)
<1>1. DollarsTo(text, a) = 0
  BY DollarsFromStart, DollarsEnd
<1>2. text[a + 1] = Dollar => DollarsTo(text, a + 1) = 0 + 1
  BY <1>1, DollarsGoOn
<1>3. text[a + 1] = Dollar => DollarsTo(text, a + 1) % 2 = 1
  BY <1>2, OddThenEven
<1> QED BY <1>3 DEF Unpaired

\* A symbol that starts no reference stands for itself.
LEMMA PlainPart ==
  ASSUME NEW L, NEW text \in Seq(L), NEW a \in 1 .. Len(text),
         Passed(text, a), Unpaired(text, a), \A r \in References(text) : r.from # a
  PROVE  Part(text, a) = <<text[a]>> /\ Passed(text, a + 1)
<1>0. Len(text) \in Nat /\ a \in Nat
  OBVIOUS
<1>1. ~ \E r \in References(text) : r.from < a /\ a <= r.to
  <2>1. ASSUME NEW r \in References(text), r.from < a, a <= r.to PROVE FALSE
    <3>s. Shape(text, r)
      BY ReferenceIs
    <3>1. r.to < a /\ r.to \in Nat
      BY <2>1, <3>s DEF Passed, Shape
    <3> QED BY <1>0, <2>1, <3>1
  <2> QED BY <2>1
<1>2. ~(text[a] = Dollar /\ DollarsTo(text, a) % 2 = 0)
  BY <1>0 DEF Unpaired
<1>3. Part(text, a) = <<text[a]>>
  BY <1>1, <1>2 DEF Part
<1>4. ASSUME NEW r \in References(text), r.from < a + 1
      PROVE  r.to < a + 1 /\ NameOf(text, r) \in DOMAIN Env
  <2>s. Shape(text, r)
    BY ReferenceIs
  <2>1. r.from \in Nat /\ r.to \in Nat /\ r.from # a
    BY <2>s DEF Shape
  <2>2. r.from < a
    BY <1>0, <1>4, <2>1
  <2> QED BY <1>0, <2>1, <2>2 DEF Passed
<1> QED BY <1>3, <1>4 DEF Passed

\* A pair of dollars: the first stands for itself, the second for nothing.
LEMMA PairParts ==
  ASSUME NEW L, NEW text \in Seq(L), NEW a \in 1 .. Len(text), a < Len(text),
         Passed(text, a), Unpaired(text, a), text[a] = Dollar, text[a + 1] = Dollar
  PROVE  /\ Part(text, a) = <<Dollar>> /\ Part(text, a + 1) = <<>>
         /\ Passed(text, a + 2) /\ Unpaired(text, a + 2)
<1>0. Len(text) \in Nat /\ a \in Nat
  OBVIOUS
<1>1. ASSUME NEW r \in References(text), r.from = a PROVE FALSE
  <2>1. a + 1 <= r.to /\ a + 1 \in Nat
    BY <1>0, <1>1, Extent
  <2>2. text[a + 1] # Dollar
    BY <1>0, <1>1, <2>1, NoneWithin
  <2> QED BY <2>2
<1>2. Part(text, a) = <<Dollar>> /\ Passed(text, a + 1)
  BY <1>1, PlainPart
<1>3. /\ DollarsTo(text, a) \in Nat /\ DollarsTo(text, a) % 2 = 1
      /\ DollarsTo(text, a + 1) = DollarsTo(text, a) + 1
  <2>1. DollarsTo(text, a) % 2 = 1
    BY <1>0 DEF Unpaired
  <2> QED BY <1>0, <2>1, DollarsGoOn
<1>4. DollarsTo(text, a + 1) % 2 = 0
  BY <1>3, OddThenEven
<1>5. ASSUME NEW r \in References(text), r.from = a + 1 PROVE FALSE
  <2>s. Shape(text, r)
    BY ReferenceIs
  <2>1. DollarsTo(text, a + 1) % 2 = 1
    BY <1>5, <2>s DEF Shape
  <2> QED BY <1>4, <2>1
<1>6. Part(text, a + 1) = <<>>
  BY <1>4, <1>5 DEF Part
<1>7. Passed(text, a + 2)
  <2>1. ASSUME NEW r \in References(text), r.from < a + 2
        PROVE  r.to < a + 2 /\ NameOf(text, r) \in DOMAIN Env
    <3>s. Shape(text, r)
      BY ReferenceIs
    <3>1. r.from \in Nat /\ r.to \in Nat /\ r.from # a + 1
      BY <1>5, <3>s DEF Shape
    <3>2. r.from < a + 1
      BY <1>0, <2>1, <3>1
    <3>3. r.to < a + 1 /\ NameOf(text, r) \in DOMAIN Env
      BY <1>2, <3>2 DEF Passed
    <3> QED BY <1>0, <3>1, <3>3
  <2> QED BY <2>1 DEF Passed
<1>8. text[a + 2] = Dollar => DollarsTo(text, a + 2) % 2 = 1
  <2>1. a + 1 + 1 = a + 2 /\ a + 1 \in Nat
    BY <1>0
  <2>2. ASSUME text[a + 2] = Dollar
        PROVE  DollarsTo(text, a + 1) \in Nat /\ DollarsTo(text, a + 2) = DollarsTo(text, a + 1) + 1
    BY <2>1, <2>2, DollarsGoOn
  <2> QED BY <1>4, <2>2, OddThenEven
<1>9. Unpaired(text, a + 2)
  BY <1>8 DEF Unpaired
<1> QED BY <1>2, <1>6, <1>7, <1>9

\* A reference: its value, and nothing for the places within it.
LEMMA ReferenceParts ==
  ASSUME NEW L, NEW text \in Seq(L), NEW r \in References(text),
         Passed(text, r.from), NameOf(text, r) \in DOMAIN Env
  PROVE  /\ Part(text, r.from) = Env[NameOf(text, r)]
         /\ \A i \in r.from + 1 .. r.to : Part(text, i) = <<>>
         /\ Passed(text, r.to + 1) /\ Unpaired(text, r.to + 1)
<1>0. Len(text) \in Nat /\ r.from \in Nat /\ r.to \in Nat /\ r.from < r.to
  BY Extent
<1>1. Part(text, r.from) = Env[NameOf(text, r)]
  <2> DEFINE c == CHOOSE q \in References(text) : q.from = r.from
  <2>1. c \in References(text) /\ c.from = r.from
    OBVIOUS
  <2>2. Part(text, r.from) = Env[NameOf(text, c)]
    BY DEF Part
  <2> HIDE DEF c
  <2>3. c = r
    BY <2>1, OneReference
  <2> QED BY <2>2, <2>3
<1>2. ASSUME NEW q \in References(text), r.from < q.from, q.from <= r.to PROVE FALSE
  <2>s. Shape(text, q)
    BY ReferenceIs
  <2>1. q.from \in Nat /\ text[q.from] = Dollar
    BY <2>s DEF Shape
  <2>2. text[q.from] # Dollar
    BY <1>2, <2>1, NoneWithin
  <2> QED BY <2>1, <2>2
<1>3. ASSUME NEW i \in r.from + 1 .. r.to PROVE Part(text, i) = <<>>
  <2>1. i \in Nat /\ r.from < i /\ i <= r.to
    BY <1>0
  <2>2. ~ \E q \in References(text) : q.from = i
    BY <1>2, <2>1
  <2>3. \E q \in References(text) : q.from < i /\ i <= q.to
    BY <2>1
  <2> QED BY <2>2, <2>3 DEF Part
<1>4. ASSUME NEW q \in References(text), q.from < r.to + 1
      PROVE  q.to < r.to + 1 /\ NameOf(text, q) \in DOMAIN Env
  <2>s. Shape(text, q)
    BY ReferenceIs
  <2>1. q.from \in Nat /\ q.to \in Nat
    BY <2>s DEF Shape
  <2>2. q.from <= r.from
    BY <1>0, <1>2, <1>4, <2>1
  <2>3. CASE q.from = r.from
    <3>1. q = r
      BY <2>3, OneReference
    <3> QED BY <1>0, <3>1
  <2>4. CASE q.from < r.from
    <3>1. q.to < r.from /\ NameOf(text, q) \in DOMAIN Env
      BY <2>4 DEF Passed
    <3> QED BY <1>0, <2>1, <3>1
  <2> QED BY <1>0, <2>1, <2>2, <2>3, <2>4
<1>5. Unpaired(text, r.to + 1)
  <2>1. text[r.to] # Dollar
    BY <1>0, NoneWithin
  <2> QED BY <1>0, <2>1, FreshStart
<1> QED BY <1>1, <1>3, <1>4, <1>5 DEF Passed

-----------------------------------------------------------------------------
(* The scan. *)

\* How far the scan of a value has come: what it has put out is what the places
\* before it mean, no reference reaches over it, and no pair of dollars does.
ScanFinds ==
  scan.status = "scan" =>
    /\ scan.key \in DOMAIN block
    /\ scan.at \in 1 .. Len(Text) + 1
    /\ scan.out \in Seq(STRING)
    /\ scan.out = MeaningTo(Text, scan.at - 1)
    /\ Passed(Text, scan.at)
    /\ Unpaired(Text, scan.at)

ScanIs ==
  scan = [status |-> scan.status, key |-> scan.key, at |-> scan.at, out |-> scan.out]

\* Every value that is done is what its text means, those that the property excepts too.
ByPlace == \A k \in DOMAIN expanded : AllSet(block[k]) /\ expanded[k] = Meaning(block[k])

\* The inductive invariant of the expansion.
ExpandInv == block \in Blocks /\ ScanIs /\ ScanFinds /\ ByPlace

LEMMA InitIsExpandInv == ExpandInit => ExpandInv
BY DEF ExpandInit, ExpandInv, ScanIs, ScanFinds, ByPlace

LEMMA TextIsText ==
  ASSUME ExpandInv, Scanning
  PROVE  /\ Text \in Seq(STRING) /\ Len(Text) \in Nat
         /\ scan.at \in 1 .. Len(Text) /\ scan.at \in Nat
<1>1. Text \in Seq(STRING)
  BY ExpandAssumption DEF ExpandInv, ScanFinds, Scanning, Text
<1>2. Len(Text) \in Nat
  BY <1>1
<1>3. scan.at \in 1 .. Len(Text) + 1 /\ scan.at <= Len(Text)
  BY DEF ExpandInv, ScanFinds, Scanning
<1> QED BY <1>1, <1>2, <1>3

\* An iteration that puts out what the places it goes over mean.
LEMMA EmitKeepsInv ==
  ASSUME ExpandInv, Scanning, NEW symbols \in Seq(STRING), NEW next \in 1 .. Len(Text) + 1,
         MeaningTo(Text, next - 1) = scan.out \o symbols,
         Passed(Text, next), Unpaired(Text, next), Emit(symbols, next)
  PROVE  ExpandInv'
<1>1. /\ block' = block /\ expanded' = expanded
      /\ scan'.status = "scan" /\ scan'.key = scan.key
      /\ scan'.at = next /\ scan'.out = scan.out \o symbols
      /\ ScanIs'
  BY DEF ExpandInv, ScanIs, Scanning, Emit
<1>2. Text' = Text
  BY <1>1 DEF Text
<1>3. scan.out \in Seq(STRING) /\ scan.key \in DOMAIN block
  BY DEF ExpandInv, ScanFinds, Scanning
<1>4. scan.out \o symbols \in Seq(STRING)
  BY <1>3
<1>5. ScanFinds'
  BY <1>1, <1>2, <1>3, <1>4 DEF ScanFinds
<1>6. ByPlace'
  BY <1>1 DEF ExpandInv, ByPlace
<1> QED BY <1>1, <1>5, <1>6 DEF ExpandInv

LEMMA ScanGoesOn ==
  ASSUME ExpandInv, Scanning
  PROVE  /\ scan.out = MeaningTo(Text, scan.at - 1) /\ scan.out \in Seq(STRING)
         /\ MeaningTo(Text, scan.at) = scan.out \o Part(Text, scan.at)
         /\ Passed(Text, scan.at) /\ Unpaired(Text, scan.at)
<1>1. /\ scan.out = MeaningTo(Text, scan.at - 1) /\ scan.out \in Seq(STRING)
      /\ Passed(Text, scan.at) /\ Unpaired(Text, scan.at)
  BY DEF ExpandInv, ScanFinds, Scanning
<1>2. MeaningTo(Text, scan.at) = MeaningTo(Text, scan.at - 1) \o Part(Text, scan.at)
  BY TextIsText, MeaningIs
<1> QED BY <1>1, <1>2

LEMMA CopiedKeepsInv ==
  ASSUME ExpandInv, Copied
  PROVE  ExpandInv'
<1> DEFINE a == scan.at
<1>0. Scanning /\ Emit(<<Text[a]>>, a + 1)
  BY DEF Copied
<1>1. /\ Text \in Seq(STRING) /\ Len(Text) \in Nat /\ a \in 1 .. Len(Text) /\ a \in Nat
      /\ MeaningTo(Text, a) = scan.out \o Part(Text, a)
      /\ Passed(Text, a) /\ Unpaired(Text, a)
  BY <1>0, TextIsText, ScanGoesOn
<1>2. Text[a] # Dollar \/ a = Len(Text)
  BY <1>0, <1>1 DEF Copied, AtDollar
<1>3. ASSUME NEW r \in References(Text) PROVE r.from # a
  <2>1. Text[r.from] = Dollar
    <3>1. Shape(Text, r) BY ReferenceIs
    <3> QED BY <3>1 DEF Shape
  <2>2. r.from \in Nat /\ r.from < Len(Text)
    BY <1>1, Extent
  <2> QED BY <1>1, <1>2, <2>1, <2>2
<1>4. Part(Text, a) = <<Text[a]>> /\ Passed(Text, a + 1)
  BY <1>1, <1>3, PlainPart
<1>5. Unpaired(Text, a + 1)
  <2>1. CASE Text[a] # Dollar
    BY <1>1, <2>1, FreshStart
  <2>2. CASE a = Len(Text)
    BY <1>1, <2>2 DEF Unpaired
  <2> QED BY <1>2, <2>1, <2>2
<1>6. /\ <<Text[a]>> \in Seq(STRING) /\ a + 1 \in 1 .. Len(Text) + 1
      /\ MeaningTo(Text, (a + 1) - 1) = scan.out \o <<Text[a]>>
  <2>1. Text[a] \in STRING /\ (a + 1) - 1 = a
    BY <1>1
  <2> QED BY <1>1, <1>4, <2>1
<1> QED BY <1>0, <1>4, <1>5, <1>6, EmitKeepsInv

LEMMA BareDollarKeepsInv ==
  ASSUME ExpandInv, BareDollar
  PROVE  ExpandInv'
<1> DEFINE a == scan.at
<1>0. /\ Scanning /\ Emit(<<Dollar>>, a + 1) /\ a < Len(Text)
      /\ Text[a] = Dollar /\ Text[a + 1] # Dollar /\ NameAt(Text, a + 1) = {}
  BY DEF BareDollar, AtDollar
<1>1. /\ Text \in Seq(STRING) /\ Len(Text) \in Nat /\ a \in 1 .. Len(Text) /\ a \in Nat
      /\ MeaningTo(Text, a) = scan.out \o Part(Text, a)
      /\ Passed(Text, a) /\ Unpaired(Text, a)
  BY <1>0, TextIsText, ScanGoesOn
<1>2. ASSUME NEW r \in References(Text) PROVE r.from # a
  BY <1>0, <1>1, ReferenceIsFound
<1>3. Part(Text, a) = <<Dollar>> /\ Passed(Text, a + 1)
  BY <1>0, <1>1, <1>2, PlainPart
<1>4. Unpaired(Text, a + 1)
  BY <1>0 DEF Unpaired
<1>5. /\ <<Dollar>> \in Seq(STRING) /\ a + 1 \in 1 .. Len(Text) + 1
      /\ MeaningTo(Text, (a + 1) - 1) = scan.out \o <<Dollar>>
  <2>1. Dollar \in STRING /\ (a + 1) - 1 = a
    BY <1>0, <1>1
  <2> QED BY <1>1, <1>3, <2>1
<1> QED BY <1>0, <1>3, <1>4, <1>5, EmitKeepsInv

LEMMA EscapedKeepsInv ==
  ASSUME ExpandInv, Escaped
  PROVE  ExpandInv'
<1> DEFINE a == scan.at
<1>0. /\ Scanning /\ Emit(<<Dollar>>, a + 2) /\ a < Len(Text)
      /\ Text[a] = Dollar /\ Text[a + 1] = Dollar
  BY DEF Escaped, AtDollar
<1>1. /\ Text \in Seq(STRING) /\ Len(Text) \in Nat /\ a \in 1 .. Len(Text) /\ a \in Nat
      /\ scan.out \in Seq(STRING)
      /\ MeaningTo(Text, a) = scan.out \o Part(Text, a)
      /\ Passed(Text, a) /\ Unpaired(Text, a)
  BY <1>0, TextIsText, ScanGoesOn
<1>2. /\ Part(Text, a) = <<Dollar>> /\ Part(Text, a + 1) = <<>>
      /\ Passed(Text, a + 2) /\ Unpaired(Text, a + 2)
  BY <1>0, <1>1, PairParts
<1>3. MeaningTo(Text, a + 1) = MeaningTo(Text, a) \o Part(Text, a + 1)
  <2> DEFINE b == a + 1
  <2>1. b \in 1 .. Len(Text) /\ b - 1 = a
    BY <1>0, <1>1
  <2> HIDE DEF b
  <2>2. MeaningTo(Text, b) = MeaningTo(Text, b - 1) \o Part(Text, b)
    BY <1>1, <2>1, MeaningIs
  <2>3. MeaningTo(Text, b) = MeaningTo(Text, a) \o Part(Text, b)
    BY <2>1, <2>2
  <2> QED BY <2>3 DEF b
<1>4. /\ <<Dollar>> \in Seq(STRING) /\ a + 2 \in 1 .. Len(Text) + 1 /\ (a + 2) - 1 = a + 1
  <2>1. Dollar \in STRING
    BY <1>0, <1>1
  <2>2. a \in Nat /\ Len(Text) \in Nat /\ a < Len(Text)
    BY <1>0, <1>1
  <2> QED BY <2>1, <2>2
<1>5. (scan.out \o <<Dollar>>) \o <<>> = scan.out \o <<Dollar>>
  <2>1. scan.out \o <<Dollar>> \in Seq(STRING)
    BY <1>1, <1>4
  <2> QED BY <2>1, ConcatEmptySeq
<1>6. MeaningTo(Text, (a + 2) - 1) = scan.out \o <<Dollar>>
  BY <1>1, <1>2, <1>3, <1>4, <1>5
<1> QED BY <1>0, <1>2, <1>4, <1>6, EmitKeepsInv

\* What the places of a reference mean together is the value of its name.
LEMMA ReferenceMeans ==
  ASSUME NEW L, NEW text \in Seq(L), NEW r \in References(text), NEW v \in Seq(STRING),
         MeaningTo(text, r.from) = v, \A i \in r.from + 1 .. r.to : Part(text, i) = <<>>
  PROVE  MeaningTo(text, r.to) = v
<1>0. Len(text) \in Nat /\ r.from \in Nat /\ r.to \in Nat /\ r.from < r.to /\ r.to <= Len(text)
  BY Extent
<1> DEFINE T == {i \in r.from .. r.to : MeaningTo(text, i) # v}
<1>1. SUFFICES ASSUME T # {} PROVE FALSE
  <2>1. T = {} => MeaningTo(text, r.to) = v
    BY <1>0
  <2> QED BY <2>1
<1>2. PICK m \in T : \A k \in T : m <= k
  <2>1. T \subseteq Nat BY <1>0
  <2> HIDE DEF T
  <2> QED BY <1>1, <2>1, LeastNatural
<1>3. m \in Nat /\ r.from <= m /\ m <= r.to /\ MeaningTo(text, m) # v /\ m # r.from
  BY <1>0, <1>2
<1>4. m - 1 \in r.from .. r.to /\ m - 1 \notin T
  BY <1>0, <1>2, <1>3
<1>5. MeaningTo(text, m - 1) = v
  BY <1>4
<1>6. MeaningTo(text, m) = MeaningTo(text, m - 1) \o Part(text, m)
  <2>1. m \in 1 .. Len(text)
    BY <1>0, <1>3
  <2> QED BY <2>1, MeaningIs
<1>7. Part(text, m) = <<>>
  BY <1>0, <1>3
<1>8. v \o <<>> = v
  BY ConcatEmptySeq
<1> QED BY <1>3, <1>5, <1>6, <1>7, <1>8

LEMMA ReferenceKeepsInv ==
  ASSUME ExpandInv, Reference
  PROVE  ExpandInv'
<1> DEFINE a == scan.at
<1>0. Scanning /\ a < Len(Text) /\ Text[a] = Dollar
  BY DEF Reference, AtDollar
<1>1. /\ Text \in Seq(STRING) /\ Len(Text) \in Nat /\ a \in 1 .. Len(Text) /\ a \in Nat
      /\ scan.out \in Seq(STRING)
      /\ MeaningTo(Text, a) = scan.out \o Part(Text, a)
      /\ Passed(Text, a) /\ Unpaired(Text, a)
  BY <1>0, TextIsText, ScanGoesOn
<1>2. PICK n \in NameAt(Text, a + 1) : n.name \in DOMAIN Env /\ Emit(Env[n.name], n.end)
  BY DEF Reference
<1>3. PICK r \in References(Text) : r.from = a /\ r.to + 1 = n.end /\ NameOf(Text, r) = n.name
  <2>1. DollarsTo(Text, a) % 2 = 1
    BY <1>0, <1>1 DEF Unpaired
  <2> QED BY <1>0, <1>1, <2>1, FoundIsReference
<1>4. /\ Part(Text, a) = Env[n.name]
      /\ \A i \in r.from + 1 .. r.to : Part(Text, i) = <<>>
      /\ Passed(Text, n.end) /\ Unpaired(Text, n.end)
  BY <1>1, <1>2, <1>3, ReferenceParts
<1>5. Env[n.name] \in Seq(STRING)
  BY <1>2, ExpandAssumption
<1> DEFINE v == scan.out \o Env[n.name]
<1>6. v \in Seq(STRING) /\ MeaningTo(Text, r.from) = v
  <2>1. v \in Seq(STRING)
    BY <1>1, <1>5
  <2>2. MeaningTo(Text, a) = v
    BY <1>1, <1>4
  <2> QED BY <1>3, <2>1, <2>2
<1> HIDE DEF v
<1>7. MeaningTo(Text, r.to) = v
  BY <1>1, <1>4, <1>6, ReferenceMeans
<1>8. n.end \in 1 .. Len(Text) + 1 /\ n.end - 1 = r.to
  <2>1. Len(Text) \in Nat /\ r.to \in Nat /\ r.to <= Len(Text)
    BY <1>1, Extent
  <2>2. n.end = r.to + 1
    BY <1>3
  <2> QED BY <2>1, <2>2
<1>9. MeaningTo(Text, n.end - 1) = scan.out \o Env[n.name]
  BY <1>7, <1>8 DEF v
<1> QED BY <1>0, <1>2, <1>4, <1>5, <1>8, <1>9, EmitKeepsInv

\* A value is begun at its first place, where nothing lies behind.
LEMMA BeginKeepsInv ==
  ASSUME ExpandInv, BeginValue
  PROVE  ExpandInv'
<1>1. PICK k \in Strings \ DOMAIN expanded :
        scan' = [status |-> "scan", key |-> k, at |-> 1, out |-> <<>>]
  BY DEF BeginValue
<1>2. block' = block /\ expanded' = expanded /\ k \in DOMAIN block /\ Text' = block[k]
  BY <1>1 DEF BeginValue, Text, Strings
<1>3. block[k] \in Seq(STRING)
  BY <1>2, ExpandAssumption DEF ExpandInv
<1>4. Len(block[k]) \in Nat
  BY <1>3
<1>5. Passed(block[k], 1)
  <2>1. ASSUME NEW r \in References(block[k]) PROVE ~(r.from < 1)
    BY <1>3, Extent
  <2> QED BY <2>1 DEF Passed
<1>6. Unpaired(block[k], 1)
  <2>1. 0 \in Nat /\ 0 + 1 = 1
    OBVIOUS
  <2> QED BY <2>1, FreshStart
<1>7. MeaningTo(block[k], 1 - 1) = <<>>
  BY <1>3, MeaningIs
<1>8. ScanFinds' /\ ScanIs'
  <2>1. /\ scan'.key = k /\ scan'.at = 1 /\ scan'.out = <<>>
        /\ ScanIs'
    BY <1>1 DEF ScanIs
  <2>2. <<>> \in Seq(STRING) /\ 1 \in 1 .. Len(block[k]) + 1
    BY <1>4
  <2> QED BY <1>2, <1>5, <1>6, <1>7, <2>1, <2>2 DEF ScanFinds
<1>9. ByPlace'
  BY <1>2 DEF ExpandInv, ByPlace
<1> QED BY <1>2, <1>8, <1>9 DEF ExpandInv

\* The end of a value: all of it has its meaning.
LEMMA EndKeepsInv ==
  ASSUME ExpandInv, EndValue
  PROVE  ExpandInv'
<1> DEFINE key == scan.key
<1>1. /\ scan.status = "scan" /\ scan.at > Len(Text) /\ block' = block
      /\ expanded' = [k \in DOMAIN expanded \cup {key} |->
                        IF k = key THEN scan.out ELSE expanded[k]]
  BY DEF EndValue
<1>2. /\ key \in DOMAIN block /\ Text = block[key] /\ scan.at \in 1 .. Len(Text) + 1
      /\ scan.out = MeaningTo(Text, scan.at - 1) /\ Passed(Text, scan.at)
  BY <1>1 DEF ExpandInv, ScanFinds, Text
<1>3. Text \in Seq(STRING)
  BY <1>2, ExpandAssumption DEF ExpandInv
<1>4. Len(Text) \in Nat /\ scan.at - 1 = Len(Text) /\ scan.at \in Nat
  <2>1. Len(Text) \in Nat BY <1>3
  <2> QED BY <1>1, <1>2, <2>1
<1>5. scan.out = Meaning(block[key])
  BY <1>2, <1>4 DEF Meaning
<1>6. AllSet(block[key])
  <2>1. ASSUME NEW r \in References(Text) PROVE NameOf(Text, r) \in DOMAIN Env
    <3>1. r.from \in Nat /\ r.from < scan.at
      BY <1>1, <1>3, <1>4, Extent
    <3> QED BY <1>2, <3>1 DEF Passed
  <2> QED BY <1>2, <2>1 DEF AllSet
<1>7. ASSUME NEW k \in DOMAIN expanded'
      PROVE  AllSet(block'[k]) /\ expanded'[k] = Meaning(block'[k])
  <2>1. CASE k = key
    BY <1>1, <1>5, <1>6, <2>1
  <2>2. CASE k # key
    <3>1. k \in DOMAIN expanded /\ expanded'[k] = expanded[k]
      BY <1>1, <1>7, <2>2
    <3> QED BY <1>1, <3>1 DEF ExpandInv, ByPlace
  <2> QED BY <2>1, <2>2
<1>8. scan' = [status |-> "next", key |-> "none", at |-> 0, out |-> <<>>]
  BY DEF EndValue
<1>9. ScanIs' /\ ScanFinds'
  BY <1>8 DEF ScanIs, ScanFinds
<1>10. ByPlace'
  BY <1>7 DEF ByPlace
<1> QED BY <1>1, <1>9, <1>10 DEF ExpandInv

LEMMA ExpandKeepsInv == ExpandInv /\ [Expand]_expansion => ExpandInv'
<1> SUFFICES ASSUME ExpandInv, [Expand]_expansion PROVE ExpandInv'
  OBVIOUS
<1>1. CASE ReferenceUnset
  BY <1>1 DEF ReferenceUnset, ExpandInv, ScanIs, ScanFinds, ByPlace
<1>2. CASE EndBlock
  BY <1>2 DEF EndBlock, ExpandInv, ScanIs, ScanFinds, ByPlace
<1>3. CASE UNCHANGED expansion
  BY <1>3 DEF expansion, ExpandInv, ScanIs, ScanFinds, ByPlace, Text
<1> QED
  BY <1>1, <1>2, <1>3, CopiedKeepsInv, BareDollarKeepsInv, EscapedKeepsInv, ReferenceKeepsInv,
     BeginKeepsInv, EndKeepsInv DEF Expand

LEMMA ExpandInvHolds == LaunchSpec => []ExpandInv
<1>1. LaunchInit => ExpandInv
  BY InitIsExpandInv DEF LaunchInit
<1>2. [LaunchNext]_launchVars => [Expand]_expansion
  BY DEF LaunchNext, LaunchMain, ExpandStep, launchVars
<1>3. ExpandInv /\ [LaunchNext]_launchVars => ExpandInv'
  BY <1>2, ExpandKeepsInv
<1> QED BY <1>1, <1>3, PTL DEF LaunchSpec

\* Every value that is done is what its text means place by place, whatever surrounds its
\* references, and a value with a reference to nothing is never done (expandEnvString).
THEOREM ValuesExpandByPlace == LaunchSpec => []ExpandsByPlace
<1>1. ExpandInv => ExpandsByPlace
  BY DEF ExpandInv, ByPlace, ExpandsByPlace
<1> QED BY <1>1, ExpandInvHolds, PTL

-----------------------------------------------------------------------------
(* The expansion comes before the file. *)

\* A file that is there, or about to be written, is that of a block that is done.
FileInv ==
  /\ settings # "absent" \/ main = "write" => main # "prepare" /\ scan.status = "done"
  /\ scan.status = "done" => Strings \subseteq DOMAIN expanded

LEMMA NextKeepsFileInv ==
  ASSUME FileInv, LaunchInv, ExpandInv, [LaunchNext]_launchVars
  PROVE  FileInv'
<1>1. CASE ExpandStep
  <2>1. main = "prepare" /\ settings = "absent" /\ UNCHANGED <<main, settings>>
    BY <1>1 DEF ExpandStep, vars, LaunchInv, MainFinds
  <2>2. scan'.status = "done" => Strings' \subseteq DOMAIN expanded'
    <3>1. CASE EndBlock
      BY <3>1 DEF EndBlock, Strings
    <3>2. CASE ~EndBlock
      <4>1. \A symbols, next : Emit(symbols, next) => scan'.status = scan.status
        BY DEF Emit, ExpandInv, ScanIs
      <4>2. Copied \/ Escaped \/ BareDollar \/ Reference => scan'.status = "scan"
        BY <4>1, Zenon DEF Copied, Escaped, BareDollar, Reference, AtDollar, Scanning
      <4>3. ReferenceUnset => scan'.status = "failed"
        BY DEF ReferenceUnset, ExpandInv, ScanIs
      <4>4. BeginValue \/ EndValue => scan'.status \in {"scan", "next"}
        BY DEF BeginValue, EndValue
      <4> QED BY <1>1, <3>2, <4>2, <4>3, <4>4 DEF ExpandStep, Expand
    <3> QED BY <3>1, <3>2
  <2> QED BY <2>1, <2>2 DEF FileInv
<1>2. CASE CreatesSettings /\ UNCHANGED expansion
  BY <1>2 DEF CreatesSettings, CreateTemp, Prepared, expansion, FileInv, Strings
\* No other step creates the file, and none goes back to its preparation.
<1>3. CASE /\ UNCHANGED expansion
            /\ \/ PreparationFails \/ LaunchesPlain \/ (MainStep /\ main # "prepare") \/ Receive
               \/ (\E g \in {"main", "handler"} : Cleanup(g)) \/ Signal \/ Killed \/ ClaudeEnds
  <2>1. /\ settings' # "absent" \/ main' = "write" => settings # "absent" \/ main = "write"
        /\ main' = "prepare" => main = "prepare"
    BY <1>3 DEF PreparationFails, LaunchesPlain, MainStep, PrepareFails, LaunchPlain, CreateTemp,
                WriteSettings, WriteSettingsFails, Register, Registered, StartClaude, StartFails,
                ClaudeReturned, Cleanup, RangeOver, RangeFaults, RemoveFile, Reset, Receive,
                Signal, Killed, ClaudeEnds, Goes, LaunchInv, TypeOK, Ended
  <2> QED BY <1>3, <2>1 DEF FileInv, expansion, Strings
<1>4. CASE UNCHANGED launchVars
  BY <1>4 DEF launchVars, vars, expansion, FileInv, Strings
<1> QED BY <1>1, <1>2, <1>3, <1>4 DEF LaunchNext, LaunchMain

\* Nothing of a profile is on the disk before all of it has expanded
\* (buildClaudeCommand, writeLaunchSettings).
THEOREM OnlyExpandedIsWritten == LaunchSpec => []SettingsAreExpanded
<1>1. LaunchInit => FileInv
  BY DEF LaunchInit, Init, ExpandInit, FileInv
<1>2. FileInv /\ LaunchInv /\ ExpandInv /\ [LaunchNext]_launchVars => FileInv'
  BY NextKeepsFileInv
<1>3. LaunchSpec => []LaunchInv
  BY LaunchInvHolds, LaunchRefines, PTL
<1>4. FileInv /\ ExpandInv => SettingsAreExpanded
  BY DEF FileInv, ExpandInv, ByPlace, SettingsAreExpanded
<1> QED BY <1>1, <1>2, <1>3, <1>4, ExpandInvHolds, PTL DEF LaunchSpec
=============================================================================
