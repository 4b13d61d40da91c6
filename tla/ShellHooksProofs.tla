--------------------------- MODULE ShellHooksProofs ---------------------------
(***************************************************************************)
(* Proofs about the rc files, for any number of runs of init and           *)
(* uninstall, any files with any lines and any edits in between: the       *)
(* user's lines survive, a file has one hook at most, and an uninstall     *)
(* gives back what init found.                                             *)
(*                                                                         *)
(* What is said of lists of any length is proved by induction: a property  *)
(* of lists is the set of the lists that have it (ListInduction).          *)
(***************************************************************************)
EXTENDS ShellHooks, TLAPS, WellFoundedInduction, SequenceTheorems

-----------------------------------------------------------------------------
(* Lists, of any length. *)

\* A set of naturals has a least one: induction over data, without an operator.
LEMMA LeastNatural ==
  ASSUME NEW T, T \subseteq Nat, T # {}
  PROVE  \E m \in T : \A n \in T : m <= n
<1>1. \E m \in T : \A n \in T : ~(<<n, m>> \in OpToRel(<, Nat))
  BY NatLessThanWellFounded, WFMin, Zenon
<1>2. PICK m \in T : \A n \in T : ~(<<n, m>> \in OpToRel(<, Nat))
  BY <1>1
<1>3. ASSUME NEW n \in T PROVE m <= n
  <2>1. ~ (<<n, m>> \in OpToRel(<, Nat)) BY <1>2
  <2>2. m \in Nat /\ n \in Nat OBVIOUS
  <2>3. ~(n < m) BY <2>1, <2>2, Zenon DEF OpToRel
  <2> QED BY <2>2, <2>3
<1> QED BY <1>3

\* A list that is not empty is its last line after the lines before it.
LEMMA TheRest ==
  ASSUME NEW L, NEW s \in Seq(L), Len(s) # 0
  PROVE  /\ SubSeq(s, 1, Len(s) - 1) \in Seq(L) /\ s[Len(s)] \in L
         /\ Len(SubSeq(s, 1, Len(s) - 1)) = Len(s) - 1
         /\ s = Append(SubSeq(s, 1, Len(s) - 1), s[Len(s)])
<1> DEFINE front == SubSeq(s, 1, Len(s) - 1)
<1>1. Len(s) \in Nat /\ Len(s) - 1 \in Nat /\ s[Len(s)] \in L
  OBVIOUS
<1>2. /\ front \in Seq(L) /\ Len(front) = Len(s) - 1
      /\ \A i \in 1 .. Len(s) - 1 : front[i] = s[i]
  <2>1. \A i \in 1 .. Len(s) - 1 : s[i] \in L
    BY <1>1
  <2>2. /\ front \in Seq(L) /\ Len(front) = IF 1 <= Len(s) - 1 THEN Len(s) - 1 - 1 + 1 ELSE 0
        /\ \A i \in 1 .. Len(s) - 1 - 1 + 1 : front[i] = s[1 + i - 1]
    BY <1>1, <2>1, SubSeqProperties
  <2> HIDE DEF front
  <2>3. ASSUME NEW i \in 1 .. Len(s) - 1
        PROVE  front[i] = s[i]
    <3>1. i \in 1 .. Len(s) - 1 - 1 + 1 /\ 1 + i - 1 = i
      BY <1>1
    <3>2. front[i] = s[1 + i - 1]
      BY <2>2, <3>1
    <3> QED BY <3>1, <3>2
  <2>4. Len(front) = Len(s) - 1
    <3> DEFINE k == Len(s) - 1
    <3>1. k \in Nat /\ Len(front) = IF 1 <= k THEN k - 1 + 1 ELSE 0
      BY <1>1, <2>2
    <3> HIDE DEF k
    <3>2. Len(front) = k
      BY <3>1
    <3> QED BY <3>2 DEF k
  <2> QED BY <2>2, <2>3, <2>4
<1> HIDE DEF front
<1>3. s = Append(front, s[Len(s)])
  BY <1>1, <1>2
<1> QED BY <1>1, <1>2, <1>3 DEF front

\* A set of lists to which a line may always be added has them all.
LEMMA ListInduction ==
  ASSUME NEW L, NEW good, <<>> \in good,
         \A s \in Seq(L), l \in L : s \in good => Append(s, l) \in good
  PROVE  Seq(L) \subseteq good
<1> DEFINE T == {Len(s) : s \in Seq(L) \ good}
<1>1. SUFFICES ASSUME T # {} PROVE FALSE
  OBVIOUS
<1>2. PICK n \in T : \A k \in T : n <= k
  <2>1. T \subseteq Nat
    OBVIOUS
  <2> HIDE DEF T
  <2> QED BY <1>1, <2>1, LeastNatural
<1>3. PICK s \in Seq(L) \ good : Len(s) = n
  BY <1>2
<1>4. Len(s) # 0
  <2>1. Len(s) = 0 => s = <<>>
    OBVIOUS
  <2> QED BY <1>3, <2>1
<1> DEFINE front == SubSeq(s, 1, Len(s) - 1)
<1>5. /\ front \in Seq(L) /\ s[Len(s)] \in L /\ Len(front) = Len(s) - 1
      /\ s = Append(front, s[Len(s)])
  BY <1>4, TheRest
<1> HIDE DEF front
<1>6. front \notin good
  BY <1>3, <1>5
<1>7. Len(front) \in T /\ Len(s) \in Nat
  BY <1>5, <1>6
<1> HIDE DEF T
<1> QED BY <1>2, <1>3, <1>4, <1>5, <1>7

-----------------------------------------------------------------------------
(* The user's lines. *)

Users == UserLines \cup {"mention"}

\* f holds the user's lines among the first i of s, for every i.
Owns(s, f) ==
  f = [i \in 0 .. Len(s) |->
         IF i = 0 THEN <<>> ELSE IF s[i] \in Users THEN Append(f[i - 1], s[i]) ELSE f[i - 1]]

\* Own is the last value of any function that goes through the lines as Own does.
LEMMA OwnIs ==
  ASSUME NEW L, NEW s \in Seq(L), NEW f, Owns(s, f)
  PROVE  Own(s) = f[Len(s)]
<1> DEFINE n == Len(s)
           t == CHOOSE t : Owns(s, t)
<1>0. n \in Nat OBVIOUS
<1>1. Own(s) = t[n]
  BY DEF Own, Owns, Users
<1>2. Owns(s, t)
  OBVIOUS
<1> HIDE DEF t
<1>3. \A i \in 0 .. n :
        /\ t[i] = IF i = 0 THEN <<>> ELSE IF s[i] \in Users THEN Append(t[i - 1], s[i]) ELSE t[i - 1]
        /\ f[i] = IF i = 0 THEN <<>> ELSE IF s[i] \in Users THEN Append(f[i - 1], s[i]) ELSE f[i - 1]
  BY <1>2 DEF Owns
<1> DEFINE T == {i \in 0 .. n : t[i] # f[i]}
<1>4. T = {}
  <2>1. SUFFICES ASSUME T # {} PROVE FALSE
    OBVIOUS
  <2>2. PICK m \in T : \A k \in T : m <= k
    <3>1. T \subseteq Nat BY <1>0
    <3> HIDE DEF T
    <3> QED BY <2>1, <3>1, LeastNatural
  <2>3. m \in Nat /\ m <= n /\ t[m] # f[m] BY <2>2
  <2>4. m # 0 BY <1>0, <1>3, <2>3
  <2>5. m - 1 \in 0 .. n /\ m - 1 \notin T
    BY <1>0, <2>2, <2>3, <2>4
  <2>6. t[m - 1] = f[m - 1] BY <2>5
  <2> QED BY <1>3, <2>3, <2>4, <2>6
<1>5. n \in 0 .. n /\ n \notin T BY <1>0, <1>4
<1> QED BY <1>1, <1>5

\* One line more: f goes on.
LEMMA OwnsGoOn ==
  ASSUME NEW L, NEW s \in Seq(L), NEW l \in L, NEW f, Owns(s, f)
  PROVE  LET e == IF l \in Users THEN Append(f[Len(s)], l) ELSE f[Len(s)]
         IN  Owns(Append(s, l), [i \in 0 .. Len(s) + 1 |-> IF i = Len(s) + 1 THEN e ELSE f[i]])
<1> DEFINE n == Len(s)
           e == IF l \in Users THEN Append(f[n], l) ELSE f[n]
           g == [i \in 0 .. n + 1 |-> IF i = n + 1 THEN e ELSE f[i]]
           s1 == Append(s, l)
<1>1. n \in Nat /\ Len(s1) = n + 1 /\ s1[n + 1] = l /\ \A i \in 1 .. n : s1[i] = s[i]
  OBVIOUS
<1>2. \A i \in 0 .. n :
        f[i] = IF i = 0 THEN <<>> ELSE IF s[i] \in Users THEN Append(f[i - 1], s[i]) ELSE f[i - 1]
  BY DEF Owns
<1>3. \A i \in 0 .. n : g[i] = f[i]
  BY <1>1
<1>4. g[n + 1] = e
  BY <1>1
<1>5. \A i \in 0 .. n + 1 :
        g[i] = IF i = 0 THEN <<>> ELSE IF s1[i] \in Users THEN Append(g[i - 1], s1[i]) ELSE g[i - 1]
  <2> SUFFICES ASSUME NEW i \in 0 .. n + 1
               PROVE g[i] = IF i = 0 THEN <<>> ELSE IF s1[i] \in Users THEN Append(g[i - 1], s1[i]) ELSE g[i - 1]
    OBVIOUS
  <2> HIDE DEF g, s1
  <2>1. CASE i = n + 1
    <3>1. g[i - 1] = f[n] /\ i # 0 /\ s1[i] = l
      BY <1>1, <1>3, <2>1
    <3> QED BY <1>4, <2>1, <3>1
  <2>2. CASE i # n + 1 /\ i # 0
    <3>1. i \in 1 .. n /\ i - 1 \in 0 .. n
      BY <1>1, <2>2
    <3>2. g[i] = f[i] /\ g[i - 1] = f[i - 1] /\ s1[i] = s[i]
      BY <1>1, <1>3, <3>1
    <3> QED BY <1>2, <2>2, <3>1, <3>2
  <2>3. CASE i = 0
    BY <1>1, <1>2, <1>3, <2>3
  <2> QED BY <2>1, <2>2, <2>3
<1>6. g = [i \in 0 .. n + 1 |-> g[i]]
  OBVIOUS
<1>7. Owns(s1, g)
  <2> HIDE DEF g, s1
  <2> QED BY <1>1, <1>5, <1>6 DEF Owns
<1> QED BY <1>7

\* There is such a function for every list.
LEMMA OwnsExist ==
  ASSUME NEW L, NEW s \in Seq(L)
  PROVE  \E f : Owns(s, f)
<1> DEFINE good == {x \in Seq(L) : \E f : Owns(x, f)}
<1>1. <<>> \in good
  <2>1. Owns(<<>>, [i \in 0 .. 0 |-> <<>>])
    BY DEF Owns
  <2> QED BY <2>1
<1>2. ASSUME NEW x \in Seq(L), NEW l \in L, x \in good
      PROVE  Append(x, l) \in good
  <2>1. PICK f : Owns(x, f)
    BY <1>2
  <2>2. \E g : Owns(Append(x, l), g)
    BY <2>1, OwnsGoOn
  <2> QED BY <2>2
<1> HIDE DEF good
<1>3. Seq(L) \subseteq good
  BY <1>1, <1>2, ListInduction
<1> QED BY <1>3 DEF good

\* Own, as its two equations.
LEMMA OwnEmpty == Own(<<>>) = <<>>
<1>1. Owns(<<>>, [i \in 0 .. 0 |-> <<>>])
  BY DEF Owns
<1> DEFINE f == [i \in 0 .. 0 |-> <<>>]
<1>2. f[0] = <<>> /\ Len(<<>>) = 0 /\ <<>> \in Seq({})
  OBVIOUS
<1> HIDE DEF f
<1> QED BY <1>1, <1>2, OwnIs DEF f

LEMMA OwnAppend ==
  ASSUME NEW L, NEW s \in Seq(L), NEW l \in L
  PROVE  Own(Append(s, l)) = IF l \in Users THEN Append(Own(s), l) ELSE Own(s)
<1>1. PICK f : Owns(s, f)
  BY OwnsExist
<1> DEFINE e == IF l \in Users THEN Append(f[Len(s)], l) ELSE f[Len(s)]
           g == [i \in 0 .. Len(s) + 1 |-> IF i = Len(s) + 1 THEN e ELSE f[i]]
<1>2. Owns(Append(s, l), g)
  BY <1>1, OwnsGoOn
<1>3. Own(s) = f[Len(s)]
  BY <1>1, OwnIs
<1>4. Append(s, l) \in Seq(L) /\ Len(Append(s, l)) = Len(s) + 1 /\ Len(s) \in Nat
  OBVIOUS
<1>5. g[Len(s) + 1] = e
  BY <1>4
<1>6. Own(Append(s, l)) = g[Len(s) + 1]
  <2> HIDE DEF g
  <2> QED BY <1>2, <1>4, OwnIs
<1> QED BY <1>3, <1>5, <1>6

-----------------------------------------------------------------------------
(* What an uninstall keeps. *)

\* f holds what is kept of the first i lines of s, for every i.
Keeps(s, f) ==
  f = [i \in 0 .. Len(s) |->
         IF i = 0 THEN <<>> ELSE IF IsHook(s[i]) THEN WithoutLast(f[i - 1]) ELSE Append(f[i - 1], s[i])]

\* Kept is the last value of any function that goes through the lines as Kept does.
LEMMA KeptIs ==
  ASSUME NEW L, NEW s \in Seq(L), NEW f, Keeps(s, f)
  PROVE  Kept(s) = f[Len(s)]
<1> DEFINE n == Len(s)
           t == CHOOSE t : Keeps(s, t)
<1>0. n \in Nat OBVIOUS
<1>1. Kept(s) = t[n]
  BY DEF Kept, Keeps
<1>2. Keeps(s, t)
  OBVIOUS
<1> HIDE DEF t
<1>3. \A i \in 0 .. n :
        /\ t[i] = IF i = 0 THEN <<>> ELSE IF IsHook(s[i]) THEN WithoutLast(t[i - 1]) ELSE Append(t[i - 1], s[i])
        /\ f[i] = IF i = 0 THEN <<>> ELSE IF IsHook(s[i]) THEN WithoutLast(f[i - 1]) ELSE Append(f[i - 1], s[i])
  BY <1>2 DEF Keeps
<1> DEFINE T == {i \in 0 .. n : t[i] # f[i]}
<1>4. T = {}
  <2>1. SUFFICES ASSUME T # {} PROVE FALSE
    OBVIOUS
  <2>2. PICK m \in T : \A k \in T : m <= k
    <3>1. T \subseteq Nat BY <1>0
    <3> HIDE DEF T
    <3> QED BY <2>1, <3>1, LeastNatural
  <2>3. m \in Nat /\ m <= n /\ t[m] # f[m] BY <2>2
  <2>4. m # 0 BY <1>0, <1>3, <2>3
  <2>5. m - 1 \in 0 .. n /\ m - 1 \notin T
    BY <1>0, <2>2, <2>3, <2>4
  <2>6. t[m - 1] = f[m - 1] BY <2>5
  <2> QED BY <1>3, <2>3, <2>4, <2>6
<1>5. n \in 0 .. n /\ n \notin T BY <1>0, <1>4
<1> QED BY <1>1, <1>5

\* One line more: f goes on.
LEMMA KeepsGoOn ==
  ASSUME NEW L, NEW s \in Seq(L), NEW l \in L, NEW f, Keeps(s, f)
  PROVE  LET e == IF IsHook(l) THEN WithoutLast(f[Len(s)]) ELSE Append(f[Len(s)], l)
         IN  Keeps(Append(s, l), [i \in 0 .. Len(s) + 1 |-> IF i = Len(s) + 1 THEN e ELSE f[i]])
<1> DEFINE n == Len(s)
           e == IF IsHook(l) THEN WithoutLast(f[n]) ELSE Append(f[n], l)
           g == [i \in 0 .. n + 1 |-> IF i = n + 1 THEN e ELSE f[i]]
           s1 == Append(s, l)
<1>1. n \in Nat /\ Len(s1) = n + 1 /\ s1[n + 1] = l /\ \A i \in 1 .. n : s1[i] = s[i]
  OBVIOUS
<1>2. \A i \in 0 .. n :
        f[i] = IF i = 0 THEN <<>> ELSE IF IsHook(s[i]) THEN WithoutLast(f[i - 1]) ELSE Append(f[i - 1], s[i])
  BY DEF Keeps
<1>3. \A i \in 0 .. n : g[i] = f[i]
  BY <1>1
<1>4. g[n + 1] = e
  BY <1>1
<1>5. \A i \in 0 .. n + 1 :
        g[i] = IF i = 0 THEN <<>> ELSE IF IsHook(s1[i]) THEN WithoutLast(g[i - 1]) ELSE Append(g[i - 1], s1[i])
  <2> SUFFICES ASSUME NEW i \in 0 .. n + 1
               PROVE g[i] = IF i = 0 THEN <<>> ELSE IF IsHook(s1[i]) THEN WithoutLast(g[i - 1]) ELSE Append(g[i - 1], s1[i])
    OBVIOUS
  <2> HIDE DEF g, s1
  <2>1. CASE i = n + 1
    <3>1. g[i - 1] = f[n] /\ i # 0 /\ s1[i] = l
      BY <1>1, <1>3, <2>1
    <3> QED BY <1>4, <2>1, <3>1
  <2>2. CASE i # n + 1 /\ i # 0
    <3>1. i \in 1 .. n /\ i - 1 \in 0 .. n
      BY <1>1, <2>2
    <3>2. g[i] = f[i] /\ g[i - 1] = f[i - 1] /\ s1[i] = s[i]
      BY <1>1, <1>3, <3>1
    <3> QED BY <1>2, <2>2, <3>1, <3>2
  <2>3. CASE i = 0
    BY <1>1, <1>2, <1>3, <2>3
  <2> QED BY <2>1, <2>2, <2>3
<1>6. g = [i \in 0 .. n + 1 |-> g[i]]
  OBVIOUS
<1>7. Keeps(s1, g)
  <2> HIDE DEF g, s1
  <2> QED BY <1>1, <1>5, <1>6 DEF Keeps
<1> QED BY <1>7

\* There is such a function for every list.
LEMMA KeepsExist ==
  ASSUME NEW L, NEW s \in Seq(L)
  PROVE  \E f : Keeps(s, f)
<1> DEFINE good == {x \in Seq(L) : \E f : Keeps(x, f)}
<1>1. <<>> \in good
  <2>1. Keeps(<<>>, [i \in 0 .. 0 |-> <<>>])
    BY DEF Keeps
  <2> QED BY <2>1
<1>2. ASSUME NEW x \in Seq(L), NEW l \in L, x \in good
      PROVE  Append(x, l) \in good
  <2>1. PICK f : Keeps(x, f)
    BY <1>2
  <2>2. \E g : Keeps(Append(x, l), g)
    BY <2>1, KeepsGoOn
  <2> QED BY <2>2
<1> HIDE DEF good
<1>3. Seq(L) \subseteq good
  BY <1>1, <1>2, ListInduction
<1> QED BY <1>3 DEF good

\* Kept, as its two equations.
LEMMA KeptEmpty == Kept(<<>>) = <<>>
<1>1. Keeps(<<>>, [i \in 0 .. 0 |-> <<>>])
  BY DEF Keeps
<1> DEFINE f == [i \in 0 .. 0 |-> <<>>]
<1>2. f[0] = <<>> /\ Len(<<>>) = 0 /\ <<>> \in Seq({})
  OBVIOUS
<1> HIDE DEF f
<1> QED BY <1>1, <1>2, KeptIs DEF f

LEMMA KeptAppend ==
  ASSUME NEW L, NEW s \in Seq(L), NEW l \in L
  PROVE  Kept(Append(s, l)) = IF IsHook(l) THEN WithoutLast(Kept(s)) ELSE Append(Kept(s), l)
<1>1. PICK f : Keeps(s, f)
  BY KeepsExist
<1> DEFINE e == IF IsHook(l) THEN WithoutLast(f[Len(s)]) ELSE Append(f[Len(s)], l)
           g == [i \in 0 .. Len(s) + 1 |-> IF i = Len(s) + 1 THEN e ELSE f[i]]
<1>2. Keeps(Append(s, l), g)
  BY <1>1, KeepsGoOn
<1>3. Kept(s) = f[Len(s)]
  BY <1>1, KeptIs
<1>4. Append(s, l) \in Seq(L) /\ Len(Append(s, l)) = Len(s) + 1 /\ Len(s) \in Nat
  OBVIOUS
<1>5. g[Len(s) + 1] = e
  BY <1>4
<1>6. Kept(Append(s, l)) = g[Len(s) + 1]
  <2> HIDE DEF g
  <2> QED BY <1>2, <1>4, KeptIs
<1> QED BY <1>3, <1>5, <1>6
-----------------------------------------------------------------------------
(* What the user has written survives an uninstall. *)

\* What is the user's are lines.
LEMMA OwnIsAList ==
  ASSUME NEW s \in Seq(LineKinds)
  PROVE  Own(s) \in Seq(LineKinds)
<1> DEFINE good == {x \in Seq(LineKinds) : Own(x) \in Seq(LineKinds)}
<1>1. <<>> \in good
  <2>1. <<>> \in Seq(LineKinds)
    OBVIOUS
  <2> QED BY <2>1, OwnEmpty
<1>2. ASSUME NEW x \in Seq(LineKinds), NEW l \in LineKinds, x \in good
      PROVE  Append(x, l) \in good
  <2>1. Own(x) \in Seq(LineKinds) /\ Append(x, l) \in Seq(LineKinds)
    BY <1>2
  <2>2. Own(Append(x, l)) = IF l \in Users THEN Append(Own(x), l) ELSE Own(x)
    BY OwnAppend
  <2>3. Append(Own(x), l) \in Seq(LineKinds)
    BY <2>1
  <2> QED BY <2>1, <2>2, <2>3
<1> HIDE DEF good
<1>3. Seq(LineKinds) \subseteq good
  BY <1>1, <1>2, ListInduction
<1> QED BY <1>3 DEF good

\* A line of the user's is neither a hook nor what goes along with one.
LEMMA KindsAreApart ==
  /\ \A l \in LineKinds : IsHook(l) => l \notin Users
  /\ "blank" \notin Users /\ "comment" \notin Users
  /\ {"blank", "comment", "hook", "mention"} \cup UserLines \subseteq LineKinds
  /\ \A l \in UserLines : l \notin {"blank", "comment", "hook", "indented", "mention"}
  BY HooksAssumption DEF LineKinds, OurLines, Users, IsHook

\* A list's last line, and what comes before it.
LEMMA LastAndFront ==
  ASSUME NEW L, NEW s \in Seq(L), s # <<>>
  PROVE  /\ Front(s) \in Seq(L) /\ Last(s) \in L
         /\ s = Append(Front(s), Last(s))
<1>1. Len(s) # 0
  OBVIOUS
<1> QED BY <1>1, TheRest DEF Front, Last

\* Adding a line and dropping the last one are inverse.
LEMMA FrontOfAppend ==
  ASSUME NEW L, NEW s \in Seq(L), NEW l \in L
  PROVE  /\ Append(s, l) \in Seq(L) /\ Append(s, l) # <<>>
         /\ Front(Append(s, l)) = s /\ Last(Append(s, l)) = l
<1> DEFINE a == Append(s, l)
<1>1. a \in Seq(L) /\ Len(a) = Len(s) + 1 /\ a[Len(s) + 1] = l /\ Len(s) \in Nat
  OBVIOUS
<1>2. a # <<>> /\ Last(a) = l
  BY <1>1 DEF Last
<1> HIDE DEF a
<1>3. Front(a) \in Seq(L) /\ a = Append(Front(a), Last(a))
  BY <1>1, <1>2, LastAndFront
<1>4. Front(a) = s
  <2>1. Append(Front(a), l) = Append(s, l)
    BY <1>2, <1>3 DEF a
  <2> DEFINE b == Front(a)
  <2>2. b \in Seq(L)
    BY <1>3
  <2> HIDE DEF b
  <2>3. ASSUME NEW x \in Seq(L), NEW y \in Seq(L), Append(x, l) = Append(y, l)
        PROVE  x = y
    <3>1. Len(x) = Len(y)
      <4>1. Len(Append(x, l)) = Len(x) + 1 /\ Len(Append(y, l)) = Len(y) + 1
        OBVIOUS
      <4> QED BY <2>3, <4>1
    <3>2. \A i \in 1 .. Len(x) : x[i] = y[i]
      <4>1. \A i \in 1 .. Len(x) : Append(x, l)[i] = x[i]
        OBVIOUS
      <4>2. \A i \in 1 .. Len(y) : Append(y, l)[i] = y[i]
        OBVIOUS
      <4> QED BY <2>3, <3>1, <4>1, <4>2
    <3> QED BY <3>1, <3>2
  <2> QED BY <2>1, <2>2, <2>3 DEF b
<1> QED BY <1>1, <1>2, <1>4 DEF a

\* Dropping the comment and the blank line leaves lines.
LEMMA WithoutLastIsAList ==
  ASSUME NEW L, NEW s \in Seq(L)
  PROVE  WithoutLast(s) \in Seq(L)
<1>1. CASE s = <<>> \/ Last(s) # "comment"
  BY <1>1 DEF WithoutLast
<1>2. CASE s # <<>> /\ Last(s) = "comment"
  <2>1. Front(s) \in Seq(L)
    BY <1>2, LastAndFront
  <2>2. Front(s) # <<>> => Front(Front(s)) \in Seq(L)
    BY <2>1, LastAndFront
  <2> QED BY <1>2, <2>1, <2>2 DEF WithoutLast
<1> QED BY <1>1, <1>2

\* The comment and the blank line that go along with a hook are not the user's.
LEMMA OwnWithoutLast ==
  ASSUME NEW s \in Seq(LineKinds)
  PROVE  Own(WithoutLast(s)) = Own(s)
<1>1. CASE s = <<>> \/ Last(s) # "comment"
  BY <1>1 DEF WithoutLast
<1>2. CASE s # <<>> /\ Last(s) = "comment"
  <2> DEFINE before == Front(s)
  <2>1. before \in Seq(LineKinds) /\ s = Append(before, "comment") /\ "comment" \in LineKinds
    BY <1>2, LastAndFront
  <2>2. Own(s) = Own(before)
    BY <2>1, OwnAppend, KindsAreApart
  <2>3. CASE before # <<>> /\ Last(before) = "blank"
    <3>1. /\ Front(before) \in Seq(LineKinds) /\ before = Append(Front(before), "blank")
          /\ "blank" \in LineKinds
      BY <2>1, <2>3, LastAndFront
    <3>2. Own(before) = Own(Front(before))
      BY <3>1, OwnAppend, KindsAreApart
    <3> QED BY <1>2, <2>2, <2>3, <3>2 DEF WithoutLast
  <2>4. CASE ~(before # <<>> /\ Last(before) = "blank")
    BY <1>2, <2>2, <2>4 DEF WithoutLast
  <2> QED BY <2>3, <2>4
<1> QED BY <1>1, <1>2

\* What an uninstall keeps are lines, no hook among them, and all of the user's.
LEMMA KeptKeepsOwn ==
  ASSUME NEW s \in Seq(LineKinds)
  PROVE  Kept(s) \in Seq(LineKinds) /\ Own(Kept(s)) = Own(s)
<1> DEFINE good == {x \in Seq(LineKinds) : Kept(x) \in Seq(LineKinds) /\ Own(Kept(x)) = Own(x)}
<1>1. <<>> \in good
  <2>1. <<>> \in Seq(LineKinds)
    OBVIOUS
  <2> QED BY <2>1, KeptEmpty
<1>2. ASSUME NEW x \in Seq(LineKinds), NEW l \in LineKinds, x \in good
      PROVE  Append(x, l) \in good
  <2>1. Kept(x) \in Seq(LineKinds) /\ Own(Kept(x)) = Own(x) /\ Append(x, l) \in Seq(LineKinds)
    BY <1>2
  <2>2. Own(Append(x, l)) = IF l \in Users THEN Append(Own(x), l) ELSE Own(x)
    BY OwnAppend
  <2>3. Kept(Append(x, l)) = IF IsHook(l) THEN WithoutLast(Kept(x)) ELSE Append(Kept(x), l)
    BY KeptAppend
  <2>4. CASE IsHook(l)
    <3>1. l \notin Users
      BY <2>4, KindsAreApart
    <3>2. WithoutLast(Kept(x)) \in Seq(LineKinds) /\ Own(WithoutLast(Kept(x))) = Own(Kept(x))
      BY <2>1, WithoutLastIsAList, OwnWithoutLast
    <3> QED BY <2>1, <2>2, <2>3, <2>4, <3>1, <3>2
  <2>5. CASE ~IsHook(l)
    <3>1. Append(Kept(x), l) \in Seq(LineKinds)
      BY <2>1
    <3>2. Own(Append(Kept(x), l)) = IF l \in Users THEN Append(Own(x), l) ELSE Own(x)
      BY <2>1, OwnAppend
    <3>3. Kept(Append(x, l)) = Append(Kept(x), l)
      BY <2>3, <2>5
    <3>4. Own(Kept(Append(x, l))) = Own(Append(x, l))
      BY <2>2, <3>2, <3>3
    <3> QED BY <2>1, <3>1, <3>3, <3>4
  <2> QED BY <2>4, <2>5
<1> HIDE DEF good
<1>3. Seq(LineKinds) \subseteq good
  BY <1>1, <1>2, ListInduction
<1> QED BY <1>3 DEF good

\* A line more is one hook more, or none.
LEMMA HooksOfAppend ==
  ASSUME NEW s \in Seq(LineKinds), NEW l
  PROVE  Hooks(Append(s, l)) = Hooks(s) \cup (IF IsHook(l) THEN {Len(s) + 1} ELSE {})
<1> DEFINE a == Append(s, l)
<1>1. /\ DOMAIN a = 1 .. Len(s) + 1 /\ DOMAIN s = 1 .. Len(s) /\ Len(s) \in Nat
      /\ a[Len(s) + 1] = l /\ \A i \in 1 .. Len(s) : a[i] = s[i]
  OBVIOUS
<1> HIDE DEF a
<1>2. Hooks(a) = Hooks(s) \cup (IF IsHook(l) THEN {Len(s) + 1} ELSE {})
  <2>1. \A i : i \in 1 .. Len(s) + 1 <=> i \in 1 .. Len(s) \/ i = Len(s) + 1
    BY <1>1
  <2>2. \A i \in 1 .. Len(s) : i # Len(s) + 1
    BY <1>1
  <2> DEFINE n == Len(s) + 1
  <2>3. /\ \A i \in DOMAIN a : i \in DOMAIN s \/ i = n
        /\ \A i \in DOMAIN s : i \in DOMAIN a /\ a[i] = s[i]
        /\ n \in DOMAIN a /\ a[n] = l
    BY <1>1, <2>1
  <2> HIDE DEF n
  <2>4. Hooks(a) = Hooks(s) \cup (IF IsHook(l) THEN {n} ELSE {})
    BY <2>3 DEF Hooks
  <2> QED BY <2>4 DEF n
<1> QED BY <1>2 DEF a

LEMMA HooksOfNothing == Hooks(<<>>) = {}
  BY DEF Hooks

\* Nor does dropping lines make a hook.
LEMMA HooksOfWithoutLast ==
  ASSUME NEW s \in Seq(LineKinds), Hooks(s) = {}
  PROVE  Hooks(WithoutLast(s)) = {}
<1>1. ASSUME NEW x \in Seq(LineKinds), x # <<>>, Hooks(x) = {}
      PROVE  Front(x) \in Seq(LineKinds) /\ Hooks(Front(x)) = {}
  <2>1. Front(x) \in Seq(LineKinds) /\ x = Append(Front(x), Last(x))
    BY <1>1, LastAndFront
  <2>2. Hooks(Front(x)) \subseteq Hooks(x)
    BY <2>1, HooksOfAppend
  <2> QED BY <1>1, <2>1, <2>2
<1>2. CASE s = <<>> \/ Last(s) # "comment"
  BY <1>2 DEF WithoutLast
<1>3. CASE s # <<>> /\ Last(s) = "comment"
  <2>1. Front(s) \in Seq(LineKinds) /\ Hooks(Front(s)) = {}
    BY <1>1, <1>3
  <2>2. Front(s) # <<>> => Hooks(Front(Front(s))) = {}
    BY <1>1, <2>1
  <2> QED BY <1>3, <2>1, <2>2 DEF WithoutLast
<1> QED BY <1>2, <1>3

\* No hook is kept, and lines without a hook are kept as they are.
LEMMA KeptHasNoHook ==
  ASSUME NEW s \in Seq(LineKinds)
  PROVE  Hooks(Kept(s)) = {} /\ (Hooks(s) = {} => Kept(s) = s)
<1> DEFINE good == {x \in Seq(LineKinds) : Hooks(Kept(x)) = {} /\ (Hooks(x) = {} => Kept(x) = x)}
<1>1. <<>> \in good
  BY KeptEmpty, HooksOfNothing
<1>2. ASSUME NEW x \in Seq(LineKinds), NEW l \in LineKinds, x \in good
      PROVE  Append(x, l) \in good
  <2>1. Hooks(Kept(x)) = {} /\ (Hooks(x) = {} => Kept(x) = x) /\ Append(x, l) \in Seq(LineKinds)
    BY <1>2
  <2>2. Kept(Append(x, l)) = IF IsHook(l) THEN WithoutLast(Kept(x)) ELSE Append(Kept(x), l)
    BY KeptAppend
  <2>3. Hooks(Append(x, l)) = Hooks(x) \cup (IF IsHook(l) THEN {Len(x) + 1} ELSE {})
    BY HooksOfAppend
  <2>4. Kept(x) \in Seq(LineKinds)
    BY KeptKeepsOwn
  <2>5. CASE IsHook(l)
    BY <2>1, <2>2, <2>3, <2>4, <2>5, HooksOfWithoutLast
  <2>6. CASE ~IsHook(l)
    <3>1. Hooks(Append(Kept(x), l)) = {}
      BY <2>1, <2>4, <2>6, HooksOfAppend
    <3> QED BY <2>1, <2>2, <2>3, <2>6, <3>1
  <2> QED BY <2>5, <2>6
<1> HIDE DEF good
<1>3. Seq(LineKinds) \subseteq good
  BY <1>1, <1>2, ListInduction
<1> QED BY <1>3 DEF good
-----------------------------------------------------------------------------
(* The types of the files and the runs. *)

FilesTyped ==
  /\ DOMAIN rc = 1 .. Files
  /\ \A f \in 1 .. Files : rc[f] = NoFile \/ rc[f] = File(rc[f].lines, rc[f].terminated)

RunsTyped == DOMAIN run = Runs /\ \A r \in Runs : IsRun(run[r])

LEMMA FileIsFile ==
  ASSUME NEW lines, NEW terminated
  PROVE  LET c == File(lines, terminated) IN c = File(c.lines, c.terminated)
  BY DEF File

\* A run goes somewhere else with what it has, or ends.
LEMMA RunsStayTyped ==
  ASSUME RunsTyped, NEW r \in Runs, NEW x, IsRun(x), run' = [run EXCEPT ![r] = x]
  PROVE  RunsTyped'
<1>1. DOMAIN run' = Runs /\ run'[r] = x /\ \A t \in Runs \ {r} : run'[t] = run[t]
  BY DEF RunsTyped
<1> QED BY <1>1 DEF RunsTyped

\* A run that ends, goes on at its file, or goes to the next one is a run.
LEMMA EndsIsTyped ==
  ASSUME RunsTyped, NEW r \in Runs, Ends(r)
  PROVE  RunsTyped'
<1>1. IsRun([Unstarted EXCEPT !.pc = "over"])
  BY DEF IsRun, Unstarted
<1> QED BY <1>1, RunsStayTyped DEF Ends

LEMMA RunGoesIsTyped ==
  ASSUME RunsTyped, NEW r \in Runs, run[r].pc \notin {"unstarted", "over"},
         NEW pc \in {"look", "append", "truncate", "rewrite"}, RunGoes(r, pc)
  PROVE  RunsTyped'
<1>1. IsRun(run[r]) /\ DOMAIN run = Runs
  BY DEF RunsTyped
<1> DEFINE x == [run[r] EXCEPT !.pc = pc]
<1>2. DOMAIN x = DOMAIN run[r] /\ x.pc = pc /\ x.cmd = run[r].cmd /\ x.file = run[r].file
  BY <1>1 DEF IsRun
<1>3. IsRun(x)
  BY <1>1, <1>2 DEF IsRun
<1>4. run' = [run EXCEPT ![r] = x]
  BY <1>1 DEF RunGoes
<1> QED BY <1>3, <1>4, RunsStayTyped

LEMMA NextFileIsTyped ==
  ASSUME RunsTyped, NEW r \in Runs, run[r].pc \notin {"unstarted", "over"}, NextFile(r)
  PROVE  RunsTyped'
<1>1. IsRun(run[r]) /\ DOMAIN run = Runs /\ run[r].file \in 1 .. Files /\ Files \in Nat
  BY HooksAssumption DEF RunsTyped, IsRun
<1>2. CASE run[r].file = Files
  BY <1>2, EndsIsTyped DEF NextFile
<1>3. CASE run[r].file # Files
  <2> DEFINE x == [run[r] EXCEPT !.pc = "look", !.file = run[r].file + 1, !.read = NoFile]
  <2>1. /\ DOMAIN x = DOMAIN run[r]
        /\ x.pc = "look" /\ x.cmd = run[r].cmd /\ x.file = run[r].file + 1
    BY <1>1 DEF IsRun
  <2>2. run[r].file + 1 \in 1 .. Files
    BY <1>1, <1>3
  <2>3. IsRun(x)
    BY <1>1, <2>1, <2>2 DEF IsRun
  <2>4. run' = [run EXCEPT ![r] = x]
    BY <1>1, <1>3 DEF NextFile
  <2> QED BY <2>3, <2>4, RunsStayTyped
<1> QED BY <1>2, <1>3

\* The types of the files and of the runs, by the kinds of step.
LEMMA RunStepIsTyped ==
  ASSUME FilesTyped, RunsTyped, NEW r \in Runs, RunStep(r)
  PROVE  FilesTyped' /\ RunsTyped' /\ edits' = edits
<1> DEFINE f == run[r].file
<1>1. ASSUME NEW lines, NEW terminated, rc' = [rc EXCEPT ![f] = File(lines, terminated)]
      PROVE  FilesTyped'
  <2>1. /\ DOMAIN rc' = 1 .. Files
        /\ \A g \in 1 .. Files : rc'[g] = File(lines, terminated) \/ rc'[g] = rc[g]
    BY <1>1 DEF FilesTyped
  <2> QED BY <2>1, FileIsFile DEF FilesTyped
<1>2. ASSUME UNCHANGED rc
      PROVE  FilesTyped'
  BY <1>2 DEF FilesTyped
<1>3. CASE BeginRun(r)
  <2>1. PICK c \in {"init", "uninstall"} :
          run' = [run EXCEPT ![r] = [Unstarted EXCEPT !.pc = "look", !.cmd = c, !.file = 1]]
    BY <1>3 DEF BeginRun
  <2>2. 1 \in 1 .. Files
    BY HooksAssumption
  <2>3. IsRun([Unstarted EXCEPT !.pc = "look", !.cmd = c, !.file = 1])
    <3> DEFINE x == [Unstarted EXCEPT !.pc = "look", !.cmd = c, !.file = 1]
    <3>1. /\ DOMAIN x = {"pc", "cmd", "file", "read"}
          /\ x.pc = "look" /\ x.cmd = c /\ x.file = 1
      BY DEF Unstarted
    <3>2. IsRun(x)
      <4> HIDE DEF x
      <4> QED BY <2>2, <3>1 DEF IsRun
    <3> QED BY <3>2
  <2> QED BY <1>2, <1>3, <2>1, <2>3, RunsStayTyped DEF BeginRun
<1>4. CASE Skip(r) \/ AlreadyHooked(r) \/ NothingToRemove(r)
  BY <1>2, <1>4, NextFileIsTyped DEF Skip, AlreadyHooked, NothingToRemove, InRun
<1>5. CASE LookFails(r) \/ AppendFails(r) \/ RewriteFails(r) \/ RunKilled(r)
  BY <1>2, <1>5, EndsIsTyped DEF LookFails, AppendFails, RewriteFails, RunKilled
<1>6. CASE Unhooked(r)
  BY <1>2, <1>6, RunGoesIsTyped DEF Unhooked, InRun
<1>7. CASE AppendHook(r)
  BY <1>1, <1>7, NextFileIsTyped DEF AppendHook, Appended, InRun
<1>8. CASE ReadHooks(r)
  <2>1. IsRun(run[r]) /\ DOMAIN run = Runs /\ run[r].pc = "look"
    BY <1>8 DEF RunsTyped, ReadHooks, InRun
  <2> DEFINE x == [run[r] EXCEPT !.pc = "truncate", !.read = TheFile(r)]
  <2>2. /\ DOMAIN x = DOMAIN run[r]
        /\ x.pc = "truncate" /\ x.cmd = run[r].cmd /\ x.file = run[r].file
    BY <2>1 DEF IsRun
  <2>3. IsRun(x)
    BY <2>1, <2>2 DEF IsRun
  <2>4. run' = [run EXCEPT ![r] = x]
    BY <1>8, <2>1 DEF ReadHooks
  <2> QED BY <1>2, <1>8, <2>3, <2>4, RunsStayTyped DEF ReadHooks
<1>9. CASE Empty(r)
  BY <1>1, <1>9, RunGoesIsTyped DEF Empty, InRun
<1>10. CASE Rewrite(r)
  <2>1. \E lines : rc' = [rc EXCEPT ![f] = File(lines, TRUE)]
    BY <1>10 DEF Rewrite
  <2> QED BY <1>1, <1>10, <2>1, NextFileIsTyped DEF Rewrite, InRun
<1> QED BY <1>3, <1>4, <1>5, <1>6, <1>7, <1>8, <1>9, <1>10 DEF RunStep, BeginRun, Skip, LookFails,
       RunKilled, AlreadyHooked, Unhooked, AppendHook, AppendFails, NothingToRemove, ReadHooks,
       Empty, Rewrite, RewriteFails

LEMMA HooksNextIsTyped ==
  ASSUME HooksTypeOK, HooksNext
  PROVE  HooksTypeOK'
<1>1. FilesTyped /\ RunsTyped /\ edits \in 0 .. MaxEdits /\ MaxEdits \in Nat
  BY HooksAssumption DEF HooksTypeOK, FilesTyped, RunsTyped
<1>2. CASE \E r \in Runs : RunStep(r)
  <2>1. FilesTyped' /\ RunsTyped' /\ edits' = edits
    BY <1>1, <1>2, RunStepIsTyped
  <2> QED BY <1>1, <2>1 DEF HooksTypeOK, FilesTyped, RunsTyped
<1>3. CASE \E f \in 1 .. Files : Edit(f)
  <2>1. PICK f \in 1 .. Files : Edit(f)
    BY <1>3
  <2>2. PICK l, t : rc' = [rc EXCEPT ![f] = File(Append(@.lines, l), t)]
    BY <2>1 DEF Edit
  <2>3. /\ DOMAIN rc' = 1 .. Files
        /\ \A g \in 1 .. Files : rc'[g] = File(Append(rc[g].lines, l), t) \/ rc'[g] = rc[g]
    BY <1>1, <2>2 DEF FilesTyped
  <2>4. FilesTyped'
    BY <1>1, <2>3, FileIsFile DEF FilesTyped
  <2>5. edits' \in 0 .. MaxEdits /\ UNCHANGED run
    BY <1>1, <2>1 DEF Edit
  <2> QED BY <1>1, <2>4, <2>5 DEF HooksTypeOK, FilesTyped, RunsTyped
<1> QED BY <1>2, <1>3 DEF HooksNext

LEMMA HooksInitIsTyped ==
  ASSUME HooksInit
  PROVE  HooksTypeOK
<1>1. \A c \in Contents : c = NoFile \/ c = File(c.lines, c.terminated)
  BY HooksAssumption
<1>2. DOMAIN rc = 1 .. Files /\ \A f \in 1 .. Files : rc[f] \in Contents
  BY DEF HooksInit
<1>3. IsRun(Unstarted)
  BY DEF IsRun, Unstarted
<1>4. edits \in 0 .. MaxEdits
  BY HooksAssumption DEF HooksInit
<1> QED BY <1>1, <1>2, <1>3, <1>4 DEF HooksInit, HooksTypeOK

-----------------------------------------------------------------------------
(* The inductive invariants. *)

FileType == [lines : Seq(LineKinds), terminated : BOOLEAN, is : {"absent", "present"}]

RunType ==
  [pc : {"unstarted", "look", "append", "truncate", "rewrite", "over"},
   cmd : {"none", "init", "uninstall"}, file : 0 .. Files, read : FileType]

LinesTyped ==
  /\ HooksTypeOK
  /\ rc \in [1 .. Files -> FileType]
  /\ run \in [Runs -> RunType]
  /\ own \in [1 .. Files -> Seq(LineKinds)]
  /\ past \in [lost : BOOLEAN, overlapped : BOOLEAN, edited : [1 .. Files -> BOOLEAN],
               origin : [1 .. Files -> FileType]]

\* An uninstall has emptied f and not yet written it again.
Emptied(f) == \E r \in Runs : run[r].pc = "rewrite" /\ run[r].file = f

\* The user's lines are in the file or, while it is emptied, in what was read of it: what
\* an uninstall has read is what the file holds until it is emptied.
UserInv ==
  past.lost \/ \A f \in 1 .. Files :
    /\ Emptied(f) => rc[f].lines = <<>>
    /\ ~Emptied(f) => Own(rc[f].lines) = own[f]
    /\ \A r \in Runs : HeldBy(f, r) => Own(run[r].read.lines) = own[f]

\* What init last made of f.
Hooked(f) == Appended(past.origin[f]).lines

\* No file has two hooks to begin with.
OneAtFirst == \A c \in Contents : \A i, j \in Hooks(c.lines) : i = j

\* One hook at most, if there were no more at first; and a file which only init and uninstall have written since a hook
\* was put in is as one of the two left it.
OnceInv ==
  past.lost \/ past.overlapped \/ \A f \in 1 .. Files :
    /\ OneAtFirst => \A i, j \in Hooks(rc[f].lines) : i = j
    /\ ~past.edited[f] =>
         /\ ~Mentions(past.origin[f].lines)
         /\ ~Emptied(f) => rc[f].lines \in {Hooked(f), Rewritten(Hooked(f)).lines}
         /\ \A r \in Runs : HeldBy(f, r) => run[r].read.lines = Hooked(f)

\* Run r is where it has no file in its hands, the others where they were.
Elsewhere(r) ==
  /\ run' \in [Runs -> RunType]
  /\ \A t \in Runs \ {r} : run'[t] = run[t]
  /\ run'[r].pc \notin {"truncate", "rewrite"}

LEMMA NoFileIsAFile ==
  NoFile \in FileType /\ \A t \in BOOLEAN, s \in Seq(LineKinds) : File(s, t) \in FileType
<1>1. <<>> \in Seq(LineKinds)
  OBVIOUS
<1> QED BY <1>1 DEF NoFile, File, FileType

\* After the last of a file's steps the run holds no file.
LEMMA EndsElsewhere ==
  ASSUME LinesTyped, NEW r \in Runs, Ends(r)
  PROVE  Elsewhere(r)
<1> DEFINE x == [Unstarted EXCEPT !.pc = "over"]
<1>1. Files \in Nat /\ 0 \in 0 .. Files
  BY HooksAssumption
<1>2. x \in RunType /\ x.pc = "over"
  BY <1>1, NoFileIsAFile DEF Unstarted, RunType
<1> HIDE DEF x
<1>3. run' = [run EXCEPT ![r] = x]
  BY DEF Ends, x
<1> QED BY <1>2, <1>3 DEF Elsewhere, LinesTyped

LEMMA NextFileElsewhere ==
  ASSUME LinesTyped, NEW r \in Runs, run[r].pc \notin {"unstarted", "over"}, NextFile(r)
  PROVE  Elsewhere(r)
<1>1. CASE run[r].file = Files
  BY <1>1, EndsElsewhere DEF NextFile
<1>2. CASE run[r].file # Files
  <2> DEFINE x == [run[r] EXCEPT !.pc = "look", !.file = run[r].file + 1, !.read = NoFile]
  <2>1. run[r] \in RunType /\ run[r].file \in 1 .. Files /\ Files \in Nat
    BY HooksAssumption DEF LinesTyped, HooksTypeOK, IsRun
  <2>2. run[r].file + 1 \in 0 .. Files
    BY <1>2, <2>1
  <2>3. x \in RunType /\ x.pc = "look"
    BY <2>1, <2>2, NoFileIsAFile DEF RunType
  <2>4. run' = [run EXCEPT ![r] = x]
    BY <1>2 DEF NextFile, LinesTyped
  <2> HIDE DEF x
  <2> QED BY <2>3, <2>4 DEF Elsewhere, LinesTyped
<1> QED BY <1>1, <1>2

\* The steps that leave the files as they are, but for what is lost.
Leaves(r) ==
  /\ Elsewhere(r)
  /\ past' = [past EXCEPT !.lost = past.lost \/ run[r].pc = "rewrite"]
  /\ UNCHANGED <<rc, own>>

\* Those that only look, that end a run, or that fail.
LEMMA QuietSteps ==
  ASSUME LinesTyped, NEW r \in Runs,
         \/ BeginRun(r) \/ Skip(r) \/ LookFails(r) \/ RunKilled(r)
         \/ AlreadyHooked(r) \/ Unhooked(r) \/ AppendFails(r) \/ NothingToRemove(r)
         \/ RewriteFails(r)
  PROVE  Leaves(r)
<1>1. ASSUME UNCHANGED past, run[r].pc # "rewrite"
      PROVE  past' = [past EXCEPT !.lost = past.lost \/ run[r].pc = "rewrite"]
  <2>1. (past.lost \/ run[r].pc = "rewrite") = past.lost
    BY <1>1 DEF LinesTyped
  <2> QED BY <1>1, <2>1 DEF LinesTyped
<1>2. CASE BeginRun(r)
  <2>1. PICK c \in {"init", "uninstall"} :
          run' = [run EXCEPT ![r] = [Unstarted EXCEPT !.pc = "look", !.cmd = c, !.file = 1]]
    BY <1>2 DEF BeginRun
  <2> DEFINE x == [Unstarted EXCEPT !.pc = "look", !.cmd = c, !.file = 1]
  <2>2. 1 \in 0 .. Files
    BY HooksAssumption
  <2>3. x \in RunType /\ x.pc = "look"
    BY <2>2, NoFileIsAFile DEF Unstarted, RunType
  <2>4. run' = [run EXCEPT ![r] = x]
    BY <2>1
  <2> HIDE DEF x
  <2>5. Elsewhere(r)
    BY <2>3, <2>4 DEF Elsewhere, LinesTyped
  <2> QED BY <1>1, <1>2, <2>5 DEF BeginRun, InRun, Leaves
<1>3. CASE Skip(r) \/ AlreadyHooked(r) \/ NothingToRemove(r)
  BY <1>1, <1>3, NextFileElsewhere DEF Skip, AlreadyHooked, NothingToRemove, InRun, Leaves
<1>4. CASE LookFails(r) \/ AppendFails(r)
  BY <1>1, <1>4, EndsElsewhere DEF LookFails, AppendFails, InRun, Leaves
<1>5. CASE RunKilled(r)
  BY <1>5, EndsElsewhere DEF RunKilled, InRun, Leaves
<1>6. CASE RewriteFails(r)
  <2>1. (past.lost \/ run[r].pc = "rewrite") = TRUE
    BY <1>6 DEF RewriteFails, InRun
  <2>2. past' = [past EXCEPT !.lost = TRUE]
    BY <1>6 DEF RewriteFails
  <2>3. past' = [past EXCEPT !.lost = past.lost \/ run[r].pc = "rewrite"]
    BY <2>1, <2>2
  <2> QED BY <1>6, <2>3, EndsElsewhere DEF RewriteFails, Leaves
<1>7. CASE Unhooked(r)
  <2> DEFINE x == [run[r] EXCEPT !.pc = "append"]
  <2>1. x \in RunType /\ x.pc = "append"
    BY DEF LinesTyped, RunType
  <2>2. run' = [run EXCEPT ![r] = x]
    BY <1>7 DEF Unhooked, RunGoes, LinesTyped
  <2> HIDE DEF x
  <2>3. Elsewhere(r)
    BY <2>1, <2>2 DEF Elsewhere, LinesTyped
  <2> QED BY <1>1, <1>7, <2>3 DEF Unhooked, InRun, Leaves
<1> QED BY <1>2, <1>3, <1>4, <1>5, <1>6, <1>7

\* They keep the invariants: a file in hand was read when it was as it is.
LEMMA QuietStepsKeep ==
  ASSUME LinesTyped, HooksTypeOK', NEW r \in Runs, Leaves(r)
  PROVE  LinesTyped' /\ (UserInv => UserInv') /\ (OnceInv => OnceInv')
<1>1. /\ past'.lost = (past.lost \/ run[r].pc = "rewrite")
      /\ past'.overlapped = past.overlapped /\ past'.edited = past.edited
      /\ past'.origin = past.origin
      /\ past' \in [lost : BOOLEAN, overlapped : BOOLEAN, edited : [1 .. Files -> BOOLEAN],
                    origin : [1 .. Files -> FileType]]
  BY DEF Leaves, LinesTyped
<1>2. LinesTyped'
  BY <1>1 DEF Leaves, LinesTyped, Elsewhere
<1>3. CASE past'.lost
  <2>1. UserInv'
    BY <1>3 DEF UserInv
  <2>2. OnceInv'
    BY <1>3 DEF OnceInv
  <2> QED BY <1>2, <2>1, <2>2
<1>4. CASE ~past'.lost
  <2>1. run[r].pc # "rewrite" /\ ~past.lost
    BY <1>1, <1>4
  <2>2. \A t \in Runs, f \in 1 .. Files :
          HeldBy(f, t)' => HeldBy(f, t) /\ run'[t].read = run[t].read
    BY DEF Leaves, Elsewhere, HeldBy
  <2>3. \A f \in 1 .. Files : Emptied(f)' <=> Emptied(f)
    BY <2>1 DEF Leaves, Elsewhere, Emptied
  <2>4. UserInv => UserInv'
    BY <2>1, <2>2, <2>3 DEF UserInv, Leaves
  <2>5. OnceInv => OnceInv'
    BY <1>1, <2>1, <2>2, <2>3 DEF OnceInv, Leaves, Hooked
  <2> QED BY <1>2, <2>4, <2>5
<1> QED BY <1>2, <1>3, <1>4
\* What the hook is appended to: the newline in front of it makes a blank line, or ends
\* the last one.
Opened(c) == IF c.terminated THEN Append(c.lines, "blank") ELSE c.lines

\* The two lines that are added at once.
LEMMA TwoMore ==
  ASSUME NEW L, NEW s \in Seq(L), NEW a \in L, NEW b \in L
  PROVE  s \o <<a, b>> = Append(Append(s, a), b)
<1> DEFINE x == s \o <<a, b>>
           y == Append(Append(s, a), b)
<1>1. Len(s) \in Nat /\ Append(s, a) \in Seq(L) /\ Len(Append(s, a)) = Len(s) + 1
  OBVIOUS
<1>2. y \in Seq(L) /\ Len(y) = Len(s) + 2
  BY <1>1
<1>3. x \in Seq(L) /\ Len(x) = Len(s) + 2
  OBVIOUS
<1>4. \A i \in 1 .. Len(s) + 2 : x[i] = y[i]
  <2>1. \A i \in 1 .. Len(s) : x[i] = s[i] /\ y[i] = s[i]
    BY <1>1
  <2>2. x[Len(s) + 1] = a /\ y[Len(s) + 1] = a
    BY <1>1
  <2>3. x[Len(s) + 2] = b /\ y[Len(s) + 2] = b
    BY <1>1
  <2> HIDE DEF x, y
  <2> QED BY <1>1, <2>1, <2>2, <2>3
<1> HIDE DEF x, y
<1>5. x = y
  BY <1>1, <1>2, <1>3, <1>4
<1> QED BY <1>5 DEF x, y

\* The hook and what comes before it add nothing of the user's.
LEMMA AppendedIs ==
  ASSUME NEW c \in FileType
  PROVE  /\ Opened(c) \in Seq(LineKinds)
         /\ Appended(c).lines = Append(Append(Opened(c), "comment"), "hook")
         /\ Appended(c) \in FileType
         /\ Own(Appended(c).lines) = Own(c.lines)
<1>1. c.lines \in Seq(LineKinds) /\ c.terminated \in BOOLEAN
  BY DEF FileType
<1>2. "blank" \in LineKinds /\ "comment" \in LineKinds /\ "hook" \in LineKinds
  BY KindsAreApart
<1> DEFINE o == Opened(c)
<1>3. o \in Seq(LineKinds) /\ o = c.lines \o (IF c.terminated THEN <<"blank">> ELSE <<>>)
  <2>1. CASE c.terminated
    BY <1>1, <1>2, <2>1 DEF Opened
  <2>2. CASE ~c.terminated
    BY <1>1, <2>2 DEF Opened
  <2> QED BY <2>1, <2>2
<1>4. Own(o) = Own(c.lines)
  BY <1>1, <1>2, OwnAppend, KindsAreApart DEF Opened
<1>5. Appended(c).lines = o \o <<"comment", "hook">>
  <2>1. /\ (c.lines \o (IF c.terminated THEN <<"blank">> ELSE <<>>)) \o <<"comment", "hook">>
           = o \o <<"comment", "hook">>
    BY <1>3
  <2>2. c.lines \o (IF c.terminated THEN <<"blank">> ELSE <<>>) \o <<"comment", "hook">>
        = o \o <<"comment", "hook">>
    BY <2>1
  <2> HIDE DEF o
  <2> QED BY <2>2 DEF Appended, File
<1> HIDE DEF o
<1>6. o \o <<"comment", "hook">> = Append(Append(o, "comment"), "hook")
  <2>1. o \in Seq(LineKinds)
    BY <1>3
  <2>2. ASSUME NEW a \in LineKinds, NEW b \in LineKinds
        PROVE  o \o <<a, b>> = Append(Append(o, a), b)
    BY <2>1, TwoMore
  <2> QED BY <1>2, <2>2
<1>7. Append(o, "comment") \in Seq(LineKinds) /\ Append(Append(o, "comment"), "hook") \in Seq(LineKinds)
  BY <1>2, <1>3
<1>8. Own(Append(Append(o, "comment"), "hook")) = Own(o)
  <2>1. Own(Append(o, "comment")) = Own(o)
    BY <1>2, <1>3, OwnAppend, KindsAreApart
  <2>2. Own(Append(Append(o, "comment"), "hook")) = Own(Append(o, "comment"))
    <3>1. "hook" \notin Users
      BY <1>2, KindsAreApart DEF IsHook
    <3> QED BY <1>2, <1>7, <3>1, OwnAppend
  <2> QED BY <2>1, <2>2
<1>9. Appended(c) \in FileType
  <2>1. Appended(c) = File(Appended(c).lines, TRUE)
    BY DEF Appended, File
  <2> QED BY <1>5, <1>6, <1>7, <2>1, NoFileIsAFile
<1> QED BY <1>3, <1>4, <1>5, <1>6, <1>8, <1>9 DEF o

\* Where init finds no mention there is no hook.
LEMMA UnmentionedHasNoHook ==
  ASSUME NEW lines, ~Mentions(lines)
  PROVE  Hooks(lines) = {}
  BY DEF Mentions, Hooks, IsHook

\* The one hook of a file that had none.
LEMMA AppendedHasOneHook ==
  ASSUME NEW c \in FileType, Hooks(c.lines) = {}
  PROVE  \A i, j \in Hooks(Appended(c).lines) : i = j
<1>1. "blank" \in LineKinds /\ "comment" \in LineKinds /\ c.lines \in Seq(LineKinds)
  BY KindsAreApart DEF FileType
<1> DEFINE o == Opened(c)
           a == Append(o, "comment")
<1>2. o \in Seq(LineKinds) /\ Appended(c).lines = Append(a, "hook")
  BY AppendedIs
<1>3. Hooks(o) = {}
  BY <1>1, HooksOfAppend DEF Opened, IsHook
<1> HIDE DEF o
<1>4. a \in Seq(LineKinds)
  BY <1>1, <1>2
<1>5. Hooks(a) = {}
  BY <1>1, <1>2, <1>3, HooksOfAppend DEF IsHook
<1> HIDE DEF a
<1>6. Hooks(Append(a, "hook")) = {Len(a) + 1}
  BY <1>4, <1>5, HooksOfAppend DEF IsHook
<1> QED BY <1>2, <1>6

\* What an uninstall writes.
LEMMA RewrittenIs ==
  ASSUME NEW s \in Seq(LineKinds)
  PROVE  LET new == Rewritten(s).lines
         IN  new \in Seq(LineKinds) /\ Own(new) = Own(s) /\ Hooks(new) = {}
<1>1. Kept(s) \in Seq(LineKinds) /\ Own(Kept(s)) = Own(s) /\ Hooks(Kept(s)) = {}
  BY KeptKeepsOwn, KeptHasNoHook
<1>2. CASE Kept(s) # <<>>
  BY <1>1, <1>2 DEF Rewritten, File
<1>3. CASE Kept(s) = <<>>
  <2>1. Rewritten(s).lines = <<"blank">>
    BY <1>3 DEF Rewritten, File
  <2>2. <<>> \in Seq(LineKinds) /\ <<"blank">> = Append(<<>>, "blank") /\ "blank" \in LineKinds
    BY KindsAreApart
  <2>3. Append(<<>>, "blank") \in Seq(LineKinds)
    BY <2>2
  <2>4. Own(Append(<<>>, "blank")) = Own(<<>>)
    BY <2>2, OwnAppend, KindsAreApart
  <2>5. Hooks(Append(<<>>, "blank")) = {}
    BY <2>2, HooksOfAppend, HooksOfNothing DEF IsHook
  <2> QED BY <1>1, <1>3, <2>1, <2>2, <2>3, <2>4, <2>5
<1> QED BY <1>2, <1>3

\* What stays of a file after its first n lines.
LEMMA RestIs ==
  ASSUME NEW L, NEW s \in Seq(L), NEW n \in 0 .. Len(s)
  PROVE  /\ SubSeq(s, n + 1, Len(s)) \in Seq(L)
         /\ s = <<>> => SubSeq(s, n + 1, Len(s)) = <<>>
<1>1. Len(s) \in Nat /\ n \in Nat /\ n + 1 \in Nat /\ n <= Len(s)
  OBVIOUS
<1>2. \A i \in n + 1 .. Len(s) : s[i] \in L
  BY <1>1
<1>3. SubSeq(s, n + 1, Len(s)) \in Seq(L)
  BY <1>1, <1>2, SubSeqProperties
<1>4. CASE s = <<>>
  <2>1. n = 0 /\ Len(s) = 0
    BY <1>1, <1>4
  <2>2. SubSeq(<<>>, 1, 0) = <<>>
    OBVIOUS
  <2> QED BY <1>3, <1>4, <2>1, <2>2
<1> QED BY <1>3, <1>4

\* An append to a file that nobody holds leaves one hook in it, unless there was a
\* mention by then.
LEMMA AppendKeeps ==
  ASSUME LinesTyped, HooksTypeOK', NEW r \in Runs, AppendHook(r)
  PROVE  LinesTyped' /\ (UserInv => UserInv') /\ (UserInv /\ OnceInv => OnceInv')
<1>0. PICK f \in 1 .. Files : run[r].file = f
  BY DEF LinesTyped, HooksTypeOK, IsRun, AppendHook, InRun
<1>1. run[r].pc = "append" /\ rc[f] \in FileType /\ Elsewhere(r)
  BY NextFileElsewhere DEF LinesTyped, AppendHook, InRun
<1>2. /\ rc' = [rc EXCEPT ![f] = Appended(rc[f])] /\ own' = own
      /\ past' = [past EXCEPT !.edited[f] = FALSE, !.origin[f] = rc[f],
                              !.overlapped = past.overlapped \/ Mentions(rc[f].lines),
                              !.lost = past.lost \/ Held(f, r)]
  BY <1>0 DEF AppendHook
<1>3. Appended(rc[f]) \in FileType /\ Own(Appended(rc[f]).lines) = Own(rc[f].lines)
  BY <1>1, AppendedIs
<1>4. /\ rc' \in [1 .. Files -> FileType]
      /\ rc'[f] = Appended(rc[f]) /\ \A g \in 1 .. Files \ {f} : rc'[g] = rc[g]
  BY <1>1, <1>2, <1>3 DEF LinesTyped
<1>5. /\ past' \in [lost : BOOLEAN, overlapped : BOOLEAN, edited : [1 .. Files -> BOOLEAN],
                    origin : [1 .. Files -> FileType]]
      /\ past'.lost = (past.lost \/ Held(f, r))
      /\ past'.overlapped = (past.overlapped \/ Mentions(rc[f].lines))
      /\ past'.edited[f] = FALSE /\ past'.origin[f] = rc[f]
      /\ \A g \in 1 .. Files \ {f} : past'.edited[g] = past.edited[g] /\ past'.origin[g] = past.origin[g]
  <2>1. Held(f, r) \in BOOLEAN /\ Mentions(rc[f].lines) \in BOOLEAN
    BY DEF Held, Mentions
  <2> QED BY <1>1, <1>2, <2>1 DEF LinesTyped
<1>6. LinesTyped'
  BY <1>1, <1>2, <1>4, <1>5 DEF LinesTyped, Elsewhere
<1>7. CASE past'.lost
  <2>1. UserInv'
    BY <1>7 DEF UserInv
  <2>2. OnceInv'
    BY <1>7 DEF OnceInv
  <2> QED BY <1>6, <2>1, <2>2
<1>8. CASE ~past'.lost
  <2>1. ~past.lost /\ ~Held(f, r)
    BY <1>5, <1>8
  <2>2. \A t \in Runs, g \in 1 .. Files :
          HeldBy(g, t)' => HeldBy(g, t) /\ run'[t].read = run[t].read /\ g # f
    BY <1>0, <1>1, <2>1 DEF Elsewhere, HeldBy, Held
  <2>3. \A g \in 1 .. Files : Emptied(g)' <=> Emptied(g)
    BY <1>1 DEF Elsewhere, Emptied
  <2>4. ~Emptied(f)
    BY <1>1, <2>1 DEF Emptied, Held, HeldBy
  <2>5. ASSUME UserInv PROVE UserInv'
    <3> SUFFICES ASSUME NEW g \in 1 .. Files
                 PROVE  /\ Emptied(g)' => rc'[g].lines = <<>>
                        /\ ~Emptied(g)' => Own(rc'[g].lines) = own'[g]
                        /\ \A t \in Runs : HeldBy(g, t)' => Own(run'[t].read.lines) = own'[g]
      BY DEF UserInv
    <3>1. CASE g = f
      BY <1>2, <1>3, <1>4, <2>1, <2>2, <2>3, <2>4, <2>5, <3>1 DEF UserInv
    <3>2. CASE g # f
      BY <1>2, <1>4, <2>1, <2>2, <2>3, <2>5, <3>2 DEF UserInv
    <3> QED BY <3>1, <3>2
  <2>6. ASSUME OnceInv PROVE OnceInv'
    <3>1. CASE past'.overlapped
      BY <3>1 DEF OnceInv
    <3>2. CASE ~past'.overlapped
      <4>1. ~past.overlapped /\ ~Mentions(rc[f].lines)
        BY <1>5, <3>2
      <4> SUFFICES ASSUME NEW g \in 1 .. Files
                   PROVE  /\ OneAtFirst => \A i, j \in Hooks(rc'[g].lines) : i = j
                          /\ ~past'.edited[g] =>
                               /\ ~Mentions(past'.origin[g].lines)
                               /\ ~Emptied(g)' =>
                                    rc'[g].lines \in {Hooked(g)', Rewritten(Hooked(g)').lines}
                               /\ \A t \in Runs : HeldBy(g, t)' => run'[t].read.lines = Hooked(g)'
        BY DEF OnceInv
      <4>2. CASE g = f
        <5>1. \A i, j \in Hooks(rc'[f].lines) : i = j
          BY <1>1, <1>4, <4>1, UnmentionedHasNoHook, AppendedHasOneHook
        <5>2. rc'[f].lines = Hooked(f)'
          BY <1>4, <1>5 DEF Hooked
        <5> QED BY <1>5, <2>2, <4>1, <4>2, <5>1, <5>2
      <4>3. CASE g # f
        <5>1. Hooked(g)' = Hooked(g)
          BY <1>5, <4>3 DEF Hooked
        <5> QED BY <1>4, <1>5, <2>1, <2>2, <2>3, <2>6, <4>1, <4>3, <5>1 DEF OnceInv
      <4> QED BY <4>2, <4>3
    <3> QED BY <3>1, <3>2
  <2> QED BY <1>6, <2>5, <2>6
<1> QED BY <1>7, <1>8
\* What is read is what is there, and it has a hook: the file is not emptied.
LEMMA ReadKeeps ==
  ASSUME LinesTyped, HooksTypeOK', NEW r \in Runs, ReadHooks(r)
  PROVE  LinesTyped' /\ (UserInv => UserInv') /\ (UserInv /\ OnceInv => OnceInv')
<1>0. PICK f \in 1 .. Files : run[r].file = f
  BY DEF LinesTyped, HooksTypeOK, IsRun, ReadHooks, InRun
<1>1. /\ run[r].pc = "look" /\ rc[f] \in FileType /\ Hooks(rc[f].lines) # {}
      /\ UNCHANGED <<rc, own, past>>
  BY <1>0 DEF LinesTyped, ReadHooks, InRun, TheFile
<1>2. /\ run' \in [Runs -> RunType]
      /\ \A t \in Runs \ {r} : run'[t] = run[t]
      /\ run'[r].pc = "truncate" /\ run'[r].file = f /\ run'[r].read = rc[f]
  <2> DEFINE x == [run[r] EXCEPT !.pc = "truncate", !.read = rc[f]]
  <2>1. x \in RunType /\ x.pc = "truncate" /\ x.file = f /\ x.read = rc[f]
    BY <1>0, <1>1 DEF LinesTyped, RunType
  <2>2. run' = [run EXCEPT ![r] = x]
    BY <1>0 DEF ReadHooks, TheFile, LinesTyped
  <2> HIDE DEF x
  <2> QED BY <2>1, <2>2 DEF LinesTyped
<1>3. LinesTyped'
  BY <1>1, <1>2 DEF LinesTyped
<1>4. \A g \in 1 .. Files : Emptied(g)' <=> Emptied(g)
  BY <1>1, <1>2 DEF Emptied
<1>5. \A g \in 1 .. Files, t \in Runs :
        HeldBy(g, t)' => \/ HeldBy(g, t) /\ run'[t].read = run[t].read
                         \/ t = r /\ g = f
  BY <1>2 DEF HeldBy
<1>6. ASSUME UserInv PROVE UserInv'
  <2>1. CASE past.lost
    BY <1>1, <2>1 DEF UserInv
  <2>2. CASE ~past.lost
    <3>1. ~Emptied(f)
      BY <1>1, <1>6, <2>2, HooksOfNothing DEF UserInv
    <3> QED BY <1>1, <1>2, <1>4, <1>5, <1>6, <2>2, <3>1 DEF UserInv
  <2> QED BY <2>1, <2>2
<1>7. ASSUME UserInv, OnceInv PROVE OnceInv'
  <2>1. CASE past.lost \/ past.overlapped
    BY <1>1, <2>1 DEF OnceInv
  <2>2. CASE ~past.lost /\ ~past.overlapped
    <3>1. ~Emptied(f)
      BY <1>1, <1>7, <2>2, HooksOfNothing DEF UserInv
    <3>2. ~past.edited[f] => rc[f].lines = Hooked(f)
      <4>1. ASSUME ~past.edited[f], rc[f].lines = Rewritten(Hooked(f)).lines
            PROVE  FALSE
        <5>1. Hooked(f) \in Seq(LineKinds)
          <6>1. past.origin[f] \in FileType
            BY DEF LinesTyped
          <6>2. Appended(past.origin[f]) \in FileType
            BY <6>1, AppendedIs
          <6> QED BY <6>2 DEF Hooked, FileType
        <5> QED BY <1>1, <4>1, <5>1, RewrittenIs
      <4> QED BY <1>7, <2>2, <3>1, <4>1 DEF OnceInv
    <3> QED BY <1>1, <1>2, <1>4, <1>5, <1>7, <2>2, <3>2 DEF OnceInv, Hooked
  <2> QED BY <2>1, <2>2
<1> QED BY <1>3, <1>6, <1>7

\* A file that is emptied lives on in what was read of it.
LEMMA EmptyKeeps ==
  ASSUME LinesTyped, HooksTypeOK', NEW r \in Runs, Empty(r)
  PROVE  LinesTyped' /\ (UserInv => UserInv') /\ (OnceInv => OnceInv')
<1>0. PICK f \in 1 .. Files : run[r].file = f
  BY DEF LinesTyped, HooksTypeOK, IsRun, Empty, InRun
<1>1. /\ run[r].pc = "truncate" /\ UNCHANGED <<own, past>>
      /\ rc' = [rc EXCEPT ![f] = File(<<>>, TRUE)]
  BY <1>0 DEF Empty, InRun
<1>2. /\ run' \in [Runs -> RunType]
      /\ \A t \in Runs \ {r} : run'[t] = run[t]
      /\ run'[r].pc = "rewrite" /\ run'[r].file = f /\ run'[r].read = run[r].read
  <2> DEFINE x == [run[r] EXCEPT !.pc = "rewrite"]
  <2>1. x \in RunType /\ x.pc = "rewrite" /\ x.file = f /\ x.read = run[r].read
    BY <1>0 DEF LinesTyped, RunType
  <2>2. run' = [run EXCEPT ![r] = x]
    BY DEF Empty, RunGoes, LinesTyped
  <2> HIDE DEF x
  <2> QED BY <2>1, <2>2 DEF LinesTyped
<1>3. /\ rc' \in [1 .. Files -> FileType]
      /\ rc'[f].lines = <<>> /\ \A g \in 1 .. Files \ {f} : rc'[g] = rc[g]
  <2>1. File(<<>>, TRUE) \in FileType /\ File(<<>>, TRUE).lines = <<>>
    <3>1. <<>> \in Seq(LineKinds)
      OBVIOUS
    <3> QED BY <3>1, NoFileIsAFile DEF File
  <2> QED BY <1>1, <2>1 DEF LinesTyped
<1>4. LinesTyped'
  BY <1>1, <1>2, <1>3 DEF LinesTyped
<1>5. \A g \in 1 .. Files : Emptied(g)' <=> Emptied(g) \/ g = f
  BY <1>1, <1>2 DEF Emptied
<1>6. \A g \in 1 .. Files, t \in Runs :
        HeldBy(g, t)' => HeldBy(g, t) /\ run'[t].read = run[t].read
  BY <1>0, <1>1, <1>2 DEF HeldBy
<1>7. ASSUME UserInv PROVE UserInv'
  BY <1>1, <1>3, <1>5, <1>6, <1>7 DEF UserInv
<1>8. ASSUME OnceInv PROVE OnceInv'
  <2>1. \A i, j \in Hooks(rc'[f].lines) : i = j
    BY <1>3, HooksOfNothing
  <2>2. CASE past.lost \/ past.overlapped
    BY <1>1, <2>2 DEF OnceInv
  <2>3. CASE ~past.lost /\ ~past.overlapped
    <3> SUFFICES ASSUME NEW g \in 1 .. Files
                 PROVE  /\ OneAtFirst => \A i, j \in Hooks(rc'[g].lines) : i = j
                        /\ ~past'.edited[g] =>
                             /\ ~Mentions(past'.origin[g].lines)
                             /\ ~Emptied(g)' =>
                                  rc'[g].lines \in {Hooked(g)', Rewritten(Hooked(g)').lines}
                             /\ \A t \in Runs : HeldBy(g, t)' => run'[t].read.lines = Hooked(g)'
      BY DEF OnceInv
    <3>1. Hooked(g)' = Hooked(g)
      BY <1>1 DEF Hooked
    <3>2. CASE g = f
      BY <1>1, <1>5, <1>6, <1>8, <2>1, <2>3, <3>1, <3>2 DEF OnceInv
    <3>3. CASE g # f
      BY <1>1, <1>3, <1>5, <1>6, <1>8, <2>3, <3>1, <3>3 DEF OnceInv
    <3> QED BY <3>2, <3>3
  <2> QED BY <2>2, <2>3
<1> QED BY <1>4, <1>7, <1>8

\* What was read comes back without its hooks, over nothing.
LEMMA RewriteKeeps ==
  ASSUME LinesTyped, HooksTypeOK', NEW r \in Runs, Rewrite(r)
  PROVE  LinesTyped' /\ (UserInv => UserInv') /\ (UserInv /\ OnceInv => OnceInv')
<1>0. PICK f \in 1 .. Files : run[r].file = f
  BY DEF LinesTyped, HooksTypeOK, IsRun, Rewrite, InRun
<1> DEFINE new == Rewritten(run[r].read.lines).lines
<1>1. /\ run[r].pc = "rewrite" /\ own' = own /\ Elsewhere(r)
      /\ past' = [past EXCEPT !.lost = past.lost \/ Held(f, r)]
  BY <1>0, NextFileElsewhere DEF Rewrite, InRun
<1>2. PICK n \in 0 .. Len(rc[f].lines) :
        rc' = [rc EXCEPT ![f] = File(new \o SubSeq(rc[f].lines, n + 1, Len(rc[f].lines)), TRUE)]
  BY <1>0 DEF Rewrite
<1>3. /\ run[r].read.lines \in Seq(LineKinds) /\ rc[f].lines \in Seq(LineKinds)
      /\ new \in Seq(LineKinds)
  <2>1. run[r].read.lines \in Seq(LineKinds) /\ rc[f].lines \in Seq(LineKinds)
    BY DEF LinesTyped, RunType, FileType
  <2> QED BY <2>1, RewrittenIs
<1> DEFINE rest == SubSeq(rc[f].lines, n + 1, Len(rc[f].lines))
<1>4. rest \in Seq(LineKinds) /\ (rc[f].lines = <<>> => rest = <<>>)
  BY <1>3, RestIs
<1>5. /\ rc' \in [1 .. Files -> FileType]
      /\ rc'[f].lines = new \o rest /\ \A g \in 1 .. Files \ {f} : rc'[g] = rc[g]
  <2> HIDE DEF new, rest
  <2>1. new \o rest \in Seq(LineKinds)
    BY <1>3, <1>4
  <2>2. File(new \o rest, TRUE) \in FileType /\ File(new \o rest, TRUE).lines = new \o rest
    BY <2>1, NoFileIsAFile DEF File
  <2>3. rc' = [rc EXCEPT ![f] = File(new \o rest, TRUE)]
    BY <1>2 DEF new, rest
  <2> QED BY <2>2, <2>3 DEF LinesTyped
<1>6. /\ past' \in [lost : BOOLEAN, overlapped : BOOLEAN, edited : [1 .. Files -> BOOLEAN],
                    origin : [1 .. Files -> FileType]]
      /\ past'.lost = (past.lost \/ Held(f, r))
      /\ past'.overlapped = past.overlapped /\ past'.edited = past.edited
      /\ past'.origin = past.origin
  <2>1. Held(f, r) \in BOOLEAN
    BY DEF Held
  <2> QED BY <1>1, <2>1 DEF LinesTyped
<1>7. LinesTyped'
  BY <1>1, <1>5, <1>6 DEF LinesTyped, Elsewhere
<1> HIDE DEF new, rest
<1>8. CASE past'.lost
  <2>1. UserInv'
    BY <1>8 DEF UserInv
  <2>2. OnceInv'
    BY <1>8 DEF OnceInv
  <2> QED BY <1>7, <2>1, <2>2
<1>9. CASE ~past'.lost
  <2>1. ~past.lost /\ ~Held(f, r)
    BY <1>6, <1>9
  <2>2. \A g \in 1 .. Files, t \in Runs :
          HeldBy(g, t)' => HeldBy(g, t) /\ run'[t].read = run[t].read /\ g # f
    BY <1>0, <1>1, <2>1 DEF Elsewhere, HeldBy, Held
  <2>3. Emptied(f) /\ ~Emptied(f)' /\ \A g \in 1 .. Files \ {f} : Emptied(g)' <=> Emptied(g)
    BY <1>0, <1>1, <2>1 DEF Elsewhere, Emptied, Held, HeldBy
  <2>4. HeldBy(f, r)
    BY <1>0, <1>1 DEF HeldBy
  <2>5. ASSUME UserInv PROVE rc'[f].lines = new
    <3>1. rc[f].lines = <<>>
      BY <2>1, <2>3, <2>5 DEF UserInv
    <3> QED BY <1>3, <1>4, <1>5, <3>1
  <2>6. ASSUME UserInv PROVE UserInv'
    <3>1. Own(run[r].read.lines) = own[f]
      BY <2>1, <2>4, <2>6 DEF UserInv
    <3>2. Own(rc'[f].lines) = own[f]
      BY <1>3, <2>5, <2>6, <3>1, RewrittenIs DEF new
    <3> QED BY <1>1, <1>5, <2>1, <2>2, <2>3, <2>6, <3>2 DEF UserInv
  <2>7. ASSUME UserInv, OnceInv PROVE OnceInv'
    <3>1. CASE past.overlapped
      BY <1>6, <3>1 DEF OnceInv
    <3>2. CASE ~past.overlapped
      <4>1. Hooks(rc'[f].lines) = {}
        BY <1>3, <2>5, <2>7, RewrittenIs DEF new
      <4>2. ~past.edited[f] => rc'[f].lines = Rewritten(Hooked(f)).lines
        BY <2>1, <2>4, <2>5, <2>7, <3>2 DEF OnceInv, new
      <4>3. \A g \in 1 .. Files : Hooked(g)' = Hooked(g)
        BY <1>6 DEF Hooked
      <4> SUFFICES ASSUME NEW g \in 1 .. Files
                   PROVE  /\ OneAtFirst => \A i, j \in Hooks(rc'[g].lines) : i = j
                          /\ ~past'.edited[g] =>
                               /\ ~Mentions(past'.origin[g].lines)
                               /\ ~Emptied(g)' =>
                                    rc'[g].lines \in {Hooked(g)', Rewritten(Hooked(g)').lines}
                               /\ \A t \in Runs : HeldBy(g, t)' => run'[t].read.lines = Hooked(g)'
        BY DEF OnceInv
      <4>4. CASE g = f
        BY <1>6, <2>1, <2>2, <2>7, <3>2, <4>1, <4>2, <4>3, <4>4 DEF OnceInv
      <4>5. CASE g # f
        <5>1. rc'[g] = rc[g] /\ past'.edited[g] = past.edited[g] /\ past'.origin[g] = past.origin[g]
          BY <1>5, <1>6, <4>5
        <5>2. /\ OneAtFirst => \A i, j \in Hooks(rc[g].lines) : i = j
              /\ ~past.edited[g] =>
                   /\ ~Mentions(past.origin[g].lines)
                   /\ ~Emptied(g) => rc[g].lines \in {Hooked(g), Rewritten(Hooked(g)).lines}
                   /\ \A t \in Runs : HeldBy(g, t) => run[t].read.lines = Hooked(g)
          BY <2>1, <2>7, <3>2 DEF OnceInv
        <5> QED BY <2>2, <2>3, <4>3, <4>5, <5>1, <5>2
      <4> QED BY <4>4, <4>5
    <3> QED BY <3>1, <3>2
  <2> QED BY <1>7, <2>6, <2>7
<1> QED BY <1>8, <1>9
\* A line that the user adds is the user's, or a blank one.
LEMMA OwnOfOne ==
  ASSUME NEW s \in Seq(LineKinds), NEW l \in LineKinds
  PROVE  Own(Append(s, l)) = Own(s) \o Own(<<l>>) /\ Own(<<l>>) \in Seq(LineKinds)
<1>1. Own(s) \in Seq(LineKinds)
  BY OwnIsAList
<1>2. <<>> \in Seq(LineKinds) /\ <<l>> = Append(<<>>, l)
  OBVIOUS
<1>3. Own(Append(<<>>, l)) = IF l \in Users THEN Append(<<>>, l) ELSE <<>>
  BY <1>2, OwnAppend, OwnEmpty
<1>4. Own(<<l>>) = IF l \in Users THEN <<l>> ELSE <<>>
  BY <1>2, <1>3
<1>5. Own(Append(s, l)) = IF l \in Users THEN Append(Own(s), l) ELSE Own(s)
  BY OwnAppend
<1> DEFINE o == Own(s)
           w == Own(<<l>>)
<1> HIDE DEF o, w
<1>6. CASE l \in Users
  <2>1. w = <<l>> /\ Own(Append(s, l)) = Append(o, l)
    BY <1>4, <1>5, <1>6 DEF o, w
  <2>2. o \in Seq(LineKinds)
    BY <1>1 DEF o
  <2>3. Append(o, l) = o \o <<l>> /\ <<l>> \in Seq(LineKinds)
    BY <2>2
  <2>4. Own(Append(s, l)) = o \o w /\ w \in Seq(LineKinds)
    BY <2>1, <2>3
  <2> QED BY <2>4 DEF o, w
<1>7. CASE l \notin Users
  <2>1. w = <<>> /\ Own(Append(s, l)) = o
    BY <1>4, <1>5, <1>7 DEF o, w
  <2>2. o \in Seq(LineKinds)
    BY <1>1 DEF o
  <2>3. o = o \o <<>> /\ <<>> \in Seq(LineKinds)
    BY <2>2
  <2>4. Own(Append(s, l)) = o \o w /\ w \in Seq(LineKinds)
    BY <2>1, <2>3
  <2> QED BY <2>4 DEF o, w
<1> QED BY <1>6, <1>7

\* The user adds one line, to a file that nobody holds or that is lost.
LEMMA EditKeeps ==
  ASSUME LinesTyped, HooksTypeOK', NEW f \in 1 .. Files, Edit(f)
  PROVE  LinesTyped' /\ (UserInv => UserInv') /\ (OnceInv => OnceInv')
<1>1. PICK l \in UserLines \cup {"mention", "blank"}, t \in BOOLEAN :
        rc' = [rc EXCEPT ![f] = File(Append(rc[f].lines, l), t)]
  BY DEF Edit
<1>2. l \in LineKinds /\ ~IsHook(l)
  BY KindsAreApart, HooksAssumption DEF IsHook
<1>3. rc[f].lines \in Seq(LineKinds) /\ Append(rc[f].lines, l) \in Seq(LineKinds)
  <2>1. rc[f].lines \in Seq(LineKinds)
    BY DEF LinesTyped, FileType
  <2> QED BY <1>2, <2>1
<1> DEFINE longer == Append(rc[f].lines, l)
<1>4. longer # <<>> /\ longer[Len(longer)] = l
  BY <1>2, <1>3, FrontOfAppend DEF Last
<1> HIDE DEF longer
<1>5. /\ rc' \in [1 .. Files -> FileType]
      /\ rc'[f].lines = longer /\ \A g \in 1 .. Files \ {f} : rc'[g] = rc[g]
  <2>1. File(longer, t) \in FileType /\ File(longer, t).lines = longer
    BY <1>3, NoFileIsAFile DEF File, longer
  <2>2. rc' = [rc EXCEPT ![f] = File(longer, t)]
    BY <1>1 DEF longer
  <2> QED BY <2>1, <2>2 DEF LinesTyped
<1>6. own' = [own EXCEPT ![f] = own[f] \o Own(<<l>>)] /\ run' = run
  BY <1>4, <1>5 DEF Edit
<1>7. Own(<<l>>) \in Seq(LineKinds) /\ Own(longer) = Own(rc[f].lines) \o Own(<<l>>)
  BY <1>2, <1>3, OwnOfOne DEF longer
<1>8. /\ own' \in [1 .. Files -> Seq(LineKinds)] /\ own'[f] = own[f] \o Own(<<l>>)
      /\ \A g \in 1 .. Files \ {f} : own'[g] = own[g]
  <2> DEFINE w == own[f] \o Own(<<l>>)
  <2>1. own[f] \in Seq(LineKinds)
    BY DEF LinesTyped
  <2>2. w \in Seq(LineKinds)
    BY <1>7, <2>1
  <2> HIDE DEF w
  <2>3. own' = [own EXCEPT ![f] = w]
    BY <1>6 DEF w
  <2>4. /\ own' \in [1 .. Files -> Seq(LineKinds)] /\ own'[f] = w
        /\ \A g \in 1 .. Files \ {f} : own'[g] = own[g]
    BY <2>2, <2>3 DEF LinesTyped
  <2> QED BY <2>4 DEF w
<1> DEFINE held == \E r \in Runs : HeldBy(f, r)
<1>9. /\ past' \in [lost : BOOLEAN, overlapped : BOOLEAN, edited : [1 .. Files -> BOOLEAN],
                    origin : [1 .. Files -> FileType]]
      /\ past'.lost = (past.lost \/ held) /\ past'.overlapped = past.overlapped
      /\ past'.origin = past.origin /\ past'.edited[f] = TRUE
      /\ \A g \in 1 .. Files \ {f} : past'.edited[g] = past.edited[g]
  <2>1. held \in BOOLEAN
    OBVIOUS
  <2>2. past' = [past EXCEPT !.edited[f] = TRUE, !.lost = past.lost \/ held]
    BY DEF Edit
  <2> HIDE DEF held
  <2> QED BY <2>1, <2>2 DEF LinesTyped
<1>10. LinesTyped'
  BY <1>5, <1>6, <1>8, <1>9 DEF LinesTyped
<1>11. CASE past'.lost
  <2>1. UserInv'
    BY <1>11 DEF UserInv
  <2>2. OnceInv'
    BY <1>11 DEF OnceInv
  <2> QED BY <1>10, <2>1, <2>2
<1>12. CASE ~past'.lost
  <2>1. ~past.lost /\ (\A r \in Runs : ~HeldBy(f, r)) /\ ~Emptied(f)
    BY <1>9, <1>12 DEF Emptied, HeldBy
  <2>2. \A g \in 1 .. Files, r \in Runs :
          /\ HeldBy(g, r)' => HeldBy(g, r) /\ run'[r].read = run[r].read
          /\ Emptied(g)' <=> Emptied(g)
    BY <1>6 DEF HeldBy, Emptied
  <2>3. \A g \in 1 .. Files : Emptied(g)' <=> Emptied(g)
    BY <1>6 DEF Emptied
  <2>4. ASSUME UserInv PROVE UserInv'
    <3>1. Own(rc'[f].lines) = own'[f]
      BY <1>5, <1>7, <1>8, <2>1, <2>4 DEF UserInv
    <3> QED BY <1>5, <1>8, <2>1, <2>2, <2>3, <2>4, <3>1 DEF UserInv
  <2>5. ASSUME OnceInv PROVE OnceInv'
    <3>1. CASE past.overlapped
      BY <1>9, <3>1 DEF OnceInv
    <3>2. CASE ~past.overlapped
      <4>1. Hooks(longer) = Hooks(rc[f].lines)
        BY <1>2, <1>3, HooksOfAppend DEF longer
      <4>2. \A g \in 1 .. Files : Hooked(g)' = Hooked(g)
        BY <1>9 DEF Hooked
      <4> SUFFICES ASSUME NEW g \in 1 .. Files
                   PROVE  /\ OneAtFirst => \A i, j \in Hooks(rc'[g].lines) : i = j
                          /\ ~past'.edited[g] =>
                               /\ ~Mentions(past'.origin[g].lines)
                               /\ ~Emptied(g)' =>
                                    rc'[g].lines \in {Hooked(g)', Rewritten(Hooked(g)').lines}
                               /\ \A r \in Runs : HeldBy(g, r)' => run'[r].read.lines = Hooked(g)'
        BY DEF OnceInv
      <4>3. /\ OneAtFirst => \A i, j \in Hooks(rc[g].lines) : i = j
            /\ ~past.edited[g] =>
                 /\ ~Mentions(past.origin[g].lines)
                 /\ ~Emptied(g) => rc[g].lines \in {Hooked(g), Rewritten(Hooked(g)).lines}
                 /\ \A r \in Runs : HeldBy(g, r) => run[r].read.lines = Hooked(g)
        BY <2>1, <2>5, <3>2 DEF OnceInv
      <4>4. CASE g = f
        BY <1>5, <1>9, <4>1, <4>3, <4>4
      <4>5. CASE g # f
        <5>1. rc'[g] = rc[g] /\ past'.edited[g] = past.edited[g] /\ past'.origin[g] = past.origin[g]
          BY <1>5, <1>9, <4>5
        <5> QED BY <2>2, <2>3, <4>2, <4>3, <5>1
      <4> QED BY <4>4, <4>5
    <3> QED BY <3>1, <3>2
  <2> QED BY <1>10, <2>4, <2>5
<1> QED BY <1>11, <1>12

\* Each step by its lemma.
LEMMA HooksNextKeeps ==
  ASSUME LinesTyped, UserInv, HooksTypeOK', HooksNext
  PROVE  LinesTyped' /\ UserInv' /\ (OnceInv => OnceInv')
<1>1. CASE \E f \in 1 .. Files : Edit(f)
  BY <1>1, EditKeeps
<1>2. CASE \E r \in Runs : RunStep(r)
  <2>1. PICK r \in Runs : RunStep(r)
    BY <1>2
  <2>2. CASE \/ BeginRun(r) \/ Skip(r) \/ LookFails(r) \/ RunKilled(r)
             \/ AlreadyHooked(r) \/ Unhooked(r) \/ AppendFails(r) \/ NothingToRemove(r)
             \/ RewriteFails(r)
    BY <2>2, QuietSteps, QuietStepsKeep
  <2>3. CASE AppendHook(r)
    BY <2>3, AppendKeeps
  <2>4. CASE ReadHooks(r)
    BY <2>4, ReadKeeps
  <2>5. CASE Empty(r)
    BY <2>5, EmptyKeeps
  <2>6. CASE Rewrite(r)
    BY <2>6, RewriteKeeps
  <2> QED BY <2>1, <2>2, <2>3, <2>4, <2>5, <2>6 DEF RunStep
<1> QED BY <1>1, <1>2 DEF HooksNext

LEMMA HooksInitIsInv ==
  ASSUME HooksInit, HooksTypeOK
  PROVE  /\ LinesTyped /\ UserInv
         /\ OnceInv
<1>1. \A c \in Contents : c \in FileType
  <2> TAKE c \in Contents
  <2>1. /\ c = NoFile \/ c = File(c.lines, c.terminated)
        /\ c.lines \in Seq(LineKinds) /\ c.terminated \in BOOLEAN
    BY HooksAssumption
  <2> QED BY <2>1, NoFileIsAFile
<1>2. rc \in [1 .. Files -> FileType]
  BY <1>1 DEF HooksInit
<1>3. Unstarted \in RunType /\ Unstarted.pc = "unstarted"
  <2>1. 0 \in 0 .. Files
    BY HooksAssumption
  <2> QED BY <2>1, NoFileIsAFile DEF Unstarted, RunType
<1>4. run \in [Runs -> RunType] /\ \A r \in Runs : run[r].pc = "unstarted"
  BY <1>3 DEF HooksInit
<1>5. own = [f \in 1 .. Files |-> Own(rc[f].lines)] /\ own \in [1 .. Files -> Seq(LineKinds)]
  <2>1. \A f \in 1 .. Files : Own(rc[f].lines) \in Seq(LineKinds)
    BY <1>2, OwnIsAList DEF FileType
  <2> QED BY <2>1 DEF HooksInit
<1>6. past \in [lost : BOOLEAN, overlapped : BOOLEAN, edited : [1 .. Files -> BOOLEAN],
               origin : [1 .. Files -> FileType]]
  BY NoFileIsAFile DEF HooksInit
<1>7. LinesTyped
  BY <1>2, <1>4, <1>5, <1>6 DEF LinesTyped
<1>8. UserInv
  BY <1>4, <1>5 DEF UserInv, Emptied, HeldBy
<1>9. \A f \in 1 .. Files : past.edited[f] /\ rc[f] \in Contents
  BY DEF HooksInit
<1>10. OnceInv
  BY <1>9 DEF OnceInv, OneAtFirst
<1> QED BY <1>7, <1>8, <1>10

-----------------------------------------------------------------------------
(* What the invariants say. *)

LEMMA UserLinesAreThere ==
  ASSUME UserInv
  PROVE  UserLinesSurvive
  BY DEF UserInv, UserLinesSurvive, Emptied, InRun

LEMMA OneHook ==
  ASSUME OnceInv, OneAtFirst
  PROVE  HooksOnce
  BY DEF OnceInv, HooksOnce

\* An uninstall of what init made of a file without a hook gives its lines back.
LEMMA RewrittenIsRestored ==
  ASSUME NEW c \in FileType, ~Mentions(c.lines)
  PROVE  Rewritten(Appended(c).lines).lines = Restored(c)
<1> DEFINE s == c.lines
           o == Opened(c)
           a == Append(o, "comment")
<1>1. s \in Seq(LineKinds) /\ "blank" \in LineKinds /\ "comment" \in LineKinds /\ "hook" \in LineKinds
  BY KindsAreApart DEF FileType
<1>2. o \in Seq(LineKinds) /\ Appended(c).lines = Append(a, "hook")
  BY AppendedIs
<1>3. Hooks(s) = {} /\ Hooks(o) = {}
  BY <1>1, UnmentionedHasNoHook, HooksOfAppend DEF Opened, IsHook
<1> HIDE DEF o
<1>4. a \in Seq(LineKinds) /\ a # <<>> /\ Front(a) = o /\ Last(a) = "comment"
  BY <1>1, <1>2, FrontOfAppend
<1>5. Hooks(a) = {}
  BY <1>1, <1>2, <1>3, HooksOfAppend DEF IsHook
<1> HIDE DEF a
<1>6. Kept(a) = a
  BY <1>4, <1>5, KeptHasNoHook
<1>7. Kept(Appended(c).lines) = WithoutLast(a)
  BY <1>1, <1>2, <1>4, <1>6, KeptAppend DEF IsHook
<1>8. WithoutLast(a) = IF o # <<>> /\ Last(o) = "blank" THEN Front(o) ELSE o
  BY <1>4 DEF WithoutLast
<1>9. WithoutLast(a) = IF ~c.terminated /\ Last(s) = "blank" THEN Front(s) ELSE s
  <2>1. CASE c.terminated
    <3>1. o = Append(s, "blank")
      BY <2>1 DEF o, Opened
    <3>2. o # <<>> /\ Front(o) = s /\ Last(o) = "blank"
      BY <1>1, <3>1, FrontOfAppend
    <3> QED BY <1>8, <2>1, <3>2
  <2>2. CASE ~c.terminated
    <3>1. o = s
      BY <2>2 DEF o, Opened
    <3>2. CASE s = <<>>
      <4>1. Front(s) = s
        BY <3>2 DEF Front
      <4> QED BY <1>8, <3>1, <3>2, <4>1
    <3> QED BY <1>8, <2>2, <3>1, <3>2
  <2> QED BY <2>1, <2>2
<1> QED BY <1>7, <1>9 DEF Rewritten, File, Restored

\* The last step of an uninstall is the one that writes what it keeps.
LEMMA UninstallGivesBack ==
  ASSUME LinesTyped, UserInv, OnceInv, HooksTypeOK', HooksNext, NEW r \in Runs,
         InRun(r, "rewrite"), run'[r].pc # "rewrite",
         ~past'.lost, ~past.overlapped, ~past.edited[run[r].file]
  PROVE  rc'[run[r].file].lines = Restored(past.origin[run[r].file])
<1>0. PICK f \in 1 .. Files : run[r].file = f
  BY DEF LinesTyped, HooksTypeOK, IsRun, InRun
<1>1. \E t \in Runs : RunStep(t)
  BY DEF HooksNext, Edit, InRun
<1>2. RunStep(r)
  <2> SUFFICES ASSUME NEW t \in Runs, RunStep(t), t # r
               PROVE  run'[r] = run[r]
    BY <1>1 DEF InRun
  <2>1. CASE \/ BeginRun(t) \/ Skip(t) \/ LookFails(t) \/ RunKilled(t)
             \/ AlreadyHooked(t) \/ Unhooked(t) \/ AppendFails(t) \/ NothingToRemove(t)
             \/ RewriteFails(t)
    BY <2>1, QuietSteps DEF Leaves, Elsewhere
  <2>2. CASE AppendHook(t) \/ Rewrite(t)
    <3>1. NextFile(t) /\ run[t].pc \notin {"unstarted", "over"}
      BY <2>2 DEF AppendHook, Rewrite, InRun
    <3> QED BY <3>1, NextFileElsewhere DEF Elsewhere
  <2>3. CASE ReadHooks(t) \/ Empty(t)
    BY <2>3 DEF ReadHooks, Empty, RunGoes, LinesTyped
  <2> QED BY <2>1, <2>2, <2>3 DEF RunStep
<1>3. Rewrite(r)
  <2>1. ~RunKilled(r) /\ ~RewriteFails(r)
    BY DEF RunKilled, RewriteFails, LinesTyped
  <2> QED BY <1>2, <2>1 DEF RunStep, BeginRun, Skip, LookFails, AlreadyHooked, Unhooked, AppendHook,
             AppendFails, NothingToRemove, ReadHooks, Empty, InRun
<1>4. past.lost = FALSE /\ past.edited[f] = FALSE /\ Emptied(f) /\ HeldBy(f, r)
  <2>1. past'.lost = (past.lost \/ Held(f, r))
    BY <1>0, <1>3 DEF Rewrite, LinesTyped
  <2> QED BY <1>0, <2>1 DEF Emptied, HeldBy, InRun, LinesTyped
<1>5. /\ ~Mentions(past.origin[f].lines) /\ run[r].read.lines = Hooked(f)
      /\ rc[f].lines = <<>> /\ past.origin[f] \in FileType
  BY <1>4 DEF UserInv, OnceInv, LinesTyped
<1> DEFINE new == Rewritten(Hooked(f)).lines
<1>6. new = Restored(past.origin[f]) /\ new \in Seq(LineKinds)
  <2>1. Appended(past.origin[f]).lines \in Seq(LineKinds)
    BY <1>5, AppendedIs DEF FileType
  <2> QED BY <1>5, <2>1, RewrittenIsRestored, RewrittenIs DEF Hooked
<1>7. rc'[f].lines = new
  <2>1. PICK n \in 0 .. Len(rc[f].lines) :
          rc' = [rc EXCEPT ![f] = File(new \o SubSeq(rc[f].lines, n + 1, Len(rc[f].lines)), TRUE)]
    BY <1>0, <1>3, <1>5 DEF Rewrite
  <2>2. rc[f].lines \in Seq(LineKinds)
    BY DEF LinesTyped, FileType
  <2>3. SubSeq(rc[f].lines, n + 1, Len(rc[f].lines)) = <<>>
    BY <1>5, <2>2, RestIs
  <2> HIDE DEF new
  <2>4. new \o <<>> = new
    BY <1>6
  <2>5. rc' = [rc EXCEPT ![f] = File(new, TRUE)]
    BY <2>1, <2>3, <2>4
  <2> QED BY <2>5 DEF File, LinesTyped
<1> QED BY <1>0, <1>6, <1>7
===============================================================================
