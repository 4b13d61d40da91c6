-------------------------- MODULE ConversationProofs --------------------------
(***************************************************************************)
(* Proofs about Conversation, for every set of prompts and of replies and  *)
(* transcripts of any length: what a request carries of the transcript, in *)
(* which order, and how calls and results stay together.                   *)
(***************************************************************************)
EXTENDS Conversation, TLAPS, WellFoundedInduction, SequenceTheorems

-----------------------------------------------------------------------------
(* Lists, of any length. *)

\* A set of naturals has a least one: induction over data, without an operator.
LEMMA LeastNatural ==
  ASSUME NEW T, T \subseteq Nat, T # {}
  PROVE  \E m \in T : \A n \in T : m <= n
<1>1. \E m \in T : \A n \in T : ~(<<n, m>> \in OpToRel(<, Nat))
  BY NatLessThanWellFounded, WFMin, Zenon
<1>2. PICK m \in T : \A n \in T : ~(<<n, m>> \in OpToRel(<, Nat))
  BY <1>1
<1>3. ASSUME NEW n \in T PROVE m <= n
  <2>1. ~ (<<n, m>> \in OpToRel(<, Nat)) BY <1>2
  <2>2. m \in Nat /\ n \in Nat OBVIOUS
  <2>3. ~(n < m) BY <2>1, <2>2, Zenon DEF OpToRel
  <2> QED BY <2>2, <2>3
<1> QED BY <1>3

\* A list that is not empty is its last element after those before it.
LEMMA TheRest ==
  ASSUME NEW L, NEW s \in Seq(L), Len(s) # 0
  PROVE  /\ SubSeq(s, 1, Len(s) - 1) \in Seq(L) /\ s[Len(s)] \in L
         /\ Len(SubSeq(s, 1, Len(s) - 1)) = Len(s) - 1
         /\ s = Append(SubSeq(s, 1, Len(s) - 1), s[Len(s)])
<1> DEFINE front == SubSeq(s, 1, Len(s) - 1)
<1>1. Len(s) \in Nat /\ Len(s) - 1 \in Nat /\ s[Len(s)] \in L
  OBVIOUS
<1>2. /\ front \in Seq(L) /\ Len(front) = Len(s) - 1
      /\ \A i \in 1 .. Len(s) - 1 : front[i] = s[i]
  <2>1. \A i \in 1 .. Len(s) - 1 : s[i] \in L
    BY <1>1
  <2>2. /\ front \in Seq(L) /\ Len(front) = IF 1 <= Len(s) - 1 THEN Len(s) - 1 - 1 + 1 ELSE 0
        /\ \A i \in 1 .. Len(s) - 1 - 1 + 1 : front[i] = s[1 + i - 1]
    BY <1>1, <2>1, SubSeqProperties
  <2> HIDE DEF front
  <2>3. ASSUME NEW i \in 1 .. Len(s) - 1
        PROVE  front[i] = s[i]
    <3>1. i \in 1 .. Len(s) - 1 - 1 + 1 /\ 1 + i - 1 = i
      BY <1>1
    <3>2. front[i] = s[1 + i - 1]
      BY <2>2, <3>1
    <3> QED BY <3>1, <3>2
  <2>4. Len(front) = Len(s) - 1
    <3> DEFINE k == Len(s) - 1
    <3>1. k \in Nat /\ Len(front) = IF 1 <= k THEN k - 1 + 1 ELSE 0
      BY <1>1, <2>2
    <3> HIDE DEF k
    <3>2. Len(front) = k
      BY <3>1
    <3> QED BY <3>2 DEF k
  <2> QED BY <2>2, <2>3, <2>4
<1> HIDE DEF front
<1>3. s = Append(front, s[Len(s)])
  BY <1>1, <1>2
<1> QED BY <1>1, <1>2, <1>3 DEF front

\* A set of lists to which an element may always be added has them all.
LEMMA ListInduction ==
  ASSUME NEW L, NEW good, <<>> \in good,
         \A s \in Seq(L), l \in L : s \in good => Append(s, l) \in good
  PROVE  Seq(L) \subseteq good
<1> DEFINE T == {Len(s) : s \in Seq(L) \ good}
<1>1. SUFFICES ASSUME T # {} PROVE FALSE
  OBVIOUS
<1>2. PICK n \in T : \A k \in T : n <= k
  <2>1. T \subseteq Nat
    OBVIOUS
  <2> HIDE DEF T
  <2> QED BY <1>1, <2>1, LeastNatural
<1>3. PICK s \in Seq(L) \ good : Len(s) = n
  BY <1>2
<1>4. Len(s) # 0
  <2>1. Len(s) = 0 => s = <<>>
    OBVIOUS
  <2> QED BY <1>3, <2>1
<1> DEFINE front == SubSeq(s, 1, Len(s) - 1)
<1>5. /\ front \in Seq(L) /\ s[Len(s)] \in L /\ Len(front) = Len(s) - 1
      /\ s = Append(front, s[Len(s)])
  BY <1>4, TheRest
<1> HIDE DEF front
<1>6. front \notin good
  BY <1>3, <1>5
<1>7. Len(front) \in T /\ Len(s) \in Nat
  BY <1>5, <1>6
<1> HIDE DEF T
<1> QED BY <1>2, <1>3, <1>4, <1>5, <1>7

-----------------------------------------------------------------------------
(* FlattenSeq, as its two equations. *)

\* f joins the first i lists, for every i up to n.
Joins(ss, n, f) ==
  f = [i \in 1 .. n |-> IF i = 1 THEN ss[i] ELSE f[i - 1] \o ss[i]]

\* One list more: f goes on.
LEMMA JoinsGoOn ==
  ASSUME NEW ss, NEW n \in Nat, NEW f, Joins(ss, n, f)
  PROVE  LET e == IF n = 0 THEN ss[n + 1] ELSE f[n] \o ss[n + 1]
         IN  Joins(ss, n + 1, [i \in 1 .. n + 1 |-> IF i = n + 1 THEN e ELSE f[i]])
<1> DEFINE e == IF n = 0 THEN ss[n + 1] ELSE f[n] \o ss[n + 1]
           g == [i \in 1 .. n + 1 |-> IF i = n + 1 THEN e ELSE f[i]]
<1>1. \A i \in 1 .. n : f[i] = IF i = 1 THEN ss[i] ELSE f[i - 1] \o ss[i]
  BY DEF Joins
<1>2. \A i \in 1 .. n : g[i] = f[i]
  OBVIOUS
<1>3. g[n + 1] = e
  OBVIOUS
<1>4. g = [i \in 1 .. n + 1 |-> g[i]]
  OBVIOUS
<1> HIDE DEF g
<1>5. ASSUME NEW i \in 1 .. n + 1
      PROVE  g[i] = IF i = 1 THEN ss[i] ELSE g[i - 1] \o ss[i]
  <2>1. CASE i = n + 1
    <3>1. i # 1 => g[i - 1] = f[n] /\ n # 0
      <4>1. i # 1 => n \in 1 .. n /\ i - 1 = n
        BY <2>1
      <4> QED BY <1>2, <4>1
    <3> QED BY <1>3, <2>1, <3>1
  <2>2. CASE i # n + 1
    <3>1. i \in 1 .. n /\ (i # 1 => i - 1 \in 1 .. n)
      BY <2>2
    <3>2. g[i] = f[i] /\ (i # 1 => g[i - 1] = f[i - 1])
      BY <1>2, <3>1
    <3> QED BY <1>1, <3>1, <3>2
  <2> QED BY <2>1, <2>2
<1> QED BY <1>4, <1>5 DEF Joins, g

LEMMA JoinsExist ==
  ASSUME NEW ss, NEW n \in Nat
  PROVE  \E f : Joins(ss, n, f)
<1> DEFINE T == {m \in Nat : ~ \E f : Joins(ss, m, f)}
<1>1. SUFFICES ASSUME T # {} PROVE FALSE
  OBVIOUS
<1>2. PICK m \in T : \A k \in T : m <= k
  <2>1. T \subseteq Nat OBVIOUS
  <2> HIDE DEF T
  <2> QED BY <1>1, <2>1, LeastNatural
<1>3. m \in Nat /\ ~ \E f : Joins(ss, m, f)
  BY <1>2
<1>4. m # 0
  <2>1. Joins(ss, 0, [i \in 1 .. 0 |-> IF i = 1 THEN ss[i] ELSE <<>>])
    BY DEF Joins
  <2> QED BY <1>3, <2>1
<1>5. m - 1 \in Nat /\ m - 1 \notin T
  BY <1>2, <1>3, <1>4
<1>6. PICK f : Joins(ss, m - 1, f)
  BY <1>5
<1>7. m = (m - 1) + 1
  BY <1>3
<1>8. \E g : Joins(ss, (m - 1) + 1, g)
  BY <1>5, <1>6, JoinsGoOn
<1> QED BY <1>3, <1>7, <1>8

\* Lists that agree are joined alike.
LEMMA JoinsAgree ==
  ASSUME NEW ss, NEW tt, NEW n \in Nat, NEW m \in Nat, 1 <= n, n <= m, NEW f, NEW g,
         Joins(ss, n, f), Joins(tt, m, g), \A i \in 1 .. n : ss[i] = tt[i]
  PROVE  f[n] = g[n]
<1> DEFINE T == {i \in 1 .. n : f[i] # g[i]}
<1>1. SUFFICES ASSUME T # {} PROVE FALSE
  <2>1. n \in 1 .. n OBVIOUS
  <2> QED BY <2>1
<1>2. PICK k \in T : \A i \in T : k <= i
  <2>1. T \subseteq Nat OBVIOUS
  <2> HIDE DEF T
  <2> QED BY <1>1, <2>1, LeastNatural
<1>3. k \in 1 .. n /\ k \in 1 .. m /\ f[k] # g[k] /\ ss[k] = tt[k]
  BY <1>2
<1>4. /\ f[k] = IF k = 1 THEN ss[k] ELSE f[k - 1] \o ss[k]
      /\ g[k] = IF k = 1 THEN tt[k] ELSE g[k - 1] \o tt[k]
  BY <1>3 DEF Joins
<1>5. k # 1 => f[k - 1] = g[k - 1]
  BY <1>2, <1>3
<1> QED BY <1>3, <1>4, <1>5

LEMMA FlattenIs ==
  ASSUME NEW L, NEW ss \in Seq(L), Len(ss) # 0
  PROVE  \E f : Joins(ss, Len(ss), f) /\ FlattenSeq(ss) = f[Len(ss)]
<1> DEFINE f == CHOOSE f : Joins(ss, Len(ss), f)
<1>1. Joins(ss, Len(ss), f)
  BY JoinsExist
<1>2. FlattenSeq(ss) = f[Len(ss)]
  BY DEF FlattenSeq, Joins
<1> QED BY <1>1, <1>2

LEMMA FlattenEmpty == FlattenSeq(<<>>) = <<>>
BY DEF FlattenSeq

LEMMA FlattenAppend ==
  ASSUME NEW L, NEW ss \in Seq(Seq(L)), NEW s \in Seq(L)
  PROVE  FlattenSeq(Append(ss, s)) = FlattenSeq(ss) \o s
<1> DEFINE n == Len(ss)
           tt == Append(ss, s)
<1>1. n \in Nat /\ tt \in Seq(Seq(L)) /\ Len(tt) = n + 1 /\ tt[n + 1] = s
      /\ \A i \in 1 .. n : ss[i] = tt[i]
  OBVIOUS
<1>2. PICK g : Joins(tt, n + 1, g) /\ FlattenSeq(tt) = g[n + 1]
  <2> HIDE DEF tt
  <2> QED BY <1>1, FlattenIs
<1>3. g[n + 1] = IF n = 0 THEN s ELSE g[n] \o s
  <2>1. n + 1 \in 1 .. n + 1 /\ (n + 1) - 1 = n /\ (n + 1 = 1 <=> n = 0)
    BY <1>1
  <2>2. g[n + 1] = IF n + 1 = 1 THEN tt[n + 1] ELSE g[(n + 1) - 1] \o tt[n + 1]
    BY <1>2, <2>1 DEF Joins
  <2> HIDE DEF tt
  <2> QED BY <1>1, <2>1, <2>2
<1> HIDE DEF tt
<1>4. CASE n = 0
  <2>1. ss = <<>> BY <1>4
  <2>2. <<>> \o s = s BY ConcatEmptySeq
  <2> QED BY <1>2, <1>3, <1>4, <2>1, <2>2, FlattenEmpty DEF tt
<1>5. CASE n # 0
  <2>1. PICK f : Joins(ss, n, f) /\ FlattenSeq(ss) = f[n]
    BY <1>5, FlattenIs
  <2>2. f[n] = g[n]
    <3> DEFINE m == n + 1
    <3>1. n \in Nat /\ n \in 1 .. n /\ n <= m /\ m \in Nat /\ Joins(tt, m, g)
      BY <1>1, <1>2, <1>5
    <3>2. Joins(ss, n, f) /\ \A i \in 1 .. n : ss[i] = tt[i]
      BY <1>1, <2>1
    <3> HIDE DEF m, n
    <3> QED BY <3>1, <3>2, JoinsAgree
  <2> QED BY <1>2, <1>3, <1>5, <2>1, <2>2 DEF tt
<1> QED BY <1>4, <1>5

-----------------------------------------------------------------------------
(* MergeSameRole, as its two equations. *)

\* f has merged the first i messages, for every i up to n.
Merges(ms, n, f) ==
  f = [k \in 0 .. n |-> IF k = 0 THEN <<>> ELSE MergeIn(f[k - 1], ms[k])]

LEMMA MergesExist ==
  ASSUME NEW ms, NEW n \in Nat
  PROVE  \E f : Merges(ms, n, f)
<1> DEFINE T == {m \in Nat : ~ \E f : Merges(ms, m, f)}
<1>1. SUFFICES ASSUME T # {} PROVE FALSE
  OBVIOUS
<1>2. PICK m \in T : \A k \in T : m <= k
  <2>1. T \subseteq Nat OBVIOUS
  <2> HIDE DEF T
  <2> QED BY <1>1, <2>1, LeastNatural
<1>3. m \in Nat /\ ~ \E f : Merges(ms, m, f)
  BY <1>2
<1>4. m # 0
  <2>1. Merges(ms, 0, [k \in 0 .. 0 |-> <<>>])
    BY DEF Merges
  <2> QED BY <1>3, <2>1
<1>5. m - 1 \in Nat /\ m - 1 \notin T
  BY <1>2, <1>3, <1>4
<1>6. PICK f : Merges(ms, m - 1, f)
  BY <1>5
<1> DEFINE g == [k \in 0 .. m |-> IF k = m THEN MergeIn(f[m - 1], ms[m]) ELSE f[k]]
<1>7. \A k \in 0 .. m - 1 : f[k] = IF k = 0 THEN <<>> ELSE MergeIn(f[k - 1], ms[k])
  BY <1>6 DEF Merges
<1>8. g[m] = MergeIn(f[m - 1], ms[m]) /\ \A k \in 0 .. m - 1 : g[k] = f[k]
  BY <1>3, <1>4
<1>9. g = [k \in 0 .. m |-> g[k]]
  OBVIOUS
<1> HIDE DEF g
<1>10. ASSUME NEW k \in 0 .. m
       PROVE  g[k] = IF k = 0 THEN <<>> ELSE MergeIn(g[k - 1], ms[k])
  <2>1. CASE k = m
    <3>1. g[k - 1] = f[m - 1] /\ k # 0
      BY <1>3, <1>4, <1>5, <1>8, <2>1
    <3> QED BY <1>8, <2>1, <3>1
  <2>2. CASE k # m /\ k # 0
    <3>1. k \in 0 .. m - 1 /\ k - 1 \in 0 .. m - 1
      BY <1>3, <2>2
    <3>2. g[k] = f[k] /\ g[k - 1] = f[k - 1]
      BY <1>8, <3>1
    <3> QED BY <1>7, <2>2, <3>1, <3>2
  <2>3. CASE k = 0
    <3>1. 0 \in 0 .. m - 1
      BY <1>3, <1>4
    <3> QED BY <1>7, <1>8, <2>3, <3>1
  <2> QED BY <2>1, <2>2, <2>3
<1>11. Merges(ms, m, g)
  BY <1>9, <1>10 DEF Merges
<1> QED BY <1>3, <1>11

LEMMA MergesAgree ==
  ASSUME NEW ms, NEW ns, NEW n \in Nat, NEW m \in Nat, n <= m, NEW f, NEW g,
         Merges(ms, n, f), Merges(ns, m, g), \A k \in 1 .. n : ms[k] = ns[k]
  PROVE  f[n] = g[n]
<1> DEFINE T == {k \in 0 .. n : f[k] # g[k]}
<1>1. SUFFICES ASSUME T # {} PROVE FALSE
  <2>1. n \in 0 .. n OBVIOUS
  <2> QED BY <2>1
<1>2. PICK k \in T : \A i \in T : k <= i
  <2>1. T \subseteq Nat OBVIOUS
  <2> HIDE DEF T
  <2> QED BY <1>1, <2>1, LeastNatural
<1>3. k \in 0 .. n /\ k \in 0 .. m /\ f[k] # g[k] /\ (k # 0 => ms[k] = ns[k])
  BY <1>2
<1>4. /\ f[k] = IF k = 0 THEN <<>> ELSE MergeIn(f[k - 1], ms[k])
      /\ g[k] = IF k = 0 THEN <<>> ELSE MergeIn(g[k - 1], ns[k])
  BY <1>3 DEF Merges
<1>5. k # 0 => f[k - 1] = g[k - 1]
  BY <1>2, <1>3
<1> QED BY <1>3, <1>4, <1>5

LEMMA MergeIs ==
  ASSUME NEW L, NEW ms \in Seq(L)
  PROVE  \E f : Merges(ms, Len(ms), f) /\ MergeSameRole(ms) = f[Len(ms)]
<1> DEFINE f == CHOOSE f : Merges(ms, Len(ms), f)
<1>1. Merges(ms, Len(ms), f)
  BY MergesExist
<1>2. MergeSameRole(ms) = f[Len(ms)]
  BY DEF MergeSameRole, Merges
<1> QED BY <1>1, <1>2

LEMMA MergeEmpty == MergeSameRole(<<>>) = <<>>
<1>1. <<>> \in Seq({}) /\ Len(<<>>) = 0 OBVIOUS
<1>2. PICK f : Merges(<<>>, 0, f) /\ MergeSameRole(<<>>) = f[0]
  BY <1>1, MergeIs
<1> QED BY <1>2 DEF Merges

LEMMA MergeAppend ==
  ASSUME NEW L, NEW ms \in Seq(L), NEW e \in L
  PROVE  MergeSameRole(Append(ms, e)) = MergeIn(MergeSameRole(ms), e)
<1> DEFINE n == Len(ms)
           ns == Append(ms, e)
<1>1. n \in Nat /\ ns \in Seq(L) /\ Len(ns) = n + 1 /\ ns[n + 1] = e
      /\ \A k \in 1 .. n : ms[k] = ns[k]
  OBVIOUS
<1> HIDE DEF ns
<1>2. PICK g : Merges(ns, n + 1, g) /\ MergeSameRole(ns) = g[n + 1]
  BY <1>1, MergeIs
<1>3. PICK f : Merges(ms, n, f) /\ MergeSameRole(ms) = f[n]
  BY MergeIs
<1>4. f[n] = g[n]
  BY <1>1, <1>2, <1>3, MergesAgree
<1>5. g[n + 1] = MergeIn(g[n], e)
  <2>1. n + 1 \in 0 .. n + 1 /\ (n + 1) - 1 = n /\ n + 1 # 0
    BY <1>1
  <2>2. g[n + 1] = IF n + 1 = 0 THEN <<>> ELSE MergeIn(g[(n + 1) - 1], ns[n + 1])
    BY <1>2, <2>1 DEF Merges
  <2> QED BY <1>1, <2>1, <2>2
<1> QED BY <1>2, <1>3, <1>4, <1>5 DEF ns
-----------------------------------------------------------------------------
(* What FlattenSeq and Those do to lists. *)

LEMMA Regroup ==
  \A L : \A x, y, z \in Seq(L) : (x \o y) \o z = x \o (y \o z)
BY ConcatAssociative

LEMMA ConcatAppend ==
  ASSUME NEW L, NEW x \in Seq(L), NEW y \in Seq(L), NEW e \in L
  PROVE  x \o Append(y, e) = Append(x \o y, e)
<1>1. <<e>> \in Seq(L)
  OBVIOUS
<1>2. Append(y, e) = y \o <<e>>
  BY AppendIsConcat
<1>3. x \o y \in Seq(L)
  BY ConcatProperties
<1>4. Append(x \o y, e) = (x \o y) \o <<e>>
  BY <1>3, AppendIsConcat
<1> QED BY <1>1, <1>2, <1>4, ConcatAssociative

LEMMA FlattenType ==
  ASSUME NEW L, NEW ss \in Seq(Seq(L))
  PROVE  FlattenSeq(ss) \in Seq(L)
<1> DEFINE good == {x \in Seq(Seq(L)) : FlattenSeq(x) \in Seq(L)}
<1>1. <<>> \in good
  <2>1. <<>> \in Seq(Seq(L)) /\ <<>> \in Seq(L)
    BY EmptySeq
  <2> QED BY <2>1, FlattenEmpty
<1>2. ASSUME NEW x \in Seq(Seq(L)), NEW l \in Seq(L), x \in good
      PROVE  Append(x, l) \in good
  <2>1. FlattenSeq(Append(x, l)) = FlattenSeq(x) \o l
    BY FlattenAppend
  <2>2. FlattenSeq(x) \o l \in Seq(L)
    BY <1>2, ConcatProperties
  <2>3. Append(x, l) \in Seq(Seq(L))
    BY AppendProperties
  <2> QED BY <2>1, <2>2, <2>3
<1> HIDE DEF good
<1>3. Seq(Seq(L)) \subseteq good
  BY <1>1, <1>2, ListInduction
<1> QED BY <1>3 DEF good

LEMMA FlattenConcat ==
  ASSUME NEW L, NEW ss \in Seq(Seq(L)), NEW tt \in Seq(Seq(L))
  PROVE  FlattenSeq(ss \o tt) = FlattenSeq(ss) \o FlattenSeq(tt)
<1> DEFINE good == {x \in Seq(Seq(L)) : FlattenSeq(ss \o x) = FlattenSeq(ss) \o FlattenSeq(x)}
<1>0. FlattenSeq(ss) \in Seq(L)
  BY FlattenType
<1>1. <<>> \in good
  <2>1. ss \o <<>> = ss /\ FlattenSeq(ss) \o <<>> = FlattenSeq(ss) /\ <<>> \in Seq(Seq(L))
    BY <1>0, ConcatEmptySeq
  <2> QED BY <2>1, FlattenEmpty
<1>2. ASSUME NEW x \in Seq(Seq(L)), NEW l \in Seq(L), x \in good
      PROVE  Append(x, l) \in good
  <2>1. ss \o Append(x, l) = Append(ss \o x, l) /\ ss \o x \in Seq(Seq(L))
    BY ConcatAppend, ConcatProperties
  <2>2. FlattenSeq(ss \o Append(x, l)) = (FlattenSeq(ss) \o FlattenSeq(x)) \o l
    BY <1>2, <2>1, FlattenAppend
  <2>3. FlattenSeq(x) \in Seq(L) /\ FlattenSeq(Append(x, l)) = FlattenSeq(x) \o l
    BY FlattenType, FlattenAppend
  <2>4. (FlattenSeq(ss) \o FlattenSeq(x)) \o l = FlattenSeq(ss) \o (FlattenSeq(x) \o l)
    BY <1>0, <2>3, ConcatAssociative
  <2>5. Append(x, l) \in Seq(Seq(L))
    BY AppendProperties
  <2> QED BY <2>2, <2>3, <2>4, <2>5
<1> HIDE DEF good
<1>3. Seq(Seq(L)) \subseteq good
  BY <1>1, <1>2, ListInduction
<1> QED BY <1>3 DEF good

LEMMA FlattenSingle ==
  ASSUME NEW L, NEW s \in Seq(L)
  PROVE  FlattenSeq(<<s>>) = s
<1>1. <<s>> = Append(<<>>, s) /\ <<>> \in Seq(Seq(L)) /\ <<>> \o s = s
  BY ConcatEmptySeq
<1> QED BY <1>1, FlattenAppend, FlattenEmpty

\* Those, as its two equations.
LEMMA ThoseEmpty == \A S : Those(<<>>, S) = <<>>
<1> TAKE S
<1> DEFINE each == [i \in 1 .. Len(<<>>) |-> IF <<>>[i] \in S THEN << <<>>[i] >> ELSE <<>>]
<1>1. each = <<>>
  OBVIOUS
<1> QED BY <1>1, FlattenEmpty DEF Those

LEMMA ThoseAppend ==
  ASSUME NEW L, NEW s \in Seq(L), NEW l \in L, NEW S
  PROVE  Those(Append(s, l), S) = IF l \in S THEN Append(Those(s, S), l) ELSE Those(s, S)
<1> DEFINE h(e) == IF e \in S THEN <<e>> ELSE <<>>
           each == [i \in 1 .. Len(s) |-> h(s[i])]
           t == Append(s, l)
<1>1. /\ t \in Seq(L) /\ Len(t) = Len(s) + 1 /\ Len(s) \in Nat
      /\ t[Len(s) + 1] = l /\ \A i \in 1 .. Len(s) : t[i] = s[i]
  OBVIOUS
<1>2. \A e \in L : h(e) \in Seq(L)
  OBVIOUS
<1>3. each \in Seq(Seq(L)) /\ Len(each) = Len(s)
  BY <1>2
<1> HIDE DEF t
<1>4. [i \in 1 .. Len(t) |-> h(t[i])] = Append(each, h(l))
  BY <1>1, <1>2
<1>5. Those(s, S) = FlattenSeq(each) /\ Those(t, S) = FlattenSeq([i \in 1 .. Len(t) |-> h(t[i])])
  BY DEF Those
<1>6. Those(t, S) = FlattenSeq(each) \o h(l) /\ FlattenSeq(each) \in Seq(L)
  BY <1>2, <1>3, <1>4, <1>5, FlattenAppend, FlattenType
<1> HIDE DEF each
<1>7. l \in S => FlattenSeq(each) \o h(l) = Append(FlattenSeq(each), l)
  BY <1>6, AppendIsConcat
<1>8. l \notin S => FlattenSeq(each) \o h(l) = FlattenSeq(each)
  BY <1>6, ConcatEmptySeq
<1> QED BY <1>5, <1>6, <1>7, <1>8 DEF t

LEMMA ThoseType ==
  ASSUME NEW L, NEW s \in Seq(L), NEW S
  PROVE  Those(s, S) \in Seq(L \cap S)
<1> DEFINE good == {x \in Seq(L) : Those(x, S) \in Seq(L \cap S)}
<1>1. <<>> \in good
  <2>1. <<>> \in Seq(L) /\ <<>> \in Seq(L \cap S) /\ Those(<<>>, S) = <<>>
    BY EmptySeq, ThoseEmpty
  <2> QED BY <2>1
<1>2. ASSUME NEW x \in Seq(L), NEW l \in L, x \in good
      PROVE  Append(x, l) \in good
  <2>1. Those(Append(x, l), S) = IF l \in S THEN Append(Those(x, S), l) ELSE Those(x, S)
    BY ThoseAppend
  <2>2. Append(x, l) \in Seq(L)
    BY AppendProperties
  <2>3. l \in S => Append(Those(x, S), l) \in Seq(L \cap S)
    BY <1>2, AppendProperties
  <2> QED BY <1>2, <2>1, <2>2, <2>3
<1> HIDE DEF good
<1>3. Seq(L) \subseteq good
  BY <1>1, <1>2, ListInduction
<1> QED BY <1>3 DEF good

LEMMA ThoseConcat ==
  ASSUME NEW L, NEW s \in Seq(L), NEW t \in Seq(L), NEW S
  PROVE  Those(s \o t, S) = Those(s, S) \o Those(t, S)
<1> DEFINE good == {x \in Seq(L) : Those(s \o x, S) = Those(s, S) \o Those(x, S)}
           A == L \cap S
<1>0. Those(s, S) \in Seq(A)
  BY ThoseType
<1>1. <<>> \in good
  <2>1. s \o <<>> = s /\ Those(s, S) \o <<>> = Those(s, S) /\ <<>> \in Seq(L)
    BY <1>0, ConcatEmptySeq
  <2> QED BY <2>1, ThoseEmpty
<1>2. ASSUME NEW x \in Seq(L), NEW l \in L, x \in good
      PROVE  Append(x, l) \in good
  <2>1. s \o Append(x, l) = Append(s \o x, l) /\ s \o x \in Seq(L)
    BY ConcatAppend, ConcatProperties
  <2>2. /\ Those(s \o Append(x, l), S) =
             IF l \in S THEN Append(Those(s \o x, S), l) ELSE Those(s \o x, S)
        /\ Those(Append(x, l), S) = IF l \in S THEN Append(Those(x, S), l) ELSE Those(x, S)
    BY <2>1, ThoseAppend
  <2>3. Those(x, S) \in Seq(A)
    BY ThoseType
  <2>4. l \in S => Those(s, S) \o Append(Those(x, S), l) = Append(Those(s, S) \o Those(x, S), l)
    BY <1>0, <2>3, ConcatAppend
  <2>5. Append(x, l) \in Seq(L)
    BY AppendProperties
  <2> QED BY <1>2, <2>2, <2>4, <2>5
<1> HIDE DEF good
<1>3. Seq(L) \subseteq good
  BY <1>1, <1>2, ListInduction
<1> QED BY <1>3 DEF good

\* All of a list, none of it, and two sets that differ outside of it only.
LEMMA ThoseAll ==
  ASSUME NEW L, NEW s \in Seq(L), NEW S, L \subseteq S
  PROVE  Those(s, S) = s
<1> DEFINE good == {x \in Seq(L) : Those(x, S) = x}
<1>1. <<>> \in good
  BY ThoseEmpty
<1>2. ASSUME NEW x \in Seq(L), NEW l \in L, x \in good
      PROVE  Append(x, l) \in good
  <2>1. Those(Append(x, l), S) = Append(Those(x, S), l)
    BY ThoseAppend
  <2>2. Append(x, l) \in Seq(L)
    BY AppendProperties
  <2> QED BY <1>2, <2>1, <2>2
<1> HIDE DEF good
<1>3. Seq(L) \subseteq good
  BY <1>1, <1>2, ListInduction
<1> QED BY <1>3 DEF good

LEMMA ThoseNone ==
  ASSUME NEW L, NEW s \in Seq(L), NEW S, L \cap S = {}
  PROVE  Those(s, S) = <<>>
<1> DEFINE good == {x \in Seq(L) : Those(x, S) = <<>>}
<1>1. <<>> \in good
  BY ThoseEmpty
<1>2. ASSUME NEW x \in Seq(L), NEW l \in L, x \in good
      PROVE  Append(x, l) \in good
  <2>1. Those(Append(x, l), S) = Those(x, S)
    BY ThoseAppend
  <2>2. Append(x, l) \in Seq(L)
    BY AppendProperties
  <2> QED BY <1>2, <2>1, <2>2
<1> HIDE DEF good
<1>3. Seq(L) \subseteq good
  BY <1>1, <1>2, ListInduction
<1> QED BY <1>3 DEF good

LEMMA ThoseAgree ==
  ASSUME NEW L, NEW s \in Seq(L), NEW S, NEW R, L \cap S = L \cap R
  PROVE  Those(s, S) = Those(s, R)
<1> DEFINE good == {x \in Seq(L) : Those(x, S) = Those(x, R)}
<1>1. <<>> \in good
  BY ThoseEmpty
<1>2. ASSUME NEW x \in Seq(L), NEW l \in L, x \in good
      PROVE  Append(x, l) \in good
  <2>1. /\ Those(Append(x, l), S) = IF l \in S THEN Append(Those(x, S), l) ELSE Those(x, S)
        /\ Those(Append(x, l), R) = IF l \in R THEN Append(Those(x, R), l) ELSE Those(x, R)
    BY ThoseAppend
  <2>2. l \in S <=> l \in R
    OBVIOUS
  <2>3. Append(x, l) \in Seq(L)
    BY AppendProperties
  <2> QED BY <1>2, <2>1, <2>2, <2>3
<1> HIDE DEF good
<1>3. Seq(L) \subseteq good
  BY <1>1, <1>2, ListInduction
<1> QED BY <1>3 DEF good

LEMMA ThoseSome ==
  ASSUME NEW L, NEW s \in Seq(L), NEW S, NEW k \in 1 .. Len(s), s[k] \in S
  PROVE  Those(s, S) # <<>>
<1> DEFINE good == {x \in Seq(L) : (\E i \in 1 .. Len(x) : x[i] \in S) => Those(x, S) # <<>>}
<1>1. <<>> \in good
  BY EmptySeq
<1>2. ASSUME NEW x \in Seq(L), NEW l \in L, x \in good
      PROVE  Append(x, l) \in good
  <2> DEFINE y == Append(x, l)
  <2>1. /\ y \in Seq(L) /\ Len(y) = Len(x) + 1 /\ Len(x) \in Nat
        /\ y[Len(x) + 1] = l /\ \A i \in 1 .. Len(x) : y[i] = x[i]
    OBVIOUS
  <2>2. Those(y, S) = IF l \in S THEN Append(Those(x, S), l) ELSE Those(x, S)
    BY ThoseAppend
  <2>3. Those(x, S) \in Seq(L \cap S)
    BY ThoseType
  <2>4. l \in S => Those(y, S) # <<>>
    BY <2>2, <2>3, AppendProperties
  <2> HIDE DEF y
  <2>5. ASSUME NEW i \in 1 .. Len(y), y[i] \in S, l \notin S PROVE i \in 1 .. Len(x) /\ x[i] \in S
    BY <2>1, <2>5
  <2>6. (\E i \in 1 .. Len(y) : y[i] \in S) => Those(y, S) # <<>>
    BY <1>2, <2>2, <2>4, <2>5
  <2> QED BY <2>1, <2>6 DEF y
<1> HIDE DEF good
<1>3. Seq(L) \subseteq good
  BY <1>1, <1>2, ListInduction
<1> QED BY <1>3 DEF good

-----------------------------------------------------------------------------
(* Transcripts, and the messages of a request. *)

Place == Nat \X Nat

\* The blocks and messages of the two sides.
UserBlock ==
  {b \in [type : {"text", "image", "tool_result"}, answers : Place] :
     b.type = "tool_result" => b.answers # NoPlace}
AssistantBlock == [type : {"thinking", "text", "tool_use"}, answers : Place]

UserMessage == [role : {"user"}, blocks : Seq(UserBlock)]
AssistantMessage == [role : {"assistant"}, blocks : Seq(AssistantBlock)]

Message == UserMessage \cup AssistantMessage

\* A message of a request; only that of a tool answers one.
Entry ==
  {e \in [role : {"system", "user", "assistant", "tool"}, answers : Place, content : Seq(Place),
          structured : BOOLEAN, calls : Seq(Place)] :
     e.role = "tool" <=> e.answers # NoPlace}

Tool == {e \in Entry : e.role = "tool"}

\* The places of a transcript, of one side and of a type.
PlacesIn(t) == {p \in (1 .. Len(t)) \X Nat : p[2] \in 1 .. Len(t[p[1]].blocks)}

Spots(t, role) == {p \in PlacesIn(t) : t[p[1]].role = role}

OfIn(t, type) ==
  {p \in (1 .. Len(t)) \X Nat :
     /\ p[2] \in 1 .. Len(t[p[1]].blocks)
     /\ t[p[1]].blocks[p[2]].type = type}

\* An entry whose content was said in t, by the side whose role it has.
EntryOf(t) ==
  {e \in Entry : e.content \in Seq(PlacesIn(t))
                 /\ (e.role # "tool" => e.content \in Seq(Spots(t, e.role)))}

AllIn(t, type) == FlattenSeq([i \in 1 .. Len(t) |-> Places(i, t[i], type)])

Contents(c) == FlattenSeq([k \in 1 .. Len(c) |-> c[k].content])
Calls(c) == FlattenSeq([k \in 1 .. Len(c) |-> c[k].calls])
AnswerOf(e) == IF e.role = "tool" THEN <<e.answers>> ELSE <<>>
Answers(c) == FlattenSeq([k \in 1 .. Len(c) |-> AnswerOf(c[k])])

LEMMA MessageIs ==
  ASSUME NEW m \in Message
  PROVE  /\ m.role \in {"user", "assistant"}
         /\ m.blocks \in Seq(UserBlock \cup AssistantBlock)
         /\ Len(m.blocks) \in Nat
         /\ \A j \in 1 .. Len(m.blocks) : m.blocks[j] \in UserBlock \cup AssistantBlock
         /\ m.role = "user" =>
              \A j \in 1 .. Len(m.blocks) : m.blocks[j] \in UserBlock
         /\ m.role = "assistant" =>
              \A j \in 1 .. Len(m.blocks) : m.blocks[j] \in AssistantBlock
<1>1. CASE m \in UserMessage
  <2>1. m.role = "user" /\ m.blocks \in Seq(UserBlock)
    BY <1>1 DEF UserMessage
  <2>2. m.blocks \in Seq(UserBlock \cup AssistantBlock)
    BY <2>1, SeqMonotonic, UserBlock \subseteq UserBlock \cup AssistantBlock
  <2> QED BY <2>1, <2>2
<1>2. CASE m \in AssistantMessage
  <2>1. m.role = "assistant" /\ m.blocks \in Seq(AssistantBlock)
    BY <1>2 DEF AssistantMessage
  <2>2. m.blocks \in Seq(UserBlock \cup AssistantBlock)
    BY <2>1, SeqMonotonic, AssistantBlock \subseteq UserBlock \cup AssistantBlock
  <2> QED BY <2>1, <2>2
<1> QED BY <1>1, <1>2 DEF Message

\* The places of a type in a message.
Cells(i, m, type) == {i} \X {j \in 1 .. Len(m.blocks) : m.blocks[j].type = type}

LEMMA RowType ==
  ASSUME NEW i, NEW n \in Nat
  PROVE  /\ [j \in 1 .. n |-> <<i, j>>] \in Seq({i} \X (1 .. n))
         /\ Len([j \in 1 .. n |-> <<i, j>>]) = n
OBVIOUS

LEMMA PlacesType ==
  ASSUME NEW i \in Nat, NEW m \in Message, NEW type
  PROVE  Places(i, m, type) \in Seq(Cells(i, m, type))
<1> DEFINE row == [j \in 1 .. Len(m.blocks) |-> <<i, j>>]
           R == {i} \X (1 .. Len(m.blocks))
           S == Cells(i, m, type)
<1>1. row \in Seq(R)
  BY MessageIs, RowType
<1>2. Places(i, m, type) = Those(row, S)
  BY DEF Places, Cells
<1>3. R \cap S = S
  BY DEF Cells
<1> HIDE DEF row, R, S
<1>4. Those(row, S) \in Seq(R \cap S)
  BY <1>1, ThoseType
<1> QED BY <1>2, <1>3, <1>4 DEF S

LEMMA PlacesNone ==
  ASSUME NEW i \in Nat, NEW m \in Message, NEW type,
         \A j \in 1 .. Len(m.blocks) : m.blocks[j].type # type
  PROVE  Places(i, m, type) = <<>>
<1>1. Cells(i, m, type) = {}
  BY DEF Cells
<1>2. Places(i, m, type) \in Seq({})
  BY <1>1, PlacesType
<1> QED BY <1>2

LEMMA PlacesSome ==
  ASSUME NEW i \in Nat, NEW m \in Message, NEW type,
         NEW j \in 1 .. Len(m.blocks), m.blocks[j].type = type
  PROVE  Places(i, m, type) # <<>>
<1> DEFINE row == [k \in 1 .. Len(m.blocks) |-> <<i, k>>]
           R == {i} \X (1 .. Len(m.blocks))
           S == Cells(i, m, type)
<1>1. row \in Seq(R) /\ Len(row) = Len(m.blocks) /\ row[j] = <<i, j>>
  BY MessageIs, RowType
<1>2. Places(i, m, type) = Those(row, S)
  BY DEF Places, Cells
<1>3. row[j] \in S
  BY <1>1 DEF Cells
<1> HIDE DEF row, R, S
<1> QED BY <1>1, <1>2, <1>3, ThoseSome

\* Which types a message of either side has.
LEMMA PlacesOfSides ==
  ASSUME NEW i \in Nat, NEW m \in Message
  PROVE  /\ m.role = "user" => Places(i, m, "tool_use") = <<>>
         /\ m.role = "assistant" =>
              Places(i, m, "tool_result") = <<>> /\ Places(i, m, "image") = <<>>
<1>1. ASSUME m.role = "user" PROVE Places(i, m, "tool_use") = <<>>
  <2>1. \A j \in 1 .. Len(m.blocks) : m.blocks[j].type # "tool_use"
    BY <1>1, MessageIs DEF UserBlock
  <2> QED BY <2>1, PlacesNone
<1>2. ASSUME m.role = "assistant"
      PROVE  Places(i, m, "tool_result") = <<>> /\ Places(i, m, "image") = <<>>
  <2>1. \A j \in 1 .. Len(m.blocks) :
          m.blocks[j].type # "tool_result" /\ m.blocks[j].type # "image"
    BY <1>2, MessageIs DEF AssistantBlock
  <2> QED BY <2>1, PlacesNone
<1> QED BY <1>1, <1>2
-----------------------------------------------------------------------------
(* What translateAnthropicMessages makes of one message. *)

LEMMA PlacesSpots ==
  ASSUME NEW t \in Seq(Message), NEW i \in 1 .. Len(t), NEW type
  PROVE  /\ t[i] \in Message /\ i \in Nat
         /\ Places(i, t[i], type) \in Seq(Spots(t, t[i].role))
         /\ Places(i, t[i], type) \in Seq(PlacesIn(t))
         /\ Places(i, t[i], type) \in Seq(Place)
<1>1. t[i] \in Message /\ i \in Nat /\ Len(t) \in Nat
  OBVIOUS
<1>2. Places(i, t[i], type) \in Seq(Cells(i, t[i], type))
  BY <1>1, PlacesType
<1>3. Len(t[i].blocks) \in Nat
  BY <1>1, MessageIs
<1>4. Cells(i, t[i], type) \subseteq Spots(t, t[i].role)
  BY <1>1, <1>3 DEF Cells, Spots, PlacesIn
<1>5. Spots(t, t[i].role) \subseteq PlacesIn(t)
  BY DEF Spots
<1>6. PlacesIn(t) \subseteq Place
  BY DEF PlacesIn, Place
<1>7. Cells(i, t[i], type) \subseteq PlacesIn(t) /\ Cells(i, t[i], type) \subseteq Place
  BY <1>4, <1>5, <1>6
<1> QED BY <1>1, <1>2, <1>4, <1>7, SeqMonotonic

LEMMA ToolType ==
  ASSUME NEW t \in Seq(Message), NEW i \in 1 .. Len(t),
         NEW p \in Cells(i, t[i], "tool_result")
  PROVE  [role |-> "tool", answers |-> t[i].blocks[p[2]].answers,
          content |-> <<p>>, structured |-> FALSE, calls |-> <<>>] \in Tool \cap EntryOf(t)
<1>1. t[i] \in Message /\ p[1] = i /\ p[2] \in 1 .. Len(t[i].blocks)
      /\ t[i].blocks[p[2]].type = "tool_result" /\ p = <<i, p[2]>>
  BY PlacesSpots DEF Cells
<1>2. t[i].blocks[p[2]] \in UserBlock \cup AssistantBlock
  BY <1>1, MessageIs
<1>3. t[i].blocks[p[2]].answers \in Place /\ t[i].blocks[p[2]].answers # NoPlace
  BY <1>1, <1>2 DEF UserBlock, AssistantBlock
<1>4. Len(t[i].blocks) \in Nat
  BY <1>1, MessageIs
<1>5. p \in PlacesIn(t) /\ p \in Place
  BY <1>1, <1>4 DEF PlacesIn, Place
<1>6. <<p>> \in Seq(Place) /\ <<p>> \in Seq(PlacesIn(t)) /\ <<>> \in Seq(Place)
  BY <1>5, EmptySeq
<1> QED BY <1>3, <1>6 DEF Tool, EntryOf, Entry

LEMMA ToolMessagesType ==
  ASSUME NEW t \in Seq(Message), NEW i \in 1 .. Len(t)
  PROVE  /\ ToolMessages(i, t[i]) \in Seq(Tool)
         /\ ToolMessages(i, t[i]) \in Seq(EntryOf(t))
         /\ Len(ToolMessages(i, t[i])) = Len(Places(i, t[i], "tool_result"))
<1> DEFINE results == Places(i, t[i], "tool_result")
           tool(p) == [role |-> "tool", answers |-> t[i].blocks[p[2]].answers,
                       content |-> <<p>>, structured |-> FALSE, calls |-> <<>>]
<1>1. results \in Seq(Cells(i, t[i], "tool_result"))
  BY PlacesSpots, PlacesType
<1>2. \A p \in Cells(i, t[i], "tool_result") : tool(p) \in Tool \cap EntryOf(t)
  BY ToolType
<1>3. ToolMessages(i, t[i]) = [k \in 1 .. Len(results) |-> tool(results[k])]
  BY DEF ToolMessages
<1> HIDE DEF results, tool
<1>4. \A k \in 1 .. Len(results) : tool(results[k]) \in Tool \cap EntryOf(t)
  BY <1>1, <1>2
<1>5. Len(results) \in Nat
  BY <1>1
<1> QED BY <1>3, <1>4, <1>5 DEF results

LEMMA SpokenType ==
  ASSUME NEW t \in Seq(Message), NEW i \in 1 .. Len(t)
  PROVE  /\ Spoken(i, t[i]) \in EntryOf(t)
         /\ Spoken(i, t[i]).role = t[i].role
         /\ Spoken(i, t[i]).answers = NoPlace
         /\ Spoken(i, t[i]).calls = Places(i, t[i], "tool_use")
         /\ Spoken(i, t[i]).content = Places(i, t[i], "text") \o Places(i, t[i], "image")
<1> DEFINE text == Places(i, t[i], "text")
           images == Places(i, t[i], "image")
           calls == Places(i, t[i], "tool_use")
<1>1. /\ text \in Seq(Place) /\ text \in Seq(PlacesIn(t)) /\ text \in Seq(Spots(t, t[i].role))
      /\ images \in Seq(Place) /\ images \in Seq(PlacesIn(t))
      /\ images \in Seq(Spots(t, t[i].role)) /\ calls \in Seq(Place)
      /\ t[i] \in Message
  BY PlacesSpots
<1>2. Spoken(i, t[i]) = [role |-> t[i].role, answers |-> NoPlace, content |-> text \o images,
                         structured |-> images # <<>>, calls |-> calls]
  BY DEF Spoken
<1> HIDE DEF text, images, calls
<1>3. /\ text \o images \in Seq(Place) /\ text \o images \in Seq(PlacesIn(t))
      /\ text \o images \in Seq(Spots(t, t[i].role))
  BY <1>1, ConcatProperties
<1>4. NoPlace \in Place /\ t[i].role \in {"user", "assistant"}
  BY <1>1, MessageIs DEF NoPlace, Place
<1> DEFINE e == [role |-> t[i].role, answers |-> NoPlace, content |-> text \o images,
                 structured |-> images # <<>>, calls |-> calls]
<1>5. e.role # "tool" /\ e \in Entry
  BY <1>1, <1>3, <1>4 DEF Entry
<1>6. e \in EntryOf(t)
  BY <1>3, <1>5 DEF EntryOf
<1> QED BY <1>2, <1>6 DEF text, images, calls

LEMMA EntriesType ==
  ASSUME NEW t \in Seq(Message), NEW i \in 1 .. Len(t)
  PROVE  Entries(i, t[i]) \in Seq(EntryOf(t))
BY ToolMessagesType, SpokenType, AppendProperties DEF Entries
-----------------------------------------------------------------------------
(* The entries of a transcript. *)

EntriesOf(t) == FlattenSeq([i \in 1 .. Len(t) |-> Entries(i, t[i])])

LEMMA EntriesOfType ==
  ASSUME NEW t \in Seq(Message)
  PROVE  /\ [i \in 1 .. Len(t) |-> Entries(i, t[i])] \in Seq(Seq(EntryOf(t)))
         /\ EntriesOf(t) \in Seq(EntryOf(t))
         /\ EntriesOf(t) \in Seq(Entry)
<1> DEFINE each == [i \in 1 .. Len(t) |-> Entries(i, t[i])]
           A == EntryOf(t)
<1>1. \A i \in 1 .. Len(t) : Entries(i, t[i]) \in Seq(A)
  BY EntriesType
<1>2. Len(t) \in Nat
  OBVIOUS
<1>3. A \subseteq Entry
  BY DEF EntryOf
<1> HIDE DEF A
<1>4. each \in Seq(Seq(A))
  BY <1>1, <1>2
<1> HIDE DEF each
<1>5. FlattenSeq(each) \in Seq(A)
  BY <1>4, FlattenType
<1>6. FlattenSeq(each) \in Seq(Entry)
  BY <1>3, <1>5, SeqMonotonic
<1> QED BY <1>4, <1>5, <1>6 DEF EntriesOf, each, A

LEMMA AppendedIs ==
  ASSUME NEW t \in Seq(Message), NEW m \in Message
  PROVE  LET u == Append(t, m) IN
         /\ u \in Seq(Message) /\ Len(u) = Len(t) + 1 /\ Len(t) \in Nat
         /\ u[Len(t) + 1] = m /\ Len(t) + 1 \in 1 .. Len(u)
         /\ \A i \in 1 .. Len(t) : u[i] = t[i] /\ i \in 1 .. Len(u)
OBVIOUS

LEMMA EntriesOfAppend ==
  ASSUME NEW t \in Seq(Message), NEW m \in Message
  PROVE  EntriesOf(Append(t, m)) = EntriesOf(t) \o Entries(Len(t) + 1, m)
<1> DEFINE u == Append(t, m)
           A == EntryOf(u)
           each == [i \in 1 .. Len(t) |-> Entries(i, t[i])]
           all == [i \in 1 .. Len(u) |-> Entries(i, u[i])]
<1>1. /\ u \in Seq(Message) /\ Len(u) = Len(t) + 1 /\ Len(t) \in Nat
      /\ u[Len(t) + 1] = m /\ Len(t) + 1 \in 1 .. Len(u)
      /\ \A i \in 1 .. Len(t) : u[i] = t[i] /\ i \in 1 .. Len(u)
  BY AppendedIs
<1> HIDE DEF u
<1>2. \A i \in 1 .. Len(u) : Entries(i, u[i]) \in Seq(A)
  BY <1>1, EntriesType
<1> HIDE DEF A
<1>3. each \in Seq(Seq(A)) /\ Len(each) = Len(t) /\ Entries(Len(t) + 1, m) \in Seq(A)
  BY <1>1, <1>2
<1>4. all = Append(each, Entries(Len(t) + 1, m))
  BY <1>1
<1> HIDE DEF each, all
<1>5. FlattenSeq(all) = FlattenSeq(each) \o Entries(Len(t) + 1, m)
  BY <1>3, <1>4, FlattenAppend
<1> QED BY <1>5 DEF u, all, each, EntriesOf

LEMMA AllInAppend ==
  ASSUME NEW t \in Seq(Message), NEW m \in Message, NEW type
  PROVE  AllIn(Append(t, m), type) = AllIn(t, type) \o Places(Len(t) + 1, m, type)
<1> DEFINE u == Append(t, m)
           each == [i \in 1 .. Len(t) |-> Places(i, t[i], type)]
           all == [i \in 1 .. Len(u) |-> Places(i, u[i], type)]
<1>1. /\ u \in Seq(Message) /\ Len(u) = Len(t) + 1 /\ Len(t) \in Nat
      /\ u[Len(t) + 1] = m /\ Len(t) + 1 \in 1 .. Len(u)
      /\ \A i \in 1 .. Len(t) : u[i] = t[i] /\ i \in 1 .. Len(u)
  BY AppendedIs
<1> HIDE DEF u
<1>2. \A i \in 1 .. Len(u) : Places(i, u[i], type) \in Seq(Place)
  BY <1>1, PlacesSpots
<1>3. each \in Seq(Seq(Place)) /\ Len(each) = Len(t)
      /\ Places(Len(t) + 1, m, type) \in Seq(Place)
  BY <1>1, <1>2
<1>4. all = Append(each, Places(Len(t) + 1, m, type))
  BY <1>1
<1> HIDE DEF each, all
<1>5. FlattenSeq(all) = FlattenSeq(each) \o Places(Len(t) + 1, m, type)
  BY <1>3, <1>4, FlattenAppend
<1> QED BY <1>5 DEF u, all, each, AllIn

LEMMA AllInType ==
  ASSUME NEW t \in Seq(Message), NEW type
  PROVE  AllIn(t, type) \in Seq(PlacesIn(t)) /\ AllIn(t, type) \in Seq(Place)
<1> DEFINE each == [i \in 1 .. Len(t) |-> Places(i, t[i], type)]
           A == PlacesIn(t)
<1>1. \A i \in 1 .. Len(t) : Places(i, t[i], type) \in Seq(A)
  BY PlacesSpots
<1>2. A \subseteq Place /\ Len(t) \in Nat
  BY DEF PlacesIn, Place
<1> HIDE DEF A
<1>3. each \in Seq(Seq(A))
  BY <1>1, <1>2
<1> HIDE DEF each
<1>4. FlattenSeq(each) \in Seq(A)
  BY <1>3, FlattenType
<1> QED BY <1>2, <1>4, SeqMonotonic DEF AllIn, each, A

-----------------------------------------------------------------------------
(* mergeSameRole: a message is added, or its content joins that of the last one. *)

\* d is c with the content of e joined to that of its last message.
Joined(c, e, d) ==
  /\ Len(c) # 0 /\ Len(d) = Len(c)
  /\ Mergeable(c[Len(c)], e)
  /\ \A k \in 1 .. Len(c) - 1 : d[k] = c[k]
  /\ \A k \in 1 .. Len(c) :
       d[k].role = c[k].role /\ d[k].answers = c[k].answers /\ d[k].calls = c[k].calls
  /\ d[Len(c)].content = c[Len(c)].content \o e.content

\* What content may be joined in.
Closed(A) ==
  \A a, b \in A : a.role = b.role => [a EXCEPT !.content = @ \o b.content] \in A

LEMMA EntryOfClosed ==
  ASSUME NEW t
  PROVE  Closed(EntryOf(t))
<1> SUFFICES ASSUME NEW a \in EntryOf(t), NEW b \in EntryOf(t), a.role = b.role
             PROVE  [a EXCEPT !.content = @ \o b.content] \in EntryOf(t)
  BY DEF Closed
<1> DEFINE both == a.content \o b.content
           d == [a EXCEPT !.content = both]
<1>1. /\ a \in Entry /\ a.content \in Seq(Place) /\ b.content \in Seq(Place)
      /\ a.content \in Seq(PlacesIn(t)) /\ b.content \in Seq(PlacesIn(t))
  BY DEF EntryOf, Entry
<1>2. both \in Seq(Place) /\ both \in Seq(PlacesIn(t))
  BY <1>1, ConcatProperties
<1>3. a.role # "tool" => both \in Seq(Spots(t, a.role))
  BY ConcatProperties DEF EntryOf
<1> HIDE DEF both
<1>4. /\ d \in Entry /\ d.content = both /\ d.role = a.role
  BY <1>1, <1>2 DEF Entry
<1>5. d \in EntryOf(t)
  BY <1>2, <1>3, <1>4 DEF EntryOf
<1> QED BY <1>5 DEF both

LEMMA MergeCases ==
  ASSUME NEW A, A \subseteq Entry, Closed(A), NEW c \in Seq(A), NEW e \in A
  PROVE  /\ MergeIn(c, e) \in Seq(A)
         /\ \/ /\ MergeIn(c, e) = Append(c, e)
               /\ ~(Len(c) # 0 /\ Mergeable(c[Len(c)], e))
            \/ Joined(c, e, MergeIn(c, e))
<1> DEFINE n == Len(c)
<1>1. n \in Nat /\ (c # <<>> <=> n # 0)
  OBVIOUS
<1>2. CASE ~(n # 0 /\ Mergeable(c[n], e))
  <2>1. MergeIn(c, e) = Append(c, e)
    BY <1>1, <1>2 DEF MergeIn, Last
  <2> QED BY <1>2, <2>1, AppendProperties
<1>3. CASE n # 0 /\ Mergeable(c[n], e)
  <2> DEFINE l == [c[n] EXCEPT !.content = @ \o e.content]
             d == [c EXCEPT ![n] = l]
  <2>1. MergeIn(c, e) = d
    <3>1. MergeIn(c, e) = [c EXCEPT ![n].content = @ \o e.content]
      BY <1>1, <1>3 DEF MergeIn, Last
    <3> QED BY <3>1
  <2>2. n \in 1 .. n /\ c[n] \in A /\ c[n].role = e.role
    BY <1>1, <1>3 DEF Mergeable
  <2>3. l \in A
    BY <2>2 DEF Closed
  <2>4. /\ l.role = c[n].role /\ l.answers = c[n].answers /\ l.calls = c[n].calls
        /\ l.content = c[n].content \o e.content
    <3>1. c[n] \in Entry
      BY <2>2
    <3> QED BY <3>1 DEF Entry
  <2> HIDE DEF l
  <2>5. d \in Seq(A) /\ Len(d) = n /\ d[n] = l /\ \A k \in 1 .. n : k # n => d[k] = c[k]
    BY <2>2, <2>3
  <2> HIDE DEF d
  <2>6. /\ \A k \in 1 .. n - 1 : d[k] = c[k]
        /\ \A k \in 1 .. n :
             d[k].role = c[k].role /\ d[k].answers = c[k].answers /\ d[k].calls = c[k].calls
    BY <2>4, <2>5
  <2>7. Joined(c, e, d)
    BY <1>3, <2>4, <2>5, <2>6 DEF Joined
  <2> QED BY <2>1, <2>5, <2>7
<1> QED BY <1>2, <1>3

LEMMA MergeType ==
  ASSUME NEW A, A \subseteq Entry, Closed(A), NEW ms \in Seq(A)
  PROVE  MergeSameRole(ms) \in Seq(A)
<1> DEFINE good == {x \in Seq(A) : MergeSameRole(x) \in Seq(A)}
<1>1. <<>> \in good
  BY MergeEmpty, EmptySeq
<1>2. ASSUME NEW x \in Seq(A), NEW e \in A, x \in good
      PROVE  Append(x, e) \in good
  <2>1. MergeSameRole(Append(x, e)) = MergeIn(MergeSameRole(x), e)
    BY MergeAppend
  <2>2. MergeIn(MergeSameRole(x), e) \in Seq(A)
    BY <1>2, MergeCases
  <2> QED BY <2>1, <2>2, AppendProperties
<1> HIDE DEF good
<1>3. Seq(A) \subseteq good
  BY <1>1, <1>2, ListInduction
<1> QED BY <1>3 DEF good
-----------------------------------------------------------------------------
(* The content, the calls and the answers of a list of messages. *)

LEMMA RegroupPlaces ==
  ASSUME NEW x \in Seq(Place), NEW y \in Seq(Place), NEW z \in Seq(Place)
  PROVE  (x \o y) \o z = x \o (y \o z)
BY Regroup

LEMMA EntryIs ==
  ASSUME NEW e \in Entry
  PROVE  /\ e.content \in Seq(Place) /\ e.calls \in Seq(Place) /\ AnswerOf(e) \in Seq(Place)
         /\ e.answers \in Place /\ e.role \in {"system", "user", "assistant", "tool"}
         /\ e.role = "tool" <=> e.answers # NoPlace
<1>1. e.answers \in Place
  BY DEF Entry
<1>2. <<e.answers>> \in Seq(Place) /\ <<>> \in Seq(Place)
  BY <1>1, EmptySeq
<1> QED BY <1>2 DEF Entry, AnswerOf

LEMMA SumsType ==
  ASSUME NEW c \in Seq(Entry)
  PROVE  /\ [k \in 1 .. Len(c) |-> c[k].content] \in Seq(Seq(Place))
         /\ [k \in 1 .. Len(c) |-> c[k].calls] \in Seq(Seq(Place))
         /\ [k \in 1 .. Len(c) |-> AnswerOf(c[k])] \in Seq(Seq(Place))
         /\ Contents(c) \in Seq(Place) /\ Calls(c) \in Seq(Place) /\ Answers(c) \in Seq(Place)
<1> DEFINE x == [k \in 1 .. Len(c) |-> c[k].content]
           y == [k \in 1 .. Len(c) |-> c[k].calls]
           z == [k \in 1 .. Len(c) |-> AnswerOf(c[k])]
<1>1. \A k \in 1 .. Len(c) :
        /\ c[k].content \in Seq(Place) /\ c[k].calls \in Seq(Place)
        /\ AnswerOf(c[k]) \in Seq(Place)
  <2> SUFFICES ASSUME NEW k \in 1 .. Len(c)
               PROVE  /\ c[k].content \in Seq(Place) /\ c[k].calls \in Seq(Place)
                      /\ AnswerOf(c[k]) \in Seq(Place)
    OBVIOUS
  <2>1. c[k] \in Entry
    OBVIOUS
  <2> QED BY <2>1, EntryIs
<1>2. Len(c) \in Nat
  OBVIOUS
<1>3. x \in Seq(Seq(Place)) /\ y \in Seq(Seq(Place)) /\ z \in Seq(Seq(Place))
  BY <1>1, <1>2
<1> HIDE DEF x, y, z
<1>4. FlattenSeq(x) \in Seq(Place) /\ FlattenSeq(y) \in Seq(Place) /\ FlattenSeq(z) \in Seq(Place)
  BY <1>3, FlattenType
<1> QED BY <1>3, <1>4 DEF x, y, z, Contents, Calls, Answers

LEMMA SumsAppend ==
  ASSUME NEW c \in Seq(Entry), NEW e \in Entry
  PROVE  /\ Contents(Append(c, e)) = Contents(c) \o e.content
         /\ Calls(Append(c, e)) = Calls(c) \o e.calls
         /\ Answers(Append(c, e)) = Answers(c) \o AnswerOf(e)
<1> DEFINE d == Append(c, e)
           x == [k \in 1 .. Len(c) |-> c[k].content]
           y == [k \in 1 .. Len(c) |-> c[k].calls]
           z == [k \in 1 .. Len(c) |-> AnswerOf(c[k])]
           x1 == [k \in 1 .. Len(d) |-> d[k].content]
           y1 == [k \in 1 .. Len(d) |-> d[k].calls]
           z1 == [k \in 1 .. Len(d) |-> AnswerOf(d[k])]
           answer == AnswerOf(e)
<1>1. /\ Len(d) = Len(c) + 1 /\ Len(c) \in Nat /\ d[Len(c) + 1] = e
      /\ \A k \in 1 .. Len(c) : d[k] = c[k]
  OBVIOUS
<1>2. x \in Seq(Seq(Place)) /\ y \in Seq(Seq(Place)) /\ z \in Seq(Seq(Place))
  BY SumsType
<1>3. Len(x) = Len(c) /\ Len(y) = Len(c) /\ Len(z) = Len(c)
  OBVIOUS
<1>4. e.content \in Seq(Place) /\ e.calls \in Seq(Place) /\ answer \in Seq(Place)
  BY EntryIs
<1> HIDE DEF d
<1>5. x1 = Append(x, e.content)
  BY <1>1
<1>6. y1 = Append(y, e.calls)
  BY <1>1
<1>7. z1 = Append(z, answer)
  BY <1>1
<1> HIDE DEF x, y, z, x1, y1, z1, answer
<1>8. /\ FlattenSeq(x1) = FlattenSeq(x) \o e.content
      /\ FlattenSeq(y1) = FlattenSeq(y) \o e.calls
      /\ FlattenSeq(z1) = FlattenSeq(z) \o answer
  BY <1>2, <1>4, <1>5, <1>6, <1>7, FlattenAppend
<1> QED BY <1>8 DEF d, x, y, z, x1, y1, z1, answer, Contents, Calls, Answers

LEMMA SumsEmpty == Contents(<<>>) = <<>> /\ Calls(<<>>) = <<>> /\ Answers(<<>>) = <<>>
<1>1. /\ [k \in 1 .. Len(<<>>) |-> <<>>[k].content] = <<>>
      /\ [k \in 1 .. Len(<<>>) |-> <<>>[k].calls] = <<>>
      /\ [k \in 1 .. Len(<<>>) |-> AnswerOf(<<>>[k])] = <<>>
  OBVIOUS
<1> QED BY <1>1, FlattenEmpty DEF Contents, Calls, Answers

LEMMA SumsConcat ==
  ASSUME NEW c \in Seq(Entry), NEW d \in Seq(Entry)
  PROVE  /\ Contents(c \o d) = Contents(c) \o Contents(d)
         /\ Calls(c \o d) = Calls(c) \o Calls(d)
         /\ Answers(c \o d) = Answers(c) \o Answers(d)
<1> DEFINE good == {x \in Seq(Entry) : /\ Contents(c \o x) = Contents(c) \o Contents(x)
                                       /\ Calls(c \o x) = Calls(c) \o Calls(x)
                                       /\ Answers(c \o x) = Answers(c) \o Answers(x)}
<1>1. <<>> \in good
  <2>1. Contents(c) \in Seq(Place) /\ Calls(c) \in Seq(Place) /\ Answers(c) \in Seq(Place)
    BY SumsType
  <2>2. /\ Contents(c) \o <<>> = Contents(c) /\ Calls(c) \o <<>> = Calls(c)
        /\ Answers(c) \o <<>> = Answers(c)
    BY <2>1, ConcatEmptySeq
  <2>3. c \o <<>> = c /\ <<>> \in Seq(Entry)
    BY ConcatEmptySeq, EmptySeq
  <2> QED BY <2>2, <2>3, SumsEmpty
<1>2. ASSUME NEW x \in Seq(Entry), NEW e \in Entry, x \in good
      PROVE  Append(x, e) \in good
  <2>1. c \o Append(x, e) = Append(c \o x, e) /\ c \o x \in Seq(Entry)
    BY ConcatAppend, ConcatProperties
  <2>2. /\ Contents(c \o Append(x, e)) = (Contents(c) \o Contents(x)) \o e.content
        /\ Calls(c \o Append(x, e)) = (Calls(c) \o Calls(x)) \o e.calls
        /\ Answers(c \o Append(x, e)) = (Answers(c) \o Answers(x)) \o AnswerOf(e)
    BY <1>2, <2>1, SumsAppend
  <2>3. /\ Contents(Append(x, e)) = Contents(x) \o e.content
        /\ Calls(Append(x, e)) = Calls(x) \o e.calls
        /\ Answers(Append(x, e)) = Answers(x) \o AnswerOf(e)
    BY SumsAppend
  <2>4. /\ Contents(c) \in Seq(Place) /\ Calls(c) \in Seq(Place) /\ Answers(c) \in Seq(Place)
        /\ Contents(x) \in Seq(Place) /\ Calls(x) \in Seq(Place) /\ Answers(x) \in Seq(Place)
        /\ e.content \in Seq(Place) /\ e.calls \in Seq(Place) /\ AnswerOf(e) \in Seq(Place)
    BY SumsType, EntryIs
  <2>5. (Contents(c) \o Contents(x)) \o e.content = Contents(c) \o (Contents(x) \o e.content)
    <3>1. Contents(c) \in Seq(Place) /\ Contents(x) \in Seq(Place) /\ e.content \in Seq(Place)
      BY <2>4
    <3> QED BY <3>1, RegroupPlaces
  <2>6. (Calls(c) \o Calls(x)) \o e.calls = Calls(c) \o (Calls(x) \o e.calls)
    <3>1. Calls(c) \in Seq(Place) /\ Calls(x) \in Seq(Place) /\ e.calls \in Seq(Place)
      BY <2>4
    <3> QED BY <3>1, RegroupPlaces
  <2>7. (Answers(c) \o Answers(x)) \o AnswerOf(e) = Answers(c) \o (Answers(x) \o AnswerOf(e))
    <3>1. Answers(c) \in Seq(Place) /\ Answers(x) \in Seq(Place) /\ AnswerOf(e) \in Seq(Place)
      BY <2>4
    <3> QED BY <3>1, RegroupPlaces
  <2>8. Append(x, e) \in Seq(Entry)
    BY AppendProperties
  <2> QED BY <2>2, <2>3, <2>5, <2>6, <2>7, <2>8
<1> HIDE DEF good
<1>3. Seq(Entry) \subseteq good
  BY <1>1, <1>2, ListInduction
<1> QED BY <1>3 DEF good

\* Joining loses no content and neither calls nor answers of the earlier message.
LEMMA JoinedSums ==
  ASSUME NEW c \in Seq(Entry), NEW e \in Entry, NEW d \in Seq(Entry), Joined(c, e, d)
  PROVE  /\ Contents(d) = Contents(c) \o e.content
         /\ Calls(d) = Calls(c) /\ Answers(d) = Answers(c)
         /\ AnswerOf(e) = <<>>
<1> DEFINE n == Len(c)
           cf == SubSeq(c, 1, n - 1)
           df == SubSeq(d, 1, n - 1)
<1>1. n # 0 /\ n \in Nat /\ Len(d) = n /\ n \in 1 .. n /\ c[n] \in Entry /\ d[n] \in Entry
  BY DEF Joined
<1>2. /\ cf \in Seq(Entry) /\ c = Append(cf, c[n])
      /\ df \in Seq(Entry) /\ d = Append(df, d[n])
      /\ Len(cf) = n - 1 /\ Len(df) = n - 1
  BY <1>1, TheRest
<1>3. cf = df
  <2>1. \A k \in 1 .. n - 1 : c[k] = d[k]
    BY DEF Joined
  <2> HIDE DEF n
  <2>2. cf = df
    BY <2>1, <1>1
  <2> QED BY <2>2
<1> HIDE DEF cf, df
<1>4. /\ Contents(c) = Contents(cf) \o c[n].content
      /\ Contents(d) = Contents(cf) \o d[n].content
  BY <1>1, <1>2, <1>3, SumsAppend
<1>5. d[n].content = c[n].content \o e.content
  BY DEF Joined
<1>6. Contents(d) = Contents(c) \o e.content
  <2>1. Contents(cf) \in Seq(Place) /\ c[n].content \in Seq(Place) /\ e.content \in Seq(Place)
    BY <1>1, <1>2, SumsType, EntryIs
  <2>2. (Contents(cf) \o c[n].content) \o e.content = Contents(cf) \o (c[n].content \o e.content)
    BY <2>1, RegroupPlaces
  <2> QED BY <1>4, <1>5, <2>2
<1>7. \A k \in 1 .. n : d[k].role = c[k].role /\ d[k].answers = c[k].answers
                        /\ d[k].calls = c[k].calls
  BY DEF Joined
<1>8. Calls(d) = Calls(c)
  BY <1>1, <1>7 DEF Calls
<1>9. Answers(d) = Answers(c)
  <2>1. \A k \in 1 .. n : AnswerOf(d[k]) = AnswerOf(c[k])
    BY <1>7 DEF AnswerOf
  <2> QED BY <1>1, <2>1 DEF Answers
<1>10. AnswerOf(e) = <<>>
  <2>1. c[n].role = e.role /\ c[n].answers = NoPlace
    BY DEF Joined, Mergeable
  <2> QED BY <1>1, <2>1, EntryIs DEF AnswerOf
<1> QED BY <1>6, <1>8, <1>9, <1>10

LEMMA EntryClosed == Closed(Entry)
<1> SUFFICES ASSUME NEW a \in Entry, NEW b \in Entry
             PROVE  [a EXCEPT !.content = @ \o b.content] \in Entry
  BY DEF Closed
<1>1. a.content \o b.content \in Seq(Place)
  BY EntryIs, ConcatProperties
<1> QED BY <1>1 DEF Entry

\* Merging loses neither content nor answers.
LEMMA MergeSums ==
  ASSUME NEW ms \in Seq(Entry)
  PROVE  /\ MergeSameRole(ms) \in Seq(Entry)
         /\ Contents(MergeSameRole(ms)) = Contents(ms)
         /\ Answers(MergeSameRole(ms)) = Answers(ms)
<1> DEFINE good == {x \in Seq(Entry) : /\ Contents(MergeSameRole(x)) = Contents(x)
                                       /\ Answers(MergeSameRole(x)) = Answers(x)}
<1>1. <<>> \in good
  BY MergeEmpty, EmptySeq
<1>2. ASSUME NEW x \in Seq(Entry), NEW e \in Entry, x \in good
      PROVE  Append(x, e) \in good
  <2> DEFINE c == MergeSameRole(x)
             d == MergeIn(c, e)
  <2>1. MergeSameRole(Append(x, e)) = d
    BY MergeAppend
  <2>2. c \in Seq(Entry) /\ Contents(c) = Contents(x) /\ Answers(c) = Answers(x)
    BY <1>2, MergeType, EntryClosed
  <2> HIDE DEF c
  <2>3. d \in Seq(Entry) /\ (d = Append(c, e) \/ Joined(c, e, d))
    BY <2>2, MergeCases, EntryClosed
  <2> HIDE DEF d
  <2>4. /\ Contents(Append(x, e)) = Contents(x) \o e.content
        /\ Answers(Append(x, e)) = Answers(x) \o AnswerOf(e)
    BY SumsAppend
  <2>5. Contents(d) = Contents(c) \o e.content
    <3>1. CASE d = Append(c, e)
      BY <2>2, <3>1, SumsAppend
    <3>2. CASE Joined(c, e, d)
      BY <2>2, <2>3, <3>2, JoinedSums
    <3> QED BY <2>3, <3>1, <3>2
  <2>6. Answers(d) = Answers(c) \o AnswerOf(e)
    <3>1. CASE d = Append(c, e)
      BY <2>2, <3>1, SumsAppend
    <3>2. CASE Joined(c, e, d)
      <4>1. Answers(d) = Answers(c) /\ AnswerOf(e) = <<>> /\ Answers(c) \in Seq(Place)
        BY <2>2, <2>3, <3>2, JoinedSums, SumsType
      <4> QED BY <4>1, ConcatEmptySeq
    <3> QED BY <2>3, <3>1, <3>2
  <2> QED BY <2>1, <2>2, <2>4, <2>5, <2>6, AppendProperties
<1> HIDE DEF good
<1>3. Seq(Entry) \subseteq good
  BY <1>1, <1>2, ListInduction
<1>4. MergeSameRole(ms) \in Seq(Entry)
  BY MergeType, EntryClosed
<1> QED BY <1>3, <1>4 DEF good
\* All of c but its last message is at the same place in d.
Extends(c, d) == Len(c) <= Len(d) /\ \A i \in 1 .. Len(c) - 1 : c[i] = d[i]

LEMMA ExtendsOn ==
  ASSUME NEW L, NEW b \in Seq(L), NEW c \in Seq(L), NEW d \in Seq(L),
         Extends(b, c), Extends(c, d)
  PROVE  Extends(b, d)
<1>1. Len(b) \in Nat /\ Len(c) \in Nat /\ Len(d) \in Nat /\ Len(b) <= Len(c) /\ Len(c) <= Len(d)
  BY DEF Extends
<1>2. ASSUME NEW i \in 1 .. Len(b) - 1 PROVE b[i] = d[i]
  <2>1. i \in 1 .. Len(c) - 1
    BY <1>1
  <2> QED BY <2>1 DEF Extends
<1> QED BY <1>1, <1>2 DEF Extends

LEMMA ExtendsBehind ==
  ASSUME NEW L, NEW s \in Seq(L), NEW c \in Seq(L), NEW d \in Seq(L), Extends(c, d)
  PROVE  Extends(s \o c, s \o d)
<1> DEFINE x == s \o c
           y == s \o d
<1>1. /\ Len(s) \in Nat /\ Len(c) \in Nat /\ Len(d) \in Nat
      /\ Len(x) = Len(s) + Len(c) /\ Len(y) = Len(s) + Len(d)
      /\ \A i \in 1 .. Len(s) : x[i] = s[i] /\ y[i] = s[i]
      /\ \A i \in 1 .. Len(c) : x[Len(s) + i] = c[i]
      /\ \A i \in 1 .. Len(d) : y[Len(s) + i] = d[i]
  <2>1. \A i \in 1 .. Len(c) : x[Len(s) + i] = c[i]
    OBVIOUS
  <2>2. \A i \in 1 .. Len(d) : y[Len(s) + i] = d[i]
    OBVIOUS
  <2> QED BY <2>1, <2>2
<1> HIDE DEF x, y
<1>2. Len(c) <= Len(d)
  BY DEF Extends
<1>3. ASSUME NEW i \in 1 .. Len(x) - 1 PROVE x[i] = y[i]
  <2>1. CASE i \in 1 .. Len(s)
    BY <1>1, <2>1
  <2>2. CASE i \notin 1 .. Len(s)
    <3> DEFINE j == i - Len(s)
    <3>1. j \in 1 .. Len(c) - 1 /\ i = Len(s) + j
      BY <1>1, <2>2
    <3> HIDE DEF j
    <3>2. j \in 1 .. Len(c) /\ j \in 1 .. Len(d) /\ c[j] = d[j]
      BY <1>1, <1>2, <3>1 DEF Extends
    <3> QED BY <1>1, <3>1, <3>2
  <2> QED BY <2>1, <2>2
<1> QED BY <1>1, <1>2, <1>3 DEF Extends, x, y

\* Whatever is merged into it, a request stays what it was but for its last message.
LEMMA MergeExtends ==
  ASSUME NEW ms \in Seq(Entry), NEW x \in Seq(Entry)
  PROVE  Extends(MergeSameRole(ms), MergeSameRole(ms \o x))
<1> DEFINE good == {y \in Seq(Entry) : Extends(MergeSameRole(ms), MergeSameRole(ms \o y))}
<1>1. <<>> \in good
  <2>1. Len(MergeSameRole(ms)) \in Nat
    BY MergeSums
  <2> QED BY <2>1, EmptySeq, ConcatEmptySeq DEF Extends
<1>2. ASSUME NEW y \in Seq(Entry), NEW e \in Entry, y \in good
      PROVE  Append(y, e) \in good
  <2> DEFINE c == MergeSameRole(ms \o y)
             d == MergeIn(c, e)
  <2>1. ms \o Append(y, e) = Append(ms \o y, e) /\ ms \o y \in Seq(Entry)
    BY ConcatAppend, ConcatProperties
  <2>2. MergeSameRole(ms \o Append(y, e)) = d
    BY <2>1, MergeAppend
  <2>3. c \in Seq(Entry) /\ MergeSameRole(ms) \in Seq(Entry) /\ Extends(MergeSameRole(ms), c)
    BY <1>2, <2>1, MergeSums
  <2> HIDE DEF c
  <2>4. d \in Seq(Entry) /\ (d = Append(c, e) \/ Joined(c, e, d))
    BY <2>3, MergeCases, EntryClosed
  <2> HIDE DEF d
  <2>5. Extends(c, d)
    <3>1. Len(c) \in Nat
      BY <2>3
    <3>2. CASE d = Append(c, e)
      BY <2>3, <3>1, <3>2 DEF Extends
    <3>3. CASE Joined(c, e, d)
      BY <3>1, <3>3 DEF Extends, Joined
    <3> QED BY <2>4, <3>2, <3>3
  <2>6. Extends(MergeSameRole(ms), d)
    BY <2>3, <2>4, <2>5, ExtendsOn
  <2> QED BY <2>2, <2>6, AppendProperties
<1> HIDE DEF good
<1>3. Seq(Entry) \subseteq good
  BY <1>1, <1>2, ListInduction
<1> QED BY <1>3 DEF good

-----------------------------------------------------------------------------
(* What of a message's blocks its entries carry. *)

LEMMA FlattenSingles ==
  ASSUME NEW L, NEW s \in Seq(L)
  PROVE  FlattenSeq([k \in 1 .. Len(s) |-> <<s[k]>>]) = s
<1>1. Those(s, L) = FlattenSeq([k \in 1 .. Len(s) |-> <<s[k]>>])
  <2>1. \A k \in 1 .. Len(s) : (IF s[k] \in L THEN <<s[k]>> ELSE <<>>) = <<s[k]>>
    OBVIOUS
  <2>2. [k \in 1 .. Len(s) |-> IF s[k] \in L THEN <<s[k]>> ELSE <<>>]
          = [k \in 1 .. Len(s) |-> <<s[k]>>]
    BY <2>1
  <2> QED BY <2>2 DEF Those
<1> QED BY <1>1, ThoseAll

LEMMA FlattenNothing ==
  ASSUME NEW L, NEW s \in Seq(L)
  PROVE  FlattenSeq([k \in 1 .. Len(s) |-> <<>>]) = <<>>
<1>1. Those(s, {}) = FlattenSeq([k \in 1 .. Len(s) |-> <<>>])
  BY DEF Those
<1> QED BY <1>1, ThoseNone

LEMMA ToolSums ==
  ASSUME NEW t \in Seq(Message), NEW i \in 1 .. Len(t)
  PROVE  LET tools == ToolMessages(i, t[i])
             results == Places(i, t[i], "tool_result")
         IN  /\ Contents(tools) = results /\ Calls(tools) = <<>>
             /\ Answers(tools) = [k \in 1 .. Len(results) |-> t[i].blocks[results[k][2]].answers]
             /\ \A k \in 1 .. Len(tools) :
                  tools[k].answers = t[i].blocks[results[k][2]].answers
<1> DEFINE tools == ToolMessages(i, t[i])
           results == Places(i, t[i], "tool_result")
           answers == [k \in 1 .. Len(results) |-> t[i].blocks[results[k][2]].answers]
<1>1. results \in Seq(Place) /\ tools \in Seq(Tool) /\ Len(tools) = Len(results)
  BY PlacesSpots, ToolMessagesType
<1>2. \A k \in 1 .. Len(results) :
        /\ tools[k].role = "tool" /\ tools[k].content = <<results[k]>>
        /\ tools[k].calls = <<>> /\ tools[k].answers = answers[k]
  <2> HIDE DEF results
  <2> QED BY DEF ToolMessages, results
<1> HIDE DEF tools, results
<1>3. Contents(tools) = results
  <2>1. [k \in 1 .. Len(tools) |-> tools[k].content] = [k \in 1 .. Len(results) |-> <<results[k]>>]
    BY <1>1, <1>2
  <2> QED BY <1>1, <2>1, FlattenSingles DEF Contents
<1>4. Calls(tools) = <<>>
  <2>1. [k \in 1 .. Len(tools) |-> tools[k].calls] = [k \in 1 .. Len(results) |-> <<>>]
    BY <1>1, <1>2
  <2> QED BY <1>1, <2>1, FlattenNothing DEF Calls
<1>5. Answers(tools) = answers
  <2>1. Len(results) \in Nat /\ \A k \in 1 .. Len(results) : tools[k] \in Tool
    BY <1>1
  <2>2. \A k \in 1 .. Len(results) : answers[k] \in Place
    BY <1>2, <2>1, EntryIs DEF Tool
  <2>3. answers \in Seq(Place) /\ Len(answers) = Len(results)
    BY <2>1, <2>2
  <2>4. \A k \in 1 .. Len(results) : AnswerOf(tools[k]) = <<answers[k]>>
    BY <1>2 DEF AnswerOf
  <2> HIDE DEF answers
  <2>5. [k \in 1 .. Len(tools) |-> AnswerOf(tools[k])] = [k \in 1 .. Len(answers) |-> <<answers[k]>>]
    BY <1>1, <2>3, <2>4
  <2> QED BY <2>3, <2>5, FlattenSingles DEF Answers
<1> QED BY <1>1, <1>2, <1>3, <1>4, <1>5 DEF tools, results

LEMMA EntriesContents ==
  ASSUME NEW t \in Seq(Message), NEW i \in 1 .. Len(t)
  PROVE  Contents(Entries(i, t[i])) = Places(i, t[i], "tool_result") \o
           (IF Places(i, t[i], "text") = <<>> /\ Places(i, t[i], "tool_use") = <<>>
            THEN <<>> ELSE Places(i, t[i], "text") \o Places(i, t[i], "image"))
<1> DEFINE tools == ToolMessages(i, t[i])
           results == Places(i, t[i], "tool_result")
           silent == Places(i, t[i], "text") = <<>> /\ Places(i, t[i], "tool_use") = <<>>
           said == Places(i, t[i], "text") \o Places(i, t[i], "image")
           spoken == Spoken(i, t[i])
<1>1. Contents(tools) = results /\ results \in Seq(Place)
  BY ToolSums, PlacesSpots
<1>2. tools \in Seq(Entry) /\ spoken \in Entry /\ spoken.content = said
  <2>1. tools \in Seq(Tool) /\ Tool \subseteq Entry
    BY ToolMessagesType DEF Tool
  <2>2. spoken \in EntryOf(t) /\ spoken.content = said
    BY SpokenType
  <2> QED BY <2>1, <2>2, SeqMonotonic DEF EntryOf
<1>3. Entries(i, t[i]) = IF silent THEN tools ELSE Append(tools, spoken)
  BY DEF Entries
<1> HIDE DEF tools, results, silent, said, spoken
<1>4. Contents(Append(tools, spoken)) = results \o said
  BY <1>1, <1>2, SumsAppend
<1>5. results \o <<>> = results
  BY <1>1, ConcatEmptySeq
<1>6. Contents(Entries(i, t[i])) = results \o (IF silent THEN <<>> ELSE said)
  BY <1>1, <1>3, <1>4, <1>5
<1> QED BY <1>6 DEF results, silent, said
-----------------------------------------------------------------------------
(* Every text, result and image, in order. *)

\* The images of messages that have a text.
Kept(t) == {p \in OfIn(t, "image") : Places(p[1], t[p[1]], "text") # <<>>}

\* What a list of places has to hold for the transcript t.
Carries(places, t) ==
  /\ Those(places, OfIn(t, "text")) = AllIn(t, "text")
  /\ Those(places, OfIn(t, "tool_result")) = AllIn(t, "tool_result")
  /\ Those(places, OfIn(t, "image")) = Those(AllIn(t, "image"), Kept(t))

LEMMA Filtered ==
  ASSUME NEW t \in Seq(Message), NEW i \in 1 .. Len(t), NEW x, NEW y
  PROVE  /\ x = y => Those(Places(i, t[i], x), OfIn(t, y)) = Places(i, t[i], x)
         /\ x # y => Those(Places(i, t[i], x), OfIn(t, y)) = <<>>
<1> DEFINE A == Cells(i, t[i], x)
           B == OfIn(t, y)
           s == Places(i, t[i], x)
<1>1. s \in Seq(A)
  BY PlacesSpots, PlacesType
<1>2. Len(t[i].blocks) \in Nat
  BY PlacesSpots, MessageIs
<1>3. x = y => A \subseteq B
  BY <1>2 DEF Cells, OfIn
<1>4. x # y => A \cap B = {}
  BY DEF Cells, OfIn
<1> HIDE DEF A, B, s
<1>5. x = y => Those(s, B) = s
  BY <1>1, <1>3, ThoseAll
<1>6. x # y => Those(s, B) = <<>>
  BY <1>1, <1>4, ThoseNone
<1> QED BY <1>5, <1>6 DEF B, s

LEMMA ContentsOfMessage ==
  ASSUME NEW t \in Seq(Message), NEW i \in 1 .. Len(t)
  PROVE  LET said == Contents(Entries(i, t[i])) IN
         /\ said \in Seq(Place)
         /\ Those(said, OfIn(t, "text")) = Places(i, t[i], "text")
         /\ Those(said, OfIn(t, "tool_result")) = Places(i, t[i], "tool_result")
         /\ Those(said, OfIn(t, "image")) = Those(Places(i, t[i], "image"), Kept(t))
<1> DEFINE text == Places(i, t[i], "text")
           images == Places(i, t[i], "image")
           results == Places(i, t[i], "tool_result")
           calls == Places(i, t[i], "tool_use")
           T == OfIn(t, "text")
           R == OfIn(t, "tool_result")
           I == OfIn(t, "image")
           K == Kept(t)
           said == Contents(Entries(i, t[i]))
           rest == IF text = <<>> /\ calls = <<>> THEN <<>> ELSE text \o images
<1>1. text \in Seq(Place) /\ images \in Seq(Place) /\ results \in Seq(Place)
  BY PlacesSpots
<1>2. said = results \o rest
  BY EntriesContents
<1>3. Those(text, T) = text /\ Those(images, T) = <<>> /\ Those(results, T) = <<>>
  BY Filtered
<1>4. Those(text, R) = <<>> /\ Those(images, R) = <<>> /\ Those(results, R) = results
  BY Filtered
<1>5. Those(text, I) = <<>> /\ Those(images, I) = images /\ Those(results, I) = <<>>
  BY Filtered
<1>6. images \in Seq(Cells(i, t[i], "image")) /\ Len(t[i].blocks) \in Nat
  BY PlacesSpots, PlacesType, MessageIs
<1>7. text # <<>> => Those(images, K) = images
  <2>1. text # <<>> => Cells(i, t[i], "image") \subseteq K
    BY <1>6 DEF Cells, Kept, OfIn
  <2> HIDE DEF text, images, K
  <2> QED BY <1>6, <2>1, ThoseAll
<1>8. text = <<>> => Those(images, K) = <<>>
  <2>1. text = <<>> => Cells(i, t[i], "image") \cap K = {}
    BY DEF Cells, Kept
  <2> HIDE DEF text, images, K
  <2> QED BY <1>6, <2>1, ThoseNone
<1>9. calls # <<>> => images = <<>>
  BY PlacesSpots, PlacesOfSides, MessageIs
<1> HIDE DEF text, images, results, calls, T, R, I, K, said
<1>10. rest \in Seq(Place)
  BY <1>1, ConcatProperties, EmptySeq
<1>11. \A S : Those(rest, S) = IF text = <<>> /\ calls = <<>> THEN <<>>
                               ELSE Those(text, S) \o Those(images, S)
  <2> TAKE S
  <2>1. Those(text \o images, S) = Those(text, S) \o Those(images, S)
    BY <1>1, ThoseConcat
  <2>2. Those(<<>>, S) = <<>>
    BY ThoseEmpty
  <2> QED BY <2>1, <2>2
<1> HIDE DEF rest
<1>12. \A S : Those(said, S) = Those(results, S) \o Those(rest, S)
  BY <1>1, <1>2, <1>10, ThoseConcat
<1>13. /\ text \o <<>> = text /\ <<>> \o images = images
       /\ results \o <<>> = results /\ <<>> \o text = text
       /\ <<>> \o <<>> = <<>>
  BY <1>1, ConcatEmptySeq
<1>14. Those(said, T) = text
  <2>1. Those(rest, T) = IF text = <<>> /\ calls = <<>> THEN <<>> ELSE text \o <<>>
    BY <1>3, <1>11
  <2>2. Those(said, T) = <<>> \o Those(rest, T)
    BY <1>3, <1>12
  <2> QED BY <2>1, <2>2, <1>13
<1>15. Those(said, R) = results
  <2>1. Those(rest, R) = <<>>
    BY <1>4, <1>11, <1>13
  <2>2. Those(said, R) = results \o Those(rest, R)
    BY <1>4, <1>12
  <2> QED BY <2>1, <2>2, <1>13
<1>16. Those(said, I) = Those(images, K)
  <2>1. Those(rest, I) = IF text = <<>> /\ calls = <<>> THEN <<>> ELSE images
    BY <1>5, <1>11, <1>13
  <2>2. Those(said, I) = <<>> \o Those(rest, I)
    BY <1>5, <1>12
  <2>3. Those(rest, I) = Those(images, K)
    BY <1>7, <1>8, <1>9, <2>1
  <2>4. <<>> \o Those(rest, I) = Those(rest, I)
    BY <2>1, <1>13
  <2> QED BY <2>2, <2>3, <2>4
<1>17. said \in Seq(Place)
  BY <1>1, <1>2, <1>10, ConcatProperties
<1> QED BY <1>14, <1>15, <1>16, <1>17 DEF said, T, R, I, K, text, images, results

LEMMA ContentsSpots ==
  ASSUME NEW t, NEW c \in Seq(EntryOf(t))
  PROVE  Contents(c) \in Seq(PlacesIn(t))
<1> DEFINE x == [k \in 1 .. Len(c) |-> c[k].content]
           P == PlacesIn(t)
<1>1. \A k \in 1 .. Len(c) : c[k] \in EntryOf(t)
  OBVIOUS
<1>2. \A k \in 1 .. Len(c) : c[k].content \in Seq(P)
  BY <1>1 DEF EntryOf
<1>3. Len(c) \in Nat
  OBVIOUS
<1> HIDE DEF P
<1>4. x \in Seq(Seq(P))
  BY <1>2, <1>3
<1> HIDE DEF x
<1>5. FlattenSeq(x) \in Seq(P)
  BY <1>4, FlattenType
<1> QED BY <1>5 DEF Contents, x, P

LEMMA TranscriptCarried ==
  ASSUME NEW t \in Seq(Message)
  PROVE  Carries(Contents(EntriesOf(t)), t)
<1> DEFINE good == {u \in Seq(Message) : Carries(Contents(EntriesOf(u)), u)}
<1>1. <<>> \in good
  <2>1. EntriesOf(<<>>) = <<>> /\ \A x : AllIn(<<>>, x) = <<>>
    <3>1. [i \in 1 .. Len(<<>>) |-> Entries(i, <<>>[i])] = <<>>
      OBVIOUS
    <3>2. \A x : [i \in 1 .. Len(<<>>) |-> Places(i, <<>>[i], x)] = <<>>
      OBVIOUS
    <3> QED BY <3>1, <3>2, FlattenEmpty DEF EntriesOf, AllIn
  <2> QED BY <2>1, SumsEmpty, ThoseEmpty, EmptySeq DEF Carries
<1>2. ASSUME NEW u \in Seq(Message), NEW m \in Message, u \in good
      PROVE  Append(u, m) \in good
  <2> DEFINE v == Append(u, m)
             n == Len(u) + 1
             old == Contents(EntriesOf(u))
             said == Contents(Entries(n, m))
  <2>1. /\ v \in Seq(Message) /\ Len(v) = n /\ Len(u) \in Nat
        /\ v[n] = m /\ n \in 1 .. Len(v)
        /\ \A i \in 1 .. Len(u) : v[i] = u[i] /\ i \in 1 .. Len(v)
    BY AppendedIs
  <2>2. EntriesOf(v) = EntriesOf(u) \o Entries(n, m)
    BY EntriesOfAppend
  <2>3. \A x : AllIn(v, x) = AllIn(u, x) \o Places(n, m, x)
    BY AllInAppend
  <2> HIDE DEF v
  <2>4. Entries(n, m) \in Seq(Entry) /\ EntriesOf(u) \in Seq(Entry)
    <3>1. Entries(n, v[n]) \in Seq(EntryOf(v)) /\ EntryOf(v) \subseteq Entry
      BY <2>1, EntriesType DEF EntryOf
    <3>2. Entries(n, m) \in Seq(EntryOf(v))
      BY <2>1, <3>1
    <3> QED BY <3>1, <3>2, SeqMonotonic, EntriesOfType
  <2>5. Contents(EntriesOf(v)) = old \o said
    <3> HIDE DEF n
    <3> QED BY <2>2, <2>4, SumsConcat
  <2>6. old \in Seq(PlacesIn(u)) /\ old \in Seq(Place)
    BY EntriesOfType, ContentsSpots, SumsType
  <2>7. /\ said \in Seq(Place)
        /\ Those(said, OfIn(v, "text")) = Places(n, m, "text")
        /\ Those(said, OfIn(v, "tool_result")) = Places(n, m, "tool_result")
        /\ Those(said, OfIn(v, "image")) = Those(Places(n, m, "image"), Kept(v))
    <3> HIDE DEF n
    <3> QED BY <2>1, ContentsOfMessage
  <2>8. Carries(old, u)
    BY <1>2
  <2> HIDE DEF n, old, said
  <2>9. /\ \A x : PlacesIn(u) \cap OfIn(u, x) = PlacesIn(u) \cap OfIn(v, x)
        /\ PlacesIn(u) \cap Kept(u) = PlacesIn(u) \cap Kept(v)
    <3>1. \A p \in PlacesIn(u) : p[1] \in 1 .. Len(u) /\ p \in (1 .. Len(u)) \X Nat
      BY DEF PlacesIn
    <3>2. \A p \in PlacesIn(u) : v[p[1]] = u[p[1]] /\ p[1] \in 1 .. Len(v)
      BY <2>1, <3>1
    <3>3. \A p \in PlacesIn(u) : p \in (1 .. Len(v)) \X Nat
      BY <3>1, <3>2
    <3>4. \A x : \A p \in PlacesIn(u) : p \in OfIn(u, x) <=> p \in OfIn(v, x)
      BY <3>1, <3>2, <3>3 DEF OfIn
    <3>5. \A p \in PlacesIn(u) : p \in Kept(u) <=> p \in Kept(v)
      BY <3>2, <3>4 DEF Kept
    <3> QED BY <3>4, <3>5
  <2>10. /\ \A x : Those(old, OfIn(u, x)) = Those(old, OfIn(v, x))
         /\ Those(AllIn(u, "image"), Kept(u)) = Those(AllIn(u, "image"), Kept(v))
    <3>1. AllIn(u, "image") \in Seq(PlacesIn(u))
      BY AllInType
    <3> QED BY <2>6, <2>9, <3>1, ThoseAgree
  <2>11. \A S : Those(old \o said, S) = Those(old, S) \o Those(said, S)
    BY <2>6, <2>7, ThoseConcat
  <2>12. Those(old \o said, OfIn(v, "text")) = AllIn(v, "text")
    BY <2>3, <2>7, <2>8, <2>10, <2>11 DEF Carries
  <2>13. Those(old \o said, OfIn(v, "tool_result")) = AllIn(v, "tool_result")
    BY <2>3, <2>7, <2>8, <2>10, <2>11 DEF Carries
  <2>14. Those(old \o said, OfIn(v, "image")) = Those(AllIn(v, "image"), Kept(v))
    <3>1. Those(old \o said, OfIn(v, "image"))
            = Those(AllIn(u, "image"), Kept(v)) \o Those(Places(n, m, "image"), Kept(v))
      BY <2>7, <2>8, <2>10, <2>11 DEF Carries
    <3>2. AllIn(u, "image") \in Seq(Place) /\ Places(n, m, "image") \in Seq(Place)
      BY <2>1, AllInType, PlacesSpots
    <3> DEFINE a == AllIn(u, "image")
               b == Places(n, m, "image")
               K == Kept(v)
    <3>3. AllIn(v, "image") = a \o b
      BY <2>3
    <3>4. a \in Seq(Place) /\ b \in Seq(Place)
      BY <3>2
    <3> HIDE DEF a, b, K
    <3>5. Those(a \o b, K) = Those(a, K) \o Those(b, K)
      BY <3>4, ThoseConcat
    <3> QED BY <3>1, <3>3, <3>5 DEF a, b, K
  <2> QED BY <2>1, <2>5, <2>12, <2>13, <2>14 DEF Carries, v
<1> HIDE DEF good
<1>3. Seq(Message) \subseteq good
  BY <1>1, <1>2, ListInduction
<1> QED BY <1>3 DEF good
-----------------------------------------------------------------------------
(* Calls and their results. *)

\* Every tool message answers a call of the message right before it and its like.
Paired(c) ==
  \A k \in 1 .. Len(c) : c[k].role = "tool" =>
    \E h \in 1 .. k - 1 :
      /\ c[h].role # "tool"
      /\ \A m \in h + 1 .. k - 1 : c[m].role = "tool"
      /\ \E n \in 1 .. Len(c[h].calls) : c[h].calls[n] = c[k].answers

LEMMA PairedJoined ==
  ASSUME NEW c \in Seq(Entry), NEW e, NEW d \in Seq(Entry), Joined(c, e, d), Paired(c)
  PROVE  Paired(d)
<1>1. Len(d) = Len(c) /\ Len(c) \in Nat
      /\ \A k \in 1 .. Len(c) :
           d[k].role = c[k].role /\ d[k].answers = c[k].answers /\ d[k].calls = c[k].calls
  BY DEF Joined
<1>2. ASSUME NEW k \in 1 .. Len(d), d[k].role = "tool"
      PROVE  \E h \in 1 .. k - 1 :
               /\ d[h].role # "tool"
               /\ \A m \in h + 1 .. k - 1 : d[m].role = "tool"
               /\ \E n \in 1 .. Len(d[h].calls) : d[h].calls[n] = d[k].answers
  <2>1. k \in 1 .. Len(c) /\ c[k].role = "tool"
    BY <1>1, <1>2
  <2>2. PICK h \in 1 .. k - 1 :
          /\ c[h].role # "tool"
          /\ \A m \in h + 1 .. k - 1 : c[m].role = "tool"
          /\ \E n \in 1 .. Len(c[h].calls) : c[h].calls[n] = c[k].answers
    BY <2>1 DEF Paired
  <2>3. h \in 1 .. Len(c) /\ \A m \in h + 1 .. k - 1 : m \in 1 .. Len(c)
    BY <1>1, <2>1
  <2>4. \A m \in h + 1 .. k - 1 : d[m].role = "tool"
    BY <1>1, <2>2, <2>3
  <2> QED BY <1>1, <2>1, <2>2, <2>3, <2>4
<1> QED BY <1>2 DEF Paired

\* What comes later changes nothing of what is paired.
LEMMA PairedBefore ==
  ASSUME NEW c \in Seq(Entry), NEW d \in Seq(Entry), Len(c) <= Len(d), Paired(c),
         \A k \in 1 .. Len(c) : d[k] = c[k], NEW k \in 1 .. Len(c), d[k].role = "tool"
  PROVE  \E h \in 1 .. k - 1 :
           /\ d[h].role # "tool"
           /\ \A m \in h + 1 .. k - 1 : d[m].role = "tool"
           /\ \E n \in 1 .. Len(d[h].calls) : d[h].calls[n] = d[k].answers
<1>1. Len(c) \in Nat /\ c[k].role = "tool"
  OBVIOUS
<1>2. PICK h \in 1 .. k - 1 :
        /\ c[h].role # "tool"
        /\ \A m \in h + 1 .. k - 1 : c[m].role = "tool"
        /\ \E n \in 1 .. Len(c[h].calls) : c[h].calls[n] = c[k].answers
  BY <1>1 DEF Paired
<1>3. h \in 1 .. Len(c) /\ \A m \in h + 1 .. k - 1 : m \in 1 .. Len(c)
  BY <1>1
<1>4. \A m \in h + 1 .. k - 1 : d[m].role = "tool"
  BY <1>2, <1>3
<1>5. d[h] = c[h] /\ d[k] = c[k]
  BY <1>3
<1> QED BY <1>2, <1>4, <1>5

LEMMA PairedAppend ==
  ASSUME NEW c \in Seq(Entry), NEW e \in Entry, e.role # "tool", Paired(c)
  PROVE  Paired(Append(c, e))
<1> DEFINE d == Append(c, e)
<1>1. d \in Seq(Entry) /\ Len(d) = Len(c) + 1 /\ Len(c) \in Nat /\ d[Len(c) + 1] = e
      /\ \A k \in 1 .. Len(c) : d[k] = c[k]
  OBVIOUS
<1> HIDE DEF d
<1>2. ASSUME NEW k \in 1 .. Len(d), d[k].role = "tool"
      PROVE  k \in 1 .. Len(c)
  BY <1>1, <1>2
<1>3. Len(c) <= Len(d)
  BY <1>1
<1>4. Paired(d)
  BY <1>1, <1>2, <1>3, PairedBefore DEF Paired
<1> QED BY <1>4 DEF d

LEMMA PairedTools ==
  ASSUME NEW c \in Seq(Entry), NEW tools \in Seq(Tool), Paired(c),
         Len(tools) # 0 => Len(c) # 0 /\ c[Len(c)].role # "tool",
         \A k \in 1 .. Len(tools) :
           \E n \in 1 .. Len(c[Len(c)].calls) : c[Len(c)].calls[n] = tools[k].answers
  PROVE  Paired(c \o tools)
<1> DEFINE d == c \o tools
<1>1. tools \in Seq(Entry) /\ Len(tools) \in Nat /\ Len(c) \in Nat
  <2>1. Tool \subseteq Entry
    BY DEF Tool
  <2> QED BY <2>1, SeqMonotonic
<1>2. /\ d \in Seq(Entry) /\ Len(d) = Len(c) + Len(tools)
      /\ \A k \in 1 .. Len(c) : d[k] = c[k]
      /\ \A k \in Len(c) + 1 .. Len(d) : d[k] = tools[k - Len(c)]
                                        /\ k - Len(c) \in 1 .. Len(tools)
  BY <1>1
<1> HIDE DEF d
<1>3. \A k \in Len(c) + 1 .. Len(d) : d[k].role = "tool"
  BY <1>2 DEF Tool
<1>4. ASSUME NEW k \in Len(c) + 1 .. Len(d)
      PROVE  \E h \in 1 .. k - 1 :
               /\ d[h].role # "tool"
               /\ \A m \in h + 1 .. k - 1 : d[m].role = "tool"
               /\ \E n \in 1 .. Len(d[h].calls) : d[h].calls[n] = d[k].answers
  <2>1. k - Len(c) \in 1 .. Len(tools) /\ Len(c) # 0 /\ c[Len(c)].role # "tool"
    BY <1>1, <1>2
  <2>2. Len(c) \in 1 .. k - 1 /\ d[Len(c)] = c[Len(c)]
    BY <1>1, <1>2, <2>1
  <2>3. \A m \in Len(c) + 1 .. k - 1 : m \in Len(c) + 1 .. Len(d)
    BY <1>1, <1>2
  <2>4. \E n \in 1 .. Len(c[Len(c)].calls) : c[Len(c)].calls[n] = d[k].answers
    BY <1>2, <2>1
  <2> QED BY <1>3, <2>1, <2>2, <2>3, <2>4
<1>5. \A k \in 1 .. Len(d) : k \in 1 .. Len(c) \/ k \in Len(c) + 1 .. Len(d)
  BY <1>1, <1>2
<1>6. Len(c) <= Len(d)
  BY <1>1, <1>2
<1>7. Paired(d)
  BY <1>2, <1>4, <1>5, <1>6, PairedBefore DEF Paired
<1> QED BY <1>7 DEF d

\* Tool messages are left alone.
LEMMA MergeTools ==
  ASSUME NEW ms \in Seq(Entry), NEW tools \in Seq(Tool)
  PROVE  MergeSameRole(ms \o tools) = MergeSameRole(ms) \o tools
<1> DEFINE c == MergeSameRole(ms)
           good == {x \in Seq(Tool) : MergeSameRole(ms \o x) = c \o x}
<1>0. c \in Seq(Entry) /\ Tool \subseteq Entry
  BY MergeSums DEF Tool
<1> HIDE DEF c
<1>1. <<>> \in good
  BY <1>0, EmptySeq, ConcatEmptySeq DEF c
<1>2. ASSUME NEW x \in Seq(Tool), NEW e \in Tool, x \in good
      PROVE  Append(x, e) \in good
  <2>1. x \in Seq(Entry) /\ e \in Entry
    BY <1>0, SeqMonotonic
  <2> DEFINE b == c \o x
  <2>2. ms \o Append(x, e) = Append(ms \o x, e) /\ ms \o x \in Seq(Entry)
        /\ c \o Append(x, e) = Append(b, e) /\ b \in Seq(Entry)
    BY <1>0, <2>1, ConcatAppend, ConcatProperties
  <2>3. MergeSameRole(ms \o Append(x, e)) = MergeIn(b, e)
    BY <1>2, <2>1, <2>2, MergeAppend
  <2> HIDE DEF b
  <2>4. ~ Joined(b, e, MergeIn(b, e))
    <3>1. SUFFICES ASSUME Len(b) # 0, Mergeable(b[Len(b)], e) PROVE FALSE
      BY DEF Joined
    <3>2. b[Len(b)] \in Entry
      BY <2>2, <3>1
    <3> QED BY <3>1, <3>2, EntryIs DEF Mergeable, Tool
  <2>5. MergeIn(b, e) = Append(b, e)
    BY <2>1, <2>2, <2>4, MergeCases, EntryClosed
  <2> QED BY <2>2, <2>3, <2>5, AppendProperties
<1> HIDE DEF good
<1>3. Seq(Tool) \subseteq good
  BY <1>1, <1>2, ListInduction
<1> QED BY <1>3 DEF good, c

LEMMA OutAppend ==
  ASSUME NEW t \in Seq(Message), NEW m \in Message
  PROVE  LET n == Len(t) + 1
             c == TranslateMessages(t)
             tools == ToolMessages(n, m)
         IN  /\ c \in Seq(Entry) /\ tools \in Seq(Tool) /\ c \o tools \in Seq(Entry)
             /\ Spoken(n, m) \in Entry
             /\ TranslateMessages(Append(t, m)) =
                  IF Places(n, m, "text") = <<>> /\ Places(n, m, "tool_use") = <<>>
                  THEN c \o tools ELSE MergeIn(c \o tools, Spoken(n, m))
<1> DEFINE n == Len(t) + 1
           v == Append(t, m)
           c == TranslateMessages(t)
           E == EntriesOf(t)
           tools == ToolMessages(n, m)
           spoken == Spoken(n, m)
           silent == Places(n, m, "text") = <<>> /\ Places(n, m, "tool_use") = <<>>
<1>1. v \in Seq(Message) /\ v[n] = m /\ n \in 1 .. Len(v)
  BY AppendedIs
<1>2. E \in Seq(Entry) /\ c = MergeSameRole(E) /\ c \in Seq(Entry)
  BY EntriesOfType, MergeSums DEF TranslateMessages, EntriesOf
<1>3. TranslateMessages(v) = MergeSameRole(E \o Entries(n, m))
  BY EntriesOfAppend DEF TranslateMessages, EntriesOf
<1>4. Entries(n, m) = IF silent THEN tools ELSE Append(tools, spoken)
  BY DEF Entries
<1> HIDE DEF v, n
<1>5. tools \in Seq(Tool) /\ tools \in Seq(Entry) /\ spoken \in Entry
  <2>1. tools \in Seq(Tool) /\ Tool \subseteq Entry
    BY <1>1, ToolMessagesType DEF Tool
  <2>2. spoken \in EntryOf(v)
    BY <1>1, SpokenType
  <2> QED BY <2>1, <2>2, SeqMonotonic DEF EntryOf
<1> HIDE DEF c, E, tools, spoken, silent
<1>6. MergeSameRole(E \o tools) = c \o tools /\ E \o tools \in Seq(Entry) /\ c \o tools \in Seq(Entry)
  BY <1>2, <1>5, MergeTools, ConcatProperties
<1>7. MergeSameRole(E \o Append(tools, spoken)) = MergeIn(c \o tools, spoken)
  <2>1. E \o Append(tools, spoken) = Append(E \o tools, spoken)
    BY <1>2, <1>5, ConcatAppend
  <2> QED BY <1>5, <1>6, <2>1, MergeAppend
<1>8. TranslateMessages(v) = IF silent THEN c \o tools ELSE MergeIn(c \o tools, spoken)
  BY <1>3, <1>4, <1>6, <1>7
<1> QED BY <1>2, <1>5, <1>6, <1>8 DEF v, n, c, tools, spoken, silent
\* Every message of the user's says something that is not an image.
HeardIn(t) ==
  \A i \in 1 .. Len(t) : t[i].role = "user" =>
    \E j \in 1 .. Len(t[i].blocks) : t[i].blocks[j].type \in {"text", "tool_result"}

\* The calls of the last message.
OpenIn(t) == IF t = <<>> THEN <<>> ELSE Places(Len(t), t[Len(t)], "tool_use")

\* The request c has every call of the transcript t, and an answer to each but those
\* that are open, which are the last thing it says.
Complete(t, c) ==
  /\ Calls(c) = AllIn(t, "tool_use")
  /\ Answers(c) \o OpenIn(t) = AllIn(t, "tool_use")
  /\ Paired(c)
  /\ Len(t) # 0 /\ t[Len(t)].role = "user" => Len(c) # 0 /\ c[Len(c)].role \in {"user", "tool"}
  /\ OpenIn(t) # <<>> =>
       Len(c) # 0 /\ c[Len(c)].role = "assistant" /\ c[Len(c)].calls = OpenIn(t)

Sound(t) == HeardIn(t) => Complete(t, TranslateMessages(t))

LEMMA HeardBefore ==
  ASSUME NEW t \in Seq(Message), NEW m \in Message, HeardIn(Append(t, m))
  PROVE  /\ HeardIn(t)
         /\ m.role = "user" =>
              \/ Places(Len(t) + 1, m, "text") # <<>>
              \/ Places(Len(t) + 1, m, "tool_result") # <<>>
<1> DEFINE v == Append(t, m)
<1>1. v[Len(t) + 1] = m /\ Len(t) + 1 \in 1 .. Len(v) /\ Len(t) + 1 \in Nat
      /\ \A i \in 1 .. Len(t) : v[i] = t[i] /\ i \in 1 .. Len(v)
  BY AppendedIs
<1>2. \A i \in 1 .. Len(v) : v[i].role = "user" =>
        \E j \in 1 .. Len(v[i].blocks) : v[i].blocks[j].type \in {"text", "tool_result"}
  BY DEF HeardIn
<1> HIDE DEF v
<1>3. HeardIn(t)
  BY <1>1, <1>2 DEF HeardIn
<1>4. ASSUME m.role = "user"
      PROVE  \/ Places(Len(t) + 1, m, "text") # <<>>
             \/ Places(Len(t) + 1, m, "tool_result") # <<>>
  <2>1. PICK j \in 1 .. Len(m.blocks) : m.blocks[j].type \in {"text", "tool_result"}
    BY <1>1, <1>2, <1>4
  <2> QED BY <1>1, <2>1, PlacesSome
<1> QED BY <1>3, <1>4

LEMMA OpenAppend ==
  ASSUME NEW t \in Seq(Message), NEW m \in Message
  PROVE  OpenIn(Append(t, m)) = Places(Len(t) + 1, m, "tool_use")
<1>1. Append(t, m) # <<>> /\ Len(Append(t, m)) = Len(t) + 1 /\ Append(t, m)[Len(t) + 1] = m
  OBVIOUS
<1> QED BY <1>1 DEF OpenIn

LEMMA OpenType ==
  ASSUME NEW t \in Seq(Message)
  PROVE  /\ OpenIn(t) \in Seq(Place)
         /\ Len(t) # 0 /\ t[Len(t)].role = "user" => OpenIn(t) = <<>>
<1>1. CASE t = <<>>
  BY <1>1, EmptySeq DEF OpenIn
<1>2. CASE t # <<>>
  <2>1. Len(t) \in 1 .. Len(t) /\ Len(t) \in Nat /\ t[Len(t)] \in Message
    BY <1>2
  <2>2. OpenIn(t) = Places(Len(t), t[Len(t)], "tool_use")
    BY <1>2 DEF OpenIn
  <2> QED BY <2>1, <2>2, PlacesSpots, PlacesOfSides
<1> QED BY <1>1, <1>2

\* The user's next message, with the results of the open calls.
LEMMA UserKeepsSound ==
  ASSUME NEW t \in Seq(Message), NEW m \in Message, m.role = "user", Sound(t),
         LET results == Places(Len(t) + 1, m, "tool_result")
         IN  [k \in 1 .. Len(results) |-> m.blocks[results[k][2]].answers] = OpenIn(t)
  PROVE  Sound(Append(t, m))
<1> DEFINE n == Len(t) + 1
           v == Append(t, m)
           c == TranslateMessages(t)
           tools == ToolMessages(n, m)
           spoken == Spoken(n, m)
           silent == Places(n, m, "text") = <<>> /\ Places(n, m, "tool_use") = <<>>
           b == c \o tools
           d == TranslateMessages(v)
           open == OpenIn(t)
           all == AllIn(t, "tool_use")
           results == Places(n, m, "tool_result")
<1> SUFFICES ASSUME HeardIn(v) PROVE Complete(v, d)
  BY DEF Sound
<1>1. Complete(t, c) /\ (Places(n, m, "text") # <<>> \/ results # <<>>)
  BY HeardBefore DEF Sound
<1>2. /\ c \in Seq(Entry) /\ tools \in Seq(Tool) /\ b \in Seq(Entry) /\ spoken \in Entry
      /\ d = IF silent THEN b ELSE MergeIn(b, spoken)
  BY OutAppend
<1>3. v \in Seq(Message) /\ v[n] = m /\ n \in 1 .. Len(v) /\ n \in Nat /\ Len(v) = n
  BY AppendedIs
<1>4. Places(n, m, "tool_use") = <<>>
  BY <1>3, PlacesOfSides
<1>5. OpenIn(v) = <<>> /\ AllIn(v, "tool_use") = all
  <2>1. AllIn(v, "tool_use") = all \o <<>> /\ all \in Seq(Place)
    BY <1>4, AllInAppend, AllInType
  <2> QED BY <1>4, <2>1, OpenAppend, ConcatEmptySeq
<1>6. /\ Calls(tools) = <<>> /\ Answers(tools) = open /\ Len(tools) = Len(open)
      /\ \A k \in 1 .. Len(tools) : tools[k].answers = open[k]
      /\ Len(tools) = Len(results)
  <2>1. [k \in 1 .. Len(results) |-> m.blocks[results[k][2]].answers] = open
    OBVIOUS
  <2>2. results \in Seq(Place) /\ Len(tools) = Len(results)
    BY <1>3, PlacesSpots, ToolMessagesType
  <2> HIDE DEF v, open, n
  <2>3. /\ Calls(tools) = <<>>
        /\ Answers(tools) = [k \in 1 .. Len(results) |-> m.blocks[results[k][2]].answers]
        /\ \A k \in 1 .. Len(tools) : tools[k].answers = m.blocks[results[k][2]].answers
    <3> DEFINE ts == ToolMessages(n, v[n])
               rs == Places(n, v[n], "tool_result")
    <3>1. /\ Calls(ts) = <<>>
          /\ Answers(ts) = [k \in 1 .. Len(rs) |-> v[n].blocks[rs[k][2]].answers]
          /\ \A k \in 1 .. Len(ts) : ts[k].answers = v[n].blocks[rs[k][2]].answers
      BY <1>3, ToolSums
    <3>2. ts = tools /\ rs = results
      BY <1>3
    <3> QED BY <1>3, <3>1, <3>2
  <2> HIDE DEF results, tools
  <2>4. Len(open) = Len(results)
        /\ \A k \in 1 .. Len(results) : m.blocks[results[k][2]].answers = open[k]
    BY <2>1, <2>2
  <2> QED BY <2>1, <2>2, <2>3, <2>4
<1>7. results \in Seq(Place) /\ open \in Seq(Place) /\ all \in Seq(Place)
  BY <1>3, PlacesSpots, OpenType, AllInType
<1>8. spoken.role = "user" /\ spoken.calls = <<>> /\ spoken.answers = NoPlace
  BY <1>3, <1>4, SpokenType
<1> HIDE DEF n, v, c, tools, spoken, silent, d, open, all, results
<1>9. Calls(b) = all /\ Answers(b) = all
  <2>1. tools \in Seq(Entry)
    BY <1>2, SeqMonotonic, Tool \subseteq Entry DEF Tool
  <2>2. Calls(b) = Calls(c) \o Calls(tools) /\ Answers(b) = Answers(c) \o Answers(tools)
    BY <1>2, <2>1, SumsConcat
  <2>3. Calls(c) = all /\ Answers(c) \o open = all
    BY <1>1 DEF Complete, all, open
  <2> QED BY <1>6, <1>7, <2>2, <2>3, ConcatEmptySeq
<1>10. Paired(b)
  <2>1. Paired(c) /\ (open # <<>> => Len(c) # 0 /\ c[Len(c)].role = "assistant"
                                     /\ c[Len(c)].calls = open)
    BY <1>1 DEF Complete, open
  <2>2. Len(tools) # 0 => open # <<>>
    BY <1>6, <1>7
  <2>3. ASSUME NEW k \in 1 .. Len(tools)
        PROVE  \E x \in 1 .. Len(c[Len(c)].calls) : c[Len(c)].calls[x] = tools[k].answers
    <3>1. Len(tools) # 0
      BY <1>2
    <3>2. c[Len(c)].calls = open /\ tools[k].answers = open[k] /\ k \in 1 .. Len(open)
      BY <1>6, <2>1, <2>2, <3>1
    <3> QED BY <3>2
  <2> QED BY <1>2, <2>1, <2>2, <2>3, PairedTools
<1>11. /\ Calls(d) = all /\ Answers(d) = all /\ Paired(d)
       /\ Len(d) # 0 /\ d[Len(d)].role \in {"user", "tool"}
  <2>1. CASE silent
    <3>1. d = b /\ results # <<>>
      BY <1>1, <1>2, <2>1 DEF silent
    <3>2. Len(tools) # 0 /\ Len(tools) \in Nat /\ Len(c) \in Nat
      BY <1>2, <1>6, <1>7, <3>1
    <3>3. Len(b) = Len(c) + Len(tools) /\ b[Len(c) + Len(tools)] = tools[Len(tools)]
      BY <1>2, <3>2
    <3>4. tools[Len(tools)] \in Tool
      BY <1>2, <3>2
    <3> QED BY <1>9, <1>10, <3>1, <3>2, <3>3, <3>4 DEF Tool
  <2>2. CASE ~silent
    <3> HIDE DEF b
    <3>1. d = MergeIn(b, spoken)
      BY <1>2, <2>2
    <3>2. d \in Seq(Entry) /\ (d = Append(b, spoken) \/ Joined(b, spoken, d))
      BY <1>2, <3>1, MergeCases, EntryClosed
    <3>3. CASE d = Append(b, spoken)
      <4>1. Calls(d) = Calls(b) \o <<>> /\ Answers(d) = Answers(b) \o <<>>
        BY <1>2, <1>8, <3>3, SumsAppend DEF AnswerOf
      <4>2. Calls(d) = all /\ Answers(d) = all
        BY <1>7, <1>9, <4>1, ConcatEmptySeq
      <4>3. Paired(d)
        BY <1>2, <1>8, <1>10, <3>3, PairedAppend
      <4>4. Len(d) = Len(b) + 1 /\ d[Len(b) + 1] = spoken /\ Len(b) \in Nat
        BY <1>2, <3>3
      <4> QED BY <1>8, <4>2, <4>3, <4>4
    <3>4. CASE Joined(b, spoken, d)
      <4>1. Calls(d) = Calls(b) /\ Answers(d) = Answers(b)
        BY <1>2, <3>2, <3>4, JoinedSums
      <4>2. Paired(d)
        BY <1>2, <1>10, <3>2, <3>4, PairedJoined
      <4>3. Len(b) \in 1 .. Len(b)
        BY <1>2, <3>4 DEF Joined
      <4>4. Len(d) # 0 /\ d[Len(d)].role = spoken.role
        BY <3>4, <4>3 DEF Joined, Mergeable
      <4> QED BY <1>8, <1>9, <4>1, <4>2, <4>4
    <3> QED BY <3>2, <3>3, <3>4
  <2> QED BY <2>1, <2>2
<1>12. all \o <<>> = all
  BY <1>7, ConcatEmptySeq
<1> QED BY <1>5, <1>11, <1>12 DEF Complete

\* The answer to it, with calls or without.
LEMMA AssistantKeepsSound ==
  ASSUME NEW t \in Seq(Message), NEW m \in Message, m.role = "assistant", Sound(t),
         Len(t) # 0, t[Len(t)].role = "user"
  PROVE  Sound(Append(t, m))
<1> DEFINE n == Len(t) + 1
           v == Append(t, m)
           c == TranslateMessages(t)
           tools == ToolMessages(n, m)
           spoken == Spoken(n, m)
           calls == Places(n, m, "tool_use")
           silent == Places(n, m, "text") = <<>> /\ calls = <<>>
           d == TranslateMessages(v)
           all == AllIn(t, "tool_use")
<1> SUFFICES ASSUME HeardIn(v) PROVE Complete(v, d)
  BY DEF Sound
<1>1. Complete(t, c)
  BY HeardBefore DEF Sound
<1>2. /\ c \in Seq(Entry) /\ spoken \in Entry
      /\ d = IF silent THEN c \o tools ELSE MergeIn(c \o tools, spoken)
  BY OutAppend
<1>3. v \in Seq(Message) /\ v[n] = m /\ n \in 1 .. Len(v) /\ n \in Nat /\ Len(v) = n
  BY AppendedIs
<1>4. c \o tools = c
  <2>1. Places(n, m, "tool_result") = <<>>
    BY <1>3, PlacesOfSides
  <2>2. tools = <<>>
    BY <2>1 DEF ToolMessages
  <2> QED BY <1>2, <2>2, ConcatEmptySeq
<1>5. calls \in Seq(Place) /\ all \in Seq(Place)
  BY <1>3, PlacesSpots, AllInType
<1>6. OpenIn(v) = calls /\ AllIn(v, "tool_use") = all \o calls
  BY AllInAppend, OpenAppend
<1>7. OpenIn(t) = <<>>
  BY OpenType
<1>8. spoken.role = "assistant" /\ spoken.calls = calls /\ spoken.answers = NoPlace
  BY <1>3, SpokenType
<1> HIDE DEF n, v, c, tools, spoken, calls, d, all
<1>9. /\ Calls(c) = all /\ Answers(c) = all /\ Paired(c)
      /\ Len(c) # 0 /\ c[Len(c)].role \in {"user", "tool"}
  <2>1. Answers(c) \o <<>> = all /\ Answers(c) \in Seq(Place)
    BY <1>1, <1>2, <1>7, SumsType DEF Complete, all
  <2> QED BY <1>1, <2>1, ConcatEmptySeq DEF Complete, all
<1>10. v[Len(v)].role # "user"
  BY <1>3
<1>11. CASE silent
  <2>1. d = c /\ calls = <<>>
    BY <1>2, <1>4, <1>11
  <2> QED BY <1>5, <1>6, <1>9, <1>10, <2>1, ConcatEmptySeq DEF Complete
<1>12. CASE ~silent
  <2>1. d = MergeIn(c, spoken)
    BY <1>2, <1>4, <1>12
  <2>2. ~ Joined(c, spoken, d)
    BY <1>8, <1>9 DEF Joined, Mergeable
  <2>3. d = Append(c, spoken)
    BY <1>2, <2>1, <2>2, MergeCases, EntryClosed
  <2>4. Calls(d) = all \o calls /\ Answers(d) = all \o <<>>
    BY <1>2, <1>8, <1>9, <2>3, SumsAppend DEF AnswerOf
  <2>5. Answers(d) \o calls = all \o calls
    BY <1>5, <2>4, ConcatEmptySeq
  <2>6. Paired(d)
    BY <1>2, <1>8, <1>9, <2>3, PairedAppend
  <2>7. Len(d) = Len(c) + 1 /\ d[Len(c) + 1] = spoken /\ Len(c) \in Nat
    BY <1>2, <2>3
  <2> QED BY <1>6, <1>8, <1>10, <2>4, <2>5, <2>6, <2>7 DEF Complete
<1> QED BY <1>11, <1>12
-----------------------------------------------------------------------------
(* What the two sides say. *)

\* What the user says with the results of the open calls, and something else.
Saying(open, prompt) ==
  [role |-> "user",
   blocks |-> [k \in 1 .. Len(open) |-> [type |-> "tool_result", answers |-> open[k]]]
              \o [k \in 1 .. Len(prompt) |-> Plain(prompt[k])]]

\* The results are the open calls', one each and in their order.
LEMMA SayingIs ==
  ASSUME NEW open \in Seq(Place \ {NoPlace}), NEW prompt \in Seq({"text", "image"}),
         NEW n \in Nat
  PROVE  LET m == Saying(open, prompt)
             results == Places(n, m, "tool_result")
         IN  /\ m \in Message /\ m.role = "user"
             /\ [k \in 1 .. Len(results) |-> m.blocks[results[k][2]].answers] = open
<1> DEFINE m == Saying(open, prompt)
           q == Len(open)
           p == Len(prompt)
           a == [k \in 1 .. q |-> [type |-> "tool_result", answers |-> open[k]]]
           b == [k \in 1 .. p |-> Plain(prompt[k])]
           results == Places(n, m, "tool_result")
<1>1. q \in Nat /\ p \in Nat /\ Len(a) = q /\ Len(b) = p
  OBVIOUS
<1>2. a \in Seq(UserBlock)
  <2>1. \A k \in 1 .. q : [type |-> "tool_result", answers |-> open[k]] \in UserBlock
    BY DEF UserBlock
  <2> QED BY <1>1, <2>1
<1>3. b \in Seq(UserBlock)
  <2>1. NoPlace \in Place
    BY DEF NoPlace, Place
  <2>2. \A k \in 1 .. p : Plain(prompt[k]) \in UserBlock
    BY <2>1 DEF UserBlock, Plain
  <2> QED BY <1>1, <2>2
<1>4. \A k \in 1 .. q : a[k].type = "tool_result" /\ a[k].answers = open[k]
  OBVIOUS
<1>5. \A k \in 1 .. p : b[k].type # "tool_result"
  BY DEF Plain
<1>6. m = [role |-> "user", blocks |-> a \o b]
  BY DEF Saying
<1> HIDE DEF m, a, b, p, q
<1>7. /\ m.role = "user" /\ m.blocks \in Seq(UserBlock) /\ Len(m.blocks) = q + p
      /\ \A k \in 1 .. q : m.blocks[k] = a[k]
      /\ \A k \in q + 1 .. q + p : m.blocks[k] = b[k - q] /\ k - q \in 1 .. p
  <2>1. m.role = "user" /\ m.blocks = a \o b
    BY <1>6
  <2> DEFINE c == a \o b
  <2>2. c \in Seq(UserBlock) /\ Len(c) = q + p
    BY <1>1, <1>2, <1>3, ConcatProperties
  <2>3. \A k \in 1 .. q + p : c[k] = IF k <= q THEN a[k] ELSE b[k - q]
    BY <1>1, <1>2, <1>3, ConcatProperties
  <2> HIDE DEF c
  <2>4. \A k \in 1 .. q : k \in 1 .. q + p /\ k <= q
    BY <1>1
  <2>5. \A k \in q + 1 .. q + p : k \in 1 .. q + p /\ ~(k <= q) /\ k - q \in 1 .. p
    BY <1>1
  <2>6. m.blocks = c
    BY <2>1 DEF c
  <2> QED BY <2>1, <2>2, <2>3, <2>4, <2>5, <2>6
<1>8. m \in Message
  BY <1>2, <1>3, <1>6, ConcatProperties DEF Message, UserMessage
<1>9. results = [k \in 1 .. q |-> <<n, k>>]
  <2> DEFINE S == Cells(n, m, "tool_result")
             P == {n} \X (q + 1 .. q + p)
             R == {n} \X (1 .. q)
             T == {n} \X (1 .. q + p)
             x == [k \in 1 .. q |-> <<n, k>>]
             y == [k \in 1 .. p |-> <<n, q + k>>]
             row == [j \in 1 .. Len(m.blocks) |-> <<n, j>>]
  <2>1. results = Those(row, S)
    BY DEF Places, Cells
  <2>2. x \in Seq(R) /\ y \in Seq(P) /\ x \in Seq(T) /\ y \in Seq(T) /\ Len(x) = q /\ Len(y) = p
    BY <1>1
  <2>3. row = x \o y
    BY <1>1, <1>7
  <2>4. R \subseteq S
    BY <1>1, <1>4, <1>7 DEF Cells
  <2>5. P \cap S = {}
    <3>1. \A k \in q + 1 .. q + p : m.blocks[k].type # "tool_result"
      BY <1>5, <1>7
    <3> QED BY <3>1 DEF Cells
  <2> HIDE DEF S, P, R, T, x, y, row, results
  <2>6. Those(x, S) = x /\ Those(y, S) = <<>>
    BY <2>2, <2>4, <2>5, ThoseAll, ThoseNone
  <2>7. Those(x \o y, S) = Those(x, S) \o Those(y, S)
    BY <2>2, ThoseConcat
  <2>8. results = x
    BY <2>1, <2>2, <2>3, <2>6, <2>7, ConcatEmptySeq
  <2> QED BY <2>8 DEF x
<1> HIDE DEF results
<1>10. [k \in 1 .. Len(results) |-> m.blocks[results[k][2]].answers] = open
  <2>1. Len(results) = q /\ \A k \in 1 .. q : results[k][2] = k
    BY <1>1, <1>9
  <2>2. \A k \in 1 .. q : m.blocks[results[k][2]].answers = open[k]
    BY <1>4, <1>7, <2>1
  <2>3. open = [k \in 1 .. q |-> open[k]]
    BY DEF q
  <2> QED BY <2>1, <2>2, <2>3
<1> QED BY <1>7, <1>8, <1>10 DEF m, results

LEMMA ResponseIs ==
  ASSUME NEW reply \in Reply
  PROVE  TranslateResponse(reply) \in Message /\ TranslateResponse(reply).role = "assistant"
<1> DEFINE x == IF reply.reasoning THEN <<Plain("thinking")>> ELSE <<>>
           y == IF reply.content THEN <<Plain("text")>> ELSE <<>>
           z == [k \in 1 .. reply.calls |-> Plain("tool_use")]
<1>1. /\ Plain("thinking") \in AssistantBlock /\ Plain("text") \in AssistantBlock
      /\ Plain("tool_use") \in AssistantBlock
  BY DEF Plain, AssistantBlock, NoPlace, Place
<1>2. x \in Seq(AssistantBlock) /\ y \in Seq(AssistantBlock)
  BY <1>1, EmptySeq
<1>3. z \in Seq(AssistantBlock)
  <2>1. reply.calls \in Nat
    BY DEF Reply
  <2> QED BY <1>1, <2>1
<1>4. TranslateResponse(reply) = [role |-> "assistant", blocks |-> x \o y \o z]
  BY DEF TranslateResponse
<1> HIDE DEF x, y, z
<1>5. x \o y \o z \in Seq(AssistantBlock)
  BY <1>2, <1>3, ConcatProperties
<1> QED BY <1>4, <1>5 DEF Message, AssistantMessage

-----------------------------------------------------------------------------
(* The inductive invariant. *)

SystemPart == IF system THEN <<SystemMessage>> ELSE <<>>

LEMMA SystemPartIs ==
  /\ SystemPart \in Seq(Entry)
  /\ \A i \in 1 .. Len(SystemPart) : SystemPart[i] = SystemMessage
  /\ Contents(SystemPart) \in Seq({NoPlace})
  /\ Calls(SystemPart) = <<>> /\ Answers(SystemPart) = <<>>
<1>1. SystemMessage \in Entry
  <2>1. NoPlace \in Place
    BY DEF NoPlace, Place
  <2>2. <<NoPlace>> \in Seq(Place) /\ <<>> \in Seq(Place)
    BY <2>1, EmptySeq
  <2> QED BY <2>1, <2>2 DEF Entry, SystemMessage
<1>2. CASE ~system
  <2>1. SystemPart = <<>> /\ Len(<<>>) = 0
    BY <1>2 DEF SystemPart
  <2>2. <<>> \in Seq(Entry) /\ <<>> \in Seq({NoPlace})
    BY EmptySeq
  <2>3. \A i \in 1 .. Len(SystemPart) : SystemPart[i] = SystemMessage
    BY <2>1
  <2>4. /\ Contents(SystemPart) = <<>> /\ Calls(SystemPart) = <<>>
        /\ Answers(SystemPart) = <<>>
    BY <2>1, SumsEmpty
  <2> QED BY <2>1, <2>2, <2>3, <2>4
<1>3. CASE system
  <2>1. SystemPart = Append(<<>>, SystemMessage) /\ <<>> \in Seq(Entry)
    BY <1>3, EmptySeq DEF SystemPart
  <2>2. /\ SystemMessage.content = <<NoPlace>> /\ SystemMessage.calls = <<>>
        /\ AnswerOf(SystemMessage) = <<>>
    BY DEF SystemMessage, AnswerOf
  <2>3. /\ Contents(SystemPart) = <<>> \o <<NoPlace>>
        /\ Calls(SystemPart) = <<>> \o <<>> /\ Answers(SystemPart) = <<>> \o <<>>
    BY <1>1, <2>1, <2>2, SumsAppend, SumsEmpty
  <2>4. <<>> \o <<NoPlace>> = <<NoPlace>> /\ <<>> \o <<>> = <<>>
    OBVIOUS
  <2>5. SystemPart \in Seq(Entry) /\ \A i \in 1 .. Len(SystemPart) : SystemPart[i] = SystemMessage
    BY <1>1, <2>1
  <2>6. <<NoPlace>> \in Seq({NoPlace})
    OBVIOUS
  <2> QED BY <2>3, <2>4, <2>5, <2>6
<1> QED BY <1>2, <1>3

\* The latest request is what the transcript still translates to but for its last
\* message; all of it as long as it is out.
Inv ==
  /\ transcript \in Seq(Message)
  /\ Sound(transcript)
  /\ chat \in Seq(Entry)
  /\ Extends(chat, TranslateRequest)
  /\ turn \in {"user", "upstream"}
  /\ Asked => /\ chat = TranslateRequest
              /\ Len(transcript) # 0 /\ transcript[Len(transcript)].role = "user"

LEMMA RequestIs ==
  ASSUME transcript \in Seq(Message)
  PROVE  /\ TranslateRequest = SystemPart \o TranslateMessages(transcript)
         /\ TranslateRequest \in Seq(Entry)
         /\ TranslateMessages(transcript) \in Seq(Entry)
         /\ TranslateMessages(transcript) \in Seq(EntryOf(transcript))
<1>1. TranslateRequest = SystemPart \o TranslateMessages(transcript)
  BY DEF TranslateRequest, SystemPart
<1>2. EntriesOf(transcript) \in Seq(EntryOf(transcript)) /\ EntriesOf(transcript) \in Seq(Entry)
  BY EntriesOfType
<1>3. TranslateMessages(transcript) = MergeSameRole(EntriesOf(transcript))
  BY DEF TranslateMessages, EntriesOf
<1>4. TranslateMessages(transcript) \in Seq(Entry)
  BY <1>2, <1>3, MergeSums
<1>5. TranslateMessages(transcript) \in Seq(EntryOf(transcript))
  <2>1. EntryOf(transcript) \subseteq Entry
    BY DEF EntryOf
  <2> QED BY <1>2, <1>3, <2>1, EntryOfClosed, MergeType
<1>6. TranslateRequest \in Seq(Entry)
  BY <1>1, <1>4, SystemPartIs, ConcatProperties
<1> QED BY <1>1, <1>4, <1>5, <1>6

LEMMA InitInv == Init => Inv
<1> SUFFICES ASSUME Init PROVE Inv
  OBVIOUS
<1>1. transcript = <<>> /\ chat = <<>> /\ turn = "user"
  BY DEF Init
<1>2. transcript \in Seq(Message) /\ chat \in Seq(Entry)
  BY <1>1, EmptySeq
<1>3. TranslateMessages(<<>>) = <<>>
  <2>1. [i \in 1 .. Len(<<>>) |-> Entries(i, <<>>[i])] = <<>>
    OBVIOUS
  <2> QED BY <2>1, FlattenEmpty, MergeEmpty DEF TranslateMessages
<1>4. Sound(<<>>)
  <2>1. \A x : [i \in 1 .. Len(<<>>) |-> Places(i, <<>>[i], x)] = <<>>
    OBVIOUS
  <2>2. AllIn(<<>>, "tool_use") = <<>> /\ OpenIn(<<>>) = <<>> /\ <<>> \o <<>> = <<>>
    BY <2>1, FlattenEmpty DEF AllIn, OpenIn
  <2>3. Paired(<<>>) /\ Len(<<>>) = 0
    BY DEF Paired
  <2> QED BY <1>3, <2>2, <2>3, SumsEmpty DEF Sound, Complete
<1>5. Extends(chat, TranslateRequest)
  <2>1. Len(TranslateRequest) \in Nat
    BY <1>2, RequestIs
  <2> QED BY <1>1, <2>1 DEF Extends
<1> QED BY <1>1, <1>2, <1>4, <1>5 DEF Inv, Asked
LEMMA OutExtends ==
  ASSUME NEW t \in Seq(Message), NEW m \in Message
  PROVE  /\ TranslateMessages(t) \in Seq(Entry)
         /\ TranslateMessages(Append(t, m)) \in Seq(Entry)
         /\ Extends(TranslateMessages(t), TranslateMessages(Append(t, m)))
<1> DEFINE v == Append(t, m)
           n == Len(t) + 1
<1>1. v \in Seq(Message) /\ v[n] = m /\ n \in 1 .. Len(v)
  BY AppendedIs
<1>2. EntriesOf(t) \in Seq(Entry) /\ EntriesOf(v) \in Seq(Entry)
  BY <1>1, EntriesOfType
<1>3. EntriesOf(v) = EntriesOf(t) \o Entries(n, m)
  BY EntriesOfAppend
<1> HIDE DEF v, n
<1>4. Entries(n, m) \in Seq(Entry)
  <2>1. Entries(n, m) \in Seq(EntryOf(v)) /\ EntryOf(v) \subseteq Entry
    BY <1>1, EntriesType DEF EntryOf
  <2> QED BY <2>1, SeqMonotonic
<1>5. Extends(MergeSameRole(EntriesOf(t)), MergeSameRole(EntriesOf(v)))
  BY <1>2, <1>3, <1>4, MergeExtends
<1>6. /\ TranslateMessages(t) = MergeSameRole(EntriesOf(t))
      /\ TranslateMessages(v) = MergeSameRole(EntriesOf(v))
  BY DEF TranslateMessages, EntriesOf
<1>7. MergeSameRole(EntriesOf(t)) \in Seq(Entry) /\ MergeSameRole(EntriesOf(v)) \in Seq(Entry)
  BY <1>2, MergeSums
<1> QED BY <1>5, <1>6, <1>7 DEF v

\* Whatever is said, the latest request stays a part of what is sent next.
LEMMA SaysExtends ==
  ASSUME Inv, NEW m \in Message, transcript' = Append(transcript, m), system' = system
  PROVE  transcript' \in Seq(Message) /\ Extends(chat, TranslateRequest')
<1> DEFINE c == TranslateMessages(transcript)
           d == TranslateMessages(Append(transcript, m))
           s == SystemPart
<1>1. transcript \in Seq(Message) /\ chat \in Seq(Entry) /\ Extends(chat, TranslateRequest)
  BY DEF Inv
<1>2. c \in Seq(Entry) /\ d \in Seq(Entry) /\ Extends(c, d)
  BY <1>1, OutExtends
<1>3. TranslateRequest = s \o c /\ TranslateRequest' = s \o d
  BY DEF TranslateRequest, SystemPart
<1>4. s \in Seq(Entry)
  BY SystemPartIs
<1> HIDE DEF c, d, s
<1>5. Extends(s \o c, s \o d) /\ s \o c \in Seq(Entry) /\ s \o d \in Seq(Entry)
  BY <1>2, <1>4, ExtendsBehind, ConcatProperties
<1>6. Extends(chat, s \o d)
  BY <1>1, <1>3, <1>5, ExtendsOn
<1> QED BY <1>1, <1>3, <1>6, AppendProperties

LEMMA OpenCallsIs ==
  ASSUME transcript \in Seq(Message)
  PROVE  OpenCalls = OpenIn(transcript) /\ OpenCalls \in Seq(Place \ {NoPlace})
<1>1. OpenCalls = OpenIn(transcript)
  BY DEF OpenCalls, OpenIn, Last
<1>2. CASE transcript = <<>>
  <2>1. OpenCalls = <<>>
    BY <1>2 DEF OpenCalls
  <2>2. <<>> \in Seq(Place \ {NoPlace})
    BY EmptySeq
  <2> QED BY <1>1, <2>1, <2>2
<1>3. CASE transcript # <<>>
  <2> DEFINE n == Len(transcript)
             A == Cells(n, transcript[n], "tool_use")
  <2>1. n \in 1 .. n /\ n \in Nat /\ transcript[n] \in Message
    BY <1>3
  <2>2. OpenIn(transcript) = Places(n, transcript[n], "tool_use")
    BY <1>3 DEF OpenIn
  <2>3. Len(transcript[n].blocks) \in Nat
    BY <2>1, MessageIs
  <2>4. A \subseteq Place \ {NoPlace}
    BY <2>1, <2>3 DEF Cells, Place, NoPlace
  <2>5. Places(n, transcript[n], "tool_use") \in Seq(A)
    BY <2>1, PlacesType
  <2> HIDE DEF A, n
  <2> QED BY <1>1, <2>2, <2>4, <2>5, SeqMonotonic
<1> QED BY <1>1, <1>2, <1>3

LEMMA NextInv == Inv /\ [Next]_vars => Inv'
<1> SUFFICES ASSUME Inv, [Next]_vars PROVE Inv'
  OBVIOUS
<1> USE ConversationAssumption
<1>0. /\ transcript \in Seq(Message) /\ Sound(transcript) /\ chat \in Seq(Entry)
      /\ Extends(chat, TranslateRequest)
  BY DEF Inv
<1>1. ASSUME NEW prompt \in Prompts, UserSays(prompt) PROVE Inv'
  <2> DEFINE m == Saying(OpenCalls, prompt)
             n == Len(transcript) + 1
  <2>1. /\ transcript' = Append(transcript, m) /\ system' = system
        /\ turn' = "user" /\ chat' = chat
    BY <1>1 DEF UserSays, Says, Saying
  <2>2. OpenCalls = OpenIn(transcript) /\ OpenCalls \in Seq(Place \ {NoPlace})
    BY <1>0, OpenCallsIs
  <2>3. prompt \in Seq({"text", "image"}) /\ n \in Nat
    BY <1>0
  <2>4. /\ m \in Message /\ m.role = "user"
        /\ LET results == Places(n, m, "tool_result")
           IN  [k \in 1 .. Len(results) |-> m.blocks[results[k][2]].answers] = OpenIn(transcript)
    <3> HIDE DEF n
    <3> QED BY <2>2, <2>3, SayingIs
  <2> HIDE DEF m
  <2>5. Sound(Append(transcript, m))
    BY <1>0, <2>4, UserKeepsSound
  <2>6. transcript' \in Seq(Message) /\ Extends(chat, TranslateRequest')
    BY <2>1, <2>4, SaysExtends
  <2> QED BY <1>0, <2>1, <2>5, <2>6 DEF Inv, Asked
<1>2. CASE Request
  <2>1. /\ transcript' = transcript /\ system' = system /\ turn' = "upstream"
        /\ chat' = TranslateRequest /\ transcript # <<>>
        /\ Last(transcript).role = "user"
    BY <1>2 DEF Request
  <2>2. TranslateRequest' = TranslateRequest
    BY <2>1 DEF TranslateRequest
  <2>3. TranslateRequest \in Seq(Entry)
    BY <1>0, RequestIs
  <2>4. Len(transcript) # 0 /\ transcript[Len(transcript)].role = "user"
    BY <1>0, <2>1 DEF Last
  <2>5. Extends(TranslateRequest, TranslateRequest)
    <3>1. Len(TranslateRequest) \in Nat
      BY <2>3
    <3> QED BY <3>1 DEF Extends
  <2> QED BY <1>0, <2>1, <2>2, <2>3, <2>4, <2>5 DEF Inv, Asked
<1>3. ASSUME NEW reply \in Replies, Answer(reply) PROVE Inv'
  <2> DEFINE m == TranslateResponse(reply)
  <2>1. /\ transcript' = Append(transcript, m) /\ system' = system
        /\ turn' = "user" /\ chat' = chat /\ Asked
    BY <1>3 DEF Answer, Says, Asked
  <2>2. m \in Message /\ m.role = "assistant"
    BY ResponseIs
  <2>3. Len(transcript) # 0 /\ transcript[Len(transcript)].role = "user"
    BY <2>1 DEF Inv
  <2> HIDE DEF m
  <2>4. Sound(Append(transcript, m))
    BY <1>0, <2>2, <2>3, AssistantKeepsSound
  <2>5. transcript' \in Seq(Message) /\ Extends(chat, TranslateRequest')
    BY <2>1, <2>2, SaysExtends
  <2> QED BY <1>0, <2>1, <2>4, <2>5 DEF Inv, Asked
<1>4. CASE UNCHANGED vars
  BY <1>4 DEF vars, Inv, Asked, TranslateRequest
<1> QED BY <1>1, <1>2, <1>3, <1>4 DEF Next

\* What a request says is known from the transcript at every moment.
THEOREM RequestsAreTranslations == Spec => []Inv
<1>1. Init => Inv
  BY InitInv
<1>2. Inv /\ [Next]_vars => Inv'
  BY NextInv
<1> QED BY <1>1, <1>2, PTL DEF Spec
-----------------------------------------------------------------------------
(* The properties of the runs. *)

\* A request is the system prompt and what the transcript translates to.
LEMMA AskedIs ==
  ASSUME Inv, Asked
  PROVE  LET c == TranslateMessages(transcript) IN
         /\ chat = SystemPart \o c /\ chat \in Seq(Entry)
         /\ c \in Seq(Entry) /\ c \in Seq(EntryOf(transcript))
         /\ Len(SystemPart) \in Nat /\ Len(c) \in Nat
         /\ \A k \in 1 .. Len(chat) :
              \/ k \in 1 .. Len(SystemPart) /\ chat[k] = SystemMessage
              \/ /\ k - Len(SystemPart) \in 1 .. Len(c)
                 /\ chat[k] = c[k - Len(SystemPart)]
<1> DEFINE c == TranslateMessages(transcript)
           s == SystemPart
<1>1. chat = s \o c /\ c \in Seq(Entry) /\ c \in Seq(EntryOf(transcript)) /\ s \in Seq(Entry)
  BY RequestIs, SystemPartIs DEF Inv
<1>2. \A i \in 1 .. Len(s) : s[i] = SystemMessage
  BY SystemPartIs
<1> HIDE DEF c, s
<1>3. /\ Len(chat) = Len(s) + Len(c) /\ Len(s) \in Nat /\ Len(c) \in Nat
      /\ chat \in Seq(Entry)
      /\ \A k \in 1 .. Len(s) + Len(c) :
           chat[k] = IF k <= Len(s) THEN s[k] ELSE c[k - Len(s)]
  BY <1>1, ConcatProperties
<1>4. ASSUME NEW k \in 1 .. Len(chat)
      PROVE  \/ k \in 1 .. Len(s) /\ chat[k] = SystemMessage
             \/ k - Len(s) \in 1 .. Len(c) /\ chat[k] = c[k - Len(s)]
  <2>1. CASE k <= Len(s)
    <3>1. k \in 1 .. Len(s)
      BY <1>3, <2>1
    <3> QED BY <1>2, <1>3, <2>1, <3>1
  <2>2. CASE ~(k <= Len(s))
    <3>1. k - Len(s) \in 1 .. Len(c)
      BY <1>3, <2>2
    <3> QED BY <1>3, <2>2, <3>1
  <2> QED BY <2>1, <2>2
<1> QED BY <1>1, <1>3, <1>4 DEF c, s

LEMMA ContentHolds ==
  ASSUME Inv, Asked
  PROVE  /\ SentOf("text") = All("text")
         /\ SentOf("tool_result") = All("tool_result")
         /\ SentOf("image") =
              Those(All("image"),
                    {p \in OfType("image") : Places(p[1], transcript[p[1]], "text") # <<>>})
<1> DEFINE c == TranslateMessages(transcript)
           t == transcript
           s == SystemPart
           E == EntriesOf(t)
           head == Contents(s)
           rest == Contents(c)
<1>1. chat = s \o c /\ c \in Seq(Entry) /\ s \in Seq(Entry) /\ t \in Seq(Message)
  BY AskedIs, SystemPartIs DEF Inv
<1>2. rest = Contents(E)
  <2>1. E \in Seq(Entry) /\ c = MergeSameRole(E)
    BY <1>1, EntriesOfType DEF TranslateMessages, EntriesOf
  <2> QED BY <2>1, MergeSums
<1>3. Carries(rest, t)
  BY <1>1, <1>2, TranscriptCarried
<1>4. Sent = head \o rest
  <2>1. Sent = Contents(chat)
    BY DEF Sent, Contents
  <2> HIDE DEF c, s
  <2> QED BY <1>1, <2>1, SumsConcat
<1>5. head \in Seq({NoPlace}) /\ head \in Seq(Place) /\ rest \in Seq(Place)
  BY <1>1, SystemPartIs, SumsType
<1>6. ASSUME NEW x PROVE Those(Sent, OfIn(t, x)) = Those(rest, OfIn(t, x))
  <2> DEFINE S == OfIn(t, x)
  <2>1. {NoPlace} \cap S = {}
    BY DEF NoPlace, OfIn
  <2> HIDE DEF S, head, rest
  <2>2. Those(head, S) = <<>>
    BY <1>5, <2>1, ThoseNone
  <2>3. Those(head \o rest, S) = Those(head, S) \o Those(rest, S)
    BY <1>5, ThoseConcat
  <2>4. Those(rest, S) \in Seq(Place \cap S)
    BY <1>5, ThoseType
  <2>5. Those(head \o rest, S) = Those(rest, S)
    BY <2>2, <2>3, <2>4, ConcatEmptySeq
  <2> QED BY <1>4, <2>5 DEF S
<1>7. \A x : OfType(x) = OfIn(t, x) /\ All(x) = AllIn(t, x)
  BY DEF OfType, OfIn, All, AllIn
<1>8. {p \in OfType("image") : Places(p[1], transcript[p[1]], "text") # <<>>} = Kept(t)
  BY <1>7 DEF Kept
<1> HIDE DEF t, rest
<1>9. SentOf("text") = All("text") /\ SentOf("tool_result") = All("tool_result")
  BY <1>3, <1>6, <1>7 DEF SentOf, Carries
<1>10. SentOf("image") = Those(All("image"), Kept(t))
  BY <1>3, <1>6, <1>7 DEF SentOf, Carries
<1> QED BY <1>8, <1>9, <1>10

\* Every text and every tool result, and every image of a message with a text, reaches
\* the upstream once, in the order it was said and under the role that said it
\* (translateAnthropicMessages, mergeSameRole).
THEOREM ContentIsKept == Spec => []ContentSurvives
<1>1. Inv => ContentSurvives
  <2> SUFFICES ASSUME Inv, Asked PROVE ContentSurvives
    BY DEF ContentSurvives
  <2>1. ASSUME NEW k \in 1 .. Len(chat), chat[k].role \in {"user", "assistant"},
               NEW n \in 1 .. Len(chat[k].content)
        PROVE  transcript[chat[k].content[n][1]].role = chat[k].role
    <3> DEFINE c == TranslateMessages(transcript)
               j == k - Len(SystemPart)
    <3>1. chat[k] # SystemMessage
      BY <2>1 DEF SystemMessage
    <3>2. j \in 1 .. Len(c) /\ chat[k] = c[j] /\ c \in Seq(EntryOf(transcript))
      BY <3>1, AskedIs
    <3> HIDE DEF c, j
    <3>3. chat[k] \in EntryOf(transcript)
      BY <3>2
    <3>4. chat[k].content \in Seq(Spots(transcript, chat[k].role))
      BY <2>1, <3>3 DEF EntryOf
    <3>5. chat[k].content[n] \in Spots(transcript, chat[k].role)
      BY <3>4
    <3> QED BY <3>5 DEF Spots
  <2> QED BY <2>1, ContentHolds DEF ContentSurvives
<1> QED BY <1>1, RequestsAreTranslations, PTL

\* The message found is the one there is.
LEMMA CallerIs ==
  ASSUME NEW k \in Nat, NEW h \in 1 .. k - 1, chat[h].role # "tool",
         \A m \in h + 1 .. k - 1 : chat[m].role = "tool"
  PROVE  Caller(k) = h
<1> DEFINE P(x) == /\ x = 0 \/ chat[x].role # "tool"
                   /\ \A m \in x + 1 .. k - 1 : chat[m].role = "tool"
<1>1. h \in 0 .. k - 1 /\ P(h)
  OBVIOUS
<1>2. ASSUME NEW x \in 0 .. k - 1, P(x) PROVE x = h
  <2>1. ~(x < h)
    <3>1. x < h => h \in x + 1 .. k - 1
      OBVIOUS
    <3> QED BY <1>2, <3>1
  <2>2. ~(h < x)
    <3>1. h < x => x \in h + 1 .. k - 1 /\ x # 0
      OBVIOUS
    <3> QED BY <1>2, <3>1
  <2> QED BY <2>1, <2>2
<1>3. Caller(k) = CHOOSE x \in 0 .. k - 1 : P(x)
  BY DEF Caller
<1> HIDE DEF P
<1> QED BY <1>1, <1>2, <1>3

LEMMA PairingHolds ==
  ASSUME Inv, Asked, UserHeard
  PROVE  \A k \in 1 .. Len(chat) : chat[k].role = "tool" => Answered(k)
<1> DEFINE c == TranslateMessages(transcript)
           z == Len(SystemPart)
<1> SUFFICES ASSUME NEW k \in 1 .. Len(chat), chat[k].role = "tool" PROVE Answered(k)
  OBVIOUS
<1>1. /\ chat \in Seq(Entry) /\ z \in Nat /\ Len(c) \in Nat
      /\ \A i \in 1 .. Len(chat) :
           \/ i \in 1 .. z /\ chat[i] = SystemMessage
           \/ i - z \in 1 .. Len(c) /\ chat[i] = c[i - z]
  BY AskedIs
<1>2. Paired(c)
  BY DEF Inv, Sound, Complete, HeardIn, UserHeard
<1> HIDE DEF c, z
<1>3. k - z \in 1 .. Len(c) /\ chat[k] = c[k - z]
  BY <1>1 DEF SystemMessage
<1>4. PICK h \in 1 .. (k - z) - 1 :
        /\ c[h].role # "tool"
        /\ \A m \in h + 1 .. (k - z) - 1 : c[m].role = "tool"
        /\ \E n \in 1 .. Len(c[h].calls) : c[h].calls[n] = c[k - z].answers
  BY <1>2, <1>3 DEF Paired
<1>5. k \in Nat /\ h \in Nat /\ h # 0 /\ Len(chat) \in Nat /\ k <= Len(chat)
  BY <1>1, <1>3
<1>6. \A i \in z + 1 .. k : chat[i] = c[i - z]
  BY <1>1, <1>5
<1>7. z + h \in 1 .. k - 1 /\ z + h \in z + 1 .. k /\ (z + h) - z = h
  BY <1>1, <1>3, <1>5
<1>8. chat[z + h] = c[h]
  BY <1>6, <1>7
<1>9. ASSUME NEW m \in z + h + 1 .. k - 1 PROVE chat[m].role = "tool"
  <2>1. m \in z + 1 .. k /\ m - z \in h + 1 .. (k - z) - 1
    BY <1>1, <1>3, <1>5
  <2> QED BY <1>4, <1>6, <2>1
<1>10. Caller(k) = z + h
  BY <1>4, <1>5, <1>7, <1>8, <1>9, CallerIs
<1> QED BY <1>3, <1>4, <1>7, <1>8, <1>10 DEF Answered

\* Every call is sent and a result of its own follows at once, as long as no message of
\* the user's vanishes (translateAnthropicMessages, mergeSameRole).
THEOREM CallsAreAnswered == Spec => []CallsAnsweredAtOnce
<1>1. Inv => CallsAnsweredAtOnce
  <2> SUFFICES ASSUME Inv, Asked, UserHeard PROVE CallsAnsweredAtOnce
    BY DEF CallsAnsweredAtOnce
  <2> DEFINE c == TranslateMessages(transcript)
             s == SystemPart
             all == AllIn(transcript, "tool_use")
  <2>1. chat = s \o c /\ c \in Seq(Entry) /\ s \in Seq(Entry)
        /\ Calls(s) = <<>> /\ Answers(s) = <<>>
    BY AskedIs, SystemPartIs
  <2>2. Complete(transcript, c)
    BY DEF Inv, Sound, HeardIn, UserHeard
  <2>3. OpenIn(transcript) = <<>> /\ all \in Seq(Place)
    BY OpenType, AllInType DEF Inv
  <2>4. Calls(c) = all /\ Answers(c) \o <<>> = all
    BY <2>2, <2>3 DEF Complete
  <2> HIDE DEF c, s, all
  <2>5. Answers(c) = all
    <3>1. Answers(c) \in Seq(Place)
      BY <2>1, SumsType
    <3> QED BY <2>4, <3>1, ConcatEmptySeq
  <2>6. Calls(chat) = <<>> \o all /\ Answers(chat) = <<>> \o all
    BY <2>1, <2>4, <2>5, SumsConcat
  <2>7. Calls(chat) = all /\ Answers(chat) = all
    BY <2>3, <2>6, ConcatEmptySeq
  <2>8. All("tool_use") = all
    BY DEF All, AllIn, all
  <2>9. PairingKept
    BY PairingHolds DEF PairingKept
  <2> QED BY <2>7, <2>8, <2>9 DEF CallsAnsweredAtOnce, Calls, Answers, AnswerOf
<1> QED BY <1>1, RequestsAreTranslations, PTL

\* The next request repeats the last one but for its last message (mergeSameRole).
THEOREM RequestsRepeat == Spec => RepeatsLastRequest
<1>1. ASSUME Inv, [Next]_vars, chat # <<>>, chat' # chat
      PROVE  IsPrefix(Front(chat), chat')
  <2>1. chat' = TranslateRequest
    BY <1>1 DEF Next, UserSays, Answer, Request, vars
  <2>2. chat \in Seq(Entry) /\ chat' \in Seq(Entry) /\ Extends(chat, chat')
    BY <1>1, <2>1, RequestIs DEF Inv
  <2>3. Len(chat) # 0 /\ Len(chat) \in Nat /\ Len(chat') \in Nat
    BY <1>1, <2>2
  <2> DEFINE f == SubSeq(chat, 1, Len(chat) - 1)
  <2>4. Front(chat) = f
    BY DEF Front
  <2>5. f \in Seq(Entry) /\ Len(f) = Len(chat) - 1 /\ chat = Append(f, chat[Len(chat)])
    BY <2>2, <2>3, TheRest
  <2> HIDE DEF f
  <2>6. \A i \in 1 .. Len(chat) - 1 : f[i] = chat[i]
    BY <2>5
  <2>7. Len(f) <= Len(chat') /\ \A i \in 1 .. Len(f) : f[i] = chat'[i]
    BY <2>2, <2>3, <2>5, <2>6 DEF Extends
  <2>8. IsPrefix(f, chat')
    BY <2>2, <2>3, <2>5, <2>7 DEF IsPrefix
  <2> QED BY <2>4, <2>8
<1>2. Inv /\ [Next]_vars => [chat # <<>> /\ chat' # chat => IsPrefix(Front(chat), chat')]_vars
  BY <1>1
<1> QED BY <1>2, RequestsAreTranslations, PTL DEF Spec, RepeatsLastRequest
=============================================================================
