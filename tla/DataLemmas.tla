----------------------------- MODULE DataLemmas -----------------------------
(***************************************************************************)
(* Facts about natural numbers and sequences on which the proofs about     *)
(* linked containers rest.  Induction, and definition by iteration, are    *)
(* stated with sets and functions in the place of operator parameters:     *)
(* what holds of all numbers is a set that holds 0 and all successors.     *)
(***************************************************************************)
EXTENDS Integers, WellFoundedInduction, SequenceTheorems, TLAPS

-----------------------------------------------------------------------------
(* Natural numbers.                                                          *)

\* Every nonempty set of natural numbers has a least element.
LEMMA LeastNat ==
    ASSUME NEW S \in SUBSET Nat, S # {} PROVE \E n \in S : \A m \in S : n <= m
<1> DEFINE Less == {p \in Nat \X Nat : p[1] < p[2]}
<1>1. \A x, y \in Nat : <<y, x>> \in Less <=> y < x
  OBVIOUS
<1>2. IsWellFoundedOn(Less, Nat)
  BY NatLessThanWellFounded DEF OpToRel
<1> HIDE DEF Less
<1>3. PICK x \in S : \A y \in S : ~ (<<y, x>> \in Less)
  BY <1>2, WFMin
<1>4. ASSUME NEW y \in S PROVE x <= y
  <2>1. x \in Nat /\ y \in Nat /\ ~ (y < x)
    BY <1>1, <1>3
  <2> QED BY <2>1
<1> QED BY <1>4

\* What holds of 0 and is passed on from n to n + 1 holds of every natural number.
LEMMA SetInduction ==
    ASSUME NEW S, 0 \in S, \A n \in Nat : n \in S => n + 1 \in S
    PROVE  Nat \subseteq S
<1> SUFFICES ASSUME Nat \ S # {} PROVE FALSE
  OBVIOUS
<1>1. PICK n \in Nat \ S : \A m \in Nat \ S : n <= m
  BY LeastNat
<1>2. n # 0 /\ n - 1 \in Nat /\ n - 1 \in S
  BY <1>1
<1> QED BY <1>1, <1>2

\* The first n iterates of h from first.
Iterates(f, h, first, n) == f[0] = first /\ \A i \in 0 .. n - 1 : f[i + 1] = h[f[i]]

\* Iteration is determined by where it starts.
LEMMA IteratesAgree ==
    ASSUME NEW h, NEW first, NEW n \in Nat, NEW f, NEW g,
           Iterates(f, h, first, n), Iterates(g, h, first, n)
    PROVE  \A i \in 0 .. n : f[i] = g[i]
<1> DEFINE T == {i \in Nat : i <= n => f[i] = g[i]}
<1>1. 0 \in T
  BY DEF Iterates
<1>2. ASSUME NEW i \in Nat, i \in T PROVE i + 1 \in T
  <2> SUFFICES ASSUME i + 1 <= n PROVE f[i + 1] = g[i + 1]
    OBVIOUS
  <2>1. i \in 0 .. n - 1 /\ f[i] = g[i]
    BY <1>2
  <2> QED BY <2>1 DEF Iterates
<1>3. Nat \subseteq T
  <2> HIDE DEF T
  <2> QED BY <1>1, <1>2, SetInduction
<1> QED BY <1>3

\* Any number of iterates exists.
LEMMA IteratesExist ==
    ASSUME NEW S, NEW h \in [S -> S], NEW first \in S
    PROVE  \A n \in Nat : \E f \in [Nat -> S] : Iterates(f, h, first, n)
<1> DEFINE T == {n \in Nat : \E f \in [Nat -> S] : Iterates(f, h, first, n)}
<1>1. 0 \in T
  <2>1. Iterates([i \in Nat |-> first], h, first, 0)
    BY DEF Iterates
  <2> QED BY <2>1
<1>2. ASSUME NEW n \in Nat, n \in T PROVE n + 1 \in T
  <2>1. PICK f \in [Nat -> S] : Iterates(f, h, first, n)
    BY <1>2
  <2> DEFINE g == [f EXCEPT ![n + 1] = h[f[n]]]
  <2>2. g \in [Nat -> S] /\ g[n + 1] = h[f[n]] /\ \A i \in 0 .. n : g[i] = f[i]
    OBVIOUS
  <2> HIDE DEF g
  <2>3. ASSUME NEW i \in 0 .. (n + 1) - 1 PROVE g[i + 1] = h[g[i]]
    <3>1. CASE i = n
      BY <2>2, <3>1
    <3>2. CASE i # n
      <4>1. i \in 0 .. n - 1 /\ i + 1 \in 0 .. n /\ i \in 0 .. n
        BY <3>2
      <4> QED BY <2>1, <2>2, <4>1 DEF Iterates
    <3> QED BY <3>1, <3>2
  <2>4. g[0] = first
    BY <2>1, <2>2 DEF Iterates
  <2>5. Iterates(g, h, first, n + 1)
    BY <2>3, <2>4 DEF Iterates
  <2> QED BY <2>2, <2>5
<1>3. Nat \subseteq T
  <2> HIDE DEF T
  <2> QED BY <1>1, <1>2, SetInduction
<1> QED BY <1>3

\* A function of a set to itself can be iterated for ever from any element.
IteratesForEver(f, h, first) == f[0] = first /\ \A n \in Nat : f[n + 1] = h[f[n]]

LEMMA Iteration ==
    ASSUME NEW S, NEW h \in [S -> S], NEW first \in S
    PROVE  \E f \in [Nat -> S] : IteratesForEver(f, h, first)
<1> DEFINE upTo(n) == CHOOSE f \in [Nat -> S] : Iterates(f, h, first, n)
           f == [n \in Nat |-> upTo(n)[n]]
<1>1. \A n \in Nat : upTo(n) \in [Nat -> S] /\ Iterates(upTo(n), h, first, n)
  BY IteratesExist
<1>2. f \in [Nat -> S] /\ f[0] = first
  <2> HIDE DEF upTo
  <2> QED BY <1>1 DEF Iterates
<1>3. ASSUME NEW n \in Nat PROVE f[n + 1] = h[f[n]]
  <2> HIDE DEF upTo
  <2>1. upTo(n + 1)[n + 1] = h[upTo(n + 1)[n]]
    BY <1>1 DEF Iterates
  <2>2. Iterates(upTo(n + 1), h, first, n)
    BY <1>1 DEF Iterates
  <2>3. upTo(n + 1)[n] = upTo(n)[n]
    BY <1>1, <2>2, IteratesAgree
  <2> QED BY <2>1, <2>3
<1> HIDE DEF f
<1> QED BY <1>2, <1>3 DEF IteratesForEver

-----------------------------------------------------------------------------
(* Recursion over the natural numbers.                                       *)

\* A function of the natural numbers is defined by its first value and a step.
Recurses(f, first, h) == f[0] = first /\ \A i \in Nat : f[i + 1] = h[i][f[i]]

LEMMA Recursion ==
    ASSUME NEW S, NEW first \in S, NEW h \in [Nat -> [S -> S]]
    PROVE  \E f \in [Nat -> S] : Recurses(f, first, h)
<1> DEFINE P == Nat \X S
           g == [p \in P |-> <<p[1] + 1, h[p[1]][p[2]]>>]
<1>1. g \in [P -> P]
  <2> SUFFICES ASSUME NEW i \in Nat, NEW s \in S PROVE <<i + 1, h[i][s]>> \in P
    OBVIOUS
  <2> QED OBVIOUS
<1>2. <<0, first>> \in P
  OBVIOUS
<1>3. PICK e \in [Nat -> P] : IteratesForEver(e, g, <<0, first>>)
  <2> HIDE DEF P, g
  <2> QED BY <1>1, <1>2, Iteration
<1>4. \A i \in Nat : e[i + 1] = <<e[i][1] + 1, h[e[i][1]][e[i][2]]>>
  <2> TAKE i \in Nat
  <2>1. e[i + 1] = g[e[i]] /\ e[i] \in P
    BY <1>3 DEF IteratesForEver
  <2> QED BY <2>1
<1>5. e[0] = <<0, first>>
  BY <1>3 DEF IteratesForEver
<1>6. \A i \in Nat : e[i][1] = i
  <2> DEFINE T == {i \in Nat : e[i][1] = i}
  <2>1. 0 \in T
    BY <1>5
  <2>2. ASSUME NEW i \in Nat, i \in T PROVE i + 1 \in T
    BY <1>4, <2>2
  <2>3. Nat \subseteq T
    <3> HIDE DEF T
    <3> QED BY <2>1, <2>2, SetInduction
  <2> QED BY <2>3
<1> DEFINE f == [i \in Nat |-> e[i][2]]
<1>7. f \in [Nat -> S] /\ f[0] = first
  <2>1. \A i \in Nat : e[i] \in P
    BY <1>3
  <2> QED BY <1>5, <2>1
<1>8. ASSUME NEW i \in Nat PROVE f[i + 1] = h[i][f[i]]
  BY <1>4, <1>6
<1> HIDE DEF f
<1> QED BY <1>7, <1>8 DEF Recurses

\* What holds at 0 and is passed on holds up to n.
LEMMA InductionUpTo ==
    ASSUME NEW n \in Nat, NEW T, 0 \in T, \A i \in 0 .. n - 1 : i \in T => i + 1 \in T
    PROVE  0 .. n \subseteq T
<1> DEFINE U == {i \in Nat : i <= n => i \in T}
<1>1. 0 \in U
  OBVIOUS
<1>2. ASSUME NEW i \in Nat, i \in U PROVE i + 1 \in U
  <2> SUFFICES ASSUME i + 1 <= n PROVE i + 1 \in T
    OBVIOUS
  <2>1. i \in 0 .. n - 1 /\ i \in T
    BY <1>2
  <2> QED BY <2>1
<1>3. Nat \subseteq U
  <2> HIDE DEF U
  <2> QED BY <1>1, <1>2, SetInduction
<1> QED BY <1>3

-----------------------------------------------------------------------------
(* Sequences that one element is inserted into or taken out of.              *)

\* x at position i, and what was there and behind moved up.
Grown(s, i, x) ==
    [j \in 1 .. Len(s) + 1 |-> IF j < i THEN s[j] ELSE IF j = i THEN x ELSE s[j - 1]]

\* The element at position i taken out.
Shrunk(s, i) == [j \in 1 .. Len(s) - 1 |-> IF j < i THEN s[j] ELSE s[j + 1]]

\* Their length and their elements.
IsGrown(t, s, i, x) ==
    /\ Len(t) = Len(s) + 1
    /\ \A j \in 1 .. Len(s) + 1 : t[j] = IF j < i THEN s[j] ELSE IF j = i THEN x ELSE s[j - 1]

IsShrunk(t, s, i) == /\ Len(t) = Len(s) - 1
                     /\ \A j \in 1 .. Len(s) - 1 : t[j] = IF j < i THEN s[j] ELSE s[j + 1]

\* Both are sequences of the elements they are made of.
LEMMA GrownIsSeq ==
    ASSUME NEW S, NEW s \in Seq(S), NEW i \in 1 .. Len(s) + 1, NEW x \in S
    PROVE  Grown(s, i, x) \in Seq(S) /\ IsGrown(Grown(s, i, x), s, i, x)
<1>1. Len(s) \in Nat /\ \A j \in 1 .. Len(s) : s[j] \in S
  BY LenProperties
<1>2. ASSUME NEW j \in 1 .. Len(s) + 1
      PROVE  (IF j < i THEN s[j] ELSE IF j = i THEN x ELSE s[j - 1]) \in S
  <2>1. (j < i => j \in 1 .. Len(s)) /\ (~(j < i) /\ j # i => j - 1 \in 1 .. Len(s))
    BY <1>1
  <2> QED BY <1>1, <2>1
<1>3. Grown(s, i, x) \in [1 .. Len(s) + 1 -> S] /\ Len(s) + 1 \in Nat
  BY <1>1, <1>2 DEF Grown
<1>4. Grown(s, i, x) \in Seq(S)
  BY <1>3, SeqDef
<1> QED BY <1>1, <1>3, <1>4, LenProperties DEF Grown, IsGrown

LEMMA ShrunkIsSeq ==
    ASSUME NEW S, NEW s \in Seq(S), NEW i \in 1 .. Len(s)
    PROVE  Shrunk(s, i) \in Seq(S) /\ IsShrunk(Shrunk(s, i), s, i)
<1>1. Len(s) \in Nat \ {0} /\ \A j \in 1 .. Len(s) : s[j] \in S
  BY LenProperties
<1>2. ASSUME NEW j \in 1 .. Len(s) - 1
      PROVE  (IF j < i THEN s[j] ELSE s[j + 1]) \in S
  <2>1. j \in 1 .. Len(s) /\ j + 1 \in 1 .. Len(s)
    BY <1>1
  <2> QED BY <1>1, <2>1
<1>3. Shrunk(s, i) \in [1 .. Len(s) - 1 -> S] /\ Len(s) - 1 \in Nat
  BY <1>1, <1>2 DEF Shrunk
<1>4. Shrunk(s, i) \in Seq(S)
  BY <1>3, SeqDef
<1> QED BY <1>1, <1>3, <1>4, LenProperties DEF Shrunk, IsShrunk

\* The edits of a sequence by which it grows: at its end, inside, in front.
LEMMA AppendGrows ==
    ASSUME NEW S, NEW s \in Seq(S), NEW x \in S
    PROVE  Append(s, x) = Grown(s, Len(s) + 1, x)
<1> DEFINE t == Grown(s, Len(s) + 1, x)
<1>1. Len(s) \in Nat /\ Len(s) + 1 \in 1 .. Len(s) + 1
  BY LenProperties
<1>2. /\ t \in Seq(S) /\ Len(t) = Len(s) + 1
      /\ \A j \in 1 .. Len(s) + 1 : t[j] = IF j < Len(s) + 1 THEN s[j]
                                            ELSE IF j = Len(s) + 1 THEN x ELSE s[j - 1]
  BY <1>1, GrownIsSeq DEF IsGrown
<1> HIDE DEF t
<1>3. ASSUME NEW j \in 1 .. Len(s) + 1 PROVE Append(s, x)[j] = t[j]
  <2>1. j = Len(s) + 1 \/ (j \in 1 .. Len(s) /\ j < Len(s) + 1)
    BY <1>1
  <2> QED BY <1>2, <2>1, AppendProperties
<1>4. Append(s, x) = t
  BY <1>2, <1>3, AppendProperties, SeqEqual
<1> QED BY <1>4 DEF t

LEMMA InsertAtGrows ==
    ASSUME NEW S, NEW s \in Seq(S), NEW i \in 1 .. Len(s) + 1, NEW x \in S
    PROVE  SubSeq(s, 1, i - 1) \o <<x>> \o SubSeq(s, i, Len(s)) = Grown(s, i, x)
<1> DEFINE t == Grown(s, i, x)
           a == SubSeq(s, 1, i - 1)
           b == SubSeq(s, i, Len(s))
<1>1. Len(s) \in Nat /\ i \in Nat /\ i - 1 \in Int /\ \A j \in 1 .. Len(s) : s[j] \in S
  BY LenProperties
<1>2. /\ t \in Seq(S) /\ Len(t) = Len(s) + 1
      /\ \A j \in 1 .. Len(s) + 1 : t[j] = IF j < i THEN s[j] ELSE IF j = i THEN x ELSE s[j - 1]
  <2>1. t \in Seq(S) /\ IsGrown(t, s, i, x)
    BY GrownIsSeq
  <2> HIDE DEF t
  <2> QED BY <2>1 DEF IsGrown
<1>3. a \in Seq(S) /\ Len(a) = i - 1 /\ \A j \in 1 .. i - 1 : a[j] = s[j]
  <2>1. \A j \in 1 .. i - 1 : s[j] \in S
    BY <1>1
  <2>2. /\ a \in Seq(S) /\ Len(a) = IF 1 <= i - 1 THEN i - 1 - 1 + 1 ELSE 0
        /\ \A j \in 1 .. i - 1 - 1 + 1 : a[j] = s[1 + j - 1]
    BY <1>1, <2>1, SubSeqProperties
  <2> HIDE DEF a
  <2> QED BY <1>1, <2>2
<1>4. b \in Seq(S) /\ Len(b) = Len(s) + 1 - i /\ \A j \in 1 .. Len(s) + 1 - i : b[j] = s[i + j - 1]
  <2>1. \A j \in i .. Len(s) : s[j] \in S
    BY <1>1
  <2>2. /\ b \in Seq(S) /\ Len(b) = IF i <= Len(s) THEN Len(s) - i + 1 ELSE 0
        /\ \A j \in 1 .. Len(s) - i + 1 : b[j] = s[i + j - 1]
    BY <1>1, <2>1, SubSeqProperties
  <2> HIDE DEF b
  <2> QED BY <1>1, <2>2
<1>5. <<x>> \in Seq(S) /\ Len(<<x>>) = 1 /\ <<x>>[1] = x
  OBVIOUS
<1> DEFINE u == <<x>>
<1> HIDE DEF t, a, b, u
<1>6. /\ a \o u \in Seq(S) /\ Len(a \o u) = i
      /\ \A j \in 1 .. i : (a \o u)[j] = IF j < i THEN s[j] ELSE x
  <2>1. /\ a \o u \in Seq(S) /\ Len(a \o u) = Len(a) + Len(u)
        /\ \A j \in 1 .. Len(a) + Len(u) : (a \o u)[j] = IF j <= Len(a) THEN a[j] ELSE u[j - Len(a)]
    BY <1>3, <1>5, ConcatProperties DEF u
  <2>2. Len(u) = 1 /\ u[1] = x
    BY <1>5 DEF u
  <2>3. ASSUME NEW j \in 1 .. i PROVE (a \o u)[j] = IF j < i THEN s[j] ELSE x
    <3>1. CASE j < i
      <4>1. j \in 1 .. i - 1 /\ j <= Len(a) /\ j \in 1 .. Len(a) + Len(u)
        BY <1>1, <1>3, <2>2, <3>1
      <4> QED BY <1>3, <2>1, <3>1, <4>1
    <3>2. CASE j = i
      <4>1. j - Len(a) = 1 /\ ~(j <= Len(a)) /\ j \in 1 .. Len(a) + Len(u)
        BY <1>1, <1>3, <2>2, <3>2
      <4> QED BY <2>1, <2>2, <3>2, <4>1
    <3>3. j < i \/ j = i
      BY <1>1
    <3> QED BY <3>1, <3>2, <3>3
  <2> QED BY <1>1, <1>3, <2>1, <2>2, <2>3
<1> DEFINE v == a \o u
<1> HIDE DEF v
<1>7. /\ v \o b \in Seq(S) /\ Len(v \o b) = Len(s) + 1
      /\ \A j \in 1 .. Len(s) + 1 : (v \o b)[j] = IF j <= i THEN v[j] ELSE b[j - i]
  <2>1. v \in Seq(S) /\ Len(v) = i
    BY <1>6 DEF v
  <2>2. /\ v \o b \in Seq(S) /\ Len(v \o b) = Len(v) + Len(b)
        /\ \A j \in 1 .. Len(v) + Len(b) : (v \o b)[j] = IF j <= Len(v) THEN v[j] ELSE b[j - Len(v)]
    BY <1>4, <2>1, ConcatProperties
  <2>3. i + (Len(s) + 1 - i) = Len(s) + 1
    BY <1>1
  <2> QED BY <1>4, <2>1, <2>2, <2>3
<1>8. ASSUME NEW j \in 1 .. Len(s) + 1 PROVE (v \o b)[j] = t[j]
  <2>1. CASE j <= i
    <3>1. j \in 1 .. i
      BY <1>1, <2>1
    <3> QED BY <1>1, <1>2, <1>6, <1>7, <2>1, <3>1 DEF v
  <2>2. CASE ~(j <= i)
    <3>1. j - i \in 1 .. Len(s) + 1 - i /\ i + (j - i) - 1 = j - 1 /\ ~(j < i) /\ j # i
      BY <1>1, <2>2
    <3> QED BY <1>2, <1>4, <1>7, <2>2, <3>1
  <2> QED BY <2>1, <2>2
<1>9. v \o b = t
  BY <1>2, <1>7, <1>8, SeqEqual
<1> QED BY <1>9 DEF t, a, b, u, v

LEMMA ConsGrows ==
    ASSUME NEW S, NEW s \in Seq(S), NEW x \in S
    PROVE  <<x>> \o s = Grown(s, 1, x)
<1> DEFINE t == Grown(s, 1, x)
           u == <<x>>
<1>1. Len(s) \in Nat /\ 1 \in 1 .. Len(s) + 1
  BY LenProperties
<1>2. /\ t \in Seq(S) /\ Len(t) = Len(s) + 1
      /\ \A j \in 1 .. Len(s) + 1 : t[j] = IF j < 1 THEN s[j] ELSE IF j = 1 THEN x ELSE s[j - 1]
  BY <1>1, GrownIsSeq DEF IsGrown
<1>3. u \in Seq(S) /\ Len(u) = 1 /\ u[1] = x
  OBVIOUS
<1> HIDE DEF t, u
<1>4. /\ u \o s \in Seq(S) /\ Len(u \o s) = 1 + Len(s)
      /\ \A j \in 1 .. 1 + Len(s) : (u \o s)[j] = IF j <= 1 THEN u[j] ELSE s[j - 1]
  BY <1>3, ConcatProperties
<1>5. ASSUME NEW j \in 1 .. Len(s) + 1 PROVE (u \o s)[j] = t[j]
  <2>1. j \in 1 .. 1 + Len(s) /\ ~(j < 1) /\ (j <= 1 <=> j = 1)
    BY <1>1
  <2> QED BY <1>2, <1>3, <1>4, <2>1
<1>6. Len(u \o s) = Len(t)
  BY <1>1, <1>2, <1>4
<1>7. u \o s = t
  BY <1>1, <1>2, <1>4, <1>5, <1>6, SeqEqual
<1> QED BY <1>7 DEF t, u

\* The edits by which it shrinks: its first element, any, its last.
LEMMA TailShrinks ==
    ASSUME NEW S, NEW s \in Seq(S), s # <<>>
    PROVE  Tail(s) = Shrunk(s, 1)
<1> DEFINE t == Shrunk(s, 1)
<1>1. Len(s) \in Nat \ {0} /\ 1 \in 1 .. Len(s)
  BY EmptySeq
<1>2. /\ t \in Seq(S) /\ Len(t) = Len(s) - 1
      /\ \A j \in 1 .. Len(s) - 1 : t[j] = IF j < 1 THEN s[j] ELSE s[j + 1]
  BY <1>1, ShrunkIsSeq DEF IsShrunk
<1> HIDE DEF t
<1>3. \A j \in 1 .. Len(s) - 1 : Tail(s)[j] = t[j]
  BY <1>2, HeadTailProperties
<1>4. Tail(s) = t
  BY <1>2, <1>3, HeadTailProperties, SeqEqual
<1> QED BY <1>4 DEF t

LEMMA RemoveAtShrinks ==
    ASSUME NEW S, NEW s \in Seq(S), NEW i \in 1 .. Len(s)
    PROVE  SubSeq(s, 1, i - 1) \o SubSeq(s, i + 1, Len(s)) = Shrunk(s, i)
<1> DEFINE t == Shrunk(s, i)
           a == SubSeq(s, 1, i - 1)
           b == SubSeq(s, i + 1, Len(s))
<1>1. Len(s) \in Nat /\ i \in Nat /\ i - 1 \in Int /\ i + 1 \in Int /\ \A j \in 1 .. Len(s) : s[j] \in S
  BY LenProperties
<1>2. /\ t \in Seq(S) /\ Len(t) = Len(s) - 1
      /\ \A j \in 1 .. Len(s) - 1 : t[j] = IF j < i THEN s[j] ELSE s[j + 1]
  BY ShrunkIsSeq DEF IsShrunk
<1>3. a \in Seq(S) /\ Len(a) = i - 1 /\ \A j \in 1 .. i - 1 : a[j] = s[j]
  <2>1. \A j \in 1 .. i - 1 : s[j] \in S
    BY <1>1
  <2>2. /\ a \in Seq(S) /\ Len(a) = IF 1 <= i - 1 THEN i - 1 - 1 + 1 ELSE 0
        /\ \A j \in 1 .. i - 1 - 1 + 1 : a[j] = s[1 + j - 1]
    BY <1>1, <2>1, SubSeqProperties
  <2> HIDE DEF a
  <2> QED BY <1>1, <2>2
<1>4. b \in Seq(S) /\ Len(b) = Len(s) - i /\ \A j \in 1 .. Len(s) - i : b[j] = s[i + j]
  <2>1. \A j \in i + 1 .. Len(s) : s[j] \in S
    BY <1>1
  <2>2. /\ b \in Seq(S) /\ Len(b) = IF i + 1 <= Len(s) THEN Len(s) - (i + 1) + 1 ELSE 0
        /\ \A j \in 1 .. Len(s) - (i + 1) + 1 : b[j] = s[(i + 1) + j - 1]
    BY <1>1, <2>1, SubSeqProperties
  <2> HIDE DEF b
  <2> QED BY <1>1, <2>2
<1> HIDE DEF t, a, b
<1>5. /\ a \o b \in Seq(S) /\ Len(a \o b) = Len(s) - 1
      /\ \A j \in 1 .. Len(s) - 1 : (a \o b)[j] = IF j <= i - 1 THEN a[j] ELSE b[j - (i - 1)]
  <2>1. /\ a \o b \in Seq(S) /\ Len(a \o b) = Len(a) + Len(b)
        /\ \A j \in 1 .. Len(a) + Len(b) : (a \o b)[j] = IF j <= Len(a) THEN a[j] ELSE b[j - Len(a)]
    BY <1>3, <1>4, ConcatProperties
  <2>2. (i - 1) + (Len(s) - i) = Len(s) - 1
    BY <1>1
  <2> QED BY <1>3, <1>4, <2>1, <2>2
<1>6. ASSUME NEW j \in 1 .. Len(s) - 1 PROVE (a \o b)[j] = t[j]
  <2>1. CASE j < i
    <3>1. j \in 1 .. i - 1 /\ j <= i - 1
      BY <1>1, <2>1
    <3> QED BY <1>2, <1>3, <1>5, <2>1, <3>1
  <2>2. CASE ~(j < i)
    <3>1. j - (i - 1) \in 1 .. Len(s) - i /\ i + (j - (i - 1)) = j + 1 /\ ~(j <= i - 1)
      BY <1>1, <2>2
    <3> QED BY <1>2, <1>4, <1>5, <2>2, <3>1
  <2> QED BY <2>1, <2>2
<1>7. a \o b = t
  BY <1>2, <1>5, <1>6, SeqEqual
<1> QED BY <1>7 DEF t, a, b

LEMMA FrontShrinks ==
    ASSUME NEW S, NEW s \in Seq(S), s # <<>>
    PROVE  SubSeq(s, 1, Len(s) - 1) = Shrunk(s, Len(s))
<1> DEFINE t == Shrunk(s, Len(s))
           a == SubSeq(s, 1, Len(s) - 1)
<1>1. Len(s) \in Nat \ {0} /\ Len(s) \in 1 .. Len(s) /\ \A j \in 1 .. Len(s) : s[j] \in S
  BY EmptySeq, LenProperties
<1>2. /\ t \in Seq(S) /\ Len(t) = Len(s) - 1
      /\ \A j \in 1 .. Len(s) - 1 : t[j] = IF j < Len(s) THEN s[j] ELSE s[j + 1]
  BY <1>1, ShrunkIsSeq DEF IsShrunk
<1>3. /\ a \in Seq(S) /\ Len(a) = IF 1 <= Len(s) - 1 THEN Len(s) - 1 - 1 + 1 ELSE 0
      /\ \A j \in 1 .. Len(s) - 1 - 1 + 1 : a[j] = s[1 + j - 1]
  <2>1. (\A j \in 1 .. Len(s) - 1 : s[j] \in S) /\ Len(s) - 1 \in Int
    BY <1>1
  <2> QED BY <2>1, SubSeqProperties
<1> HIDE DEF t, a
<1>4. Len(a) = Len(s) - 1 /\ \A j \in 1 .. Len(s) - 1 : a[j] = t[j]
  BY <1>1, <1>2, <1>3
<1>5. a = t
  BY <1>2, <1>3, <1>4, SeqEqual
<1> QED BY <1>5 DEF t, a

\* A stretch of n elements behind the first i makes room for c.
Replaced(t, i, n, c) ==
    [j \in 1 .. Len(t) - n + Len(c) |-> IF j <= i THEN t[j]
                                        ELSE IF j <= i + Len(c) THEN c[j - i]
                                        ELSE t[j - Len(c) + n]]

LEMMA SpliceReplaces ==
    ASSUME NEW S, NEW t \in Seq(S), NEW c \in Seq(S), NEW i \in 0 .. Len(t), NEW n \in 0 .. Len(t) - i
    PROVE  SubSeq(t, 1, i) \o c \o SubSeq(t, i + n + 1, Len(t)) = Replaced(t, i, n, c)
<1> DEFINE a == SubSeq(t, 1, i)
           b == SubSeq(t, i + n + 1, Len(t))
           m == Len(t)
           k == Len(c)
<1>1. /\ m \in Nat /\ k \in Nat /\ i \in Nat /\ n \in Nat /\ i + n <= m
      /\ (\A j \in 1 .. m : t[j] \in S) /\ \A j \in 1 .. k : c[j] \in S
  <2>1. m \in Nat /\ k \in Nat
    BY LenProperties
  <2> HIDE DEF m, k
  <2>2. i \in Nat /\ n \in Nat /\ i + n <= m
    BY <2>1 DEF m
  <2> QED BY <2>1, <2>2, LenProperties DEF m, k
<1>2. a \in Seq(S) /\ Len(a) = i /\ \A j \in 1 .. i : a[j] = t[j]
  <2>1. \A j \in 1 .. i : t[j] \in S
    BY <1>1
  <2>2. /\ a \in Seq(S) /\ Len(a) = IF 1 <= i THEN i - 1 + 1 ELSE 0
        /\ \A j \in 1 .. i - 1 + 1 : a[j] = t[1 + j - 1]
    BY <1>1, <2>1, SubSeqProperties
  <2> HIDE DEF a
  <2> QED BY <1>1, <2>2
<1>3. /\ b \in Seq(S) /\ Len(b) = m - (i + n)
      /\ \A j \in 1 .. m - (i + n) : b[j] = t[i + n + j]
  <2>1. (\A j \in i + n + 1 .. m : t[j] \in S) /\ i + n + 1 \in Int
    BY <1>1
  <2>2. /\ b \in Seq(S) /\ Len(b) = IF i + n + 1 <= m THEN m - (i + n + 1) + 1 ELSE 0
        /\ \A j \in 1 .. m - (i + n + 1) + 1 : b[j] = t[(i + n + 1) + j - 1]
    BY <1>1, <2>1, SubSeqProperties
  <2> HIDE DEF b, m
  <2> QED BY <1>1, <2>2
<1> HIDE DEF a, b
<1>4. /\ a \o c \in Seq(S) /\ Len(a \o c) = i + k
      /\ \A j \in 1 .. i + k : (a \o c)[j] = IF j <= i THEN a[j] ELSE c[j - i]
  <2>1. /\ a \o c \in Seq(S) /\ Len(a \o c) = Len(a) + Len(c)
        /\ \A j \in 1 .. Len(a) + Len(c) : (a \o c)[j] = IF j <= Len(a) THEN a[j] ELSE c[j - Len(a)]
    BY <1>2, ConcatProperties
  <2> QED BY <1>2, <2>1
<1> DEFINE v == a \o c
<1> HIDE DEF v
<1>5. /\ v \o b \in Seq(S) /\ Len(v \o b) = (i + k) + (m - (i + n))
      /\ \A j \in 1 .. (i + k) + (m - (i + n)) : (v \o b)[j] = IF j <= i + k THEN v[j] ELSE b[j - (i + k)]
  <2>1. v \in Seq(S) /\ Len(v) = i + k
    BY <1>4 DEF v
  <2>2. /\ v \o b \in Seq(S) /\ Len(v \o b) = Len(v) + Len(b)
        /\ \A j \in 1 .. Len(v) + Len(b) : (v \o b)[j] = IF j <= Len(v) THEN v[j] ELSE b[j - Len(v)]
    <3>1. b \in Seq(S) /\ v \in Seq(S)
      BY <1>3, <2>1
    <3> QED BY ONLY <3>1, ConcatProperties
  <2>3. Len(b) = m - (i + n)
    BY <1>3
  <2> HIDE DEF m, k
  <2> QED BY <2>1, <2>2, <2>3
<1> HIDE DEF m, k
<1>6. (i + k) + (m - (i + n)) = m - n + k
  BY <1>1
<1>7. ASSUME NEW j \in 1 .. m - n + k
      PROVE  (v \o b)[j] = IF j <= i THEN t[j] ELSE IF j <= i + k THEN c[j - i] ELSE t[j - k + n]
  <2>1. CASE j <= i
    <3>1. j \in 1 .. i /\ j \in 1 .. i + k /\ j <= i + k
      BY <1>1, <2>1
    <3> QED BY <1>2, <1>4, <1>5, <1>6, <2>1, <3>1 DEF v
  <2>2. CASE ~(j <= i) /\ j <= i + k
    <3>1. j \in 1 .. i + k
      BY <1>1, <2>2
    <3> QED BY <1>4, <1>5, <1>6, <2>2, <3>1 DEF v
  <2>3. CASE ~(j <= i + k)
    <3>1. j - (i + k) \in 1 .. m - (i + n) /\ i + n + (j - (i + k)) = j - k + n /\ ~(j <= i)
      BY <1>1, <2>3
    <3> QED BY <1>3, <1>5, <1>6, <2>3, <3>1
  <2> QED BY <2>1, <2>2, <2>3
<1>8. v \o b = Replaced(t, i, n, c)
  <2> DEFINE w == v \o b
  <2>1. w = [j \in 1 .. m - n + k |-> w[j]]
    <3>1. w \in Seq(S) /\ Len(w) = m - n + k
      BY <1>5, <1>6
    <3> HIDE DEF w
    <3> QED BY <3>1, LenProperties
  <2> HIDE DEF w
  <2>2. \A j \in 1 .. m - n + k :
           w[j] = IF j <= i THEN t[j] ELSE IF j <= i + k THEN c[j - i] ELSE t[j - k + n]
    BY <1>7 DEF w
  <2>3. w = Replaced(t, i, n, c)
    BY <2>1, <2>2 DEF Replaced, m, k
  <2> QED BY <2>3 DEF w
<1> QED BY <1>8 DEF v, a, b, m
=============================================================================
