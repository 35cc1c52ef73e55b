---------------------------- MODULE KeyedProofs ----------------------------
(***************************************************************************)
(* Proofs about the keyed containers, for every set of keys and values,    *)
(* every hash function, initial number of buckets and list of primes, and  *)
(* all priorities.  CCUnorderedSet and CCUnorderedMap keep every key in    *)
(* the bucket its hash stands for through every insertion, erasure and     *)
(* rehash; the trees of CCSet and CCMap stay search trees and heaps; and   *)
(* all of them answer like a table of keys, with the exceptions that the   *)
(* properties name.                                                        *)
(***************************************************************************)
EXTENDS KeyedContainers, DataLemmas, FiniteSetTheorems

-----------------------------------------------------------------------------
(* The nodes of an array of chains.                                          *)

\* Visit is the last of the sequences its loop goes through.
Visiting(v, chains, count) ==
    v[0] = <<>> /\ \A n \in 0 .. count - 1 : v[n + 1] = v[n] \o chains[n]

LEMMA VisitLoops ==
    ASSUME NEW E, NEW count \in Nat, NEW chains \in [0 .. count - 1 -> Seq(E)]
    PROVE  \E v \in [0 .. count -> Seq(E)] :
              Visiting(v, chains, count) /\ Visit(chains, count) = v[count]
<1> DEFINE h == [i \in Nat |-> [s \in Seq(E) |-> IF i < count THEN s \o chains[i] ELSE s]]
           Body(f) == [n \in 0 .. count |-> IF n = 0 THEN <<>> ELSE f[n - 1] \o chains[n - 1]]
           visit == CHOOSE f : f = Body(f)
<1>1. h \in [Nat -> [Seq(E) -> Seq(E)]]
  <2> SUFFICES ASSUME NEW i \in Nat, NEW s \in Seq(E), i < count PROVE s \o chains[i] \in Seq(E)
    OBVIOUS
  <2> QED BY ConcatProperties
<1>2. <<>> \in Seq(E)
  BY EmptySeq
<1>3. PICK g \in [Nat -> Seq(E)] : g[0] = <<>> /\ \A i \in Nat : g[i + 1] = h[i][g[i]]
  <2> HIDE DEF h
  <2>1. PICK g \in [Nat -> Seq(E)] : Recurses(g, <<>>, h)
    BY <1>1, <1>2, Recursion
  <2> QED BY <2>1 DEF Recurses
<1>4. \A i \in 0 .. count - 1 : g[i + 1] = g[i] \o chains[i]
  <2> TAKE i \in 0 .. count - 1
  <2>1. g[i] \in Seq(E) /\ i \in Nat /\ i < count
    BY <1>3
  <2> QED BY <1>3, <2>1
<1> DEFINE f == [i \in 0 .. count |-> g[i]]
<1>5. f = Body(f)
  <2>1. ASSUME NEW n \in 0 .. count
        PROVE  g[n] = IF n = 0 THEN <<>> ELSE f[n - 1] \o chains[n - 1]
    <3>1. CASE n = 0
      BY <1>3, <3>1
    <3>2. CASE n # 0
      <4>1. n - 1 \in 0 .. count - 1 /\ n - 1 \in 0 .. count /\ (n - 1) + 1 = n
        BY <3>2
      <4> QED BY <1>4, <3>2, <4>1
    <3> QED BY <3>1, <3>2
  <2> QED BY <2>1
<1>6. visit = Body(visit)
  <2> HIDE DEF Body, f
  <2> QED BY <1>5
<1>7. Visit(chains, count) = visit[count]
  BY DEF Visit
<1>8. visit[0] = <<>> /\ \A n \in 0 .. count - 1 : visit[n + 1] = visit[n] \o chains[n]
  <2> HIDE DEF visit
  <2>1. visit[0] = <<>>
    <3>1. 0 \in 0 .. count
      OBVIOUS
    <3> QED BY <1>6, <3>1
  <2>2. ASSUME NEW n \in 0 .. count - 1 PROVE visit[n + 1] = visit[n] \o chains[n]
    <3>1. n + 1 \in 0 .. count /\ n + 1 # 0 /\ (n + 1) - 1 = n
      OBVIOUS
    <3> QED BY <1>6, <3>1
  <2> QED BY <2>1, <2>2
<1>9. visit \in [0 .. count -> Seq(E)]
  <2> HIDE DEF visit
  <2> DEFINE T == {n \in 0 .. count : visit[n] \in Seq(E)}
  <2>1. 0 \in T
    <3>1. visit[0] \in Seq(E)
      BY <1>2, <1>8, Zenon
    <3> QED BY <3>1
  <2>2. ASSUME NEW i \in 0 .. count - 1, i \in T PROVE i + 1 \in T
    <3>1. visit[i] \in Seq(E) /\ chains[i] \in Seq(E)
      BY <2>2
    <3>2. visit[i] \o chains[i] \in Seq(E)
      BY <3>1, ConcatProperties
    <3>3. visit[i + 1] \in Seq(E)
      BY <1>8, <3>2, Zenon
    <3> QED BY <3>3
  <2>3. 0 .. count \subseteq T
    <3> HIDE DEF T
    <3> QED BY <2>1, <2>2, InductionUpTo
  <2>4. DOMAIN visit = 0 .. count /\ visit = [n \in 0 .. count |-> visit[n]]
    BY <1>6
  <2> QED BY <2>3, <2>4
<1> HIDE DEF visit
<1> QED BY <1>7, <1>8, <1>9 DEF Visiting

-----------------------------------------------------------------------------
(* Sequences in which every element has an identity of its own.              *)

In(x, s)    == \E a \in 1 .. Len(s) : s[a] = x
Once(s, id) == \A a, b \in 1 .. Len(s) : id[s[a]] = id[s[b]] => a = b

\* What is in two sequences is in one after the other.
LEMMA InConcat ==
    ASSUME NEW E, NEW s \in Seq(E), NEW t \in Seq(E), NEW x
    PROVE  In(x, s \o t) <=> In(x, s) \/ In(x, t)
<1>1. /\ Len(s) \in Nat /\ Len(t) \in Nat /\ Len(s \o t) = Len(s) + Len(t)
      /\ \A a \in 1 .. Len(s) + Len(t) :
            (s \o t)[a] = IF a <= Len(s) THEN s[a] ELSE t[a - Len(s)]
  BY ConcatProperties, LenProperties
<1>2. ASSUME In(x, s \o t) PROVE In(x, s) \/ In(x, t)
  <2>1. PICK a \in 1 .. Len(s) + Len(t) : (s \o t)[a] = x
    BY <1>1, <1>2 DEF In
  <2>2. CASE a <= Len(s)
    <3>1. a \in 1 .. Len(s) /\ s[a] = x
      BY <1>1, <2>1, <2>2
    <3> QED BY <3>1 DEF In
  <2>3. CASE ~ (a <= Len(s))
    <3>1. a - Len(s) \in 1 .. Len(t) /\ t[a - Len(s)] = x
      BY <1>1, <2>1, <2>3
    <3> QED BY <3>1 DEF In
  <2> QED BY <2>2, <2>3
<1>3. ASSUME In(x, s) PROVE In(x, s \o t)
  <2>1. PICK a \in 1 .. Len(s) : s[a] = x
    BY <1>3 DEF In
  <2>2. a \in 1 .. Len(s) + Len(t) /\ (s \o t)[a] = x
    BY <1>1, <2>1
  <2> QED BY <1>1, <2>2 DEF In
<1>4. ASSUME In(x, t) PROVE In(x, s \o t)
  <2>1. PICK a \in 1 .. Len(t) : t[a] = x
    BY <1>4 DEF In
  <2>2. a + Len(s) \in 1 .. Len(s) + Len(t) /\ (s \o t)[a + Len(s)] = x
    BY <1>1, <2>1
  <2> QED BY <1>1, <2>2 DEF In
<1> QED BY <1>2, <1>3, <1>4

\* Identities that no two elements of either and no two of both share.
LEMMA OnceConcat ==
    ASSUME NEW E, NEW s \in Seq(E), NEW t \in Seq(E), NEW id, Once(s, id), Once(t, id),
           \A x, y \in E : In(x, s) /\ In(y, t) => id[x] # id[y]
    PROVE  Once(s \o t, id)
<1>1. /\ Len(s) \in Nat /\ Len(t) \in Nat /\ Len(s \o t) = Len(s) + Len(t)
      /\ \A a \in 1 .. Len(s) + Len(t) :
            (s \o t)[a] = IF a <= Len(s) THEN s[a] ELSE t[a - Len(s)]
      /\ \A a \in 1 .. Len(s) : s[a] \in E /\ In(s[a], s)
      /\ \A a \in 1 .. Len(t) : t[a] \in E /\ In(t[a], t)
  BY ConcatProperties, LenProperties DEF In
<1>2. ASSUME NEW a \in 1 .. Len(s) + Len(t), NEW b \in 1 .. Len(s) + Len(t),
             id[(s \o t)[a]] = id[(s \o t)[b]]
      PROVE  a = b
  <2>1. CASE a <= Len(s) /\ b <= Len(s)
    <3>1. a \in 1 .. Len(s) /\ b \in 1 .. Len(s) /\ id[s[a]] = id[s[b]]
      BY <1>1, <1>2, <2>1
    <3> QED BY <3>1 DEF Once
  <2>2. CASE ~ (a <= Len(s)) /\ ~ (b <= Len(s))
    <3> DEFINE c == a - Len(s)
               d == b - Len(s)
    <3>1. c \in 1 .. Len(t) /\ d \in 1 .. Len(t) /\ id[t[c]] = id[t[d]]
      BY <1>1, <1>2, <2>2
    <3>2. c = d
      BY <3>1 DEF Once
    <3> QED BY <1>1, <3>2
  <2>3. CASE a <= Len(s) /\ ~ (b <= Len(s))
    <3> DEFINE d == b - Len(s)
    <3>1. a \in 1 .. Len(s) /\ d \in 1 .. Len(t) /\ id[s[a]] = id[t[d]]
      BY <1>1, <1>2, <2>3
    <3> HIDE DEF d
    <3> QED BY <1>1, <3>1
  <2>4. CASE ~ (a <= Len(s)) /\ b <= Len(s)
    <3> DEFINE c == a - Len(s)
    <3>1. b \in 1 .. Len(s) /\ c \in 1 .. Len(t) /\ id[s[b]] = id[t[c]]
      BY <1>1, <1>2, <2>4
    <3> HIDE DEF c
    <3> QED BY <1>1, <3>1
  <2> QED BY <2>1, <2>2, <2>3, <2>4
<1> QED BY <1>1, <1>2 DEF Once

\* An element pushed to the head of a chain.
LEMMA ConsHolds ==
    ASSUME NEW E, NEW s \in Seq(E), NEW x \in E
    PROVE  /\ Cons(x, s) \in Seq(E) /\ Len(Cons(x, s)) = Len(s) + 1
           /\ \A y : In(y, Cons(x, s)) <=> y = x \/ In(y, s)
           /\ \A id : Once(s, id) /\ (\A y \in E : In(y, s) => id[x] # id[y])
                         => Once(Cons(x, s), id)
<1> DEFINE h == <<x>>
<1>1. h \in Seq(E) /\ Len(h) = 1 /\ h[1] = x
  OBVIOUS
<1>2. Cons(x, s) = h \o s
  BY DEF Cons
<1>3. \A y : In(y, h) <=> y = x
  <2>1. 1 .. Len(h) = {1}
    BY <1>1
  <2> QED BY <1>1, <2>1 DEF In
<1>4. \A id : Once(h, id)
  BY <1>1 DEF Once
<1> HIDE DEF h
<1>5. Len(s) \in Nat /\ h \o s \in Seq(E) /\ Len(h \o s) = 1 + Len(s)
  BY <1>1, ConcatProperties, LenProperties
<1>6. \A y : In(y, h \o s) <=> y = x \/ In(y, s)
  BY <1>1, <1>3, InConcat
<1>7. ASSUME NEW id, Once(s, id), \A y \in E : In(y, s) => id[x] # id[y]
      PROVE  Once(h \o s, id)
  BY <1>1, <1>3, <1>4, <1>7, OnceConcat
<1> QED BY <1>2, <1>5, <1>6, <1>7

\* An element taken out of a chain.
LEMMA ShrunkHolds ==
    ASSUME NEW E, NEW s \in Seq(E), NEW i \in 1 .. Len(s), NEW t \in Seq(E), IsShrunk(t, s, i)
    PROVE  /\ Len(t) = Len(s) - 1
           /\ \A y : In(y, t) => In(y, s)
           /\ \A y : In(y, s) => y = s[i] \/ In(y, t)
           /\ \A id : Once(s, id) => Once(t, id) /\ \A y \in E : In(y, t) => id[y] # id[s[i]]
<1>1. Len(s) \in Nat /\ Len(t) = Len(s) - 1 /\ i \in Nat
  BY LenProperties DEF IsShrunk
<1> DEFINE from(j) == IF j < i THEN j ELSE j + 1
<1>2. \A j \in 1 .. Len(t) : from(j) \in 1 .. Len(s) /\ from(j) # i /\ t[j] = s[from(j)]
  BY <1>1 DEF IsShrunk
<1>3. \A j, k \in 1 .. Len(t) : from(j) = from(k) => j = k
  BY <1>1
<1>4. ASSUME NEW k \in 1 .. Len(s), k # i PROVE \E j \in 1 .. Len(t) : from(j) = k
  <2>1. CASE k < i
    <3>1. k \in 1 .. Len(t) /\ from(k) = k
      BY <1>1, <2>1
    <3> QED BY <3>1
  <2>2. CASE ~ (k < i)
    <3>1. k - 1 \in 1 .. Len(t) /\ from(k - 1) = k
      BY <1>1, <1>4, <2>2
    <3> QED BY <3>1
  <2> QED BY <2>1, <2>2
<1> HIDE DEF from
<1>5. ASSUME NEW y, In(y, t) PROVE In(y, s)
  BY <1>2, <1>5 DEF In
<1>6. ASSUME NEW y, In(y, s), y # s[i] PROVE In(y, t)
  <2>1. PICK k \in 1 .. Len(s) : s[k] = y
    BY <1>6 DEF In
  <2>2. PICK j \in 1 .. Len(t) : from(j) = k
    BY <1>4, <1>6, <2>1
  <2>3. t[j] = y
    BY <1>2, <2>1, <2>2
  <2> QED BY <2>3 DEF In
<1>7. ASSUME NEW id, Once(s, id) PROVE Once(t, id) /\ \A y \in E : In(y, t) => id[y] # id[s[i]]
  <2>1. Once(t, id)
    BY <1>2, <1>3, <1>7 DEF Once
  <2>2. ASSUME NEW j \in 1 .. Len(t) PROVE id[t[j]] # id[s[i]]
    BY <1>2, <1>7 DEF Once
  <2> QED BY <2>1, <2>2 DEF In
<1> QED BY <1>1, <1>5, <1>6, <1>7

-----------------------------------------------------------------------------
(* Arrays of chains in which every node lies where its hash puts it.         *)

\* Nodes of one identity have one hash.
Hashed(E, id, home) == home \in [E -> Nat] /\ \A x, y \in E : id[x] = id[y] => home[x] = home[y]

Placed(chains, E, id, home, count) ==
    /\ chains \in [0 .. count - 1 -> Seq(E)]
    /\ \A i \in 0 .. count - 1 : /\ Once(chains[i], id)
                                 /\ \A x \in E : In(x, chains[i]) => home[x] % count = i

\* What is in a chain of its array.
Stored(x, chains, home, count) == In(x, chains[home[x] % count])

LEMMA ModRange == \A n \in Nat, count \in Nat \ {0} : n % count \in 0 .. count - 1
  OBVIOUS

\* The rehash meets every node once.
LEMMA VisitPlaced ==
    ASSUME NEW E, NEW id, NEW home, Hashed(E, id, home), NEW count \in Nat \ {0},
           NEW chains, Placed(chains, E, id, home, count)
    PROVE  /\ Visit(chains, count) \in Seq(E)
           /\ Once(Visit(chains, count), id)
           /\ \A x \in E : In(x, Visit(chains, count)) <=> Stored(x, chains, home, count)
<1>1. chains \in [0 .. count - 1 -> Seq(E)]
  BY DEF Placed
<1>2. PICK v \in [0 .. count -> Seq(E)] :
         Visiting(v, chains, count) /\ Visit(chains, count) = v[count]
  BY <1>1, VisitLoops
<1> DEFINE T == {n \in 0 .. count :
                    /\ Once(v[n], id)
                    /\ \A x \in E : In(x, v[n]) <=> home[x] % count < n /\ Stored(x, chains, home, count)}
<1>3. 0 \in T
  <2>1. v[0] = <<>> /\ 0 \in 0 .. count
    BY <1>2 DEF Visiting
  <2>2. Len(v[0]) = 0
    BY <2>1
  <2>3. Once(v[0], id)
    BY <2>2 DEF Once
  <2>4. \A x : ~ In(x, v[0])
    BY <2>2 DEF In
  <2>5. \A x \in E : ~ (home[x] % count < 0)
    BY ModRange DEF Hashed
  <2> QED BY <2>1, <2>3, <2>4, <2>5
<1>4. ASSUME NEW n \in 0 .. count - 1, n \in T PROVE n + 1 \in T
  <2>1. /\ n + 1 \in 0 .. count /\ v[n] \in Seq(E) /\ chains[n] \in Seq(E)
        /\ v[n + 1] = v[n] \o chains[n]
    <3>1. n \in 0 .. count /\ n + 1 \in 0 .. count
      OBVIOUS
    <3>2. v[n + 1] = v[n] \o chains[n]
      BY <1>2, Zenon DEF Visiting
    <3> QED BY <1>1, <3>1, <3>2
  <2>2. /\ Once(v[n], id)
        /\ \A x \in E : In(x, v[n]) <=> home[x] % count < n /\ Stored(x, chains, home, count)
    BY <1>4
  <2>3. Once(chains[n], id) /\ \A x \in E : In(x, chains[n]) => home[x] % count = n
    BY DEF Placed
  <2>4. \A x \in E : home[x] % count \in Nat
    <3> TAKE x \in E
    <3>1. home[x] \in Nat
      BY DEF Hashed
    <3>2. \A k \in Nat : k % count \in Nat
      BY ModRange
    <3> QED BY <3>1, <3>2
  <2>5. ASSUME NEW x \in E, NEW y \in E, In(x, v[n]), In(y, chains[n]) PROVE id[x] # id[y]
    <3>1. home[x] # home[y]
      BY <2>2, <2>3, <2>4, <2>5
    <3> QED BY <3>1 DEF Hashed
  <2>6. Once(v[n + 1], id)
    BY <2>1, <2>2, <2>3, <2>5, OnceConcat
  <2>7. ASSUME NEW x \in E
        PROVE  In(x, v[n + 1]) <=> home[x] % count < n + 1 /\ Stored(x, chains, home, count)
    <3>1. In(x, v[n + 1]) <=> In(x, v[n]) \/ In(x, chains[n])
      BY <2>1, InConcat
    <3>2. In(x, chains[n]) <=> home[x] % count = n /\ Stored(x, chains, home, count)
      BY <2>3 DEF Stored
    <3>3. home[x] % count < n + 1 <=> home[x] % count < n \/ home[x] % count = n
      BY <2>4
    <3> QED BY <2>2, <3>1, <3>2, <3>3
  <2> QED BY <2>1, <2>6, <2>7
<1>5. 0 .. count \subseteq T
  <2> HIDE DEF T
  <2> QED BY <1>3, <1>4, InductionUpTo
<1>6. count \in T
  BY <1>5
<1>7. \A x \in E : home[x] % count < count
  BY ModRange DEF Hashed
<1> QED BY <1>2, <1>6, <1>7

\* The loop of a rehash.
Pushing(p, nodes, hashes, count) ==
    /\ p[0] = EmptyChains(count)
    /\ \A n \in 0 .. Len(nodes) - 1 :
          p[n + 1] = [p[n] EXCEPT ![hashes[n + 1] % count] = Cons(nodes[n + 1], @)]

LEMMA RehashedLoops ==
    ASSUME NEW E, NEW nodes \in Seq(E), NEW hashes \in [1 .. Len(nodes) -> Nat],
           NEW count \in Nat \ {0}
    PROVE  \E p \in [0 .. Len(nodes) -> [0 .. count - 1 -> Seq(E)]] :
              /\ Pushing(p, nodes, hashes, count)
              /\ Rehashed(nodes, hashes, count) = p[Len(nodes)]
<1> DEFINE m == Len(nodes)
           C == [0 .. count - 1 -> Seq(E)]
           Pushed(c, n) == [c EXCEPT ![hashes[n] % count] = Cons(nodes[n], @)]
           h == [i \in Nat |-> [c \in C |-> IF i < m THEN Pushed(c, i + 1) ELSE c]]
           Body(f) == [n \in 0 .. m |-> IF n = 0 THEN EmptyChains(count) ELSE Pushed(f[n - 1], n)]
           push == CHOOSE f : f = Body(f)
<1>0. m \in Nat /\ \A i \in 1 .. m : nodes[i] \in E
  BY LenProperties
<1>1. ASSUME NEW c \in C, NEW n \in 1 .. m PROVE Pushed(c, n) \in C
  <2>1. hashes[n] % count \in 0 .. count - 1
    BY <1>0, ModRange
  <2>2. Cons(nodes[n], c[hashes[n] % count]) \in Seq(E)
    BY <1>0, <2>1, ConsHolds
  <2> QED BY <2>1, <2>2
<1>2. h \in [Nat -> [C -> C]]
  <2> SUFFICES ASSUME NEW i \in Nat, NEW c \in C PROVE (IF i < m THEN Pushed(c, i + 1) ELSE c) \in C
    BY Zenon
  <2>1. i < m => i + 1 \in 1 .. m
    BY <1>0
  <2> HIDE DEF Pushed, C
  <2> QED BY <1>1, <2>1
<1>3. EmptyChains(count) \in C
  BY DEF EmptyChains
<1>4. PICK g \in [Nat -> C] : Recurses(g, EmptyChains(count), h)
  <2> HIDE DEF h, C
  <2> QED BY <1>2, <1>3, Recursion
<1>5. \A i \in 0 .. m - 1 : g[i + 1] = Pushed(g[i], i + 1)
  <2> TAKE i \in 0 .. m - 1
  <2>1. i \in Nat /\ i < m
    BY <1>0
  <2>2. g[i] \in C /\ g[i + 1] = h[i][g[i]]
    BY <1>4, <2>1 DEF Recurses
  <2>3. h[i][g[i]] = IF i < m THEN Pushed(g[i], i + 1) ELSE g[i]
    <3> HIDE DEF Pushed, C
    <3> QED BY <2>1, <2>2
  <2> HIDE DEF Pushed, C, h
  <2> QED BY <2>1, <2>2, <2>3
<1> DEFINE f == [i \in 0 .. m |-> g[i]]
<1>6. f = Body(f)
  <2>1. ASSUME NEW n \in 0 .. m
        PROVE  g[n] = IF n = 0 THEN EmptyChains(count) ELSE Pushed(f[n - 1], n)
    <3> HIDE DEF Pushed, C, h
    <3>1. CASE n = 0
      BY <1>4, <3>1 DEF Recurses
    <3>2. CASE n # 0
      <4>1. n - 1 \in 0 .. m - 1 /\ n - 1 \in 0 .. m /\ (n - 1) + 1 = n
        BY <1>0, <3>2
      <4> QED BY <1>5, <3>2, <4>1
    <3> QED BY <3>1, <3>2
  <2> HIDE DEF Pushed
  <2> QED BY <2>1
<1>7. push = Body(push)
  <2> HIDE DEF Body, f
  <2> QED BY <1>6
<1>8. Rehashed(nodes, hashes, count) = push[m]
  BY DEF Rehashed
<1>9. push[0] = EmptyChains(count) /\ \A n \in 0 .. m - 1 : push[n + 1] = Pushed(push[n], n + 1)
  <2> HIDE DEF push, Pushed
  <2>1. 0 \in 0 .. m
    BY <1>0
  <2>2. \A n \in 0 .. m - 1 : n + 1 \in 0 .. m /\ n + 1 # 0 /\ (n + 1) - 1 = n
    BY <1>0
  <2>3. push[0] = EmptyChains(count)
    BY <1>7, <2>1
  <2>4. ASSUME NEW n \in 0 .. m - 1 PROVE push[n + 1] = Pushed(push[n], n + 1)
    BY <1>7, <2>2
  <2> QED BY <2>3, <2>4
<1>10. push \in [0 .. m -> C]
  <2> HIDE DEF push, C
  <2> DEFINE T == {n \in 0 .. m : push[n] \in C}
  <2>1. 0 \in T
    BY <1>0, <1>3, <1>9
  <2>2. ASSUME NEW n \in 0 .. m - 1, n \in T PROVE n + 1 \in T
    <3>1. n + 1 \in 1 .. m /\ n + 1 \in 0 .. m /\ push[n] \in C
      BY <1>0, <2>2
    <3>2. Pushed(push[n], n + 1) \in C
      BY <1>1, <3>1
    <3> HIDE DEF Pushed
    <3> QED BY <1>9, <3>1, <3>2
  <2>3. 0 .. m \subseteq T
    <3> HIDE DEF T, Pushed
    <3> QED BY <1>0, <2>1, <2>2, InductionUpTo
  <2>4. DOMAIN push = 0 .. m /\ push = [n \in 0 .. m |-> push[n]]
    <3> HIDE DEF Pushed
    <3> QED BY <1>7
  <2> QED BY <2>3, <2>4
<1> HIDE DEF push
<1> QED BY <1>8, <1>9, <1>10 DEF Pushing

-----------------------------------------------------------------------------
(* The number of nodes in an array of chains.                                *)

\* It changes by as much as the one chain that changes.
ChainArrays(E, count) == [0 .. count - 1 -> Seq(E)]

Longer(d, c, count, j, diff) ==
    /\ j \in 0 .. count - 1 /\ diff \in Int /\ Len(d[j]) = Len(c[j]) + diff
    /\ \A i \in 0 .. count - 1 : i # j => d[i] = c[i]

LEMMA VisitLength ==
    ASSUME NEW E, NEW count \in Nat \ {0}, NEW c \in ChainArrays(E, count),
           NEW d \in ChainArrays(E, count), NEW j, NEW diff, Longer(d, c, count, j, diff)
    PROVE  /\ Len(Visit(c, count)) \in Nat /\ Len(Visit(d, count)) \in Nat
           /\ Len(Visit(d, count)) = Len(Visit(c, count)) + diff
<1>0. /\ j \in 0 .. count - 1 /\ diff \in Int /\ Len(d[j]) = Len(c[j]) + diff
      /\ \A i \in 0 .. count - 1 : i # j => d[i] = c[i]
      /\ c \in [0 .. count - 1 -> Seq(E)] /\ d \in [0 .. count - 1 -> Seq(E)]
  BY DEF Longer, ChainArrays
<1>1. PICK v \in [0 .. count -> Seq(E)] : Visiting(v, c, count) /\ Visit(c, count) = v[count]
  BY <1>0, VisitLoops
<1>2. PICK w \in [0 .. count -> Seq(E)] : Visiting(w, d, count) /\ Visit(d, count) = w[count]
  BY <1>0, VisitLoops
<1> DEFINE T == {n \in 0 .. count : Len(w[n]) = IF n <= j THEN Len(v[n]) ELSE Len(v[n]) + diff}
<1>3. \A n \in 0 .. count : Len(v[n]) \in Nat /\ Len(w[n]) \in Nat
  BY LenProperties
<1>4. 0 \in T
  <2>1. v[0] = <<>> /\ w[0] = <<>> /\ 0 \in 0 .. count /\ 0 <= j
    BY <1>0, <1>1, <1>2 DEF Visiting
  <2> QED BY <2>1
<1>5. ASSUME NEW n \in 0 .. count - 1, n \in T PROVE n + 1 \in T
  <2>1. n \in 0 .. count /\ n + 1 \in 0 .. count
    BY <1>0
  <2>2. /\ v[n] \in Seq(E) /\ c[n] \in Seq(E) /\ v[n + 1] = v[n] \o c[n]
        /\ w[n] \in Seq(E) /\ d[n] \in Seq(E) /\ w[n + 1] = w[n] \o d[n]
    <3>1. v[n + 1] = v[n] \o c[n] /\ w[n + 1] = w[n] \o d[n]
      BY <1>1, <1>2, Zenon DEF Visiting
    <3> QED BY <1>0, <2>1, <3>1
  <2>3. Len(v[n + 1]) = Len(v[n]) + Len(c[n]) /\ Len(w[n + 1]) = Len(w[n]) + Len(d[n])
    BY <2>2, ConcatProperties
  <2>4. Len(d[n]) = IF n = j THEN Len(c[n]) + diff ELSE Len(c[n])
    BY <1>0
  <2>5. Len(c[n]) \in Nat
    BY <2>2, LenProperties
  <2>6. Len(w[n]) = IF n <= j THEN Len(v[n]) ELSE Len(v[n]) + diff
    BY <1>5
  <2>7. Len(w[n + 1]) = IF n + 1 <= j THEN Len(v[n + 1]) ELSE Len(v[n + 1]) + diff
    <3> DEFINE lv == Len(v[n])
               lw == Len(w[n])
               lc == Len(c[n])
    <3>1. lv \in Nat /\ lw \in Nat /\ lc \in Nat
      BY <1>3, <2>1, <2>5
    <3>2. Len(v[n + 1]) = lv + lc /\ Len(w[n + 1]) = lw + IF n = j THEN lc + diff ELSE lc
      BY <2>3, <2>4
    <3>3. lw = IF n <= j THEN lv ELSE lv + diff
      BY <2>6
    <3> HIDE DEF lv, lw, lc
    <3>4. n \in Int /\ j \in Int /\ diff \in Int
      BY <1>0
    <3> QED BY ONLY <3>1, <3>2, <3>3, <3>4
  <2> QED BY <2>1, <2>7
<1>6. 0 .. count \subseteq T
  <2> HIDE DEF T
  <2> QED BY <1>4, <1>5, InductionUpTo
<1>7. count \in T
  BY <1>6
<1> QED BY <1>0, <1>1, <1>2, <1>3, <1>7

\* An array without nodes has none.
LEMMA VisitEmpty ==
    ASSUME NEW count \in Nat PROVE Len(Visit(EmptyChains(count), count)) = 0
<1> DEFINE c == EmptyChains(count)
           E == {}
<1>1. c \in [0 .. count - 1 -> Seq(E)] /\ \A i \in 0 .. count - 1 : c[i] = <<>>
  BY DEF EmptyChains
<1> HIDE DEF c
<1>2. PICK v \in [0 .. count -> Seq(E)] : Visiting(v, c, count) /\ Visit(c, count) = v[count]
  BY <1>1, VisitLoops
<1>3. v[count] \in Seq(E)
  BY <1>2
<1>4. v[count] = <<>>
  <2>1. Len(v[count]) \in Nat /\ \A i \in 1 .. Len(v[count]) : v[count][i] \in E
    BY <1>3, LenProperties
  <2>2. ~ (1 \in 1 .. Len(v[count]))
    BY <2>1
  <2>3. Len(v[count]) = 0
    BY <2>1, <2>2
  <2> QED BY <1>3, <2>3, EmptySeq
<1> QED BY <1>2, <1>4, EmptySeq DEF c

-----------------------------------------------------------------------------
(* One node pushed, taken out or replaced.                                   *)

\* A node that no other has the identity of, pushed to the head of its chain.
Fresh(x, c, E, id, home, count) == \A y \in E : Stored(y, c, home, count) => id[y] # id[x]

LEMMA PushPlaced ==
    ASSUME NEW E, NEW id, NEW home, Hashed(E, id, home), NEW count \in Nat \ {0},
           NEW c, Placed(c, E, id, home, count), NEW x \in E, Fresh(x, c, E, id, home, count)
    PROVE  LET d == [c EXCEPT ![home[x] % count] = Cons(x, @)]
           IN  /\ Placed(d, E, id, home, count)
               /\ \A y \in E : Stored(y, d, home, count) <=> Stored(y, c, home, count) \/ y = x
               /\ Longer(d, c, count, home[x] % count, 1)
<1> DEFINE j == home[x] % count
           d == [c EXCEPT ![j] = Cons(x, @)]
<1>1. c \in ChainArrays(E, count)
  BY DEF Placed, ChainArrays
<1>2. home[x] \in Nat /\ j \in 0 .. count - 1 /\ \A y \in E : home[y] % count \in 0 .. count - 1
  BY ModRange DEF Hashed
<1> HIDE DEF j
<1> DEFINE s == c[j]
<1>3. s \in Seq(E)
  BY <1>1, <1>2 DEF ChainArrays
<1>4. \A y \in E : In(y, s) => id[x] # id[y]
  <2> SUFFICES ASSUME NEW y \in E, In(y, s) PROVE id[x] # id[y]
    OBVIOUS
  <2>1. home[y] % count = j
    BY <1>2 DEF Placed
  <2> QED BY <2>1 DEF Stored, Fresh
<1> HIDE DEF s
<1>5. /\ Cons(x, s) \in Seq(E) /\ Len(Cons(x, s)) = Len(s) + 1
      /\ \A y : In(y, Cons(x, s)) <=> y = x \/ In(y, s)
      /\ Once(s, id) => Once(Cons(x, s), id)
  <2>1. /\ Cons(x, s) \in Seq(E) /\ Len(Cons(x, s)) = Len(s) + 1
        /\ \A y : In(y, Cons(x, s)) <=> y = x \/ In(y, s)
    BY <1>3, ConsHolds
  <2>2. Once(s, id) /\ (\A y \in E : In(y, s) => id[x] # id[y]) => Once(Cons(x, s), id)
    BY <1>3, ConsHolds
  <2> QED BY <1>4, <2>1, <2>2
<1>6. /\ d \in ChainArrays(E, count) /\ d[j] = Cons(x, s)
      /\ \A i \in 0 .. count - 1 : i # j => d[i] = c[i]
  BY <1>1, <1>2, <1>5 DEF ChainArrays, s
<1> HIDE DEF d
<1>7. ASSUME NEW i \in 0 .. count - 1
      PROVE  Once(d[i], id) /\ \A y \in E : In(y, d[i]) => home[y] % count = i
  <2>1. Once(c[i], id) /\ \A y \in E : In(y, c[i]) => home[y] % count = i
    BY DEF Placed
  <2>2. CASE i = j
    BY <1>5, <1>6, <2>1, <2>2 DEF s, j
  <2>3. CASE i # j
    BY <1>6, <2>1, <2>3
  <2> QED BY <2>2, <2>3
<1>8. Placed(d, E, id, home, count)
  BY <1>6, <1>7 DEF Placed, ChainArrays
<1>9. ASSUME NEW y \in E
      PROVE  Stored(y, d, home, count) <=> Stored(y, c, home, count) \/ y = x
  <2>1. CASE home[y] % count = j
    BY <1>5, <1>6, <2>1 DEF Stored, s
  <2>2. CASE home[y] % count # j
    BY <1>2, <1>6, <2>2 DEF Stored, j
  <2> QED BY <2>1, <2>2
<1>10. Longer(d, c, count, j, 1)
  BY <1>2, <1>5, <1>6 DEF Longer, s
<1> QED BY <1>8, <1>9, <1>10 DEF d, j

\* A node taken out of its chain.
LEMMA TakePlaced ==
    ASSUME NEW E, NEW id, NEW home, Hashed(E, id, home), NEW count \in Nat \ {0},
           NEW c, Placed(c, E, id, home, count), NEW j \in 0 .. count - 1, NEW a \in 1 .. Len(c[j])
    PROVE  LET d == [c EXCEPT ![j] = RemoveAt(@, a)]
           IN  /\ Placed(d, E, id, home, count)
               /\ \A y \in E : Stored(y, d, home, count)
                                  <=> Stored(y, c, home, count) /\ id[y] # id[c[j][a]]
               /\ Longer(d, c, count, j, -1)
<1> DEFINE d == [c EXCEPT ![j] = RemoveAt(@, a)]
           s == c[j]
           x == s[a]
           t == RemoveAt(s, a)
<1>1. c \in ChainArrays(E, count) /\ s \in Seq(E)
  BY DEF Placed, ChainArrays
<1>2. \A y \in E : home[y] \in Nat /\ home[y] % count \in 0 .. count - 1
  BY ModRange DEF Hashed
<1>3. x \in E /\ In(x, s) /\ Len(s) \in Nat
  BY <1>1, LenProperties DEF In
<1>4. home[x] % count = j /\ Once(s, id)
  BY <1>3 DEF Placed
<1> HIDE DEF s
<1>5. t = Shrunk(s, a) /\ t \in Seq(E) /\ IsShrunk(t, s, a)
  <2>1. a \in 1 .. Len(s)
    BY DEF s
  <2>2. t = Shrunk(s, a)
    BY <1>1, <2>1, RemoveAtShrinks DEF RemoveAt
  <2>3. Shrunk(s, a) \in Seq(E) /\ IsShrunk(Shrunk(s, a), s, a)
    BY <1>1, <2>1, ShrunkIsSeq
  <2> QED BY <2>2, <2>3
<1> HIDE DEF t
<1>6. /\ Len(t) = Len(s) - 1
      /\ \A y : In(y, t) => In(y, s)
      /\ \A y : In(y, s) => y = x \/ In(y, t)
      /\ Once(t, id) /\ \A y \in E : In(y, t) => id[y] # id[x]
  <2>1. a \in 1 .. Len(s)
    BY DEF s
  <2> QED BY <1>1, <1>4, <1>5, <2>1, ShrunkHolds
<1>7. /\ d \in ChainArrays(E, count) /\ d[j] = t
      /\ \A i \in 0 .. count - 1 : i # j => d[i] = c[i]
  BY <1>1, <1>5 DEF ChainArrays, s, t
<1> HIDE DEF d, x
<1>8. ASSUME NEW i \in 0 .. count - 1
      PROVE  Once(d[i], id) /\ \A y \in E : In(y, d[i]) => home[y] % count = i
  <2>1. Once(c[i], id) /\ \A y \in E : In(y, c[i]) => home[y] % count = i
    BY DEF Placed
  <2>2. CASE i = j
    BY <1>6, <1>7, <2>1, <2>2 DEF s
  <2>3. CASE i # j
    BY <1>7, <2>1, <2>3
  <2> QED BY <2>2, <2>3
<1>9. Placed(d, E, id, home, count)
  BY <1>7, <1>8 DEF Placed, ChainArrays
<1>10. ASSUME NEW y \in E
       PROVE  Stored(y, d, home, count) <=> Stored(y, c, home, count) /\ id[y] # id[x]
  <2>1. CASE home[y] % count = j
    BY <1>6, <1>7, <2>1 DEF Stored, s
  <2>2. CASE home[y] % count # j
    <3>1. home[y] # home[x]
      BY <1>4, <2>2
    <3>2. id[y] # id[x]
      BY <1>3, <3>1 DEF Hashed
    <3> QED BY <1>2, <1>7, <2>2, <3>2 DEF Stored
  <2> QED BY <2>1, <2>2
<1>11. Longer(d, c, count, j, -1)
  BY <1>1, <1>3, <1>6, <1>7 DEF Longer, s
<1> QED BY <1>9, <1>10, <1>11 DEF d, x, s

\* A node that takes the place of one with its identity.
LEMMA ReplacePlaced ==
    ASSUME NEW E, NEW id, NEW home, Hashed(E, id, home), NEW count \in Nat \ {0},
           NEW c, Placed(c, E, id, home, count), NEW j \in 0 .. count - 1, NEW a \in 1 .. Len(c[j]),
           NEW x \in E, id[x] = id[c[j][a]]
    PROVE  LET d == [c EXCEPT ![j] = [@ EXCEPT ![a] = x]]
           IN  /\ Placed(d, E, id, home, count)
               /\ \A y \in E : Stored(y, d, home, count)
                                  <=> y = x \/ (Stored(y, c, home, count) /\ id[y] # id[x])
               /\ Longer(d, c, count, j, 0)
<1> DEFINE d == [c EXCEPT ![j] = [@ EXCEPT ![a] = x]]
           s == c[j]
           t == [s EXCEPT ![a] = x]
<1>1. c \in ChainArrays(E, count) /\ s \in Seq(E)
  BY DEF Placed, ChainArrays
<1>2. \A y \in E : home[y] \in Nat /\ home[y] % count \in 0 .. count - 1
  BY ModRange DEF Hashed
<1>3. s[a] \in E /\ In(s[a], s) /\ Len(s) \in Nat
  BY <1>1, LenProperties DEF In
<1>4. home[s[a]] % count = j /\ home[x] = home[s[a]] /\ Once(s, id)
  BY <1>3 DEF Placed, Hashed
<1>5. t \in Seq(E) /\ Len(t) = Len(s) /\ \A i \in 1 .. Len(s) : t[i] = IF i = a THEN x ELSE s[i]
  BY <1>1, LenProperties
<1>6. Once(t, id)
  <2> SUFFICES ASSUME NEW i \in 1 .. Len(s), NEW k \in 1 .. Len(s), id[t[i]] = id[t[k]] PROVE i = k
    BY <1>5 DEF Once
  <2>1. id[t[i]] = id[s[i]] /\ id[t[k]] = id[s[k]]
    <3> HIDE DEF s, t
    <3> QED BY <1>5 DEF s
  <2> QED BY <1>4, <2>1 DEF Once
<1>7. ASSUME NEW y \in E PROVE In(y, t) <=> y = x \/ (In(y, s) /\ id[y] # id[x])
  <2>1. ASSUME NEW i \in 1 .. Len(s), t[i] = y PROVE y = x \/ (In(y, s) /\ id[y] # id[x])
    <3>1. CASE i = a
      BY <1>5, <2>1, <3>1
    <3>2. CASE i # a
      <4>1. s[i] = y /\ In(y, s)
        BY <1>5, <2>1, <3>2 DEF In
      <4>2. id[s[i]] # id[s[a]]
        BY <1>4, <3>2 DEF Once
      <4> QED BY <4>1, <4>2
    <3> QED BY <3>1, <3>2
  <2>2. In(x, t)
    BY <1>5 DEF In
  <2>3. ASSUME NEW i \in 1 .. Len(s), s[i] = y, id[y] # id[x] PROVE In(y, t)
    <3>1. i # a /\ t[i] = y
      BY <1>5, <2>3
    <3> QED BY <1>5, <3>1 DEF In
  <2> QED BY <1>5, <2>1, <2>2, <2>3 DEF In
<1>8. /\ d \in ChainArrays(E, count) /\ d[j] = t
      /\ \A i \in 0 .. count - 1 : i # j => d[i] = c[i]
  BY <1>1, <1>5 DEF ChainArrays
<1>9. \A i \in 0 .. count - 1 : Once(c[i], id) /\ \A y \in E : In(y, c[i]) => home[y] % count = i
  BY DEF Placed
<1> HIDE DEF d, t, s
<1>10. ASSUME NEW i \in 0 .. count - 1
       PROVE  Once(d[i], id) /\ \A y \in E : In(y, d[i]) => home[y] % count = i
  <2>1. CASE i = j
    BY <1>4, <1>6, <1>7, <1>8, <1>9, <2>1 DEF s
  <2>2. CASE i # j
    BY <1>8, <1>9, <2>2
  <2> QED BY <2>1, <2>2
<1>11. Placed(d, E, id, home, count)
  BY <1>8, <1>10 DEF Placed, ChainArrays
<1>12. ASSUME NEW y \in E
       PROVE  Stored(y, d, home, count) <=> y = x \/ (Stored(y, c, home, count) /\ id[y] # id[x])
  <2>1. CASE home[y] % count = j
    BY <1>7, <1>8, <2>1 DEF Stored, s
  <2>2. CASE home[y] % count # j
    <3>1. home[y] # home[x]
      BY <1>4, <2>2
    <3>2. id[y] # id[x] /\ y # x
      BY <3>1 DEF Hashed
    <3> QED BY <1>2, <1>8, <2>2, <3>2 DEF Stored
  <2> QED BY <2>1, <2>2
<1>13. Longer(d, c, count, j, 0)
  BY <1>3, <1>5, <1>8 DEF Longer, s
<1> QED BY <1>11, <1>12, <1>13 DEF d

-----------------------------------------------------------------------------
(* Rehashing.                                                                *)

\* The hashes of the nodes a rehash meets.
HashesOf(nodes, home) == [n \in 1 .. Len(nodes) |-> home[nodes[n]]]

\* A rehash puts the nodes it meets where their hashes say, each once, and no others.
LEMMA RehashedPlaced ==
    ASSUME NEW E, NEW id, NEW home, Hashed(E, id, home), NEW count \in Nat \ {0},
           NEW nodes \in Seq(E), Once(nodes, id)
    PROVE  LET r == Rehashed(nodes, HashesOf(nodes, home), count)
           IN  /\ Placed(r, E, id, home, count)
               /\ \A x \in E : Stored(x, r, home, count) <=> In(x, nodes)
               /\ Len(Visit(r, count)) = Len(nodes)
<1> DEFINE m == Len(nodes)
           hashes == HashesOf(nodes, home)
           C == [0 .. count - 1 -> Seq(E)]
<1>1. m \in Nat /\ \A i \in 1 .. m : nodes[i] \in E
  BY LenProperties
<1>2. hashes \in [1 .. m -> Nat] /\ \A i \in 1 .. m : hashes[i] = home[nodes[i]]
  BY <1>1 DEF Hashed, HashesOf
<1> HIDE DEF hashes, C
<1>3. PICK p \in [0 .. m -> C] : Pushing(p, nodes, hashes, count) /\ Rehashed(nodes, hashes, count) = p[m]
  <2>1. hashes \in [1 .. Len(nodes) -> Nat]
    BY <1>2
  <2>2. \E p \in [0 .. Len(nodes) -> [0 .. count - 1 -> Seq(E)]] :
           /\ Pushing(p, nodes, hashes, count)
           /\ Rehashed(nodes, hashes, count) = p[Len(nodes)]
    BY <2>1, RehashedLoops
  <2> QED BY <2>2 DEF C
<1> DEFINE InFirst(x, n) == \E i \in 1 .. n : nodes[i] = x
           Good(n) == /\ Placed(p[n], E, id, home, count)
                      /\ \A x \in E : Stored(x, p[n], home, count) <=> InFirst(x, n)
                      /\ Len(Visit(p[n], count)) = n
           T == {n \in 0 .. m : Good(n)}
<1>4. 0 \in T
  <2>1. p[0] = EmptyChains(count) /\ 0 \in 0 .. m /\ p[0] \in C
    BY <1>1, <1>3 DEF Pushing
  <2>2. \A i \in 0 .. count - 1 : p[0][i] = <<>> /\ Len(p[0][i]) = 0
    BY <2>1 DEF EmptyChains
  <2>3. \A i \in 0 .. count - 1 : Once(p[0][i], id) /\ \A x : ~ In(x, p[0][i])
    BY <2>2 DEF Once, In
  <2>4. Placed(p[0], E, id, home, count)
    BY <2>1, <2>3 DEF Placed, C
  <2>5. \A x \in E : ~ Stored(x, p[0], home, count)
    BY <2>3, ModRange DEF Stored, Hashed
  <2>6. Len(Visit(p[0], count)) = 0
    BY <2>1, VisitEmpty
  <2> QED BY <2>1, <2>4, <2>5, <2>6
<1>5. ASSUME NEW n \in 0 .. m - 1, n \in T PROVE n + 1 \in T
  <2> DEFINE x == nodes[n + 1]
             j == home[x] % count
             old == p[n]
             new == p[n + 1]
  <2>1. n \in 0 .. m /\ n + 1 \in 0 .. m /\ n + 1 \in 1 .. m /\ x \in E /\ old \in C /\ new \in C
    BY <1>1
  <2>2. home[x] \in Nat /\ j \in 0 .. count - 1
    BY <2>1, ModRange DEF Hashed
  <2>3. new = [old EXCEPT ![j] = Cons(x, @)]
    <3>1. new = [old EXCEPT ![hashes[n + 1] % count] = Cons(x, @)]
      BY <1>3, Zenon DEF Pushing
    <3> QED BY <1>2, <2>1, <3>1
  <2>4. Good(n)
    BY <1>5
  <2> HIDE DEF x, j, old, new
  <2>5. Fresh(x, old, E, id, home, count)
    <3> SUFFICES ASSUME NEW y \in E, Stored(y, old, home, count), id[y] = id[x] PROVE FALSE
      BY DEF Fresh
    <3>1. InFirst(y, n)
      BY <2>4 DEF old
    <3>2. PICK i \in 1 .. n : nodes[i] = y
      BY <3>1
    <3>3. i \in 1 .. m /\ i # n + 1 /\ id[nodes[i]] = id[nodes[n + 1]]
      BY <1>1, <3>2 DEF x
    <3> QED BY <2>1, <3>3 DEF Once
  <2>6. /\ Placed(new, E, id, home, count)
        /\ \A y \in E : Stored(y, new, home, count) <=> Stored(y, old, home, count) \/ y = x
        /\ Longer(new, old, count, j, 1)
    <3>1. Placed(old, E, id, home, count)
      BY <2>4 DEF old
    <3>2. x \in E
      BY <2>1
    <3> DEFINE d == [old EXCEPT ![home[x] % count] = Cons(x, @)]
    <3>3. /\ Placed(d, E, id, home, count)
          /\ \A y \in E : Stored(y, d, home, count) <=> Stored(y, old, home, count) \/ y = x
          /\ Longer(d, old, count, home[x] % count, 1)
      BY <2>5, <3>1, <3>2, PushPlaced
    <3> QED BY <2>3, <3>3 DEF j
  <2>7. ASSUME NEW y \in E PROVE Stored(y, new, home, count) <=> InFirst(y, n + 1)
    <3>1. Stored(y, old, home, count) <=> InFirst(y, n)
      BY <2>4 DEF old
    <3>2. \A i : i \in 1 .. n + 1 <=> i \in 1 .. n \/ i = n + 1
      BY <2>1
    <3>3. InFirst(y, n + 1) <=> InFirst(y, n) \/ y = x
      BY <3>2 DEF x
    <3> QED BY <2>6, <3>1, <3>3
  <2>8. Len(Visit(new, count)) = n + 1
    <3>1. old \in ChainArrays(E, count) /\ new \in ChainArrays(E, count)
      BY <2>1 DEF C, ChainArrays
    <3>2. Len(Visit(new, count)) = Len(Visit(old, count)) + 1
      BY <2>6, <3>1, VisitLength
    <3> QED BY <2>4, <3>2 DEF old
  <2>9. Good(n + 1)
    BY <2>6, <2>7, <2>8 DEF new
  <2> QED BY <2>1, <2>9
<1>6. 0 .. m \subseteq T
  <2> HIDE DEF T
  <2> QED BY <1>1, <1>4, <1>5, InductionUpTo
<1>7. Good(m)
  <2>1. m \in T
    BY <1>1, <1>6
  <2> QED BY <2>1
<1>8. \A x : In(x, nodes) <=> InFirst(x, m)
  BY DEF In
<1> QED BY <1>3, <1>7, <1>8 DEF hashes

\* A rehash keeps every node of an array.
LEMMA RehashKeeps ==
    ASSUME NEW E, NEW id, NEW home, Hashed(E, id, home), NEW count \in Nat \ {0},
           NEW c, Placed(c, E, id, home, count), NEW size \in Nat \ {0}
    PROVE  LET r == Rehashed(Visit(c, count), HashesOf(Visit(c, count), home), size)
           IN  /\ Placed(r, E, id, home, size)
               /\ \A x \in E : Stored(x, r, home, size) <=> Stored(x, c, home, count)
               /\ Len(Visit(r, size)) = Len(Visit(c, count))
<1> DEFINE nodes == Visit(c, count)
<1>1. /\ nodes \in Seq(E) /\ Once(nodes, id)
      /\ \A x \in E : In(x, nodes) <=> Stored(x, c, home, count)
  BY VisitPlaced
<1> HIDE DEF nodes
<1> DEFINE r == Rehashed(nodes, HashesOf(nodes, home), size)
<1>2. /\ Placed(r, E, id, home, size)
      /\ \A x \in E : Stored(x, r, home, size) <=> In(x, nodes)
      /\ Len(Visit(r, size)) = Len(nodes)
  BY <1>1, RehashedPlaced
<1> QED BY <1>1, <1>2 DEF nodes

\* An array without nodes.
LEMMA EmptyPlaced ==
    ASSUME NEW E, NEW id, NEW home, Hashed(E, id, home), NEW count \in Nat \ {0}
    PROVE  LET c == EmptyChains(count)
           IN  /\ Placed(c, E, id, home, count)
               /\ \A x \in E : ~ Stored(x, c, home, count)
               /\ Len(Visit(c, count)) = 0
<1> DEFINE c == EmptyChains(count)
<1>1. c \in [0 .. count - 1 -> Seq(E)] /\ \A i \in 0 .. count - 1 : c[i] = <<>> /\ Len(c[i]) = 0
  BY DEF EmptyChains
<1> HIDE DEF c
<1>2. \A i \in 0 .. count - 1 : Once(c[i], id) /\ \A x : ~ In(x, c[i])
  BY <1>1 DEF Once, In
<1>3. Placed(c, E, id, home, count)
  BY <1>1, <1>2 DEF Placed
<1>4. \A x \in E : ~ Stored(x, c, home, count)
  BY <1>2, ModRange DEF Stored, Hashed
<1> QED BY <1>3, <1>4, VisitEmpty DEF c

\* The number of its buckets can be read off an array.
LEMMA CountBuckets ==
    ASSUME NEW E, NEW id, NEW home, NEW count \in Nat, NEW c, Placed(c, E, id, home, count)
    PROVE  Cardinality(DOMAIN c) = count /\ DOMAIN c = 0 .. count - 1
<1>1. DOMAIN c = 0 .. count - 1
  BY DEF Placed
<1>2. Cardinality(0 .. count - 1) = IF 0 > count - 1 THEN 0 ELSE (count - 1) - 0 + 1
  BY FS_Interval
<1> QED BY <1>1, <1>2

-----------------------------------------------------------------------------
(* The unordered set.                                                        *)

\* The instances of the chain operators are those of BucketChains.
LEMMA ChainNames ==
    /\ \A c, n : HS!Visit(c, n) = Visit(c, n) /\ HM!Visit(c, n) = Visit(c, n)
    /\ \A n : HS!EmptyChains(n) = EmptyChains(n) /\ HM!EmptyChains(n) = EmptyChains(n)
    /\ \A S : HS!Cardinality(S) = Cardinality(S) /\ HM!Cardinality(S) = Cardinality(S)
    /\ \A x, s : HS!Cons(x, s) = Cons(x, s) /\ HM!Cons(x, s) = Cons(x, s)
    /\ \A s, i : HS!RemoveAt(s, i) = RemoveAt(s, i) /\ HM!RemoveAt(s, i) = RemoveAt(s, i)
    /\ \A s, h, n : HS!Rehashed(s, h, n) = Rehashed(s, h, n) /\ HM!Rehashed(s, h, n) = Rehashed(s, h, n)
BY DEF Visit, HS!Visit, HM!Visit, EmptyChains, HS!EmptyChains, HM!EmptyChains, Cons, HS!Cons, HM!Cons,
       Cardinality, HS!Cardinality, HM!Cardinality, RemoveAt, HS!RemoveAt, HM!RemoveAt, Rehashed, HS!Rehashed, HM!Rehashed

\* The first position that a search of a chain finds.
LEMMA FirstFound ==
    ASSUME NEW E, NEW s \in Seq(E), NEW I \in SUBSET (1 .. Len(s)), I # {}
    PROVE  HS!Min(I) \in I /\ HM!Min(I) \in I
<1>1. I \in SUBSET Nat
  BY LenProperties
<1>2. PICK i \in I : \A j \in I : i <= j
  BY <1>1, LeastNat
<1>3. i \in I /\ \A j \in I : i =< j
  BY <1>2
<1> QED BY <1>3 DEF HS!Min, HM!Min

KeyId == [k \in Keys |-> k]

\* The chains hold the keys by their hashes, each once, and hash_sz counts them;
\* the table has room for a quarter more.
HashSetOK ==
    LET n == HS!BucketCount
    IN  /\ n \in Nat \ {0}
        /\ Placed(buckets, Keys, KeyId, Hash, n)
        /\ hash_sz \in Nat /\ hash_sz = Len(Visit(buckets, n))
        /\ 4 * hash_sz <= 3 * n

InHashSet(k) == Stored(k, buckets, Hash, HS!BucketCount)

LEMMA KeysHashed == Hashed(Keys, KeyId, Hash)
BY KeysAssumption DEF Hashed, KeyId

LEMMA HashSetContainsIsIn == \A k : HS!HashSetContains(k) <=> InHashSet(k)
BY DEF HS!HashSetContains, HS!Contains, HS!HashIndex, InHashSet, Stored, In

LEMMA HashSetStarts ==
    ASSUME HS!HashSetInit PROVE HashSetOK /\ \A k \in Keys : ~ InHashSet(k)
<1>1. buckets = EmptyChains(InitialBuckets) /\ hash_sz = 0
  BY ChainNames DEF HS!HashSetInit
<1>2. /\ Placed(buckets, Keys, KeyId, Hash, InitialBuckets)
      /\ \A k \in Keys : ~ Stored(k, buckets, Hash, InitialBuckets)
      /\ Len(Visit(buckets, InitialBuckets)) = 0
  <2>1. InitialBuckets \in Nat \ {0}
    BY BucketsAssumption
  <2> QED BY <1>1, <2>1, KeysHashed, EmptyPlaced
<1>3. HS!BucketCount = InitialBuckets
  BY <1>2, BucketsAssumption, CountBuckets, ChainNames DEF HS!BucketCount
<1> QED BY <1>1, <1>2, <1>3, BucketsAssumption DEF HashSetOK, InHashSet

\* _ensure_capacity leaves the keys in a table with room for one more.
LEMMA EnsureCapacityKeeps ==
    ASSUME HashSetOK
    PROVE  LET b == HS!EnsureCapacity
               n == Cardinality(DOMAIN b)
           IN  /\ n \in Nat \ {0} /\ Placed(b, Keys, KeyId, Hash, n)
               /\ \A k \in Keys : Stored(k, b, Hash, n) <=> InHashSet(k)
               /\ Len(Visit(b, n)) = hash_sz
               /\ 4 * (hash_sz + 1) <= 3 * n
<1> DEFINE b == HS!EnsureCapacity
           c == HS!BucketCount
           nodes == Visit(buckets, c)
           hashes == [i \in DOMAIN nodes |-> Hash[nodes[i]]]
<1>1. /\ c \in Nat \ {0} /\ Placed(buckets, Keys, KeyId, Hash, c)
      /\ hash_sz \in Nat /\ hash_sz = Len(nodes) /\ 4 * hash_sz <= 3 * c
  BY DEF HashSetOK
<1>2. b = IF 4 * (hash_sz + 1) > 3 * c THEN Rehashed(nodes, hashes, 2 * c) ELSE buckets
  <2>1. HS!Visit(buckets, c) = nodes
    BY ChainNames
  <2>2. HS!Rehash(2 * c) = HS!Rehashed(nodes, hashes, 2 * c)
    BY <2>1 DEF HS!Rehash
  <2>3. HS!Rehashed(nodes, hashes, 2 * c) = Rehashed(nodes, hashes, 2 * c)
    BY ChainNames
  <2> HIDE DEF c, nodes, hashes
  <2> QED BY <2>2, <2>3 DEF HS!EnsureCapacity, c
<1>3. c = Cardinality(DOMAIN buckets)
  BY ChainNames DEF HS!BucketCount
<1> HIDE DEF b, c
<1>4. CASE 4 * (hash_sz + 1) > 3 * c
  <2> DEFINE n == 2 * c
  <2>1. n \in Nat \ {0} /\ 4 * (hash_sz + 1) <= 3 * n
    BY <1>1
  <2>2. nodes \in Seq(Keys)
    BY <1>1, KeysHashed, VisitPlaced
  <2>3. hashes = HashesOf(nodes, Hash)
    <3>1. DOMAIN nodes = 1 .. Len(nodes)
      BY <2>2, LenProperties
    <3> QED BY <3>1 DEF HashesOf
  <2> HIDE DEF n, hashes
  <2>4. /\ Placed(Rehashed(nodes, hashes, n), Keys, KeyId, Hash, n)
        /\ \A k \in Keys : Stored(k, Rehashed(nodes, hashes, n), Hash, n) <=> Stored(k, buckets, Hash, c)
        /\ Len(Visit(Rehashed(nodes, hashes, n), n)) = Len(nodes)
    BY <1>1, <2>1, <2>3, KeysHashed, RehashKeeps
  <2>5. b = Rehashed(nodes, hashes, n)
    BY <1>2, <1>4 DEF n
  <2>6. Cardinality(DOMAIN b) = n
    BY <2>1, <2>4, <2>5, CountBuckets
  <2> QED BY <1>1, <2>1, <2>4, <2>5, <2>6 DEF InHashSet, c, b
<1>5. CASE ~ (4 * (hash_sz + 1) > 3 * c)
  <2>1. b = buckets /\ 4 * (hash_sz + 1) <= 3 * c
    BY <1>1, <1>2, <1>5
  <2> QED BY <1>1, <1>3, <2>1 DEF InHashSet, c, b
<1> QED BY <1>4, <1>5

\* What an operation on the unordered set does to its state and to its blocks.
HashSetMoves(d) ==
    /\ HashSetOK'
    /\ hash_sz' = hash_sz + d
    /\ blocks' = blocks + 2 * d

\* An insertion adds the key it is given, if it is new.
LEMMA HashSetInsertAdds ==
    ASSUME HashSetOK, blocks \in Int, NEW k \in Keys, HS!HashSetInsert(k)
    PROVE  /\ HashSetMoves(IF InHashSet(k) THEN 0 ELSE 1)
           /\ \A x \in Keys : InHashSet(x)' <=> InHashSet(x) \/ x = k
<1>1. CASE InHashSet(k)
  <2>1. UNCHANGED <<buckets, hash_sz, blocks>>
    BY <1>1, HashSetContainsIsIn DEF HS!HashSetInsert, HS!hashSetVars
  <2>2. UNCHANGED HS!BucketCount
    BY <2>1 DEF HS!BucketCount
  <2>3. HashSetOK' /\ hash_sz \in Nat /\ \A x \in Keys : InHashSet(x)' <=> InHashSet(x)
    BY <2>1, <2>2 DEF HashSetOK, InHashSet
  <2> QED BY <1>1, <2>1, <2>3 DEF HashSetMoves
<1>2. CASE ~ InHashSet(k)
  <2> DEFINE b == HS!EnsureCapacity
             n == Cardinality(DOMAIN b)
             d == [b EXCEPT ![Hash[k] % n] = Cons(k, @)]
  <2>1. /\ n \in Nat \ {0} /\ Placed(b, Keys, KeyId, Hash, n)
        /\ \A x \in Keys : Stored(x, b, Hash, n) <=> InHashSet(x)
        /\ Len(Visit(b, n)) = hash_sz
        /\ 4 * (hash_sz + 1) <= 3 * n
    BY EnsureCapacityKeeps
  <2>2. buckets' = d /\ hash_sz' = hash_sz + 1 /\ blocks' = blocks + 2
    BY <1>2, HashSetContainsIsIn, ChainNames DEF HS!HashSetInsert, HS!HashIndex
  <2> HIDE DEF b
  <2>3. Fresh(k, b, Keys, KeyId, Hash, n)
    BY <1>2, <2>1 DEF Fresh, KeyId
  <2>4. /\ Placed(d, Keys, KeyId, Hash, n)
        /\ \A x \in Keys : Stored(x, d, Hash, n) <=> Stored(x, b, Hash, n) \/ x = k
        /\ Longer(d, b, n, Hash[k] % n, 1)
    <3> HIDE DEF n
    <3> QED BY <2>1, <2>3, KeysHashed, PushPlaced
  <2> HIDE DEF n, d
  <2>5. Len(Visit(d, n)) = hash_sz + 1
    <3>1. d \in ChainArrays(Keys, n) /\ b \in ChainArrays(Keys, n)
      BY <2>1, <2>4 DEF Placed, ChainArrays
    <3> QED BY <2>1, <2>4, <3>1, VisitLength
  <2>6. HS!BucketCount' = n
    <3>1. Cardinality(DOMAIN d) = n
      BY <2>1, <2>4, CountBuckets
    <3> QED BY <2>2, <3>1, ChainNames DEF HS!BucketCount
  <2>7. hash_sz \in Nat
    BY DEF HashSetOK
  <2>8. HashSetOK' /\ \A x \in Keys : InHashSet(x)' <=> InHashSet(x) \/ x = k
    BY <2>1, <2>2, <2>4, <2>5, <2>6, <2>7 DEF HashSetOK, InHashSet
  <2> QED BY <1>2, <2>2, <2>8 DEF HashSetMoves
<1> QED BY <1>1, <1>2

\* An erasure removes the key it is given, if it is there.
LEMMA HashSetEraseRemoves ==
    ASSUME HashSetOK, blocks \in Int, NEW k \in Keys, HS!HashSetErase(k)
    PROVE  /\ HashSetMoves(IF InHashSet(k) THEN -1 ELSE 0)
           /\ \A x \in Keys : InHashSet(x)' <=> InHashSet(x) /\ x # k
<1>1. CASE ~ InHashSet(k)
  <2>1. UNCHANGED <<buckets, hash_sz, blocks>>
    BY <1>1, HashSetContainsIsIn DEF HS!HashSetErase, HS!hashSetVars
  <2>2. UNCHANGED HS!BucketCount
    BY <2>1 DEF HS!BucketCount
  <2>3. HashSetOK' /\ hash_sz \in Nat /\ \A x \in Keys : InHashSet(x)' <=> InHashSet(x)
    BY <2>1, <2>2 DEF HashSetOK, InHashSet
  <2> QED BY <1>1, <2>1, <2>3 DEF HashSetMoves
<1>2. CASE InHashSet(k)
  <2> DEFINE n == HS!BucketCount
             j == Hash[k] % n
             s == buckets[j]
             I == {i \in 1 .. Len(s) : s[i] = k}
             a == HS!Min(I)
             d == [buckets EXCEPT ![j] = RemoveAt(@, a)]
  <2>1. /\ n \in Nat \ {0} /\ Placed(buckets, Keys, KeyId, Hash, n)
        /\ hash_sz \in Nat /\ hash_sz = Len(Visit(buckets, n)) /\ 4 * hash_sz <= 3 * n
    BY DEF HashSetOK
  <2>2. j \in 0 .. n - 1 /\ s \in Seq(Keys)
    <3>1. Hash[k] \in Nat
      BY KeysAssumption
    <3>2. j \in 0 .. n - 1
      BY <2>1, <3>1, ModRange
    <3> QED BY <2>1, <3>2 DEF Placed
  <2>3. I # {}
    BY <1>2 DEF InHashSet, Stored, In
  <2>4. a \in I
    BY <2>2, <2>3, FirstFound
  <2>5. buckets' = d /\ hash_sz' = hash_sz - 1 /\ blocks' = blocks - 2
    <3>1. HS!RemoveFirst(s, k) = RemoveAt(s, a)
      BY <2>3, ChainNames DEF HS!RemoveFirst, HS!SelectInSeq
    <3>2. buckets' = [buckets EXCEPT ![j] = HS!RemoveFirst(@, k)]
      BY <1>2, HashSetContainsIsIn DEF HS!HashSetErase, HS!HashIndex
    <3>3. hash_sz' = hash_sz - 1 /\ blocks' = blocks - 2
      BY <1>2, HashSetContainsIsIn DEF HS!HashSetErase
    <3> QED BY <3>1, <3>2, <3>3
  <2> HIDE DEF n, a
  <2>6. /\ Placed(d, Keys, KeyId, Hash, n)
        /\ \A x \in Keys : Stored(x, d, Hash, n)
                              <=> Stored(x, buckets, Hash, n) /\ KeyId[x] # KeyId[s[a]]
        /\ Longer(d, buckets, n, j, -1)
    BY <2>1, <2>2, <2>4, KeysHashed, TakePlaced
  <2>7. \A x \in Keys : KeyId[x] # KeyId[s[a]] <=> x # k
    BY <2>4 DEF KeyId
  <2> HIDE DEF d
  <2>8. Len(Visit(d, n)) = hash_sz - 1 /\ hash_sz - 1 \in Nat
    <3>1. d \in ChainArrays(Keys, n) /\ buckets \in ChainArrays(Keys, n)
      BY <2>1, <2>6 DEF Placed, ChainArrays
    <3> QED BY <2>1, <2>6, <3>1, VisitLength
  <2>9. HS!BucketCount' = n
    <3>1. Cardinality(DOMAIN d) = n
      BY <2>1, <2>6, CountBuckets
    <3> QED BY <2>5, <3>1, ChainNames DEF HS!BucketCount
  <2>10. HashSetOK'
    BY <2>1, <2>5, <2>6, <2>8, <2>9 DEF HashSetOK
  <2>11. \A x \in Keys : InHashSet(x)' <=> InHashSet(x) /\ x # k
    BY <2>5, <2>6, <2>7, <2>9 DEF InHashSet, n
  <2> QED BY <1>2, <2>1, <2>5, <2>10, <2>11 DEF HashSetMoves
<1> QED BY <1>1, <1>2

-----------------------------------------------------------------------------
(* The unordered map, with a comparator that tells equal keys apart from     *)
(* others by what is not 0.                                                  *)

MapNodes == [key : Keys, value : Values]
NodeKey  == [m \in MapNodes |-> m.key]
NodeHome == [m \in MapNodes |-> Hash[m.key]]

\* The chains hold the nodes by their hashes, a key once, and no more of them
\* than map_size, which leaves a quarter of the buckets free.
HashMapOK ==
    LET n == HM!Count
    IN  /\ n \in Nat \ {0}
        /\ Placed(nodes_arrays, MapNodes, NodeKey, NodeHome, n)
        /\ map_size \in Nat /\ Len(Visit(nodes_arrays, n)) <= map_size
        /\ 4 * map_size <= 3 * n

\* A node binds key k to value v.
Binds(k, v) == Stored([key |-> k, value |-> v], nodes_arrays, NodeHome, HM!Count)

LEMMA NodesHashed == Hashed(MapNodes, NodeKey, NodeHome)
<1>1. \A m \in MapNodes : m.key \in Keys /\ Hash[m.key] \in Nat
  BY KeysAssumption DEF MapNodes
<1> QED BY <1>1 DEF Hashed, NodeKey, NodeHome

LEMMA HashMapStarts ==
    ASSUME HM!HashMapInit PROVE HashMapOK /\ \A k \in Keys, v \in Values : ~ Binds(k, v)
<1> DEFINE n == Primes[1]
<1>1. n \in Nat \ {0}
  BY BucketsAssumption, EmptySeq, ElementOfSeq
<1>2. nodes_arrays = EmptyChains(n) /\ map_size = 0
  BY ChainNames DEF HM!HashMapInit
<1> HIDE DEF n
<1>3. /\ Placed(nodes_arrays, MapNodes, NodeKey, NodeHome, n)
      /\ \A m \in MapNodes : ~ Stored(m, nodes_arrays, NodeHome, n)
      /\ Len(Visit(nodes_arrays, n)) = 0
  BY <1>1, <1>2, NodesHashed, EmptyPlaced
<1>4. HM!Count = n
  BY <1>1, <1>3, CountBuckets, ChainNames DEF HM!Count
<1>5. HashMapOK
  BY <1>1, <1>2, <1>3, <1>4 DEF HashMapOK
<1>6. ASSUME NEW k \in Keys, NEW v \in Values PROVE ~ Binds(k, v)
  <2>1. [key |-> k, value |-> v] \in MapNodes
    BY DEF MapNodes
  <2> QED BY <1>3, <1>4, <2>1 DEF Binds
<1> QED BY <1>5, <1>6

\* The chain that a key is looked for in.
ChainOf(k) == nodes_arrays[Hash[k] % HM!Count]

LEMMA ChainOfIsChain ==
    ASSUME HashMapOK, NEW k \in Keys
    PROVE  /\ Hash[k] % HM!Count \in 0 .. HM!Count - 1
           /\ ChainOf(k) \in Seq(MapNodes)
           /\ Once(ChainOf(k), NodeKey)
           /\ \A v \in Values : Binds(k, v) <=> In([key |-> k, value |-> v], ChainOf(k))
<1>1. HM!Count \in Nat \ {0} /\ Placed(nodes_arrays, MapNodes, NodeKey, NodeHome, HM!Count)
  BY DEF HashMapOK
<1>2. Hash[k] \in Nat
  BY KeysAssumption
<1>3. Hash[k] % HM!Count \in 0 .. HM!Count - 1
  BY <1>1, <1>2, ModRange
<1>4. ChainOf(k) \in Seq(MapNodes) /\ Once(ChainOf(k), NodeKey)
  BY <1>1, <1>3 DEF Placed, ChainOf
<1>5. ASSUME NEW v \in Values PROVE Binds(k, v) <=> In([key |-> k, value |-> v], ChainOf(k))
  <2> DEFINE m == [key |-> k, value |-> v]
  <2>1. m \in MapNodes /\ m.key = k
    BY DEF MapNodes
  <2>2. NodeHome[m] = Hash[k]
    BY <2>1 DEF NodeHome
  <2> QED BY <2>2 DEF Binds, Stored, ChainOf
<1> QED BY <1>3, <1>4, <1>5

\* The search of a chain finds the node of the key, if there is one.
LEMMA FirstMatchFinds ==
    ASSUME HashMapOK, ~ ThreeWay, NEW k \in Keys
    PROVE  \/ HM!FirstMatch(k) = 0 /\ \A v \in Values : ~ Binds(k, v)
           \/ /\ HM!FirstMatch(k) \in 1 .. Len(ChainOf(k))
              /\ HM!FirstMatch(k) # 0
              /\ ChainOf(k)[HM!FirstMatch(k)] \in MapNodes
              /\ ChainOf(k)[HM!FirstMatch(k)].key = k
<1> DEFINE s == ChainOf(k)
           a == HM!FirstMatch(k)
           I == {i \in 1 .. Len(s) : HM!Matches(s[i], k)}
<1>1. s \in Seq(MapNodes) /\ \A v \in Values : Binds(k, v) <=> In([key |-> k, value |-> v], s)
  BY ChainOfIsChain
<1>2. a = IF I # {} THEN HM!Min(I) ELSE 0
  BY DEF HM!FirstMatch, HM!SelectInSeq, HM!Index, ChainOf
<1>3. \A m : HM!Matches(m, k) <=> m.key = k
  BY DEF HM!Matches, HM!Compared
<1>4. Len(s) \in Nat /\ \A i \in 1 .. Len(s) : s[i] \in MapNodes
  BY <1>1, LenProperties
<1> HIDE DEF s, a
<1>5. CASE I # {}
  <2>1. HM!Min(I) \in I
    <3>1. I \in SUBSET (1 .. Len(s))
      OBVIOUS
    <3> HIDE DEF I
    <3> QED BY <1>1, <1>5, <3>1, FirstFound
  <2>2. a \in 1 .. Len(s) /\ s[a].key = k
    BY <1>2, <1>3, <1>5, <2>1
  <2> QED BY <1>4, <2>2 DEF a, s
<1>6. CASE I = {}
  <2>1. a = 0
    BY <1>2, <1>6
  <2>2. ASSUME NEW v \in Values PROVE ~ In([key |-> k, value |-> v], s)
    BY <1>3, <1>6 DEF In
  <2> QED BY <1>1, <2>1, <2>2 DEF a
<1> QED BY <1>5, <1>6

\* Get answers with what the map binds the key to.
LEMMA GetFinds ==
    ASSUME HashMapOK, ~ ThreeWay, NEW k \in Keys
    PROVE  /\ HM!Get(k) \in Values \cup {NULL}
           /\ \A v \in Values : Binds(k, v) <=> HM!Get(k) = v
<1> DEFINE s == ChainOf(k)
           a == HM!FirstMatch(k)
<1>1. /\ s \in Seq(MapNodes) /\ Once(s, NodeKey)
      /\ \A v \in Values : Binds(k, v) <=> In([key |-> k, value |-> v], s)
  BY ChainOfIsChain
<1>2. HM!Get(k) = IF a = 0 THEN NULL ELSE s[a].value
  BY DEF HM!Get, HM!Index, ChainOf
<1>3. \/ a = 0 /\ \A v \in Values : ~ Binds(k, v)
      \/ a \in 1 .. Len(s) /\ a # 0 /\ s[a] \in MapNodes /\ s[a].key = k
  BY FirstMatchFinds
<1> HIDE DEF s, a
<1>4. CASE a = 0 /\ \A v \in Values : ~ Binds(k, v)
  BY <1>2, <1>4, KeysAssumption
<1>5. CASE a \in 1 .. Len(s) /\ a # 0 /\ s[a] \in MapNodes /\ s[a].key = k
  <2>1. s[a].value \in Values /\ s[a] = [key |-> k, value |-> s[a].value]
    BY <1>5 DEF MapNodes
  <2>2. HM!Get(k) = s[a].value
    BY <1>2, <1>5
  <2>3. ASSUME NEW v \in Values, v = s[a].value PROVE Binds(k, v)
    BY <1>1, <1>5, <2>1, <2>3 DEF In
  <2>4. ASSUME NEW v \in Values, Binds(k, v) PROVE v = s[a].value
    <3>1. PICK b \in 1 .. Len(s) : s[b] = [key |-> k, value |-> v]
      BY <1>1, <2>4 DEF In
    <3>2. s[b] \in MapNodes /\ NodeKey[s[b]] = k /\ NodeKey[s[a]] = k
      BY <1>5, <3>1 DEF MapNodes, NodeKey
    <3>3. a = b
      BY <1>1, <1>5, <3>2 DEF Once
    <3> QED BY <3>1, <3>3
  <2> QED BY <2>1, <2>2, <2>3, <2>4
<1> QED BY <1>3, <1>4, <1>5

\* What an operation on the unordered map does to its chains and to its blocks.
HashMapMoves(d) == HashMapOK' /\ HashMapNodes' = HashMapNodes + d /\ blocks' = blocks + 3 * d

\* query_next_prime goes no lower than the number it is given.
LEMMA NextPrimeIsNext ==
    ASSUME NEW m \in Nat \ {0}
    PROVE  HM!QueryNextPrime(m) \in Nat \ {0} /\ HM!QueryNextPrime(m) >= m
<1> DEFINE I == {i \in 1 .. Len(Primes) : Primes[i] >= m}
           i == IF I # {} THEN HM!Min(I) ELSE 0
<1>1. HM!QueryNextPrime(m) = IF i = 0 THEN 2 * m + 1 ELSE Primes[i]
  BY DEF HM!QueryNextPrime, HM!SelectInSeq
<1>2. CASE I # {}
  <2>1. HM!Min(I) \in I
    <3>1. I \in SUBSET (1 .. Len(Primes))
      OBVIOUS
    <3> HIDE DEF I
    <3> QED BY <1>2, <3>1, FirstFound, BucketsAssumption
  <2>2. i \in 1 .. Len(Primes) /\ Primes[i] >= m /\ i # 0
    BY <1>2, <2>1
  <2>3. Primes[i] \in Nat \ {0}
    <3> HIDE DEF i
    <3> QED BY <2>2, BucketsAssumption, ElementOfSeq
  <2> HIDE DEF i
  <2> QED BY <1>1, <2>2, <2>3
<1>3. CASE I = {}
  BY <1>1, <1>3
<1> QED BY <1>2, <1>3

\* Nodes of one key are bindings of that key.
LEMMA NodesBind ==
    ASSUME NEW k \in Keys, NEW v \in Values, NEW x \in Keys, NEW w \in Values
    PROVE  LET m == [key |-> k, value |-> v]
               o == [key |-> x, value |-> w]
           IN  /\ m \in MapNodes /\ o \in MapNodes
               /\ NodeKey[o] = x /\ NodeHome[o] = Hash[x]
               /\ NodeKey[o] # NodeKey[m] <=> x # k
               /\ o = m <=> x = k /\ w = v
BY DEF MapNodes, NodeKey, NodeHome

\* An insertion for a key that is bound replaces its value.
LEMMA OverwriteBinds ==
    ASSUME HashMapOK, blocks \in Int, ~ ThreeWay, NEW k \in Keys, NEW v \in Values,
           HM!Overwrite(k, v)
    PROVE  /\ HashMapMoves(0) /\ UNCHANGED <<map_size, HM!Count>>
           /\ \A x \in Keys, w \in Values :
                 Binds(x, w)' <=> (x # k /\ Binds(x, w)) \/ (x = k /\ w = v)
<1> DEFINE n == HM!Count
           j == Hash[k] % n
           s == ChainOf(k)
           a == HM!FirstMatch(k)
           m == [key |-> k, value |-> v]
           d == [nodes_arrays EXCEPT ![j] = [@ EXCEPT ![a] = m]]
<1>1. /\ n \in Nat \ {0} /\ Placed(nodes_arrays, MapNodes, NodeKey, NodeHome, n)
      /\ map_size \in Nat /\ Len(Visit(nodes_arrays, n)) <= map_size /\ 4 * map_size <= 3 * n
  BY DEF HashMapOK
<1>2. j \in 0 .. n - 1 /\ s = nodes_arrays[j]
  BY ChainOfIsChain DEF ChainOf
<1>3. a \in 1 .. Len(s) /\ s[a] \in MapNodes /\ s[a].key = k
  BY FirstMatchFinds DEF HM!Overwrite
<1>4. nodes_arrays' = d /\ UNCHANGED <<map_size, blocks>>
  <2>1. nodes_arrays' = [nodes_arrays EXCEPT ![j][a].value = v]
    BY DEF HM!Overwrite, HM!Index
  <2>2. [s[a] EXCEPT !.value = v] = m
    BY <1>3 DEF MapNodes
  <2>3. UNCHANGED <<map_size, blocks>>
    BY DEF HM!Overwrite
  <2> QED BY <1>2, <2>1, <2>2, <2>3
<1> HIDE DEF n, s, a
<1>5. m \in MapNodes /\ NodeKey[m] = NodeKey[s[a]] /\ NodeKey[m] = k
  BY <1>3 DEF MapNodes, NodeKey
<1> HIDE DEF m
<1>6. /\ Placed(d, MapNodes, NodeKey, NodeHome, n)
      /\ \A y \in MapNodes :
            Stored(y, d, NodeHome, n)
               <=> y = m \/ (Stored(y, nodes_arrays, NodeHome, n) /\ NodeKey[y] # NodeKey[m])
      /\ Longer(d, nodes_arrays, n, j, 0)
  <2>1. a \in 1 .. Len(nodes_arrays[j]) /\ NodeKey[m] = NodeKey[nodes_arrays[j][a]]
    BY <1>2, <1>3, <1>5
  <2> HIDE DEF j
  <2> QED BY <1>1, <1>2, <1>5, <2>1, NodesHashed, ReplacePlaced
<1> HIDE DEF d, j
<1>7. Len(Visit(d, n)) = Len(Visit(nodes_arrays, n)) /\ Len(Visit(d, n)) \in Nat
  <2>1. d \in ChainArrays(MapNodes, n) /\ nodes_arrays \in ChainArrays(MapNodes, n)
    BY <1>1, <1>6 DEF Placed, ChainArrays
  <2>2. /\ Len(Visit(d, n)) = Len(Visit(nodes_arrays, n)) + 0
        /\ Len(Visit(nodes_arrays, n)) \in Nat
    BY <1>1, <1>6, <2>1, VisitLength
  <2> QED BY <2>2
<1>8. HM!Count' = n
  <2>1. Cardinality(DOMAIN d) = n
    BY <1>1, <1>6, CountBuckets
  <2> QED BY <1>4, <2>1, ChainNames DEF HM!Count
<1>9. HashMapMoves(0) /\ UNCHANGED <<map_size, HM!Count>>
  <2>1. HashMapOK'
    BY <1>1, <1>4, <1>6, <1>7, <1>8 DEF HashMapOK
  <2>2. HashMapNodes' = HashMapNodes /\ HashMapNodes \in Nat
    BY <1>4, <1>7, <1>8 DEF HashMapNodes, n
  <2> QED BY <1>4, <1>8, <2>1, <2>2 DEF HashMapMoves, n
<1>10. ASSUME NEW x \in Keys, NEW w \in Values
       PROVE  Binds(x, w)' <=> (x # k /\ Binds(x, w)) \/ (x = k /\ w = v)
  <2> DEFINE o == [key |-> x, value |-> w]
  <2>1. o \in MapNodes /\ (NodeKey[o] # NodeKey[m] <=> x # k) /\ (o = m <=> x = k /\ w = v)
    BY NodesBind DEF m
  <2>2. (Binds(x, w) <=> Stored(o, nodes_arrays, NodeHome, n)) /\ (Binds(x, w)' <=> Stored(o, d, NodeHome, n))
    BY <1>4, <1>8 DEF Binds, n
  <2> HIDE DEF o
  <2> QED BY <1>6, <2>1, <2>2
<1> QED BY <1>9, <1>10

\* An insertion for a new key adds its node, and the table grows when it has to.
LEMMA AddBinds ==
    ASSUME HashMapOK, blocks \in Int, ~ ThreeWay, NEW k \in Keys, NEW v \in Values,
           HM!Add(k, v)
    PROVE  /\ HashMapMoves(1) /\ map_size' = map_size + 1
           /\ HM!Count' # HM!Count => 4 * (map_size + 1) > 3 * HM!Count
           /\ \A x \in Keys, w \in Values :
                 Binds(x, w)' <=> (x # k /\ Binds(x, w)) \/ (x = k /\ w = v)
<1> DEFINE n == HM!Count
           j == Hash[k] % n
           m == [key |-> k, value |-> v]
           d == [nodes_arrays EXCEPT ![j] = Cons(m, @)]
           c == HM!QueryNextPrime(2 * n)
           nodes == Visit(d, n)
           r == Rehashed(nodes, HashesOf(nodes, NodeHome), c)
           e == IF 4 * (map_size + 1) > 3 * n THEN r ELSE d
           l == IF 4 * (map_size + 1) > 3 * n THEN c ELSE n
<1>1. /\ n \in Nat \ {0} /\ Placed(nodes_arrays, MapNodes, NodeKey, NodeHome, n)
      /\ map_size \in Nat /\ Len(Visit(nodes_arrays, n)) <= map_size /\ 4 * map_size <= 3 * n
  BY DEF HashMapOK
<1>2. m \in MapNodes /\ NodeKey[m] = k /\ NodeHome[m] = Hash[k]
  BY NodesBind
<1>3. ASSUME NEW w \in Values PROVE ~ Binds(k, w)
  BY FirstMatchFinds DEF HM!Add
<1>4. Fresh(m, nodes_arrays, MapNodes, NodeKey, NodeHome, n)
  <2> SUFFICES ASSUME NEW y \in MapNodes, Stored(y, nodes_arrays, NodeHome, n), NodeKey[y] = k
               PROVE  FALSE
    BY <1>2 DEF Fresh
  <2>1. y.value \in Values /\ y = [key |-> k, value |-> y.value]
    BY DEF MapNodes, NodeKey
  <2>2. Binds(k, y.value)
    BY <2>1 DEF Binds
  <2> QED BY <1>3, <2>1, <2>2
<1> HIDE DEF n
<1>5. /\ Placed(d, MapNodes, NodeKey, NodeHome, n)
      /\ \A y \in MapNodes : Stored(y, d, NodeHome, n) <=> Stored(y, nodes_arrays, NodeHome, n) \/ y = m
      /\ Longer(d, nodes_arrays, n, j, 1)
  <2> DEFINE f == [nodes_arrays EXCEPT ![NodeHome[m] % n] = Cons(m, @)]
  <2>1. /\ Placed(f, MapNodes, NodeKey, NodeHome, n)
        /\ \A y \in MapNodes : Stored(y, f, NodeHome, n) <=> Stored(y, nodes_arrays, NodeHome, n) \/ y = m
        /\ Longer(f, nodes_arrays, n, NodeHome[m] % n, 1)
    <3> HIDE DEF m
    <3> QED BY <1>1, <1>2, <1>4, NodesHashed, PushPlaced
  <2> QED BY <1>2, <2>1
<1> HIDE DEF d, m, j
<1>6. Len(nodes) = Len(Visit(nodes_arrays, n)) + 1 /\ Len(nodes) \in Nat
      /\ Len(Visit(nodes_arrays, n)) \in Nat
  <2>1. d \in ChainArrays(MapNodes, n) /\ nodes_arrays \in ChainArrays(MapNodes, n)
    BY <1>1, <1>5 DEF Placed, ChainArrays
  <2> QED BY <1>1, <1>5, <2>1, VisitLength
<1>7. c \in Nat \ {0} /\ c >= 2 * n
  <2>1. 2 * n \in Nat \ {0}
    BY <1>1
  <2> QED BY <2>1, NextPrimeIsNext
<1>8. /\ Placed(r, MapNodes, NodeKey, NodeHome, c)
      /\ \A y \in MapNodes : Stored(y, r, NodeHome, c) <=> Stored(y, d, NodeHome, n)
      /\ Len(Visit(r, c)) = Len(nodes)
  <2>1. n \in Nat \ {0} /\ c \in Nat \ {0} /\ Placed(d, MapNodes, NodeKey, NodeHome, n)
    BY <1>1, <1>5, <1>7
  <2> HIDE DEF c, e, l
  <2> QED BY <2>1, NodesHashed, RehashKeeps
<1>9. nodes_arrays' = e /\ map_size' = map_size + 1 /\ blocks' = blocks + 3
  <2>1. nodes_arrays' = IF 4 * (map_size + 1) > 3 * n THEN HM!ForceRehash(d, c) ELSE d
    BY ChainNames DEF HM!Add, HM!Index, n, d, m, j
  <2>2. HM!ForceRehash(d, c) = r
    <3>1. HM!Visit(d, n) = nodes
      BY ChainNames
    <3>2. nodes \in Seq(MapNodes)
      BY <1>1, <1>5, NodesHashed, VisitPlaced
    <3> DEFINE hashes == [i \in DOMAIN nodes |-> Hash[nodes[i].key]]
    <3>3. hashes = HashesOf(nodes, NodeHome)
      <4>1. DOMAIN nodes = 1 .. Len(nodes) /\ \A i \in 1 .. Len(nodes) : nodes[i] \in MapNodes
        BY <3>2, LenProperties
      <4>2. \A i \in 1 .. Len(nodes) : NodeHome[nodes[i]] = Hash[nodes[i].key]
        BY <4>1 DEF NodeHome
      <4> HIDE DEF nodes
      <4> QED BY <4>1, <4>2 DEF HashesOf
    <3>4. HM!ForceRehash(d, c) = HM!Rehashed(nodes, hashes, c)
      BY <3>1 DEF HM!ForceRehash, n
    <3> HIDE DEF nodes, hashes, c
    <3> QED BY <3>3, <3>4, ChainNames
  <2>3. map_size' = map_size + 1 /\ blocks' = blocks + 3
    BY DEF HM!Add
  <2> QED BY <2>1, <2>2, <2>3
<1> HIDE DEF r, c
<1>10. /\ l \in Nat \ {0} /\ Placed(e, MapNodes, NodeKey, NodeHome, l)
       /\ \A y \in MapNodes : Stored(y, e, NodeHome, l) <=> Stored(y, d, NodeHome, n)
       /\ Len(Visit(e, l)) = Len(nodes)
       /\ 4 * (map_size + 1) <= 3 * l
  <2>1. CASE 4 * (map_size + 1) > 3 * n
    <3>1. 4 * (map_size + 1) <= 3 * c
      BY <1>1, <1>7
    <3> QED BY <1>7, <1>8, <2>1, <3>1
  <2>2. CASE ~ (4 * (map_size + 1) > 3 * n)
    <3>1. 4 * (map_size + 1) <= 3 * n
      BY <1>1, <2>2
    <3> QED BY <1>1, <1>5, <2>2, <3>1
  <2> QED BY <2>1, <2>2
<1> HIDE DEF e, l, nodes
<1>11. HM!Count' = l
  <2>1. Cardinality(DOMAIN e) = l
    BY <1>10, CountBuckets
  <2> QED BY <1>9, <2>1, ChainNames DEF HM!Count
<1>12. HashMapMoves(1)
  <2>1. map_size + 1 \in Nat /\ Len(Visit(e, l)) <= map_size + 1
    BY <1>1, <1>6, <1>10
  <2>2. HashMapOK'
    BY <1>9, <1>10, <1>11, <2>1 DEF HashMapOK
  <2>3. HashMapNodes' = HashMapNodes + 1
    BY <1>6, <1>9, <1>10, <1>11 DEF HashMapNodes, n
  <2> QED BY <1>9, <2>2, <2>3 DEF HashMapMoves
<1>13. ASSUME NEW x \in Keys, NEW w \in Values
       PROVE  Binds(x, w)' <=> (x # k /\ Binds(x, w)) \/ (x = k /\ w = v)
  <2> DEFINE o == [key |-> x, value |-> w]
  <2>1. o \in MapNodes /\ (o = m <=> x = k /\ w = v)
    BY NodesBind DEF m
  <2>2. (Binds(x, w) <=> Stored(o, nodes_arrays, NodeHome, n)) /\ (Binds(x, w)' <=> Stored(o, e, NodeHome, l))
    BY <1>9, <1>11 DEF Binds, n
  <2> HIDE DEF o
  <2>3. Binds(x, w)' <=> Binds(x, w) \/ (x = k /\ w = v)
    BY <1>5, <1>10, <2>1, <2>2
  <2> QED BY <1>3, <2>3
<1>14. HM!Count' # HM!Count => 4 * (map_size + 1) > 3 * HM!Count
  BY <1>11 DEF l, n
<1> QED BY <1>9, <1>12, <1>13, <1>14

\* An erasure takes the node of its key out, and nothing else.
LEMMA HashMapEraseUnbinds ==
    ASSUME HashMapOK, blocks \in Int, ~ ThreeWay, NEW k \in Keys, HM!HashMapErase(k)
    PROVE  /\ \/ HM!FirstMatch(k) = 0 /\ HashMapMoves(0)
              \/ HM!FirstMatch(k) # 0 /\ HashMapMoves(-1)
           /\ UNCHANGED <<map_size, HM!Count>>
           /\ \A x \in Keys, w \in Values : Binds(x, w)' <=> x # k /\ Binds(x, w)
<1> DEFINE n == HM!Count
           j == Hash[k] % n
           s == ChainOf(k)
           a == HM!FirstMatch(k)
           d == [nodes_arrays EXCEPT ![j] = RemoveAt(@, a)]
<1>1. /\ n \in Nat \ {0} /\ Placed(nodes_arrays, MapNodes, NodeKey, NodeHome, n)
      /\ map_size \in Nat /\ Len(Visit(nodes_arrays, n)) <= map_size /\ 4 * map_size <= 3 * n
  BY DEF HashMapOK
<1>2. j \in 0 .. n - 1 /\ s = nodes_arrays[j]
  BY ChainOfIsChain DEF ChainOf
<1>3. CASE a = 0
  <2>1. UNCHANGED <<nodes_arrays, map_size, blocks>>
    BY <1>3 DEF HM!HashMapErase, HM!hashMapVars
  <2>2. \A v \in Values : ~ Binds(k, v)
    BY <1>3, FirstMatchFinds
  <2>3. UNCHANGED HM!Count
    BY <2>1 DEF HM!Count
  <2>4. HashMapOK' /\ UNCHANGED HashMapNodes /\ \A x \in Keys, w \in Values : Binds(x, w)' <=> Binds(x, w)
    BY <2>1, <2>3 DEF HashMapOK, HashMapNodes, Binds
  <2>5. HashMapNodes \in Nat
    <3>1. Visit(nodes_arrays, n) \in Seq(MapNodes)
      BY <1>1, NodesHashed, VisitPlaced
    <3> QED BY <3>1, LenProperties DEF HashMapNodes
  <2>6. HashMapMoves(0)
    BY <2>1, <2>4, <2>5 DEF HashMapMoves
  <2> QED BY <1>3, <2>1, <2>2, <2>3, <2>4, <2>6
<1>4. CASE a # 0
  <2>1. a \in 1 .. Len(s) /\ s[a] \in MapNodes /\ s[a].key = k
    BY <1>4, FirstMatchFinds
  <2>2. nodes_arrays' = d /\ blocks' = blocks - 3 /\ UNCHANGED map_size
    BY <1>4, ChainNames DEF HM!HashMapErase, HM!Index
  <2> HIDE DEF n, s, a
  <2>3. NodeKey[s[a]] = k
    BY <2>1 DEF NodeKey
  <2>4. /\ Placed(d, MapNodes, NodeKey, NodeHome, n)
        /\ \A y \in MapNodes :
              Stored(y, d, NodeHome, n)
                 <=> Stored(y, nodes_arrays, NodeHome, n) /\ NodeKey[y] # NodeKey[nodes_arrays[j][a]]
        /\ Longer(d, nodes_arrays, n, j, -1)
    <3>1. a \in 1 .. Len(nodes_arrays[j])
      BY <1>2, <2>1
    <3> HIDE DEF j
    <3> QED BY <1>1, <1>2, <3>1, NodesHashed, TakePlaced
  <2> HIDE DEF d, j
  <2>5. /\ Len(Visit(d, n)) = Len(Visit(nodes_arrays, n)) - 1
        /\ Len(Visit(d, n)) \in Nat /\ Len(Visit(nodes_arrays, n)) \in Nat
    <3>1. d \in ChainArrays(MapNodes, n) /\ nodes_arrays \in ChainArrays(MapNodes, n)
      BY <1>1, <2>4 DEF Placed, ChainArrays
    <3> QED BY <1>1, <2>4, <3>1, VisitLength
  <2>6. HM!Count' = n
    <3>1. Cardinality(DOMAIN d) = n
      BY <1>1, <2>4, CountBuckets
    <3> QED BY <2>2, <3>1, ChainNames DEF HM!Count
  <2>7. HashMapMoves(-1)
    <3>1. Len(Visit(d, n)) <= map_size
      BY <1>1, <2>5
    <3>2. HashMapOK'
      BY <1>1, <2>2, <2>4, <2>6, <3>1 DEF HashMapOK
    <3>3. HashMapNodes' = HashMapNodes - 1 /\ HashMapNodes \in Nat
      BY <2>2, <2>5, <2>6 DEF HashMapNodes, n
    <3> QED BY <2>2, <3>2, <3>3 DEF HashMapMoves
  <2>8. ASSUME NEW x \in Keys, NEW w \in Values PROVE Binds(x, w)' <=> x # k /\ Binds(x, w)
    <3> DEFINE o == [key |-> x, value |-> w]
    <3>1. o \in MapNodes /\ NodeKey[o] = x
      BY NodesBind
    <3>2. (Binds(x, w) <=> Stored(o, nodes_arrays, NodeHome, n)) /\ (Binds(x, w)' <=> Stored(o, d, NodeHome, n))
      BY <2>2, <2>6 DEF Binds, n
    <3> HIDE DEF o
    <3> QED BY <1>2, <2>3, <2>4, <3>1, <3>2
  <2> QED BY <1>4, <2>2, <2>6, <2>7, <2>8 DEF a, n
<1> QED BY <1>3, <1>4

-----------------------------------------------------------------------------
(* The two unordered containers in the life of a client.                     *)

\* Their chains and sizes, and the heap blocks of the one the client holds.
HashInv ==
    /\ HashSetOK
    /\ ~ ThreeWay => HashMapOK
    /\ status = "usable" /\ container = "hash_set" => blocks = 2 + 2 * hash_sz
    /\ status = "usable" /\ container = "hash_map" /\ ~ ThreeWay => blocks = 2 + 3 * HashMapNodes

\* Get answers with what is bound, and nothing else.
GetIsBound == ~ ThreeWay => \A k \in Keys : /\ HM!Get(k) \in Values \cup {NULL}
                                            /\ \A v \in Values : Binds(k, v) <=> HM!Get(k) = v

LEMMA GetFindsBound == HashMapOK => GetIsBound
BY GetFinds DEF GetIsBound

LEMMA GetFindsBoundNext == (HashMapOK => GetIsBound)'
BY GetFindsBound, PTL

LEMMA ContainsNext == \A k : HS!HashSetContains(k)' <=> InHashSet(k)'
BY DEF HS!HashSetContains, HS!Contains, HS!HashIndex, InHashSet, Stored, In

\* The nodes of the map are a number.
LEMMA HashMapCounts == ASSUME HashMapOK PROVE HashMapNodes \in Nat
<1>1. /\ HM!Count \in Nat \ {0}
      /\ Placed(nodes_arrays, MapNodes, NodeKey, NodeHome, HM!Count)
  BY DEF HashMapOK
<1>2. Visit(nodes_arrays, HM!Count) \in Seq(MapNodes)
  BY <1>1, NodesHashed, VisitPlaced
<1> QED BY <1>2, LenProperties DEF HashMapNodes

LEMMA HashMapCountsNext == (HashMapOK => HashMapNodes \in Nat)'
<1>1. HashMapOK => HashMapNodes \in Nat
  BY HashMapCounts
<1> QED BY <1>1, PTL

\* What leaves the containers alone leaves what holds of them alone.
LEMMA HashSetStays ==
    ASSUME UNCHANGED <<buckets, hash_sz>>
    PROVE  /\ HashSetOK => HashSetOK'
           /\ UNCHANGED HashSetTable
<1>1. UNCHANGED HS!BucketCount
  BY DEF HS!BucketCount
<1>2. HashSetOK => HashSetOK'
  BY <1>1 DEF HashSetOK
<1>3. \A k \in Keys : UNCHANGED HS!HashSetContains(k)
  BY <1>1 DEF HS!HashSetContains, HS!HashIndex
<1> QED BY <1>2, <1>3 DEF HashSetTable

LEMMA HashMapStays ==
    ASSUME UNCHANGED <<nodes_arrays, map_size>>
    PROVE  /\ HashMapOK => HashMapOK'
           /\ UNCHANGED HashMapNodes
<1>1. UNCHANGED HM!Count
  BY DEF HM!Count
<1> QED BY <1>1 DEF HashMapOK, HashMapNodes

-----------------------------------------------------------------------------
(* The invariant is kept.                                                    *)

LEMMA HashInvStarts == Init => HashInv
<1> SUFFICES ASSUME Init PROVE HashInv
  OBVIOUS
<1>1. HashSetOK
  BY HashSetStarts DEF Init
<1>2. HashMapOK
  BY HashMapStarts DEF Init
<1>3. container = "hash_set" => blocks = 2 + 2 * hash_sz
  BY <1>1 DEF Init, Reachable, Containers, TreeMaps, HashSetOK
<1>4. container = "hash_map" => blocks = 2 + 3 * HashMapNodes
  BY DEF Init, Reachable, Containers, TreeMaps, HashMapNodes
<1> QED BY <1>1, <1>2, <1>3, <1>4 DEF HashInv

LEMMA HashInvInserts ==
    ASSUME HashInv, NEW k \in Keys, NEW v \in Values, NEW p \in Priorities, Insert(k, v, p)
    PROVE  HashInv'
<1>1. status = "usable" /\ status' = "usable" /\ container' = container
  BY DEF Insert, Usable
<1>2. CASE container = "hash_set"
  <2>1. HS!HashSetInsert(k) /\ UNCHANGED <<nodes_arrays, map_size>>
    BY <1>2 DEF Insert, hashMapVars
  <2>2. blocks = 2 + 2 * hash_sz /\ hash_sz \in Nat /\ HashSetOK
    BY <1>1, <1>2 DEF HashInv, HashSetOK
  <2>3. HashSetMoves(IF InHashSet(k) THEN 0 ELSE 1)
    BY <2>1, <2>2, HashSetInsertAdds
  <2>4. HashSetOK' /\ blocks' = 2 + 2 * hash_sz'
    BY <2>2, <2>3 DEF HashSetMoves
  <2> QED BY <1>1, <1>2, <2>1, <2>4, HashMapStays DEF HashInv
<1>3. CASE container = "hash_map"
  <2>1. HM!HashMapInsert(k, v) /\ UNCHANGED <<buckets, hash_sz>>
    BY <1>3 DEF Insert, hashSetVars
  <2>2. ASSUME ~ ThreeWay PROVE HashMapOK' /\ blocks' = 2 + 3 * HashMapNodes'
    <3>1. HashMapOK /\ HashMapNodes \in Nat /\ blocks = 2 + 3 * HashMapNodes
      BY <1>1, <1>3, <2>2, HashMapCounts DEF HashInv
    <3>2. HashMapMoves(0) \/ HashMapMoves(1)
      BY <2>1, <2>2, <3>1, OverwriteBinds, AddBinds DEF HM!HashMapInsert
    <3> QED BY <3>1, <3>2 DEF HashMapMoves
  <2> QED BY <1>1, <1>3, <2>1, <2>2, HashSetStays DEF HashInv
<1>4. CASE container \notin {"hash_set", "hash_map"}
  <2>1. UNCHANGED <<buckets, hash_sz, nodes_arrays, map_size>>
    BY <1>4 DEF Insert, hashSetVars, hashMapVars
  <2> QED BY <1>1, <1>4, <2>1, HashSetStays, HashMapStays DEF HashInv
<1> QED BY <1>2, <1>3, <1>4

LEMMA HashInvErases ==
    ASSUME HashInv, NEW k \in Keys, Erase(k)
    PROVE  HashInv'
<1>1. status = "usable" /\ container' = container
  BY DEF Erase, Usable
<1>2. CASE container = "hash_set"
  <2>1. HS!HashSetErase(k) /\ UNCHANGED <<nodes_arrays, map_size>>
    BY <1>2 DEF Erase, hashMapVars
  <2>2. blocks = 2 + 2 * hash_sz /\ hash_sz \in Nat /\ HashSetOK
    BY <1>1, <1>2 DEF HashInv, HashSetOK
  <2>3. HashSetMoves(IF InHashSet(k) THEN -1 ELSE 0)
    BY <2>1, <2>2, HashSetEraseRemoves
  <2>4. HashSetOK' /\ blocks' = 2 + 2 * hash_sz'
    BY <2>2, <2>3 DEF HashSetMoves
  <2> QED BY <1>1, <1>2, <2>1, <2>4, HashMapStays DEF HashInv
<1>3. CASE container = "hash_map"
  <2>1. HM!HashMapErase(k) /\ UNCHANGED <<buckets, hash_sz>>
    BY <1>3 DEF Erase, hashSetVars
  <2>2. ASSUME ~ ThreeWay PROVE HashMapOK' /\ blocks' = 2 + 3 * HashMapNodes'
    <3>1. HashMapOK /\ HashMapNodes \in Nat /\ blocks = 2 + 3 * HashMapNodes
      BY <1>1, <1>3, <2>2, HashMapCounts DEF HashInv
    <3>2. HashMapMoves(0) \/ HashMapMoves(-1)
      BY <2>1, <2>2, <3>1, HashMapEraseUnbinds
    <3> QED BY <3>1, <3>2 DEF HashMapMoves
  <2> QED BY <1>1, <1>3, <2>1, <2>2, HashSetStays DEF HashInv
<1>4. CASE container \notin {"hash_set", "hash_map"}
  <2>1. UNCHANGED <<buckets, hash_sz, nodes_arrays, map_size>>
    BY <1>4 DEF Erase, hashSetVars, hashMapVars
  <2> QED BY <1>1, <1>4, <2>1, HashSetStays, HashMapStays DEF HashInv
<1> QED BY <1>2, <1>3, <1>4

LEMMA HashInvKept == HashInv /\ [Next]_vars => HashInv'
<1> SUFFICES ASSUME HashInv, [Next]_vars PROVE HashInv'
  OBVIOUS
<1>1. ASSUME NEW k \in Keys, NEW v \in Values, NEW p \in Priorities, Insert(k, v, p)
      PROVE  HashInv'
  BY <1>1, HashInvInserts
<1>2. ASSUME NEW k \in Keys, Erase(k) PROVE HashInv'
  BY <1>2, HashInvErases
<1>3. ASSUME NEW freer \in {0, 1}, Destroy(freer) PROVE HashInv'
  <2>1. status' # "usable"
    BY <1>3 DEF Destroy
  <2>2. UNCHANGED <<buckets, hash_sz, nodes_arrays, map_size>>
    BY <1>3 DEF Destroy, HS!HashSetDestroy, HM!HashMapDestroy, HS!hashSetVars, HM!hashMapVars,
                hashSetVars, hashMapVars
  <2> QED BY <2>1, <2>2, HashSetStays, HashMapStays DEF HashInv
<1>4. CASE UNCHANGED vars
  BY <1>4, HashSetStays, HashMapStays DEF vars, hashSetVars, hashMapVars, HashInv
<1> QED BY <1>1, <1>2, <1>3, <1>4 DEF Next

\* The chains, sizes and blocks of the unordered containers in every state.
THEOREM KeyedHashInvariant == Spec => []HashInv
BY HashInvStarts, HashInvKept, PTL DEF Spec

-----------------------------------------------------------------------------
(* What the invariant says of the chains and the sizes.                      *)

LEMMA SetChainsSorted ==
    ASSUME HashSetOK
    PROVE  /\ \A i \in DOMAIN buckets :
                 /\ \A k \in ToSet(buckets[i]) : HS!HashIndex(k, HS!BucketCount) = i
                 /\ IsInjective(buckets[i])
           /\ 4 * hash_sz <= 3 * HS!BucketCount
<1> DEFINE n == HS!BucketCount
<1>1. n \in Nat \ {0} /\ Placed(buckets, Keys, KeyId, Hash, n) /\ 4 * hash_sz <= 3 * n
  BY DEF HashSetOK
<1> HIDE DEF n
<1>2. ASSUME NEW i \in DOMAIN buckets
      PROVE  /\ \A k \in ToSet(buckets[i]) : Hash[k] % n = i
             /\ IsInjective(buckets[i])
  <2>1. i \in 0 .. n - 1 /\ buckets[i] \in Seq(Keys)
    BY <1>1 DEF Placed
  <2>2. Once(buckets[i], KeyId) /\ \A k \in Keys : In(k, buckets[i]) => Hash[k] % n = i
    BY <1>1, <2>1 DEF Placed
  <2>3. /\ DOMAIN buckets[i] = 1 .. Len(buckets[i])
        /\ \A a \in 1 .. Len(buckets[i]) : buckets[i][a] \in Keys
    BY <2>1, LenProperties
  <2>4. \A k \in ToSet(buckets[i]) : Hash[k] % n = i
    BY <2>2, <2>3 DEF ToSet, In
  <2>5. IsInjective(buckets[i])
    BY <2>2, <2>3 DEF IsInjective, Once, KeyId
  <2> QED BY <2>4, <2>5
<1> QED BY <1>1, <1>2 DEF n, HS!HashIndex

LEMMA MapChainsSorted ==
    ASSUME HashMapOK
    PROVE  /\ \A i \in DOMAIN nodes_arrays :
                 /\ \A n \in ToSet(nodes_arrays[i]) : HM!Index(n.key, HM!Count) = i
                 /\ \A m, n \in DOMAIN nodes_arrays[i] :
                       nodes_arrays[i][m].key = nodes_arrays[i][n].key => m = n
           /\ 4 * map_size <= 3 * HM!Count
<1> DEFINE c == HM!Count
<1>1. /\ c \in Nat \ {0} /\ Placed(nodes_arrays, MapNodes, NodeKey, NodeHome, c)
      /\ 4 * map_size <= 3 * c
  BY DEF HashMapOK
<1> HIDE DEF c
<1>2. ASSUME NEW i \in DOMAIN nodes_arrays
      PROVE  /\ \A n \in ToSet(nodes_arrays[i]) : Hash[n.key] % c = i
             /\ \A m, n \in DOMAIN nodes_arrays[i] :
                   nodes_arrays[i][m].key = nodes_arrays[i][n].key => m = n
  <2> DEFINE s == nodes_arrays[i]
  <2>1. i \in 0 .. c - 1 /\ s \in Seq(MapNodes)
    BY <1>1 DEF Placed
  <2>2. Once(s, NodeKey) /\ \A y \in MapNodes : In(y, s) => NodeHome[y] % c = i
    BY <1>1, <2>1 DEF Placed
  <2>3. DOMAIN s = 1 .. Len(s) /\ \A a \in 1 .. Len(s) : s[a] \in MapNodes
    BY <2>1, LenProperties
  <2> HIDE DEF s
  <2>4. \A n \in ToSet(s) : Hash[n.key] % c = i
    <3>1. ASSUME NEW n \in ToSet(s) PROVE n \in MapNodes /\ In(n, s)
      BY <2>3 DEF ToSet, In
    <3> QED BY <2>2, <3>1 DEF NodeHome
  <2>5. \A m, n \in DOMAIN s : s[m].key = s[n].key => m = n
    BY <2>2, <2>3 DEF Once, NodeKey
  <2> QED BY <2>4, <2>5 DEF s
<1> QED BY <1>1, <1>2 DEF c, HM!Index

\* Every bucket of both unordered containers holds the keys it stands for, each
\* once, and the nodes fill at most 3/4 of the buckets: a rehash loses, repeats
\* or misplaces nothing, for any hash function, any list of primes and any
\* initial number of buckets.
THEOREM KeyedChainsPlaced == ASSUME ~ ThreeWay PROVE Spec => []ChainsPlaced
<1>1. HashInv => ChainsPlaced
  BY SetChainsSorted, MapChainsSorted DEF HashInv, ChainsPlaced
<1> QED BY <1>1, KeyedHashInvariant, PTL

\* The size of the unordered set counts its keys.
LEMMA KeyedHashSize == Spec => []HashSizeExact
<1>1. HashInv => HashSizeExact
  BY DEF HashInv, HashSetOK, HashSizeExact
<1> QED BY <1>1, KeyedHashInvariant, PTL

\* The search of a chain and Get agree on which keys are there.
LEMMA MatchAnswers ==
    ASSUME HashMapOK, ~ ThreeWay, NEW k \in Keys
    PROVE  HM!FirstMatch(k) = 0 <=> HM!Get(k) = NULL
<1>1. HM!Get(k) = IF HM!FirstMatch(k) = 0 THEN NULL ELSE ChainOf(k)[HM!FirstMatch(k)].value
  BY DEF HM!Get, HM!Index, ChainOf
<1>2. HM!FirstMatch(k) # 0 => ChainOf(k)[HM!FirstMatch(k)] \in MapNodes
  BY FirstMatchFinds
<1>3. \A m \in MapNodes : m.value # NULL
  BY KeysAssumption DEF MapNodes
<1> QED BY <1>1, <1>2, <1>3

LEMMA MapSizeNumbers ==
    ASSUME HashInv, ~ ThreeWay
    PROVE  HashMapOK /\ HashMapNodes \in Nat /\ map_size \in Nat /\ HM!Count \in Nat
<1>1. HashMapOK
  BY DEF HashInv
<1> QED BY <1>1, HashMapCounts DEF HashMapOK

\* An insertion moves the size with the nodes, and lets the table grow when the
\* size asks for it.
LEMMA InsertMovesSize ==
    ASSUME HashInv, ~ ThreeWay, container = "hash_map",
           NEW k \in Keys, NEW v \in Values, NEW p \in Priorities, Insert(k, v, p)
    PROVE  /\ SizeDrift' = SizeDrift
           /\ HM!Count' # HM!Count => 4 * (HashMapNodes' + SizeDrift) > 3 * HM!Count
<1>1. HashMapOK /\ HashMapNodes \in Nat /\ map_size \in Nat /\ HM!Count \in Nat
  BY MapSizeNumbers
<1>2. HM!HashMapInsert(k, v) /\ blocks \in Int
  BY <1>1 DEF HashInv, Insert, Usable
<1>3. CASE HM!Overwrite(k, v)
  <2>1. HashMapMoves(0) /\ UNCHANGED <<map_size, HM!Count>>
    BY <1>1, <1>2, <1>3, OverwriteBinds
  <2>2. HashMapNodes' = HashMapNodes
    BY <1>1, <2>1 DEF HashMapMoves
  <2> QED BY <2>1, <2>2 DEF SizeDrift
<1>4. CASE HM!Add(k, v)
  <2>1. /\ HashMapNodes' = HashMapNodes + 1 /\ map_size' = map_size + 1
        /\ HM!Count' # HM!Count => 4 * (map_size + 1) > 3 * HM!Count
    BY <1>1, <1>2, <1>4, AddBinds DEF HashMapMoves
  <2>2. SizeDrift' = SizeDrift
    BY <1>1, <2>1 DEF SizeDrift
  <2>3. HashMapNodes' + SizeDrift = map_size + 1
    BY <1>1, <2>1 DEF SizeDrift
  <2> QED BY <2>1, <2>2, <2>3
<1> QED BY <1>2, <1>3, <1>4 DEF HM!HashMapInsert

\* An erasure takes a node away and leaves the size and the table.
LEMMA EraseMovesSize ==
    ASSUME HashInv, ~ ThreeWay, container = "hash_map", NEW k \in Keys, Erase(k)
    PROVE  /\ SizeDrift' = SizeDrift + IF HM!Get(k) = NULL THEN 0 ELSE 1
           /\ UNCHANGED HM!Count
<1>1. HashMapOK /\ HashMapNodes \in Nat /\ map_size \in Nat /\ HM!Count \in Nat
  BY MapSizeNumbers
<1>2. HM!HashMapErase(k) /\ blocks \in Int
  BY <1>1 DEF HashInv, Erase, Usable
<1>3. /\ UNCHANGED <<map_size, HM!Count>>
      /\ \/ HM!FirstMatch(k) = 0 /\ HashMapNodes' = HashMapNodes + 0
         \/ HM!FirstMatch(k) # 0 /\ HashMapNodes' = HashMapNodes + (-1)
  BY <1>1, <1>2, HashMapEraseUnbinds DEF HashMapMoves
<1>4. HM!FirstMatch(k) = 0 <=> HM!Get(k) = NULL
  BY <1>1, MatchAnswers
<1>5. CASE HM!FirstMatch(k) = 0
  BY <1>1, <1>3, <1>4, <1>5 DEF SizeDrift
<1>6. CASE HM!FirstMatch(k) # 0
  BY <1>1, <1>3, <1>4, <1>6 DEF SizeDrift
<1> QED BY <1>3, <1>5, <1>6

LEMMA DriftStarts == Init => SizeDrift = 0
<1> SUFFICES ASSUME Init PROVE SizeDrift = 0
  OBVIOUS
<1>1. map_size = 0 /\ HashMapOK
  BY HashMapStarts DEF Init, HM!HashMapInit
<1>2. HashMapNodes \in Nat /\ HashMapNodes <= map_size
  BY <1>1, HashMapCounts DEF HashMapOK, HashMapNodes
<1> QED BY <1>1, <1>2 DEF SizeDrift

\* The size of the unordered map is its nodes and one for every key that was
\* erased, and the table grows by that sum, for any keys, hash function, initial
\* number of buckets and list of primes.
THEOREM KeyedMapSizeDrifts == ASSUME ~ ThreeWay PROVE Spec => MapSizeDrifts
<1> DEFINE Kept == container = "hash_map" =>
              /\ \A k \in Keys, v \in Values, p \in Priorities :
                    Insert(k, v, p) => SizeDrift' = SizeDrift
              /\ \A k \in Keys :
                    Erase(k) => SizeDrift' = SizeDrift + IF HM!Get(k) = NULL THEN 0 ELSE 1
              /\ HM!Count' # HM!Count => 4 * (HashMapNodes' + SizeDrift) > 3 * HM!Count
<1>1. HashInv /\ [Next]_vars => [Kept]_vars
  <2> SUFFICES ASSUME HashInv, Next, container = "hash_map" PROVE Kept
    OBVIOUS
  <2>1. ASSUME NEW freer \in {0, 1}, Destroy(freer) PROVE UNCHANGED HM!Count
    <3>1. UNCHANGED nodes_arrays
      BY <2>1 DEF Destroy, HM!HashMapDestroy, HM!hashMapVars, hashMapVars, TreeMaps
    <3> QED BY <3>1 DEF HM!Count
  <2>2. HM!Count' # HM!Count => 4 * (HashMapNodes' + SizeDrift) > 3 * HM!Count
    BY <2>1, InsertMovesSize, EraseMovesSize DEF Next
  <2> QED BY <2>2, InsertMovesSize, EraseMovesSize
<1>2. Spec => [][Kept]_vars
  BY <1>1, KeyedHashInvariant, PTL DEF Spec
<1>3. Spec => SizeDrift = 0
  BY DriftStarts DEF Spec
<1> QED BY <1>2, <1>3 DEF MapSizeDrifts

-----------------------------------------------------------------------------
(* The lookups answer like a table.                                          *)

LEMMA HashSetPuts ==
    ASSUME HashInv, container = "hash_set",
           NEW k \in Keys, NEW v \in Values, NEW p \in Priorities, Insert(k, v, p)
    PROVE  HashSetPromise!Put(k, k)
<1>1. HS!HashSetInsert(k) /\ HashSetOK /\ blocks \in Int
  <2>1. HashSetOK /\ status = "usable"
    BY DEF HashInv, Insert, Usable
  <2>2. blocks = 2 + 2 * hash_sz /\ hash_sz \in Nat
    BY <2>1 DEF HashInv, HashSetOK
  <2> QED BY <2>1, <2>2 DEF Insert
<1>2. \A x \in Keys : InHashSet(x)' <=> InHashSet(x) \/ x = k
  BY <1>1, HashSetInsertAdds
<1>3. \A x \in Keys : HS!HashSetContains(x)' <=> HS!HashSetContains(x) \/ x = k
  BY <1>2, HashSetContainsIsIn, ContainsNext
<1> QED BY <1>3 DEF HashSetTable, HashSetPromise!Put

LEMMA HashSetRemoves ==
    ASSUME HashInv, container = "hash_set", NEW k \in Keys, Erase(k)
    PROVE  HashSetPromise!Remove(k)
<1>1. HS!HashSetErase(k) /\ HashSetOK /\ blocks \in Int
  <2>1. HashSetOK /\ status = "usable"
    BY DEF HashInv, Erase, Usable
  <2>2. blocks = 2 + 2 * hash_sz /\ hash_sz \in Nat
    BY <2>1 DEF HashInv, HashSetOK
  <2> QED BY <2>1, <2>2 DEF Erase
<1>2. \A x \in Keys : InHashSet(x)' <=> InHashSet(x) /\ x # k
  BY <1>1, HashSetEraseRemoves
<1>3. \A x \in Keys : HS!HashSetContains(x)' <=> HS!HashSetContains(x) /\ x # k
  BY <1>2, HashSetContainsIsIn, ContainsNext
<1> QED BY <1>3 DEF HashSetTable, HashSetPromise!Remove

LEMMA HashSetPromiseStarts == Init => HashSetPromise!Init
<1> SUFFICES ASSUME Init PROVE HashSetTable = [k \in Keys |-> NULL]
  BY DEF HashSetPromise!Init
<1>1. \A k \in Keys : ~ HS!HashSetContains(k)
  BY HashSetStarts, HashSetContainsIsIn DEF Init
<1> QED BY <1>1 DEF HashSetTable

\* CCUnorderedSet answers like a table: an insertion adds its key, an erasure
\* removes it, and no other answer changes, also where a rehash moves every node.
THEOREM KeyedHashSetIsTable == Spec => HashSetImplementsTable
<1> DEFINE Kept == container = "hash_set" =>
                      /\ \A k \in Keys, v \in Values, p \in Priorities :
                            Insert(k, v, p) => HashSetPromise!Put(k, k)
                      /\ \A k \in Keys : Erase(k) => HashSetPromise!Remove(k)
<1>1. HashInv => Kept
  BY HashSetPuts, HashSetRemoves
<1>2. Spec => [][Kept]_vars
  BY <1>1, KeyedHashInvariant, PTL DEF Spec
<1>3. Spec => HashSetPromise!Init
  BY HashSetPromiseStarts DEF Spec
<1> QED BY <1>2, <1>3 DEF HashSetImplementsTable

\* New bindings are new answers of Get.
LEMMA BindingsAnswer ==
    ASSUME ~ ThreeWay, GetIsBound, GetIsBound', NEW k \in Keys, NEW R \in SUBSET Values,
           \A x \in Keys, w \in Values :
              Binds(x, w)' <=> (x # k /\ Binds(x, w)) \/ (x = k /\ w \in R)
    PROVE  /\ \A x \in Keys : x # k => HM!Get(x)' = HM!Get(x)
           /\ \A v \in R : HM!Get(k)' = v
           /\ R = {} => HM!Get(k)' = NULL
<1>1. \A x \in Keys : /\ HM!Get(x) \in Values \cup {NULL} /\ HM!Get(x)' \in Values \cup {NULL}
                      /\ \A w \in Values : Binds(x, w) <=> HM!Get(x) = w
                      /\ \A w \in Values : Binds(x, w)' <=> HM!Get(x)' = w
  BY DEF GetIsBound
<1>2. ASSUME NEW x \in Keys, x # k PROVE HM!Get(x)' = HM!Get(x)
  <2>1. \A w \in Values : HM!Get(x)' = w <=> HM!Get(x) = w
    BY <1>1, <1>2
  <2> QED BY <1>1, <2>1
<1>3. \A v \in R : HM!Get(k)' = v
  BY <1>1
<1>4. ASSUME R = {} PROVE HM!Get(k)' = NULL
  BY <1>1, <1>4
<1> QED BY <1>2, <1>3, <1>4

\* The invariant of the map is that of its next state, and Get follows both.
LEMMA AnswersFollow ==
    ASSUME ~ ThreeWay, HashInv, HashInv' PROVE HashMapOK /\ GetIsBound /\ GetIsBound'
BY GetFindsBound, GetFindsBoundNext DEF HashInv

LEMMA HashMapPuts ==
    ASSUME ~ ThreeWay, HashInv, container = "hash_map",
           NEW k \in Keys, NEW v \in Values, NEW p \in Priorities, Insert(k, v, p)
    PROVE  HashMapPromise!Put(k, v)
<1>1. HM!HashMapInsert(k, v) /\ HashMapOK /\ blocks \in Int
  <2>1. HashMapOK /\ status = "usable"
    BY DEF HashInv, Insert, Usable
  <2>2. blocks = 2 + 3 * HashMapNodes /\ HashMapNodes \in Nat
    BY <2>1, HashMapCounts DEF HashInv
  <2> QED BY <2>1, <2>2 DEF Insert
<1>2. \A x \in Keys, w \in Values :
         Binds(x, w)' <=> (x # k /\ Binds(x, w)) \/ (x = k /\ w = v)
  BY <1>1, OverwriteBinds, AddBinds DEF HM!HashMapInsert
<1>3. GetIsBound /\ GetIsBound'
  BY HashInvInserts, AnswersFollow
<1>4. (\A x \in Keys : x # k => HM!Get(x)' = HM!Get(x)) /\ HM!Get(k)' = v
  <2> DEFINE R == {v}
  <2>1. \A x \in Keys, w \in Values :
           Binds(x, w)' <=> (x # k /\ Binds(x, w)) \/ (x = k /\ w \in R)
    BY <1>2
  <2>2. R \in SUBSET Values /\ v \in R
    OBVIOUS
  <2> HIDE DEF R
  <2> QED BY <1>3, <2>1, <2>2, BindingsAnswer
<1> QED BY <1>4 DEF HashMapTable, HashMapPromise!Put

LEMMA HashMapRemoves ==
    ASSUME ~ ThreeWay, HashInv, container = "hash_map", NEW k \in Keys, Erase(k)
    PROVE  HashMapPromise!Remove(k)
<1>1. HM!HashMapErase(k) /\ HashMapOK /\ blocks \in Int
  <2>1. HashMapOK /\ status = "usable"
    BY DEF HashInv, Erase, Usable
  <2>2. blocks = 2 + 3 * HashMapNodes /\ HashMapNodes \in Nat
    BY <2>1, HashMapCounts DEF HashInv
  <2> QED BY <2>1, <2>2 DEF Erase
<1>2. \A x \in Keys, w \in Values : Binds(x, w)' <=> x # k /\ Binds(x, w)
  BY <1>1, HashMapEraseUnbinds
<1>3. GetIsBound /\ GetIsBound'
  BY HashInvErases, AnswersFollow
<1>4. (\A x \in Keys : x # k => HM!Get(x)' = HM!Get(x)) /\ HM!Get(k)' = NULL
  <2> DEFINE R == {}
  <2>1. \A x \in Keys, w \in Values :
           Binds(x, w)' <=> (x # k /\ Binds(x, w)) \/ (x = k /\ w \in R)
    BY <1>2
  <2>2. R \in SUBSET Values /\ R = {}
    OBVIOUS
  <2> HIDE DEF R
  <2> QED BY <1>3, <2>1, <2>2, BindingsAnswer
<1> QED BY <1>4 DEF HashMapTable, HashMapPromise!Remove

LEMMA HashMapPromiseStarts == ASSUME ~ ThreeWay PROVE Init => HashMapPromise!Init
<1> SUFFICES ASSUME Init PROVE HashMapTable = [k \in Keys |-> NULL]
  BY DEF HashMapPromise!Init
<1>1. HashMapOK /\ \A k \in Keys, v \in Values : ~ Binds(k, v)
  BY HashMapStarts DEF Init
<1>2. GetIsBound
  BY <1>1, GetFindsBound
<1>3. \A k \in Keys : HM!Get(k) = NULL
  BY <1>1, <1>2 DEF GetIsBound
<1> QED BY <1>3 DEF HashMapTable

\* CCUnorderedMap answers like a table, when its comparator returns 0 for keys
\* that differ: Get gives the value last inserted for the key, if it has not
\* been erased since.
THEOREM KeyedHashMapIsTable == ASSUME ~ ThreeWay PROVE Spec => HashMapImplementsTable
<1> DEFINE Kept == container = "hash_map" =>
                      /\ \A k \in Keys, v \in Values, p \in Priorities :
                            Insert(k, v, p) => HashMapPromise!Put(k, v)
                      /\ \A k \in Keys : Erase(k) => HashMapPromise!Remove(k)
<1>1. HashInv => Kept
  BY HashMapPuts, HashMapRemoves
<1>2. Spec => [][Kept]_vars
  BY <1>1, KeyedHashInvariant, PTL DEF Spec
<1>3. Spec => HashMapPromise!Init
  BY HashMapPromiseStarts DEF Spec
<1> QED BY <1>2, <1>3 DEF HashMapImplementsTable

-----------------------------------------------------------------------------
(* Heap blocks.                                                              *)

\* The unordered containers free what they allocate, and nothing else: every
\* change of the number of blocks is the change of those that can be reached.
THEOREM KeyedHashBlocks ==
    ASSUME ~ ThreeWay
    PROVE  Spec => [][(container \in {"hash_set", "hash_map"}) => Balanced]_vars
<1> DEFINE P == container \in {"hash_set", "hash_map"} => Balanced
<1>1. HashInv /\ HashInv' /\ [Next]_vars => [P]_vars
  <2> SUFFICES ASSUME HashInv, HashInv', Next, container \in {"hash_set", "hash_map"}
               PROVE  Balanced
    OBVIOUS
  <2> DEFINE n == IF container = "hash_set" THEN 2 * hash_sz ELSE 3 * HashMapNodes
  <2>1. n \in Nat /\ n' \in Nat
    <3>1. hash_sz \in Nat /\ hash_sz' \in Nat
      BY DEF HashInv, HashSetOK
    <3>2. HashMapNodes \in Nat /\ HashMapNodes' \in Nat
      BY HashMapCounts, HashMapCountsNext DEF HashInv
    <3>3. \A a \in Nat : 2 * a \in Nat /\ 3 * a \in Nat
      OBVIOUS
    <3>4. n \in Nat
      BY <3>1, <3>2, <3>3
    <3>5. n' = IF container' = "hash_set" THEN 2 * hash_sz' ELSE 3 * HashMapNodes'
      OBVIOUS
    <3>6. n' \in Nat
      BY <3>1, <3>2, <3>3, <3>5
    <3> QED BY <3>4, <3>6
  <2>2. status = "usable" /\ container' = container /\ status' \in {"usable", "destroyed"}
    BY DEF Next, Insert, Erase, Destroy, Usable, TreeMaps
  <2>3. Reachable = 2 + n /\ Reachable' = 2 + n'
    <3>1. hash_sz = Len(Visit(buckets, HS!BucketCount)) /\ hash_sz' = Len(Visit(buckets, HS!BucketCount))'
      BY DEF HashInv, HashSetOK
    <3>2. HashMapNodes = Len(Visit(nodes_arrays, HM!Count)) /\ HashMapNodes' = Len(Visit(nodes_arrays, HM!Count))'
      BY DEF HashMapNodes
    <3> QED BY <2>2, <3>1, <3>2 DEF Reachable, TreeMaps
  <2>4. blocks = 2 + n
    BY <2>2 DEF HashInv
  <2>5. CASE status' = "usable"
    <3>1. blocks' = 2 + n'
      BY <2>2, <2>5 DEF HashInv
    <3> HIDE DEF n
    <3> QED BY <2>1, <2>2, <2>3, <2>4, <2>5, <3>1 DEF Balanced
  <2>6. CASE status' = "destroyed"
    <3>1. blocks' = blocks - n - 2
      <4>1. PICK freer \in {0, 1} : Destroy(freer)
        BY <2>2, <2>6 DEF Next, Insert, Erase
      <4>2. hash_sz = Len(Visit(buckets, HS!BucketCount))
        BY DEF HashInv, HashSetOK
      <4> QED BY <2>2, <4>1, <4>2, ChainNames DEF Destroy, HS!HashSetDestroy, HM!HashMapDestroy, HashMapNodes, TreeMaps
    <3> HIDE DEF n
    <3> QED BY <2>1, <2>2, <2>3, <2>4, <2>6, <3>1 DEF Balanced
  <2> QED BY <2>2, <2>5, <2>6
<1> QED BY <1>1, KeyedHashInvariant, PTL DEF Spec

-----------------------------------------------------------------------------
(* Trees.                                                                    *)

\* The levels of the trees are what their recursion says.
LEMMA LevelsRecurse ==
    /\ TreesUpTo(0) = {NULL}
    /\ \A n \in Nat : TreesUpTo(n + 1) = {NULL} \cup NodesOver(TreesUpTo(n))
<1> DEFINE Above(S) == {NULL} \cup NodesOver(S)
           Levels(f, n) == f[0] = {NULL} /\ \A i \in 0 .. n - 1 : f[i + 1] = Above(f[i])
           upTo(n) == CHOOSE f : Levels(f, n)
           F == [n \in Nat |-> upTo(n)[n]]
           Body(f) == [n \in Nat |-> IF n = 0 THEN {NULL} ELSE {NULL} \cup NodesOver(f[n - 1])]
           trees == CHOOSE f : f = Body(f)
<1> HIDE DEF Above
<1>1. \A n \in Nat : Levels(upTo(n), n)
  <2> DEFINE N == {n \in Nat : \E f : Levels(f, n)}
  <2>1. 0 \in N
    <3>1. Levels([i \in {0} |-> {NULL}], 0)
      OBVIOUS
    <3> HIDE DEF Levels
    <3> QED BY <3>1
  <2>2. ASSUME NEW n \in Nat, n \in N PROVE n + 1 \in N
    <3>1. PICK f : Levels(f, n)
      BY <2>2
    <3> DEFINE g == [i \in 0 .. n + 1 |-> IF i <= n THEN f[i] ELSE Above(f[n])]
    <3>2. Levels(g, n + 1)
      <4>1. g[0] = {NULL}
        BY <3>1
      <4>2. ASSUME NEW i \in 0 .. n PROVE g[i + 1] = Above(g[i])
        <5>1. CASE i = n
          BY <5>1
        <5>2. CASE i # n
          <6>1. i \in 0 .. n - 1 /\ i + 1 <= n /\ i <= n /\ i + 1 \in 0 .. n + 1 /\ i \in 0 .. n + 1
            BY <5>2
          <6> QED BY <3>1, <6>1
        <5> QED BY <5>1, <5>2
      <4> HIDE DEF g
      <4>3. 0 .. (n + 1) - 1 = 0 .. n
        OBVIOUS
      <4> QED BY <4>1, <4>2, <4>3
    <3> HIDE DEF Levels, g
    <3> QED BY <3>2
  <2>3. Nat \subseteq N
    <3> HIDE DEF N
    <3> QED BY <2>1, <2>2, SetInduction
  <2> SUFFICES ASSUME NEW n \in Nat PROVE Levels(upTo(n), n)
    BY Zenon
  <2>4. \E f : Levels(f, n)
    BY <2>3
  <2> HIDE DEF Levels
  <2> QED BY <2>4, Zenon
<1>2. ASSUME NEW n \in Nat PROVE upTo(n + 1)[n] = upTo(n)[n]
  <2> DEFINE N == {i \in Nat : i <= n => upTo(n + 1)[i] = upTo(n)[i]}
  <2> HIDE DEF upTo
  <2>0. Levels(upTo(n + 1), n + 1) /\ Levels(upTo(n), n)
    <3> HIDE DEF Levels
    <3> QED BY <1>1
  <2>1. 0 \in N
    BY <2>0
  <2>2. ASSUME NEW i \in Nat, i \in N PROVE i + 1 \in N
    <3> SUFFICES ASSUME i + 1 <= n PROVE upTo(n + 1)[i + 1] = upTo(n)[i + 1]
      OBVIOUS
    <3>1. i \in 0 .. n - 1 /\ i \in 0 .. (n + 1) - 1 /\ upTo(n + 1)[i] = upTo(n)[i]
      BY <2>2
    <3> QED BY <2>0, <3>1
  <2>3. Nat \subseteq N
    <3> HIDE DEF N
    <3> QED BY <2>1, <2>2, SetInduction
  <2> QED BY <2>3
<1> HIDE DEF upTo
<1>3. F[0] = {NULL} /\ \A n \in Nat : F[n + 1] = Above(F[n])
  <2>1. ASSUME NEW n \in Nat PROVE F[n + 1] = Above(F[n])
    <3>1. n \in 0 .. (n + 1) - 1
      OBVIOUS
    <3> QED BY <1>1, <1>2, <3>1
  <2> QED BY <1>1, <2>1
<1>4. F = Body(F)
  <2>1. ASSUME NEW n \in Nat PROVE F[n] = IF n = 0 THEN {NULL} ELSE {NULL} \cup NodesOver(F[n - 1])
    <3>1. CASE n = 0
      BY <1>3, <3>1
    <3>2. CASE n # 0
      <4>1. n - 1 \in Nat /\ (n - 1) + 1 = n
        BY <3>2
      <4> HIDE DEF F
      <4> QED BY <1>3, <3>2, <4>1 DEF Above
    <3> QED BY <3>1, <3>2
  <2> QED BY <2>1
<1>5. trees = Body(trees)
  <2> HIDE DEF Body, F
  <2> QED BY <1>4
<1>6. \A n : TreesUpTo(n) = trees[n]
  BY DEF TreesUpTo
<1> HIDE DEF trees
<1>7. ASSUME NEW n \in Nat PROVE trees[n + 1] = {NULL} \cup NodesOver(trees[n])
  <2>1. n + 1 \in Nat /\ n + 1 # 0 /\ (n + 1) - 1 = n
    OBVIOUS
  <2> QED BY <1>5, <2>1
<1>8. trees[0] = {NULL}
  BY <1>5
<1> QED BY <1>6, <1>7, <1>8

\* Every level contains those below it.
LEMMA LevelsGrow == \A n \in Nat : TreesUpTo(n) \subseteq TreesUpTo(n + 1)
<1> DEFINE N == {n \in Nat : TreesUpTo(n) \subseteq TreesUpTo(n + 1)}
<1>1. 0 \in N
  BY LevelsRecurse
<1>2. ASSUME NEW n \in Nat, n \in N PROVE n + 1 \in N
  <2>1. TreesUpTo(n + 1) = {NULL} \cup NodesOver(TreesUpTo(n))
    BY LevelsRecurse
  <2>2. n + 1 \in Nat /\ TreesUpTo((n + 1) + 1) = {NULL} \cup NodesOver(TreesUpTo(n + 1))
    BY LevelsRecurse
  <2>3. NodesOver(TreesUpTo(n)) \subseteq NodesOver(TreesUpTo(n + 1))
    BY <1>2 DEF NodesOver
  <2> QED BY <2>1, <2>2, <2>3
<1>3. Nat \subseteq N
  <2> HIDE DEF N
  <2> QED BY <1>1, <1>2, SetInduction
<1> QED BY <1>3

\* So a tree of one height is one of every greater height.
LEMMA LevelsOrdered == \A m, n \in Nat : m <= n => TreesUpTo(m) \subseteq TreesUpTo(n)
<1> TAKE m \in Nat
<1> DEFINE N == {n \in Nat : m <= n => TreesUpTo(m) \subseteq TreesUpTo(n)}
<1>1. 0 \in N
  OBVIOUS
<1>2. ASSUME NEW n \in Nat, n \in N PROVE n + 1 \in N
  <2>1. m <= n \/ m = n + 1 \/ ~ (m <= n + 1)
    OBVIOUS
  <2>2. TreesUpTo(n) \subseteq TreesUpTo(n + 1)
    BY LevelsGrow
  <2> QED BY <1>2, <2>1, <2>2
<1>3. Nat \subseteq N
  <2> HIDE DEF N
  <2> QED BY <1>1, <1>2, SetInduction
<1> QED BY <1>3

\* A node as the model builds them.
Join(k, v, p, l, r) == [key |-> k, value |-> v, priority |-> p, left |-> l, right |-> r]

\* What a node of a level is.
LEMMA NodeOfLevel ==
    ASSUME NEW n \in Nat, NEW t \in TreesUpTo(n + 1), t # NULL
    PROVE  /\ t = Join(t.key, t.value, t.priority, t.left, t.right)
           /\ t.key \in Keys /\ t.value \in Values \cup {NULL} /\ t.priority \in Nat
           /\ t.left \in TreesUpTo(n) /\ t.right \in TreesUpTo(n)
<1>1. t \in NodesOver(TreesUpTo(n))
  BY LevelsRecurse
<1> QED BY <1>1 DEF NodesOver, Join

Height == Cardinality(Keys)

\* There are finitely many keys, so the trees are those of one level.
LEMMA HeightIsNat == Height \in Nat /\ Trees = TreesUpTo(Height)
BY TreesAssumption, FS_CardinalityType DEF Height, Trees

\* A tree that is not empty is a node above two trees.
LEMMA NodeOfTree ==
    ASSUME NEW t \in Trees, t # NULL
    PROVE  /\ t = Join(t.key, t.value, t.priority, t.left, t.right)
           /\ t.key \in Keys /\ t.value \in Values \cup {NULL} /\ t.priority \in Nat
           /\ t.left \in Trees /\ t.right \in Trees
<1>1. Height # 0
  BY HeightIsNat, LevelsRecurse
<1>2. Height - 1 \in Nat /\ (Height - 1) + 1 = Height
  BY <1>1, HeightIsNat
<1>3. TreesUpTo(Height - 1) \subseteq Trees
  BY <1>2, HeightIsNat, LevelsGrow
<1>4. t \in TreesUpTo((Height - 1) + 1)
  BY <1>2, HeightIsNat
<1> QED BY <1>2, <1>3, <1>4, NodeOfLevel

\* The empty tree is a tree of every height.
LEMMA NullIsTree == NULL \in Trees /\ \A n \in Nat : NULL \in TreesUpTo(n)
<1>1. NULL \in TreesUpTo(0)
  BY LevelsRecurse
<1>2. \A n \in Nat : NULL \in TreesUpTo(n)
  BY <1>1, LevelsOrdered
<1> QED BY <1>2, HeightIsNat

\* What holds of the empty tree, and of a node if of its children, holds of all.
LEMMA TreeInduction ==
    ASSUME NEW S, NULL \in S,
           \A t \in Trees \ {NULL} : t.left \in S /\ t.right \in S => t \in S
    PROVE  Trees \subseteq S
<1> DEFINE N == {n \in Nat : n <= Height => TreesUpTo(n) \subseteq S}
<1>1. 0 \in N
  BY LevelsRecurse
<1>2. ASSUME NEW n \in Nat, n \in N PROVE n + 1 \in N
  <2> SUFFICES ASSUME n + 1 <= Height, NEW t \in TreesUpTo(n + 1), t # NULL PROVE t \in S
    OBVIOUS
  <2>1. n <= Height /\ TreesUpTo(n + 1) \subseteq Trees
    BY HeightIsNat, LevelsOrdered
  <2>2. t.left \in S /\ t.right \in S
    BY <1>2, <2>1, NodeOfLevel
  <2> QED BY <2>1, <2>2
<1>3. Nat \subseteq N
  <2> HIDE DEF N
  <2> QED BY <1>1, <1>2, SetInduction
<1> QED BY <1>3, HeightIsNat

\* The recursive functions on trees exist: on the levels one after the other.
LEMMA SizeRecurses ==
    /\ Size(NULL) = 0
    /\ \A t \in Trees \ {NULL} : Size(t) = 1 + Size(t.left) + Size(t.right)
<1> DEFINE Step(f, t) == IF t = NULL THEN 0 ELSE 1 + f[t.left] + f[t.right]
           N == {n \in Nat : \E f : f = [t \in TreesUpTo(n) |-> Step(f, t)]}
           size == CHOOSE f : f = [t \in Trees |-> Step(f, t)]
<1>1. 0 \in N
  <2> DEFINE f == [t \in {NULL} |-> 0]
  <2>1. f = [t \in TreesUpTo(0) |-> Step(f, t)]
    BY LevelsRecurse
  <2> HIDE DEF f
  <2> QED BY <2>1
<1>2. ASSUME NEW n \in Nat, n \in N PROVE n + 1 \in N
  <2>1. PICK f : f = [t \in TreesUpTo(n) |-> Step(f, t)]
    BY <1>2
  <2> DEFINE g == [t \in TreesUpTo(n + 1) |-> Step(f, t)]
  <2>2. ASSUME NEW t \in TreesUpTo(n + 1) PROVE Step(f, t) = Step(g, t)
    <3>1. CASE t = NULL
      BY <3>1
    <3>2. CASE t # NULL
      <4>1. t.left \in TreesUpTo(n) /\ t.right \in TreesUpTo(n)
        BY <3>2, NodeOfLevel
      <4>2. \A u \in TreesUpTo(n) : g[u] = f[u]
        <5> SUFFICES ASSUME NEW u \in TreesUpTo(n) PROVE g[u] = f[u]
          OBVIOUS
        <5>1. u \in TreesUpTo(n + 1)
          BY LevelsGrow
        <5>2. g[u] = Step(f, u)
          BY <5>1
        <5>3. f[u] = Step(f, u)
          BY <2>1, Zenon
        <5> QED BY <5>2, <5>3, Zenon
      <4> HIDE DEF g
      <4> QED BY <3>2, <4>1, <4>2
    <3> QED BY <3>1, <3>2
  <2>3. g = [t \in TreesUpTo(n + 1) |-> Step(g, t)]
    <3> HIDE DEF Step
    <3> QED BY <2>2, Zenon
  <2> HIDE DEF g, Step
  <2> QED BY <2>3
<1>3. Nat \subseteq N
  <2> HIDE DEF N
  <2> QED BY <1>1, <1>2, SetInduction
<1>4. size = [t \in Trees |-> Step(size, t)]
  <2>1. \E f : f = [t \in Trees |-> Step(f, t)]
    <3> HIDE DEF Step
    <3> QED BY <1>3, HeightIsNat
  <2> HIDE DEF Step
  <2> QED BY <2>1, Zenon
<1>5. \A t : Size(t) = size[t]
  BY DEF Size
<1> HIDE DEF size
<1>6. \A t \in Trees : size[t] = Step(size, t)
  <2> HIDE DEF Step
  <2> QED BY <1>4, Zenon
<1> QED BY <1>5, <1>6, NullIsTree

\* The size of a tree is a number.
LEMMA SizeIsNat == \A t \in Trees : Size(t) \in Nat
<1> DEFINE S == {t \in Trees : Size(t) \in Nat}
<1>1. NULL \in S
  BY NullIsTree, SizeRecurses
<1>2. ASSUME NEW t \in Trees \ {NULL}, t.left \in S, t.right \in S PROVE t \in S
  BY <1>2, SizeRecurses
<1>3. Trees \subseteq S
  <2> HIDE DEF S
  <2> QED BY <1>1, <1>2, TreeInduction
<1> QED BY <1>3

\* The children are smaller than their parent: recursion over them ends.
LEMMA ChildrenSmaller ==
    ASSUME NEW t \in Trees, t # NULL
    PROVE  /\ t.left \in Trees /\ Size(t.left) < Size(t)
           /\ t.right \in Trees /\ Size(t.right) < Size(t)
<1>1. t.left \in Trees /\ t.right \in Trees
  BY NodeOfTree
<1>2. Size(t) \in Nat /\ Size(t.left) \in Nat /\ Size(t.right) \in Nat
  BY <1>1, SizeIsNat
<1> QED BY <1>1, <1>2, SizeRecurses

\* The trees of a level are of bounded size.
LEMMA SizeBounded == \E m \in Nat : \A t \in Trees : Size(t) <= m
<1> DEFINE N == {n \in Nat : \E m \in Nat : \A t \in Trees \cap TreesUpTo(n) : Size(t) <= m}
<1>1. 0 \in N
  BY LevelsRecurse, SizeRecurses
<1>2. ASSUME NEW n \in Nat, n \in N PROVE n + 1 \in N
  <2>1. PICK m \in Nat : \A t \in Trees \cap TreesUpTo(n) : Size(t) <= m
    BY <1>2
  <2>2. ASSUME NEW t \in Trees \cap TreesUpTo(n + 1) PROVE Size(t) <= 1 + m + m
    <3>1. CASE t = NULL
      BY <3>1, SizeRecurses
    <3>2. CASE t # NULL
      <4>1. t.left \in Trees \cap TreesUpTo(n) /\ t.right \in Trees \cap TreesUpTo(n)
        BY <3>2, NodeOfLevel, NodeOfTree
      <4>2. Size(t.left) <= m /\ Size(t.right) <= m /\ Size(t.left) \in Nat /\ Size(t.right) \in Nat
        BY <2>1, <4>1, SizeIsNat
      <4>3. Size(t) = 1 + Size(t.left) + Size(t.right)
        BY <3>2, SizeRecurses
      <4> QED BY <4>2, <4>3
    <3> QED BY <3>1, <3>2
  <2>3. 1 + m + m \in Nat
    OBVIOUS
  <2> QED BY <2>2, <2>3
<1>3. Nat \subseteq N
  <2> HIDE DEF N
  <2> QED BY <1>1, <1>2, SetInduction
<1> QED BY <1>3, HeightIsNat

\* What holds of a tree if of all smaller ones holds of all.
LEMMA SizeInduction ==
    ASSUME NEW S,
           \A t \in Trees : (\A u \in Trees : Size(u) < Size(t) => u \in S) => t \in S
    PROVE  Trees \subseteq S
<1> DEFINE N == {n \in Nat : \A t \in Trees : Size(t) < n => t \in S}
<1>1. 0 \in N
  BY SizeIsNat
<1>2. ASSUME NEW n \in Nat, n \in N PROVE n + 1 \in N
  <2> SUFFICES ASSUME NEW t \in Trees, Size(t) < n + 1 PROVE t \in S
    OBVIOUS
  <2>1. ASSUME NEW u \in Trees, Size(u) < Size(t) PROVE u \in S
    <3>1. Size(u) \in Nat /\ Size(t) \in Nat
      BY SizeIsNat
    <3>2. Size(u) < n
      BY <2>1, <3>1
    <3> QED BY <1>2, <3>2
  <2> QED BY <2>1
<1>3. Nat \subseteq N
  <2> HIDE DEF N
  <2> QED BY <1>1, <1>2, SetInduction
<1>4. ASSUME NEW t \in Trees PROVE t \in S
  <2>1. Size(t) \in Nat /\ Size(t) + 1 \in Nat /\ Size(t) < Size(t) + 1
    BY SizeIsNat
  <2> QED BY <1>3, <2>1
<1> QED BY <1>4

\* A function on trees is defined by recursion when its value at a tree hangs
\* on its values at smaller trees: `step' computes one from the others.
Recursive(step, V) ==
    /\ V # {} /\ step \in [Trees \X [Trees -> V] -> V]
    /\ \A t \in Trees, f, g \in [Trees -> V] :
          (\A u \in Trees : Size(u) < Size(t) => f[u] = g[u]) => step[<<t, f>>] = step[<<t, g>>]

\* Such a function exists.
LEMMA TreeRecursion ==
    ASSUME NEW V, NEW step, Recursive(step, V)
    PROVE  \E f \in [Trees -> V] : \A t \in Trees : f[t] = step[<<t, f>>]
<1> USE DEF Recursive
<1> DEFINE Good(f, n) == \A t \in Trees : Size(t) < n => f[t] = step[<<t, f>>]
           N == {n \in Nat : \E f \in [Trees -> V] : Good(f, n)}
<1>1. 0 \in N
  <2>1. PICK v \in V : TRUE
    OBVIOUS
  <2> DEFINE f == [t \in Trees |-> v]
  <2>2. f \in [Trees -> V]
    OBVIOUS
  <2>3. Good(f, 0)
    BY SizeIsNat
  <2> HIDE DEF Good, f
  <2> QED BY <2>2, <2>3
<1>2. ASSUME NEW n \in Nat, n \in N PROVE n + 1 \in N
  <2>1. PICK f \in [Trees -> V] : Good(f, n)
    BY <1>2
  <2> DEFINE g == [t \in Trees |-> step[<<t, f>>]]
  <2>2. g \in [Trees -> V]
    OBVIOUS
  <2>3. ASSUME NEW t \in Trees, Size(t) < n + 1 PROVE g[t] = step[<<t, g>>]
    <3>1. ASSUME NEW u \in Trees, Size(u) < Size(t) PROVE g[u] = f[u]
      <4>1. Size(u) \in Nat /\ Size(t) \in Nat
        BY SizeIsNat
      <4>2. Size(u) < n
        BY <2>3, <3>1, <4>1
      <4> QED BY <2>1, <4>2
    <3>2. step[<<t, g>>] = step[<<t, f>>]
      <4> HIDE DEF g
      <4> QED BY <2>2, <3>1
    <3> QED BY <3>2
  <2>4. Good(g, n + 1)
    BY <2>3
  <2> HIDE DEF Good, g
  <2> QED BY <2>2, <2>4
<1>3. Nat \subseteq N
  <2> HIDE DEF N
  <2> QED BY <1>1, <1>2, SetInduction
<1>4. PICK m \in Nat : \A t \in Trees : Size(t) <= m
  BY SizeBounded
<1>5. m + 1 \in Nat /\ \A t \in Trees : Size(t) < m + 1
  BY <1>4, SizeIsNat
<1> QED BY <1>3, <1>5

\* The nodes of a tree are its root and the nodes of its children.
LEMMA NodesRecurse ==
    /\ Nodes(NULL) = {}
    /\ \A t \in Trees \ {NULL} : Nodes(t) = {t} \cup Nodes(t.left) \cup Nodes(t.right)
    /\ \A t \in Trees : Nodes(t) \subseteq Trees \ {NULL}
<1> DEFINE V == SUBSET (Trees \ {NULL})
           Step(f, t) == IF t = NULL THEN {} ELSE {t} \cup f[t.left] \cup f[t.right]
           step == [p \in Trees \X [Trees -> V] |-> Step(p[2], p[1])]
           nodes == CHOOSE f : f = [t \in Trees |-> Step(f, t)]
<1>1. \A t \in Trees, f \in [Trees -> V] : Step(f, t) \in V
  BY ChildrenSmaller
<1>2. \A t \in Trees, f, g \in [Trees -> V] :
         (\A u \in Trees : Size(u) < Size(t) => f[u] = g[u]) => Step(f, t) = Step(g, t)
  BY ChildrenSmaller
<1>3. V # {}
  OBVIOUS
<1> HIDE DEF V, Step
<1>4. PICK f \in [Trees -> V] : \A t \in Trees : f[t] = step[<<t, f>>]
  <2>1. step \in [Trees \X [Trees -> V] -> V]
    BY <1>1
  <2>2. \A t \in Trees, h \in [Trees -> V] : step[<<t, h>>] = Step(h, t)
    OBVIOUS
  <2> HIDE DEF step
  <2>3. Recursive(step, V)
    BY <1>2, <1>3, <2>1, <2>2 DEF Recursive
  <2> QED BY <2>3, TreeRecursion
<1>5. \E h : h = [t \in Trees |-> Step(h, t)]
  <2>1. f = [t \in Trees |-> Step(f, t)]
    BY <1>4
  <2> QED BY <2>1
<1>6. nodes = [t \in Trees |-> Step(nodes, t)] 
  BY <1>5, Zenon
<1>7. \A t : Nodes(t) = nodes[t]
  BY DEF Nodes, Step
<1> HIDE DEF nodes
<1>8. \A t \in Trees : nodes[t] = Step(nodes, t)
  BY <1>6
<1>9. nodes[NULL] = {} /\ \A t \in Trees \ {NULL} : nodes[t] = {t} \cup nodes[t.left] \cup nodes[t.right]
  BY <1>8, NullIsTree DEF Step
<1> DEFINE S == {t \in Trees : nodes[t] \subseteq Trees \ {NULL}}
<1>10. NULL \in S /\ \A t \in Trees \ {NULL} : t.left \in S /\ t.right \in S => t \in S
  BY <1>9, NullIsTree
<1>11. Trees \subseteq S
  <2> HIDE DEF S
  <2> QED BY <1>10, TreeInduction
<1> QED BY <1>7, <1>9, <1>11

\* The keys with their values.
Bindings(t) == {<<n.key, n.value>> : n \in Nodes(t)}

\* So are its keys, and its bindings.
LEMMA KeysRecurse ==
    /\ KeysOf(NULL) = {}
    /\ Bindings(NULL) = {}
    /\ \A t \in Trees \ {NULL} :
          /\ KeysOf(t) = {t.key} \cup KeysOf(t.left) \cup KeysOf(t.right)
          /\ Bindings(t) = {<<t.key, t.value>>} \cup Bindings(t.left) \cup Bindings(t.right)
BY NodesRecurse DEF KeysOf, Bindings

\* The keys of a tree are some of the keys, and are those it binds.
LEMMA KeysAreBound ==
    \A t \in Trees : /\ KeysOf(t) \subseteq Keys /\ IsFiniteSet(KeysOf(t))
                     /\ Bindings(t) \subseteq Keys \X (Values \cup {NULL})
                     /\ \A k : k \in KeysOf(t) <=> \E v : <<k, v>> \in Bindings(t)
<1> TAKE t \in Trees
<1>1. \A n \in Nodes(t) : n.key \in Keys /\ n.value \in Values \cup {NULL}
  BY NodesRecurse, NodeOfTree
<1>2. KeysOf(t) \subseteq Keys /\ Bindings(t) \subseteq Keys \X (Values \cup {NULL})
  BY <1>1 DEF KeysOf, Bindings
<1>3. IsFiniteSet(KeysOf(t))
  BY <1>2, TreesAssumption, FS_Subset
<1> QED BY <1>2, <1>3 DEF KeysOf, Bindings

\* A tree is ordered when its root is, towards the children, and these are.
LEMMA OrderRecurses ==
    /\ SearchOrdered(NULL) /\ HeapOrdered(NULL)
    /\ \A t \in Trees \ {NULL} :
          /\ SearchOrdered(t) <=> /\ \A k \in KeysOf(t.left)  : k > t.key
                                  /\ \A k \in KeysOf(t.right) : k < t.key
                                  /\ SearchOrdered(t.left) /\ SearchOrdered(t.right)
          /\ HeapOrdered(t) <=> /\ t.left # NULL => t.left.priority <= t.priority
                                /\ t.right # NULL => t.right.priority <= t.priority
                                /\ HeapOrdered(t.left) /\ HeapOrdered(t.right)
BY NodesRecurse DEF SearchOrdered, HeapOrdered

\* The descent of the search, one step at a time.
LEMMA FindRecurses ==
    ASSUME NEW key
    PROVE  /\ Find(NULL, key) = NULL
           /\ \A t \in Trees \ {NULL} :
                 Find(t, key) = IF t.key = key THEN t
                                ELSE Find(IF t.key < key THEN t.left ELSE t.right, key)
<1> DEFINE V == Trees
           Step(f, t) == IF t = NULL \/ t.key = key THEN t
                         ELSE f[IF t.key < key THEN t.left ELSE t.right]
           step == [p \in Trees \X [Trees -> V] |-> Step(p[2], p[1])]
           find == CHOOSE f : f = [t \in Trees |-> Step(f, t)]
<1>1. \A t \in Trees, f \in [Trees -> V] : Step(f, t) \in V
  BY ChildrenSmaller
<1>2. \A t \in Trees, f, g \in [Trees -> V] :
         (\A u \in Trees : Size(u) < Size(t) => f[u] = g[u]) => Step(f, t) = Step(g, t)
  BY ChildrenSmaller
<1>3. V # {}
  BY NullIsTree
<1> HIDE DEF V, Step
<1>4. PICK f \in [Trees -> V] : \A t \in Trees : f[t] = step[<<t, f>>]
  <2>1. step \in [Trees \X [Trees -> V] -> V]
    BY <1>1
  <2>2. \A t \in Trees, h \in [Trees -> V] : step[<<t, h>>] = Step(h, t)
    OBVIOUS
  <2> HIDE DEF step
  <2>3. Recursive(step, V)
    BY <1>2, <1>3, <2>1, <2>2 DEF Recursive
  <2> QED BY <2>3, TreeRecursion
<1>5. \E h : h = [t \in Trees |-> Step(h, t)]
  <2>1. f = [t \in Trees |-> Step(f, t)]
    BY <1>4
  <2> QED BY <2>1
<1>6. find = [t \in Trees |-> Step(find, t)] 
  BY <1>5, Zenon
<1>7. \A t : Find(t, key) = find[t]
  BY DEF Find, Step
<1> HIDE DEF find
<1>8. \A t \in Trees : find[t] = Step(find, t)
  BY <1>6
<1> QED BY <1>7, <1>8, NullIsTree DEF Step

\* The fields of a node.
LEMMA JoinFields ==
    ASSUME NEW k, NEW v, NEW p, NEW l, NEW r
    PROVE  /\ Join(k, v, p, l, r).key = k /\ Join(k, v, p, l, r).value = v
           /\ Join(k, v, p, l, r).priority = p
           /\ Join(k, v, p, l, r).left = l /\ Join(k, v, p, l, r).right = r
BY DEF Join

\* Trees of any height, and those with a node.
AnyTree == UNION {TreesUpTo(n) : n \in Nat}
AnyNode == NodesOver(AnyTree)

\* Such a tree is empty or a node above two of them.
LEMMA AnyTreeIsNode ==
    /\ Trees \subseteq AnyTree
    /\ Trees \ {NULL} \subseteq AnyNode
    /\ AnyTree = {NULL} \cup AnyNode
<1>1. ASSUME NEW t \in AnyTree, t # NULL PROVE t \in AnyNode
  <2>1. PICK n \in Nat : t \in TreesUpTo(n)
    BY DEF AnyTree
  <2>2. n # 0
    BY <1>1, <2>1, LevelsRecurse
  <2>3. n - 1 \in Nat /\ (n - 1) + 1 = n
    BY <2>2
  <2>4. TreesUpTo(n) = {NULL} \cup NodesOver(TreesUpTo(n - 1))
    BY <2>3, LevelsRecurse
  <2> QED BY <1>1, <2>1, <2>3, <2>4 DEF AnyNode, AnyTree, NodesOver
<1>2. ASSUME NEW t \in AnyNode PROVE t \in AnyTree
  <2>1. /\ t = [key |-> t.key, value |-> t.value, priority |-> t.priority, left |-> t.left, right |-> t.right]
        /\ t.key \in Keys /\ t.value \in Values \cup {NULL} /\ t.priority \in Nat
        /\ t.left \in AnyTree /\ t.right \in AnyTree
    BY DEF AnyNode, NodesOver
  <2>2. PICK m \in Nat : t.left \in TreesUpTo(m)
    BY <2>1 DEF AnyTree
  <2>3. PICK n \in Nat : t.right \in TreesUpTo(n)
    BY <2>1 DEF AnyTree
  <2> DEFINE h == IF m <= n THEN n ELSE m
  <2>4. h \in Nat /\ m <= h /\ n <= h
    OBVIOUS
  <2> HIDE DEF h
  <2>5. t.left \in TreesUpTo(h) /\ t.right \in TreesUpTo(h)
    BY <2>2, <2>3, <2>4, LevelsOrdered
  <2>6. t \in NodesOver(TreesUpTo(h))
    BY <2>1, <2>5 DEF NodesOver
  <2>7. t \in TreesUpTo(h + 1) /\ h + 1 \in Nat
    BY <2>4, <2>6, LevelsRecurse
  <2> QED BY <2>7 DEF AnyTree
<1>3. NULL \in AnyTree
  BY NullIsTree DEF AnyTree
<1>4. Trees \subseteq AnyTree
  BY HeightIsNat DEF AnyTree
<1> QED BY <1>1, <1>2, <1>3, <1>4

\* A node is put together from its fields.
LEMMA NodeFields ==
    ASSUME NEW t \in AnyNode
    PROVE  /\ t = Join(t.key, t.value, t.priority, t.left, t.right)
           /\ t.key \in Keys /\ t.value \in Values \cup {NULL} /\ t.priority \in Nat
           /\ t.left \in AnyTree /\ t.right \in AnyTree
BY DEF AnyNode, NodesOver, Join

\* What is put together above two trees is a node.
LEMMA JoinIsNode ==
    ASSUME NEW k \in Keys, NEW v \in Values \cup {NULL}, NEW p \in Nat,
           NEW l \in AnyTree, NEW r \in AnyTree
    PROVE  Join(k, v, p, l, r) \in AnyNode
BY DEF AnyNode, NodesOver, Join

\* What the assignments to the fields of a node, and the rotations, make of it.
LEMMA EditedNode ==
    ASSUME NEW t \in AnyNode, NEW x
    PROVE  /\ [t EXCEPT !.left = x] = Join(t.key, t.value, t.priority, x, t.right)
           /\ [t EXCEPT !.right = x] = Join(t.key, t.value, t.priority, t.left, x)
           /\ [t EXCEPT !.value = x] = Join(t.key, x, t.priority, t.left, t.right)
<1>1. t \in [key : Keys, value : Values \cup {NULL}, priority : Nat, left : AnyTree, right : AnyTree]
  BY DEF AnyNode, NodesOver
<1> QED BY <1>1 DEF Join

\* A rotation puts one child above its parent.
LEMMA Rotated ==
    ASSUME NEW t \in AnyNode
    PROVE  /\ t.left \in AnyNode =>
                 RotateRight(t) = Join(t.left.key, t.left.value, t.left.priority, t.left.left,
                                       Join(t.key, t.value, t.priority, t.left.right, t.right))
           /\ t.right \in AnyNode =>
                 RotateLeft(t) = Join(t.right.key, t.right.value, t.right.priority,
                                      Join(t.key, t.value, t.priority, t.left, t.right.left),
                                      t.right.right)
<1>1. ASSUME t.left \in AnyNode
      PROVE  [t.left EXCEPT !.right = [t EXCEPT !.left = t.left.right]] =
                Join(t.left.key, t.left.value, t.left.priority, t.left.left,
                     Join(t.key, t.value, t.priority, t.left.right, t.right))
  <2>1. [t EXCEPT !.left = t.left.right] = Join(t.key, t.value, t.priority, t.left.right, t.right)
    BY EditedNode
  <2> DEFINE u == [t EXCEPT !.left = t.left.right]
  <2> HIDE DEF u
  <2>2. [t.left EXCEPT !.right = u] = Join(t.left.key, t.left.value, t.left.priority, t.left.left, u)
    BY <1>1, EditedNode
  <2> QED BY <2>1, <2>2 DEF u
<1>2. ASSUME t.right \in AnyNode
      PROVE  [t.right EXCEPT !.left = [t EXCEPT !.right = t.right.left]] =
                Join(t.right.key, t.right.value, t.right.priority,
                     Join(t.key, t.value, t.priority, t.left, t.right.left), t.right.right)
  <2>1. [t EXCEPT !.right = t.right.left] = Join(t.key, t.value, t.priority, t.left, t.right.left)
    BY EditedNode
  <2> DEFINE u == [t EXCEPT !.right = t.right.left]
  <2> HIDE DEF u
  <2>2. [t.right EXCEPT !.left = u] = Join(t.right.key, t.right.value, t.right.priority, u, t.right.right)
    BY <1>2, EditedNode
  <2> QED BY <2>1, <2>2 DEF u
<1> QED BY <1>1, <1>2 DEF RotateRight, RotateLeft

\* A node with a changed child, and the child rotated up if it outranks it.
LEMMA Lifted ==
    ASSUME NEW t \in AnyNode, NEW c \in AnyNode
    PROVE  /\ LiftLeft([t EXCEPT !.left = c]) =
                 IF c.priority > t.priority
                 THEN Join(c.key, c.value, c.priority, c.left,
                           Join(t.key, t.value, t.priority, c.right, t.right))
                 ELSE Join(t.key, t.value, t.priority, c, t.right)
           /\ LiftRight([t EXCEPT !.right = c]) =
                 IF c.priority > t.priority
                 THEN Join(c.key, c.value, c.priority,
                           Join(t.key, t.value, t.priority, t.left, c.left), c.right)
                 ELSE Join(t.key, t.value, t.priority, t.left, c)
<1> DEFINE a == Join(t.key, t.value, t.priority, c, t.right)
           b == Join(t.key, t.value, t.priority, t.left, c)
<1>1. a \in AnyNode /\ b \in AnyNode
  BY NodeFields, JoinIsNode, AnyTreeIsNode
<1>2. [t EXCEPT !.left = c] = a /\ [t EXCEPT !.right = c] = b
  BY EditedNode
<1>3. /\ a.key = t.key /\ a.value = t.value /\ a.priority = t.priority /\ a.left = c /\ a.right = t.right
      /\ b.key = t.key /\ b.value = t.value /\ b.priority = t.priority /\ b.left = t.left /\ b.right = c
  BY JoinFields
<1> HIDE DEF a, b
<1>4. LiftLeft(a) = IF c.priority > t.priority
                    THEN Join(c.key, c.value, c.priority, c.left,
                              Join(t.key, t.value, t.priority, c.right, t.right))
                    ELSE a
  BY <1>1, <1>3, Rotated DEF LiftLeft
<1>5. LiftRight(b) = IF c.priority > t.priority
                     THEN Join(c.key, c.value, c.priority,
                               Join(t.key, t.value, t.priority, t.left, c.left), c.right)
                     ELSE b
  BY <1>1, <1>3, Rotated DEF LiftRight
<1> QED BY <1>2, <1>4, <1>5 DEF a, b

-----------------------------------------------------------------------------
\* Search trees.
OrderedTrees == {t \in Trees : SearchOrdered(t)}

\* Their keys differ, so that there are as many as there are nodes ...
LEMMA OrderedSize == \A t \in OrderedTrees : Size(t) = Cardinality(KeysOf(t))
<1> DEFINE S == {t \in Trees : SearchOrdered(t) => Size(t) = Cardinality(KeysOf(t))}
<1>1. NULL \in S
  BY NullIsTree, SizeRecurses, KeysRecurse, FS_EmptySet
<1>2. ASSUME NEW t \in Trees \ {NULL}, t.left \in S, t.right \in S PROVE t \in S
  <2> SUFFICES ASSUME SearchOrdered(t) PROVE Size(t) = Cardinality(KeysOf(t))
    OBVIOUS
  <2> DEFINE L == KeysOf(t.left)  R == KeysOf(t.right)
  <2>1. t.left \in Trees /\ t.right \in Trees /\ t.key \in Nat /\ L \subseteq Nat /\ R \subseteq Nat
    BY NodeOfTree, KeysAreBound, KeysAssumption
  <2>2. /\ \A k \in L : k > t.key
        /\ \A k \in R : k < t.key
        /\ SearchOrdered(t.left) /\ SearchOrdered(t.right)
    BY OrderRecurses
  <2>3. IsFiniteSet(L) /\ IsFiniteSet(R) /\ KeysOf(t) = {t.key} \cup L \cup R
    BY <2>1, KeysAreBound, KeysRecurse
  <2>4. Size(t.left) = Cardinality(L) /\ Size(t.right) = Cardinality(R)
    BY <1>2, <2>2
  <2> HIDE DEF L, R
  <2>5. L \cap R = {} /\ t.key \notin L \cup R
    BY <2>1, <2>2
  <2>6. Cardinality(L \cup R) = Cardinality(L) + Cardinality(R) /\ IsFiniteSet(L \cup R)
    <3>1. Cardinality(L \cap R) = 0
      BY <2>5, FS_EmptySet
    <3>2. Cardinality(L) \in Nat /\ Cardinality(R) \in Nat
      BY <2>3, FS_CardinalityType
    <3> QED BY <2>3, <3>1, <3>2, FS_Union
  <2>7. Cardinality((L \cup R) \cup {t.key}) = Cardinality(L \cup R) + 1
    BY <2>5, <2>6, FS_AddElement
  <2>8. KeysOf(t) = (L \cup R) \cup {t.key}
    BY <2>3
  <2>9. Size(t) = 1 + Size(t.left) + Size(t.right) /\ Size(t.left) \in Nat /\ Size(t.right) \in Nat
    BY <2>1, SizeRecurses, SizeIsNat
  <2> QED BY <2>4, <2>6, <2>7, <2>8, <2>9
<1>3. Trees \subseteq S
  <2> HIDE DEF S
  <2> QED BY <1>1, <1>2, TreeInduction
<1> QED BY <1>3 DEF OrderedTrees

\* ... and a search tree is no higher than that.
LEMMA OrderedHeight == \A t \in OrderedTrees : t \in TreesUpTo(Cardinality(KeysOf(t)))
<1> DEFINE S == {t \in Trees : SearchOrdered(t) => t \in TreesUpTo(Cardinality(KeysOf(t)))}
<1>1. NULL \in S
  <2>1. Cardinality(KeysOf(NULL)) = 0
    BY KeysRecurse, FS_EmptySet
  <2> QED BY <2>1, NullIsTree
<1>2. ASSUME NEW t \in Trees \ {NULL}, t.left \in S, t.right \in S PROVE t \in S
  <2> SUFFICES ASSUME SearchOrdered(t) PROVE t \in TreesUpTo(Cardinality(KeysOf(t)))
    OBVIOUS
  <2> DEFINE K == KeysOf(t) \ {t.key}  n == Cardinality(K)
  <2>1. t.left \in Trees /\ t.right \in Trees /\ t.key \in Nat
    BY NodeOfTree, KeysAssumption
  <2>2. /\ \A k \in KeysOf(t.left) : k > t.key
        /\ \A k \in KeysOf(t.right) : k < t.key
        /\ SearchOrdered(t.left) /\ SearchOrdered(t.right)
    BY OrderRecurses
  <2>3. KeysOf(t.left) \subseteq K /\ KeysOf(t.right) \subseteq K
    BY <2>1, <2>2, KeysRecurse
  <2>4. IsFiniteSet(KeysOf(t)) /\ t.key \in KeysOf(t)
    BY KeysAreBound, KeysRecurse
  <2>5. n \in Nat /\ IsFiniteSet(K) /\ Cardinality(KeysOf(t)) = n + 1
    BY <2>4, FS_RemoveElement, FS_CardinalityType
  <2> HIDE DEF K, n
  <2>6. /\ Cardinality(KeysOf(t.left)) <= n /\ Cardinality(KeysOf(t.right)) <= n
        /\ Cardinality(KeysOf(t.left)) \in Nat /\ Cardinality(KeysOf(t.right)) \in Nat
    BY <2>3, <2>5, FS_Subset, FS_CardinalityType DEF n
  <2>7. t.left \in TreesUpTo(n) /\ t.right \in TreesUpTo(n)
    BY <1>2, <2>2, <2>5, <2>6, LevelsOrdered
  <2>8. t \in NodesOver(TreesUpTo(n))
    BY <2>7, NodeOfTree DEF NodesOver, Join
  <2> QED BY <2>5, <2>8, LevelsRecurse
<1>3. Trees \subseteq S
  <2> HIDE DEF S
  <2> QED BY <1>1, <1>2, TreeInduction
<1> QED BY <1>3 DEF OrderedTrees

\* The tree is empty, or its root is of that priority at most.
Below(t, p) == t # NULL => t.priority <= p

\* The parts of a search tree, and a node above two search trees.
LEMMA OrderedNode ==
    ASSUME NEW t \in OrderedTrees, t # NULL
    PROVE  /\ t \in AnyNode /\ t \in Trees /\ t.left \in OrderedTrees /\ t.right \in OrderedTrees
           /\ t = Join(t.key, t.value, t.priority, t.left, t.right)
           /\ t.key \in Keys /\ t.value \in Values \cup {NULL} /\ t.priority \in Nat
           /\ \A x \in KeysOf(t.left) : x > t.key
           /\ \A x \in KeysOf(t.right) : x < t.key
           /\ Keys \subseteq Nat
BY NodeOfTree, OrderRecurses, AnyTreeIsNode, KeysAssumption DEF OrderedTrees

\* The empty tree is a search tree and a heap.
LEMMA NullIsOrdered == NULL \in OrderedTrees /\ KeysOf(NULL) = {} /\ Bindings(NULL) = {} /\ HeapOrdered(NULL)
BY NullIsTree, OrderRecurses, KeysRecurse DEF OrderedTrees

\* The conditions for a search tree above two others, and what that tree is.
CanJoin(k, v, p, l, r) ==
    /\ k \in Keys /\ v \in Values \cup {NULL} /\ p \in Nat /\ l \in OrderedTrees /\ r \in OrderedTrees
    /\ \A x \in KeysOf(l) : x > k
    /\ \A x \in KeysOf(r) : x < k

Joined(t, k, v, p, l, r) ==
    /\ t \in OrderedTrees /\ t # NULL
    /\ t.key = k /\ t.value = v /\ t.priority = p /\ t.left = l /\ t.right = r
    /\ KeysOf(t) = {k} \cup KeysOf(l) \cup KeysOf(r)
    /\ Bindings(t) = {<<k, v>>} \cup Bindings(l) \cup Bindings(r)
    /\ Size(t) = 1 + Size(l) + Size(r)
    /\ HeapOrdered(t) <=> Below(l, p) /\ Below(r, p) /\ HeapOrdered(l) /\ HeapOrdered(r)

\* A node can be put above two search trees with its key between theirs.
LEMMA OrderedJoin ==
    ASSUME NEW k, NEW v, NEW p, NEW l, NEW r, CanJoin(k, v, p, l, r)
    PROVE  Joined(Join(k, v, p, l, r), k, v, p, l, r)
<1> DEFINE t == Join(k, v, p, l, r)
<1> HIDE DEF t
<1>0. /\ k \in Keys /\ v \in Values \cup {NULL} /\ p \in Nat /\ l \in OrderedTrees /\ r \in OrderedTrees
      /\ \A x \in KeysOf(l) : x > k
      /\ \A x \in KeysOf(r) : x < k
  BY DEF CanJoin
<1>1. t.key = k /\ t.value = v /\ t.priority = p /\ t.left = l /\ t.right = r
  BY JoinFields DEF t
<1>2. l \in Trees /\ r \in Trees /\ SearchOrdered(l) /\ SearchOrdered(r) /\ k \in Nat /\ Keys \subseteq Nat
  BY <1>0, KeysAssumption DEF OrderedTrees
<1>3. KeysOf(l) \subseteq Keys \ {k} /\ KeysOf(r) \subseteq Keys \ {k}
  <2>1. KeysOf(l) \subseteq Keys /\ KeysOf(r) \subseteq Keys
    BY <1>2, KeysAreBound
  <2> QED BY <1>0, <1>2, <2>1
<1> DEFINE n == Cardinality(Keys \ {k})
<1>4. n \in Nat /\ Height = n + 1 /\ IsFiniteSet(Keys \ {k})
  <2>1. IsFiniteSet(Keys) /\ IsFiniteSet(Keys \ {k}) /\ Cardinality(Keys \ {k}) = Cardinality(Keys) - 1
    BY <1>0, TreesAssumption, FS_RemoveElement
  <2> QED BY <2>1, FS_CardinalityType DEF Height
<1> HIDE DEF n
<1>5. /\ Cardinality(KeysOf(l)) <= n /\ Cardinality(KeysOf(r)) <= n
      /\ Cardinality(KeysOf(l)) \in Nat /\ Cardinality(KeysOf(r)) \in Nat
  BY <1>3, <1>4, FS_Subset, FS_CardinalityType DEF n
<1>6. l \in TreesUpTo(n) /\ r \in TreesUpTo(n)
  BY <1>0, <1>4, <1>5, OrderedHeight, LevelsOrdered
<1>7. t \in NodesOver(TreesUpTo(n))
  BY <1>0, <1>6 DEF NodesOver, Join, t
<1>8. t \in Trees
  BY <1>4, <1>7, LevelsRecurse, HeightIsNat
<1>9. t # NULL
  <2>1. t \in NodesOver(Trees)
    BY <1>0, <1>2 DEF NodesOver, Join, t
  <2> QED BY <2>1, TreesAssumption
<1>10. SearchOrdered(t)
  BY <1>0, <1>1, <1>2, <1>8, <1>9, OrderRecurses
<1>11. Joined(t, k, v, p, l, r)
  BY <1>1, <1>8, <1>9, <1>10, KeysRecurse, SizeRecurses, OrderRecurses DEF OrderedTrees, Below, Joined
<1> QED BY <1>11 DEF t

\* A node of a search tree holds its own key, and the other keys of the tree
\* are on the side they belong to.
LEMMA OrderedNodeHolds ==
    ASSUME NEW t \in OrderedTrees, t # NULL
    PROVE  /\ KeysOf(t) = {t.key} \cup KeysOf(t.left) \cup KeysOf(t.right)
           /\ Bindings(t) = {<<t.key, t.value>>} \cup Bindings(t.left) \cup Bindings(t.right)
           /\ HeapOrdered(t) <=> /\ Below(t.left, t.priority) /\ Below(t.right, t.priority)
                                 /\ HeapOrdered(t.left) /\ HeapOrdered(t.right)
BY KeysRecurse, OrderRecurses DEF OrderedTrees, Below

\* A tree that is bounded by a priority is bounded by a greater one.
LEMMA BelowMore ==
    ASSUME NEW t \in OrderedTrees, NEW p \in Nat, NEW q \in Nat, Below(t, p), p <= q
    PROVE  Below(t, q)
BY OrderedNode DEF Below

-----------------------------------------------------------------------------
\* The insertions: into the treaps with rotations, into the plain tree without;
\* into the maps with the value, into the set as it is.
InsertBody(new, t, f, lifts, keeps) ==
    IF t.key < new.key THEN LET n == [t EXCEPT !.left = f[t.left]] IN IF lifts THEN LiftLeft(n) ELSE n
    ELSE IF t.key > new.key THEN LET n == [t EXCEPT !.right = f[t.right]] IN IF lifts THEN LiftRight(n) ELSE n
    ELSE IF keeps THEN t ELSE [t EXCEPT !.value = new.value]

InsertStep(new, t, f, lifts, keeps) == IF t = NULL THEN new ELSE InsertBody(new, t, f, lifts, keeps)

IsInsertion(f, new, lifts, keeps) == f = [t \in Trees |-> InsertStep(new, t, f, lifts, keeps)]

\* Every such recursion defines a function.
LEMMA InsertionExists ==
    ASSUME NEW new \in AnyNode, NEW lifts \in BOOLEAN, NEW keeps \in BOOLEAN
    PROVE  \E f : IsInsertion(f, new, lifts, keeps)
<1> DEFINE V == AnyNode
           Step(f, t) == InsertStep(new, t, f, lifts, keeps)
           step == [p \in Trees \X [Trees -> V] |-> Step(p[2], p[1])]
<1>1. ASSUME NEW t \in Trees, NEW f \in [Trees -> V] PROVE Step(f, t) \in V
  <2>1. CASE t = NULL
    BY <2>1 DEF InsertStep
  <2>2. CASE t # NULL
    <3>1. t \in AnyNode /\ t.left \in Trees /\ t.right \in Trees
      BY <2>2, ChildrenSmaller, AnyTreeIsNode
    <3>2. f[t.left] \in AnyNode /\ f[t.right] \in AnyNode
      BY <3>1
    <3>3. \A c \in AnyNode : /\ [t EXCEPT !.left = c] \in AnyNode
                             /\ [t EXCEPT !.right = c] \in AnyNode
                             /\ LiftLeft([t EXCEPT !.left = c]) \in AnyNode
                             /\ LiftRight([t EXCEPT !.right = c]) \in AnyNode
      <4> TAKE c \in AnyNode
      <4>1. /\ t.key \in Keys /\ t.value \in Values \cup {NULL} /\ t.priority \in Nat
            /\ t.left \in AnyTree /\ t.right \in AnyTree
            /\ c.key \in Keys /\ c.value \in Values \cup {NULL} /\ c.priority \in Nat
            /\ c.left \in AnyTree /\ c.right \in AnyTree
            /\ c \in AnyTree
        BY <3>1, NodeFields, AnyTreeIsNode
      <4>2. /\ Join(t.key, t.value, t.priority, c.right, t.right) \in AnyNode
            /\ Join(t.key, t.value, t.priority, t.left, c.left) \in AnyNode
            /\ Join(t.key, t.value, t.priority, c, t.right) \in AnyNode
            /\ Join(t.key, t.value, t.priority, t.left, c) \in AnyNode
        BY <4>1, JoinIsNode
      <4>3. AnyNode \subseteq AnyTree
        BY AnyTreeIsNode
      <4>4. /\ Join(c.key, c.value, c.priority, c.left, Join(t.key, t.value, t.priority, c.right, t.right)) \in AnyNode
            /\ Join(c.key, c.value, c.priority, Join(t.key, t.value, t.priority, t.left, c.left), c.right) \in AnyNode
        BY <4>1, <4>2, <4>3, JoinIsNode
      <4>5. [t EXCEPT !.left = c] \in AnyNode /\ [t EXCEPT !.right = c] \in AnyNode
        BY <3>1, <4>2, EditedNode
      <4>6. LiftLeft([t EXCEPT !.left = c]) \in AnyNode /\ LiftRight([t EXCEPT !.right = c]) \in AnyNode
        BY <3>1, <4>2, <4>4, Lifted
      <4> QED BY <4>5, <4>6
    <3>4. [t EXCEPT !.value = new.value] \in AnyNode
      <4>1. /\ t.key \in Keys /\ t.priority \in Nat /\ t.left \in AnyTree /\ t.right \in AnyTree
            /\ new.value \in Values \cup {NULL}
        BY <3>1, NodeFields
      <4>2. Join(t.key, new.value, t.priority, t.left, t.right) \in AnyNode
        BY <4>1, JoinIsNode
      <4> QED BY <3>1, <4>2, EditedNode
    <3>5. InsertBody(new, t, f, lifts, keeps) \in AnyNode
      <4> DEFINE a == f[t.left]  b == f[t.right]
      <4>1. /\ [t EXCEPT !.left = a] \in AnyNode /\ LiftLeft([t EXCEPT !.left = a]) \in AnyNode
            /\ [t EXCEPT !.right = b] \in AnyNode /\ LiftRight([t EXCEPT !.right = b]) \in AnyNode
        BY <3>2, <3>3
      <4>2. CASE lifts
        BY <3>1, <3>4, <4>1, <4>2 DEF InsertBody
      <4>3. CASE ~ lifts
        BY <3>1, <3>4, <4>1, <4>3 DEF InsertBody
      <4> QED BY <4>2, <4>3
    <3> QED BY <2>2, <3>5 DEF InsertStep
  <2> QED BY <2>1, <2>2
<1>2. \A t \in Trees, f, g \in [Trees -> V] :
         (\A u \in Trees : Size(u) < Size(t) => f[u] = g[u]) => Step(f, t) = Step(g, t)
  BY ChildrenSmaller DEF InsertStep, InsertBody
<1>3. V # {}
  OBVIOUS
<1> HIDE DEF V, Step
<1>4. PICK f \in [Trees -> V] : \A t \in Trees : f[t] = step[<<t, f>>]
  <2>1. step \in [Trees \X [Trees -> V] -> V]
    BY <1>1
  <2>2. \A t \in Trees, h \in [Trees -> V] : step[<<t, h>>] = Step(h, t)
    OBVIOUS
  <2> HIDE DEF step
  <2>3. Recursive(step, V)
    BY <1>2, <1>3, <2>1, <2>2 DEF Recursive
  <2> QED BY <2>3, TreeRecursion
<1>5. f = [t \in Trees |-> Step(f, t)]
  BY <1>4
<1> QED BY <1>5, Zenon DEF IsInsertion, Step

\* A new node in the place of a tree that may have bound its key.
Inserted(r, t, new, keeps) ==
    /\ r \in OrderedTrees /\ r # NULL
    /\ KeysOf(r) = {new.key} \cup KeysOf(t)
    /\ ~ keeps => Bindings(r) = {<<new.key, new.value>>} \cup {b \in Bindings(t) : b[1] # new.key}

\* The heap is kept: the result outranks the old tree only by the new node.
HeapGrown(r, t) ==
    HeapOrdered(t) =>
        /\ HeapOrdered(r)
        /\ \A p \in Nat : Below(t, p) => Below(r, p) \/ (Below(r.left, p) /\ Below(r.right, p))

\* A child that has been inserted into, with or without its rotation up.
LEMMA InsertedLeft ==
    ASSUME NEW t \in OrderedTrees, t # NULL, NEW new \in AnyNode, NEW keeps \in BOOLEAN, t.key < new.key,
           NEW c, Inserted(c, t.left, new, keeps), NEW lifts \in BOOLEAN,
           NEW r, r = (IF lifts THEN LiftLeft([t EXCEPT !.left = c]) ELSE [t EXCEPT !.left = c])
    PROVE  /\ Inserted(r, t, new, keeps)
           /\ lifts /\ HeapGrown(c, t.left) => HeapGrown(r, t)
           /\ ~ lifts /\ HeapOrdered(c) /\ Below(c, t.priority) /\ HeapOrdered(t)
                 => HeapOrdered(r) /\ r.priority = t.priority
<1>1. new.key \in Nat /\ new.key \in Keys
  BY NodeFields, KeysAssumption
<1>2. /\ c \in OrderedTrees /\ c # NULL
      /\ c \in AnyNode /\ c \in Trees /\ c.left \in OrderedTrees /\ c.right \in OrderedTrees
      /\ c.key \in Keys /\ c.value \in Values \cup {NULL} /\ c.priority \in Nat
      /\ \A x \in KeysOf(c.left) : x > c.key
      /\ \A x \in KeysOf(c.right) : x < c.key
      /\ KeysOf(c) = {c.key} \cup KeysOf(c.left) \cup KeysOf(c.right)
      /\ Bindings(c) = {<<c.key, c.value>>} \cup Bindings(c.left) \cup Bindings(c.right)
  BY OrderedNode, OrderedNodeHolds DEF Inserted
<1>3. /\ t \in AnyNode /\ t \in Trees /\ t.left \in OrderedTrees /\ t.right \in OrderedTrees
      /\ t.key \in Keys /\ t.value \in Values \cup {NULL} /\ t.priority \in Nat
      /\ \A x \in KeysOf(t.left) : x > t.key
      /\ \A x \in KeysOf(t.right) : x < t.key
      /\ KeysOf(t) = {t.key} \cup KeysOf(t.left) \cup KeysOf(t.right)
      /\ Bindings(t) = {<<t.key, t.value>>} \cup Bindings(t.left) \cup Bindings(t.right)
      /\ Keys \subseteq Nat
  BY OrderedNode, OrderedNodeHolds
<1>4. KeysOf(c) = {new.key} \cup KeysOf(t.left)
  BY DEF Inserted
<1>5. \A x \in KeysOf(c) : x > t.key
  BY <1>1, <1>3, <1>4
<1>6. KeysOf(c) \subseteq Nat /\ KeysOf(t.right) \subseteq Nat /\ \A b \in Bindings(t.right) : b[1] \in KeysOf(t.right)
  <2>1. /\ KeysOf(c) \subseteq Keys /\ KeysOf(t.right) \subseteq Keys
        /\ \A k, v : <<k, v>> \in Bindings(t.right) => k \in KeysOf(t.right)
        /\ Bindings(t.right) \subseteq Keys \X (Values \cup {NULL})
    BY <1>2, <1>3, KeysAreBound DEF OrderedTrees
  <2>2. ASSUME NEW b \in Bindings(t.right) PROVE b[1] \in KeysOf(t.right)
    <3>1. b = <<b[1], b[2]>>
      BY <2>1
    <3> QED BY <2>1, <3>1
  <2> QED BY <1>3, <2>1, <2>2
<1> DEFINE plain == Join(t.key, t.value, t.priority, c, t.right)
           inner == Join(t.key, t.value, t.priority, c.right, t.right)
           lifted == Join(c.key, c.value, c.priority, c.left, inner)
           flat == {<<t.key, t.value>>} \cup Bindings(c) \cup Bindings(t.right)
<1>7. Joined(plain, t.key, t.value, t.priority, c, t.right)
  BY <1>2, <1>3, <1>5, OrderedJoin DEF CanJoin
<1>8. Joined(inner, t.key, t.value, t.priority, c.right, t.right)
  BY <1>2, <1>3, <1>5, OrderedJoin DEF CanJoin
<1>9. \A x \in KeysOf(inner) : x < c.key
  <2>1. c.key \in Nat /\ t.key \in Nat /\ t.key < c.key
    BY <1>2, <1>3, <1>5
  <2>2. \A x \in KeysOf(t.right) : x < t.key /\ x \in Nat
    BY <1>3, <1>6
  <2>3. \A x \in KeysOf(t.right) : x < c.key
    BY <2>1, <2>2
  <2>4. KeysOf(inner) = {t.key} \cup KeysOf(c.right) \cup KeysOf(t.right)
    BY <1>8 DEF Joined
  <2> QED BY <1>2, <2>1, <2>3, <2>4
<1>10. Joined(lifted, c.key, c.value, c.priority, c.left, inner)
  <2>1. inner \in OrderedTrees
    BY <1>8 DEF Joined
  <2> HIDE DEF inner
  <2> QED BY <1>2, <1>9, <2>1, OrderedJoin DEF CanJoin
<1>11. r = IF lifts /\ c.priority > t.priority THEN lifted ELSE plain
  <2>1. CASE lifts
    BY <1>2, <1>3, <2>1, Lifted
  <2>2. CASE ~ lifts
    BY <1>3, <2>2, EditedNode
  <2> QED BY <2>1, <2>2
<1> HIDE DEF plain, inner, lifted
<1>12. KeysOf(lifted) = KeysOf(plain) /\ Bindings(lifted) = flat
  BY <1>2, <1>7, <1>8, <1>10 DEF Joined
<1>13. r \in OrderedTrees /\ r # NULL /\ KeysOf(r) = {new.key} \cup KeysOf(t) /\ Bindings(r) = flat
  BY <1>3, <1>4, <1>7, <1>10, <1>11, <1>12 DEF Joined
<1>14. ASSUME ~ keeps
       PROVE  flat = {<<new.key, new.value>>} \cup {b \in Bindings(t) : b[1] # new.key}
  <2>1. Bindings(c) = {<<new.key, new.value>>} \cup {b \in Bindings(t.left) : b[1] # new.key}
    BY <1>14 DEF Inserted
  <2>2. t.key # new.key /\ t.key \in Nat
    BY <1>1, <1>3
  <2>3. \A b \in Bindings(t.right) : b[1] # new.key
    <3>1. \A x \in KeysOf(t.right) : x < new.key
      BY <1>1, <1>3, <1>6, <2>2
    <3> QED BY <1>1, <1>6, <3>1
  <2>4. \A b : b = <<t.key, t.value>> => b[1] # new.key
    BY <2>2
  <2> QED BY <1>3, <2>1, <2>3, <2>4
<1>15. Inserted(r, t, new, keeps)
  BY <1>13, <1>14 DEF Inserted
<1>16. ASSUME lifts, HeapGrown(c, t.left), HeapOrdered(t)
       PROVE  /\ HeapOrdered(r)
              /\ \A p \in Nat : Below(t, p) => Below(r, p) \/ (Below(r.left, p) /\ Below(r.right, p))
  <2>1. /\ Below(t.left, t.priority) /\ Below(t.right, t.priority)
        /\ HeapOrdered(t.left) /\ HeapOrdered(t.right)
    BY <1>16, OrderedNodeHolds
  <2>2. /\ HeapOrdered(c)
        /\ Below(c, t.priority) \/ (Below(c.left, t.priority) /\ Below(c.right, t.priority))
    BY <1>3, <1>16, <2>1 DEF HeapGrown
  <2>3. CASE c.priority > t.priority
    <3>1. r = lifted
      BY <1>11, <1>16, <2>3
    <3>2. Below(c.left, t.priority) /\ Below(c.right, t.priority)
      BY <1>2, <1>3, <2>2, <2>3 DEF Below
    <3>3. Below(c.left, c.priority) /\ HeapOrdered(c.left) /\ HeapOrdered(c.right)
      BY <1>2, <2>2, OrderedNodeHolds
    <3>4. HeapOrdered(inner) /\ Below(inner, c.priority)
      BY <1>2, <1>3, <1>8, <2>1, <2>3, <3>2, <3>3 DEF Below, Joined
    <3>5. HeapOrdered(r)
      BY <1>10, <3>1, <3>3, <3>4 DEF Joined
    <3>6. ASSUME NEW p \in Nat, Below(t, p) PROVE Below(r.left, p) /\ Below(r.right, p)
      <4>1. t.priority <= p
        BY <3>6 DEF Below
      <4>2. Below(c.left, p)
        BY <1>2, <1>3, <3>2, <4>1, BelowMore
      <4>3. Below(inner, p)
        BY <1>8, <4>1 DEF Below, Joined
      <4> QED BY <1>10, <3>1, <4>2, <4>3 DEF Joined
    <3> QED BY <3>5, <3>6
  <2>4. CASE ~ (c.priority > t.priority)
    <3>1. r = plain
      BY <1>11, <2>4
    <3>2. Below(c, t.priority)
      BY <1>2, <1>3, <2>4 DEF Below
    <3>3. HeapOrdered(r)
      BY <1>7, <2>1, <2>2, <3>1, <3>2 DEF Joined
    <3>4. \A p \in Nat : Below(t, p) => Below(r, p)
      BY <1>7, <3>1 DEF Below, Joined
    <3> QED BY <3>3, <3>4
  <2> QED BY <2>3, <2>4
<1>17. ASSUME ~ lifts, HeapOrdered(c), Below(c, t.priority), HeapOrdered(t)
       PROVE  HeapOrdered(r) /\ r.priority = t.priority
  <2>1. Below(t.right, t.priority) /\ HeapOrdered(t.right)
    BY <1>17, OrderedNodeHolds
  <2> QED BY <1>7, <1>11, <1>17, <2>1 DEF Joined
<1> QED BY <1>15, <1>16, <1>17 DEF HeapGrown

\* The same on the right.
LEMMA InsertedRight ==
    ASSUME NEW t \in OrderedTrees, t # NULL, NEW new \in AnyNode, NEW keeps \in BOOLEAN, t.key > new.key,
           NEW c, Inserted(c, t.right, new, keeps), NEW lifts \in BOOLEAN,
           NEW r, r = (IF lifts THEN LiftRight([t EXCEPT !.right = c]) ELSE [t EXCEPT !.right = c])
    PROVE  /\ Inserted(r, t, new, keeps)
           /\ lifts /\ HeapGrown(c, t.right) => HeapGrown(r, t)
           /\ ~ lifts /\ HeapOrdered(c) /\ Below(c, t.priority) /\ HeapOrdered(t)
                 => HeapOrdered(r) /\ r.priority = t.priority
<1>1. new.key \in Nat /\ new.key \in Keys
  BY NodeFields, KeysAssumption
<1>2. /\ c \in OrderedTrees /\ c # NULL
      /\ c \in AnyNode /\ c \in Trees /\ c.left \in OrderedTrees /\ c.right \in OrderedTrees
      /\ c.key \in Keys /\ c.value \in Values \cup {NULL} /\ c.priority \in Nat
      /\ \A x \in KeysOf(c.left) : x > c.key
      /\ \A x \in KeysOf(c.right) : x < c.key
      /\ KeysOf(c) = {c.key} \cup KeysOf(c.left) \cup KeysOf(c.right)
      /\ Bindings(c) = {<<c.key, c.value>>} \cup Bindings(c.left) \cup Bindings(c.right)
  BY OrderedNode, OrderedNodeHolds DEF Inserted
<1>3. /\ t \in AnyNode /\ t \in Trees /\ t.left \in OrderedTrees /\ t.right \in OrderedTrees
      /\ t.key \in Keys /\ t.value \in Values \cup {NULL} /\ t.priority \in Nat
      /\ \A x \in KeysOf(t.left) : x > t.key
      /\ \A x \in KeysOf(t.right) : x < t.key
      /\ KeysOf(t) = {t.key} \cup KeysOf(t.left) \cup KeysOf(t.right)
      /\ Bindings(t) = {<<t.key, t.value>>} \cup Bindings(t.left) \cup Bindings(t.right)
      /\ Keys \subseteq Nat
  BY OrderedNode, OrderedNodeHolds
<1>4. KeysOf(c) = {new.key} \cup KeysOf(t.right)
  BY DEF Inserted
<1>5. \A x \in KeysOf(c) : x < t.key
  BY <1>1, <1>3, <1>4
<1>6. KeysOf(c) \subseteq Nat /\ KeysOf(t.left) \subseteq Nat /\ \A b \in Bindings(t.left) : b[1] \in KeysOf(t.left)
  <2>1. /\ KeysOf(c) \subseteq Keys /\ KeysOf(t.left) \subseteq Keys
        /\ \A k, v : <<k, v>> \in Bindings(t.left) => k \in KeysOf(t.left)
        /\ Bindings(t.left) \subseteq Keys \X (Values \cup {NULL})
    BY <1>2, <1>3, KeysAreBound DEF OrderedTrees
  <2>2. ASSUME NEW b \in Bindings(t.left) PROVE b[1] \in KeysOf(t.left)
    <3>1. b = <<b[1], b[2]>>
      BY <2>1
    <3> QED BY <2>1, <3>1
  <2> QED BY <1>3, <2>1, <2>2
<1> DEFINE plain == Join(t.key, t.value, t.priority, t.left, c)
           inner == Join(t.key, t.value, t.priority, t.left, c.left)
           lifted == Join(c.key, c.value, c.priority, inner, c.right)
           flat == {<<t.key, t.value>>} \cup Bindings(c) \cup Bindings(t.left)
<1>7. Joined(plain, t.key, t.value, t.priority, t.left, c)
  BY <1>2, <1>3, <1>5, OrderedJoin DEF CanJoin
<1>8. Joined(inner, t.key, t.value, t.priority, t.left, c.left)
  BY <1>2, <1>3, <1>5, OrderedJoin DEF CanJoin
<1>9. \A x \in KeysOf(inner) : x > c.key
  <2>1. c.key \in Nat /\ t.key \in Nat /\ t.key > c.key
    BY <1>2, <1>3, <1>5
  <2>2. \A x \in KeysOf(t.left) : x > t.key /\ x \in Nat
    BY <1>3, <1>6
  <2>3. \A x \in KeysOf(t.left) : x > c.key
    BY <2>1, <2>2
  <2>4. KeysOf(inner) = {t.key} \cup KeysOf(c.left) \cup KeysOf(t.left)
    BY <1>8 DEF Joined
  <2> QED BY <1>2, <2>1, <2>3, <2>4
<1>10. Joined(lifted, c.key, c.value, c.priority, inner, c.right)
  <2>1. inner \in OrderedTrees
    BY <1>8 DEF Joined
  <2> HIDE DEF inner
  <2> QED BY <1>2, <1>9, <2>1, OrderedJoin DEF CanJoin
<1>11. r = IF lifts /\ c.priority > t.priority THEN lifted ELSE plain
  <2>1. CASE lifts
    BY <1>2, <1>3, <2>1, Lifted
  <2>2. CASE ~ lifts
    BY <1>3, <2>2, EditedNode
  <2> QED BY <2>1, <2>2
<1> HIDE DEF plain, inner, lifted
<1>12. KeysOf(lifted) = KeysOf(plain) /\ Bindings(lifted) = flat
  BY <1>2, <1>7, <1>8, <1>10 DEF Joined
<1>13. r \in OrderedTrees /\ r # NULL /\ KeysOf(r) = {new.key} \cup KeysOf(t) /\ Bindings(r) = flat
  BY <1>3, <1>4, <1>7, <1>10, <1>11, <1>12 DEF Joined
<1>14. ASSUME ~ keeps
       PROVE  flat = {<<new.key, new.value>>} \cup {b \in Bindings(t) : b[1] # new.key}
  <2>1. Bindings(c) = {<<new.key, new.value>>} \cup {b \in Bindings(t.right) : b[1] # new.key}
    BY <1>14 DEF Inserted
  <2>2. t.key # new.key /\ t.key \in Nat
    BY <1>1, <1>3
  <2>3. \A b \in Bindings(t.left) : b[1] # new.key
    <3>1. \A x \in KeysOf(t.left) : x > new.key
      BY <1>1, <1>3, <1>6, <2>2
    <3> QED BY <1>1, <1>6, <3>1
  <2>4. \A b : b = <<t.key, t.value>> => b[1] # new.key
    BY <2>2
  <2> QED BY <1>3, <2>1, <2>3, <2>4
<1>15. Inserted(r, t, new, keeps)
  BY <1>13, <1>14 DEF Inserted
<1>16. ASSUME lifts, HeapGrown(c, t.right), HeapOrdered(t)
       PROVE  /\ HeapOrdered(r)
              /\ \A p \in Nat : Below(t, p) => Below(r, p) \/ (Below(r.right, p) /\ Below(r.left, p))
  <2>1. /\ Below(t.right, t.priority) /\ Below(t.left, t.priority)
        /\ HeapOrdered(t.right) /\ HeapOrdered(t.left)
    BY <1>16, OrderedNodeHolds
  <2>2. /\ HeapOrdered(c)
        /\ Below(c, t.priority) \/ (Below(c.right, t.priority) /\ Below(c.left, t.priority))
    BY <1>3, <1>16, <2>1 DEF HeapGrown
  <2>3. CASE c.priority > t.priority
    <3>1. r = lifted
      BY <1>11, <1>16, <2>3
    <3>2. Below(c.right, t.priority) /\ Below(c.left, t.priority)
      BY <1>2, <1>3, <2>2, <2>3 DEF Below
    <3>3. Below(c.right, c.priority) /\ HeapOrdered(c.right) /\ HeapOrdered(c.left)
      BY <1>2, <2>2, OrderedNodeHolds
    <3>4. HeapOrdered(inner) /\ Below(inner, c.priority)
      BY <1>2, <1>3, <1>8, <2>1, <2>3, <3>2, <3>3 DEF Below, Joined
    <3>5. HeapOrdered(r)
      BY <1>10, <3>1, <3>3, <3>4 DEF Joined
    <3>6. ASSUME NEW p \in Nat, Below(t, p) PROVE Below(r.right, p) /\ Below(r.left, p)
      <4>1. t.priority <= p
        BY <3>6 DEF Below
      <4>2. Below(c.right, p)
        BY <1>2, <1>3, <3>2, <4>1, BelowMore
      <4>3. Below(inner, p)
        BY <1>8, <4>1 DEF Below, Joined
      <4> QED BY <1>10, <3>1, <4>2, <4>3 DEF Joined
    <3> QED BY <3>5, <3>6
  <2>4. CASE ~ (c.priority > t.priority)
    <3>1. r = plain
      BY <1>11, <2>4
    <3>2. Below(c, t.priority)
      BY <1>2, <1>3, <2>4 DEF Below
    <3>3. HeapOrdered(r)
      BY <1>7, <2>1, <2>2, <3>1, <3>2 DEF Joined
    <3>4. \A p \in Nat : Below(t, p) => Below(r, p)
      BY <1>7, <3>1 DEF Below, Joined
    <3> QED BY <3>3, <3>4
  <2> QED BY <2>3, <2>4
<1>17. ASSUME ~ lifts, HeapOrdered(c), Below(c, t.priority), HeapOrdered(t)
       PROVE  HeapOrdered(r) /\ r.priority = t.priority
  <2>1. Below(t.left, t.priority) /\ HeapOrdered(t.left)
    BY <1>17, OrderedNodeHolds
  <2> QED BY <1>7, <1>11, <1>17, <2>1 DEF Joined
<1> QED BY <1>15, <1>16, <1>17 DEF HeapGrown

\* What every insertion does, to all search trees.
LEMMA InsertionInserts ==
    ASSUME NEW new \in AnyNode, new = Join(new.key, new.value, new.priority, NULL, NULL),
           NEW lifts \in BOOLEAN, NEW keeps \in BOOLEAN, NEW f, IsInsertion(f, new, lifts, keeps),
           NEW t \in OrderedTrees
    PROVE  /\ Inserted(f[t], t, new, keeps)
           /\ lifts => HeapGrown(f[t], t)
           /\ ~ lifts /\ new.priority = 0 /\ HeapOrdered(t)
                 => HeapOrdered(f[t]) /\ f[t].priority = IF t = NULL THEN 0 ELSE t.priority
<1> DEFINE Flat(r, u) == HeapOrdered(r) /\ r.priority = IF u = NULL THEN 0 ELSE u.priority
           S == {u \in Trees : SearchOrdered(u) =>
                    /\ Inserted(f[u], u, new, keeps)
                    /\ lifts => HeapGrown(f[u], u)
                    /\ ~ lifts /\ new.priority = 0 /\ HeapOrdered(u) => Flat(f[u], u)}
<1>1. /\ f[NULL] = new
      /\ \A u \in Trees \ {NULL} : f[u] = InsertBody(new, u, f, lifts, keeps)
  BY NullIsTree DEF IsInsertion, InsertStep
<1>2. new.key \in Keys /\ new.value \in Values \cup {NULL} /\ new.priority \in Nat
  BY NodeFields
<1>3. NULL \in S
  <2>1. Joined(new, new.key, new.value, new.priority, NULL, NULL)
    BY <1>2, NullIsOrdered, OrderedJoin DEF CanJoin
  <2>2. Inserted(new, NULL, new, keeps)
    BY <2>1, NullIsOrdered DEF Inserted, Joined
  <2>3. HeapGrown(new, NULL) /\ HeapOrdered(new)
    BY <2>1, NullIsOrdered DEF HeapGrown, Joined, Below
  <2> QED BY <1>1, <2>2, <2>3, NullIsTree
<1>4. ASSUME NEW u \in Trees \ {NULL}, u.left \in S, u.right \in S PROVE u \in S
  <2> SUFFICES ASSUME SearchOrdered(u)
               PROVE  /\ Inserted(f[u], u, new, keeps)
                      /\ lifts => HeapGrown(f[u], u)
                      /\ ~ lifts /\ new.priority = 0 /\ HeapOrdered(u) => Flat(f[u], u)
    OBVIOUS
  <2>1. u \in OrderedTrees /\ u # NULL /\ u \in AnyNode
    BY AnyTreeIsNode DEF OrderedTrees
  <2>2. u.left \in OrderedTrees /\ u.right \in OrderedTrees /\ u.key \in Nat /\ u.priority \in Nat /\ new.key \in Nat
    BY <1>2, <2>1, OrderedNode
  <2>3. f[u] = InsertBody(new, u, f, lifts, keeps)
    BY <1>1
  <2>4. HeapOrdered(u) => /\ HeapOrdered(u.left) /\ HeapOrdered(u.right)
                          /\ Below(u.left, u.priority) /\ Below(u.right, u.priority)
    BY <2>1, OrderedNodeHolds
  <2>5. CASE u.key < new.key
    <3> DEFINE c == f[u.left]
    <3>1. Inserted(c, u.left, new, keeps) /\ (lifts => HeapGrown(c, u.left))
      BY <1>4, <2>2 DEF OrderedTrees
    <3>2. ~ lifts /\ new.priority = 0 /\ HeapOrdered(u) => HeapOrdered(c) /\ Below(c, u.priority)
      BY <1>4, <2>2, <2>4 DEF OrderedTrees, Below
    <3>3. f[u] = IF lifts THEN LiftLeft([u EXCEPT !.left = c]) ELSE [u EXCEPT !.left = c]
      BY <2>3, <2>5 DEF InsertBody
    <3> HIDE DEF c
    <3>4. /\ Inserted(f[u], u, new, keeps)
          /\ lifts /\ HeapGrown(c, u.left) => HeapGrown(f[u], u)
          /\ ~ lifts /\ HeapOrdered(c) /\ Below(c, u.priority) /\ HeapOrdered(u)
                => HeapOrdered(f[u]) /\ f[u].priority = u.priority
      BY <2>1, <2>5, <3>1, <3>3, InsertedLeft
    <3> QED BY <3>1, <3>2, <3>4
  <2>6. CASE u.key > new.key
    <3> DEFINE c == f[u.right]
    <3>1. Inserted(c, u.right, new, keeps) /\ (lifts => HeapGrown(c, u.right))
      BY <1>4, <2>2 DEF OrderedTrees
    <3>2. ~ lifts /\ new.priority = 0 /\ HeapOrdered(u) => HeapOrdered(c) /\ Below(c, u.priority)
      BY <1>4, <2>2, <2>4 DEF OrderedTrees, Below
    <3>3. f[u] = IF lifts THEN LiftRight([u EXCEPT !.right = c]) ELSE [u EXCEPT !.right = c]
      BY <2>2, <2>3, <2>6 DEF InsertBody
    <3> HIDE DEF c
    <3>4. /\ Inserted(f[u], u, new, keeps)
          /\ lifts /\ HeapGrown(c, u.right) => HeapGrown(f[u], u)
          /\ ~ lifts /\ HeapOrdered(c) /\ Below(c, u.priority) /\ HeapOrdered(u)
                => HeapOrdered(f[u]) /\ f[u].priority = u.priority
      BY <2>1, <2>6, <3>1, <3>3, InsertedRight
    <3> QED BY <3>1, <3>2, <3>4
  <2>7. CASE u.key = new.key
    <3> DEFINE v == IF keeps THEN u.value ELSE new.value
    <3>1. f[u] = Join(u.key, v, u.priority, u.left, u.right)
      <4>1. f[u] = IF keeps THEN u ELSE [u EXCEPT !.value = new.value]
        BY <2>2, <2>3, <2>7 DEF InsertBody
      <4> QED BY <2>1, <4>1, EditedNode, NodeFields
    <3>2. CanJoin(u.key, v, u.priority, u.left, u.right)
      BY <1>2, <2>1, OrderedNode DEF CanJoin
    <3>3. Joined(f[u], u.key, v, u.priority, u.left, u.right)
      <4> HIDE DEF v
      <4> QED BY <3>1, <3>2, OrderedJoin
    <3>4. /\ KeysOf(u) = {u.key} \cup KeysOf(u.left) \cup KeysOf(u.right)
          /\ Bindings(u) = {<<u.key, u.value>>} \cup Bindings(u.left) \cup Bindings(u.right)
          /\ HeapOrdered(u) <=> /\ Below(u.left, u.priority) /\ Below(u.right, u.priority)
                                /\ HeapOrdered(u.left) /\ HeapOrdered(u.right)
      BY <2>1, OrderedNodeHolds
    <3>5. \A b \in Bindings(u.left) \cup Bindings(u.right) : b[1] # new.key
      <4>1. ASSUME NEW w \in {u.left, u.right}, NEW b \in Bindings(w) PROVE b[1] # new.key
        <5>1. w \in Trees /\ b \in Keys \X (Values \cup {NULL})
          BY <2>2, KeysAreBound DEF OrderedTrees
        <5>2. b = <<b[1], b[2]>>
          BY <5>1
        <5>3. b[1] \in KeysOf(w)
          BY <4>1, <5>1, <5>2, KeysAreBound
        <5>4. /\ \A x \in KeysOf(u.left) : x > u.key
              /\ \A x \in KeysOf(u.right) : x < u.key
          BY <2>1, OrderedNode
        <5>5. b[1] \in Nat
          BY <5>1, KeysAssumption
        <5> QED BY <2>2, <2>7, <5>3, <5>4, <5>5
      <4> QED BY <4>1
    <3>6. ~ keeps => Bindings(f[u]) = {<<new.key, new.value>>} \cup {b \in Bindings(u) : b[1] # new.key}
      BY <2>7, <3>3, <3>4, <3>5 DEF Joined
    <3>7. Inserted(f[u], u, new, keeps)
      BY <2>7, <3>3, <3>4, <3>6 DEF Inserted, Joined
    <3>8. HeapOrdered(u) => HeapOrdered(f[u])
      BY <3>3, <3>4 DEF Joined
    <3>9. f[u].priority = u.priority
      BY <3>3 DEF Joined
    <3>10. \A p \in Nat : Below(u, p) => Below(f[u], p)
      BY <3>9 DEF Below
    <3> QED BY <3>7, <3>8, <3>9, <3>10 DEF HeapGrown
  <2> QED BY <2>2, <2>5, <2>6, <2>7
<1>5. Trees \subseteq S
  <2> HIDE DEF S
  <2> QED BY <1>3, <1>4, TreeInduction
<1> QED BY <1>5 DEF OrderedTrees

\* The erasures of the treaps: of the set, which descends as the search does, and
\* of the map, which descends the other way.
GoesLeft(t, key, asFind) == IF asFind THEN t.key < key ELSE key < t.key

DeleteStep(t, key, f, asFind) ==
    IF t = NULL THEN NULL
    ELSE IF t.key # key
    THEN IF GoesLeft(t, key, asFind) THEN [t EXCEPT !.left = f[t.left]]
                                     ELSE [t EXCEPT !.right = f[t.right]]
    ELSE IF t.left = NULL THEN t.right
    ELSE IF t.right = NULL THEN t.left
    ELSE IF t.left.priority > t.right.priority
    THEN [RotateRight(t) EXCEPT !.right = f[RotateRight(t).right]]
    ELSE [RotateLeft(t) EXCEPT !.left = f[RotateLeft(t).left]]

IsDeletion(f, key, asFind) == f = [t \in Trees |-> DeleteStep(t, key, f, asFind)]

\* What a rotation brings down is a smaller tree.
LEMMA RotatedDown ==
    ASSUME NEW t \in Trees, t # NULL, t.left # NULL, t.right # NULL
    PROVE  /\ RotateRight(t).right = Join(t.key, t.value, t.priority, t.left.right, t.right)
           /\ RotateLeft(t).left = Join(t.key, t.value, t.priority, t.left, t.right.left)
           /\ RotateRight(t).right \in Trees /\ Size(RotateRight(t).right) < Size(t)
           /\ RotateLeft(t).left \in Trees /\ Size(RotateLeft(t).left) < Size(t)
           /\ RotateRight(t) \in AnyNode /\ RotateLeft(t) \in AnyNode
<1> DEFINE a == Join(t.key, t.value, t.priority, t.left.right, t.right)
           b == Join(t.key, t.value, t.priority, t.left, t.right.left)
<1>1. /\ t \in AnyNode /\ t.left \in AnyNode /\ t.right \in AnyNode
      /\ t.left \in Trees /\ t.right \in Trees
      /\ t.left.left \in Trees /\ t.left.right \in Trees
      /\ t.right.left \in Trees /\ t.right.right \in Trees
  BY NodeOfTree, AnyTreeIsNode
<1>2. RotateRight(t).right = a /\ RotateLeft(t).left = b
  BY <1>1, Rotated, JoinFields
<1>3. a \in Trees /\ b \in Trees
  <2>1. Height # 0
    BY HeightIsNat, LevelsRecurse
  <2>2. Height - 1 \in Nat /\ (Height - 1) + 1 = Height
    BY <2>1, HeightIsNat
  <2> DEFINE n == Height - 1
  <2>3. n \in Nat /\ Trees = TreesUpTo(n + 1) /\ TreesUpTo(n) \subseteq Trees
    BY <2>2, HeightIsNat, LevelsGrow
  <2> HIDE DEF n
  <2>4. t.left \in TreesUpTo(n) /\ t.right \in TreesUpTo(n)
    BY <2>3, NodeOfLevel
  <2>5. t.left \in TreesUpTo(n + 1) /\ t.right \in TreesUpTo(n + 1)
    BY <2>3, <2>4
  <2>6. t.left.right \in TreesUpTo(n) /\ t.right.left \in TreesUpTo(n)
    BY <2>3, <2>5, NodeOfLevel
  <2>7. a \in NodesOver(TreesUpTo(n)) /\ b \in NodesOver(TreesUpTo(n))
    BY <2>4, <2>6, NodeOfTree DEF NodesOver, Join
  <2> QED BY <2>3, <2>7, LevelsRecurse
<1>4. a # NULL /\ b # NULL
  <2>1. a \in NodesOver(Trees) /\ b \in NodesOver(Trees)
    BY <1>1, NodeOfTree DEF NodesOver, Join
  <2> QED BY <2>1, TreesAssumption
<1>5. Size(a) < Size(t) /\ Size(b) < Size(t)
  <2>1. Size(t) = 1 + Size(t.left) + Size(t.right)
    BY SizeRecurses
  <2>2. /\ Size(t.left) = 1 + Size(t.left.left) + Size(t.left.right)
        /\ Size(t.right) = 1 + Size(t.right.left) + Size(t.right.right)
    BY <1>1, SizeRecurses
  <2>3. Size(a) = 1 + Size(t.left.right) + Size(t.right) /\ Size(b) = 1 + Size(t.left) + Size(t.right.left)
    <3>1. a.left = t.left.right /\ a.right = t.right /\ b.left = t.left /\ b.right = t.right.left
      BY JoinFields
    <3> HIDE DEF a, b
    <3> QED BY <1>3, <1>4, <3>1, SizeRecurses
  <2>4. /\ Size(t.left) \in Nat /\ Size(t.right) \in Nat
        /\ Size(t.left.left) \in Nat /\ Size(t.left.right) \in Nat
        /\ Size(t.right.left) \in Nat /\ Size(t.right.right) \in Nat
    BY <1>1, SizeIsNat
  <2> HIDE DEF a, b
  <2> QED BY <2>1, <2>2, <2>3, <2>4
<1>6. RotateRight(t) \in AnyNode /\ RotateLeft(t) \in AnyNode
  <2>1. a \in AnyTree /\ b \in AnyTree /\ t.left.left \in AnyTree /\ t.right.right \in AnyTree
    BY <1>1, <1>3, AnyTreeIsNode
  <2>2. /\ t.left.key \in Keys /\ t.left.value \in Values \cup {NULL} /\ t.left.priority \in Nat
        /\ t.right.key \in Keys /\ t.right.value \in Values \cup {NULL} /\ t.right.priority \in Nat
    BY <1>1, NodeFields
  <2> HIDE DEF a, b
  <2>3. /\ Join(t.left.key, t.left.value, t.left.priority, t.left.left, a) \in AnyNode
        /\ Join(t.right.key, t.right.value, t.right.priority, b, t.right.right) \in AnyNode
    BY <2>1, <2>2, JoinIsNode
  <2> QED BY <1>1, <2>3, Rotated DEF a, b
<1> QED BY <1>2, <1>3, <1>5, <1>6

\* Every such recursion defines a function, though it goes down a rotated tree.
LEMMA DeletionExists ==
    ASSUME NEW key, NEW asFind \in BOOLEAN
    PROVE  \E f : IsDeletion(f, key, asFind)
<1> DEFINE V == AnyTree
           Step(f, t) == DeleteStep(t, key, f, asFind)
           step == [p \in Trees \X [Trees -> V] |-> Step(p[2], p[1])]
<1>1. ASSUME NEW t \in Trees, NEW f \in [Trees -> V] PROVE Step(f, t) \in V
  <2>1. ASSUME NEW u \in AnyNode, NEW c \in AnyTree
        PROVE  [u EXCEPT !.left = c] \in AnyTree /\ [u EXCEPT !.right = c] \in AnyTree
    <3>1. /\ u.key \in Keys /\ u.value \in Values \cup {NULL} /\ u.priority \in Nat
          /\ u.left \in AnyTree /\ u.right \in AnyTree
      BY NodeFields
    <3>2. /\ Join(u.key, u.value, u.priority, c, u.right) \in AnyNode
          /\ Join(u.key, u.value, u.priority, u.left, c) \in AnyNode
      BY <3>1, JoinIsNode
    <3> QED BY <3>2, EditedNode, AnyTreeIsNode
  <2>2. CASE t = NULL
    BY <2>2, AnyTreeIsNode DEF DeleteStep
  <2>3. CASE t # NULL
    <3>1. t \in AnyNode /\ t.left \in Trees /\ t.right \in Trees /\ Trees \subseteq AnyTree
      BY <2>3, ChildrenSmaller, AnyTreeIsNode
    <3>2. [t EXCEPT !.left = f[t.left]] \in AnyTree /\ [t EXCEPT !.right = f[t.right]] \in AnyTree
      BY <2>1, <3>1
    <3>3. CASE t.left # NULL /\ t.right # NULL
      <4>1. /\ RotateRight(t).right \in Trees /\ RotateRight(t) \in AnyNode
            /\ RotateLeft(t).left \in Trees /\ RotateLeft(t) \in AnyNode
        BY <2>3, <3>3, RotatedDown
      <4>2. /\ [RotateRight(t) EXCEPT !.right = f[RotateRight(t).right]] \in AnyTree
            /\ [RotateLeft(t) EXCEPT !.left = f[RotateLeft(t).left]] \in AnyTree
        BY <2>1, <4>1
      <4> QED BY <2>3, <3>1, <3>2, <4>2 DEF DeleteStep
    <3>4. CASE t.left = NULL \/ t.right = NULL
      BY <2>3, <3>1, <3>2, <3>4 DEF DeleteStep
    <3> QED BY <3>3, <3>4
  <2> QED BY <2>2, <2>3
<1>2. ASSUME NEW t \in Trees, NEW f \in [Trees -> V], NEW g \in [Trees -> V],
             \A u \in Trees : Size(u) < Size(t) => f[u] = g[u]
      PROVE  Step(f, t) = Step(g, t)
  <2>1. CASE t = NULL
    BY <2>1 DEF DeleteStep
  <2>2. CASE t # NULL
    <3>1. f[t.left] = g[t.left] /\ f[t.right] = g[t.right]
      BY <1>2, <2>2, ChildrenSmaller
    <3>2. t.left # NULL /\ t.right # NULL
              => /\ f[RotateRight(t).right] = g[RotateRight(t).right]
                 /\ f[RotateLeft(t).left] = g[RotateLeft(t).left]
      BY <1>2, <2>2, RotatedDown
    <3> QED BY <3>1, <3>2 DEF DeleteStep
  <2> QED BY <2>1, <2>2
<1>3. V # {}
  BY AnyTreeIsNode
<1> HIDE DEF V, Step
<1>4. PICK f \in [Trees -> V] : \A t \in Trees : f[t] = step[<<t, f>>]
  <2>1. step \in [Trees \X [Trees -> V] -> V]
    BY <1>1
  <2>2. \A t \in Trees, h \in [Trees -> V] : step[<<t, h>>] = Step(h, t)
    OBVIOUS
  <2> HIDE DEF step
  <2>3. Recursive(step, V)
    BY <1>2, <1>3, <2>1, <2>2 DEF Recursive
  <2> QED BY <2>3, TreeRecursion
<1>5. f = [t \in Trees |-> Step(f, t)]
  BY <1>4
<1> QED BY <1>5, Zenon DEF IsDeletion, Step

\* A key that is not there is not erased.
LEMMA DeletionMisses ==
    ASSUME NEW key \in Keys, NEW asFind \in BOOLEAN, NEW f, IsDeletion(f, key, asFind),
           NEW t \in Trees, key \notin KeysOf(t)
    PROVE  f[t] = t
<1> DEFINE S == {u \in Trees : key \notin KeysOf(u) => f[u] = u}
<1>1. /\ f[NULL] = NULL
      /\ \A u \in Trees : f[u] = DeleteStep(u, key, f, asFind)
  BY NullIsTree DEF IsDeletion, DeleteStep
<1>2. NULL \in S
  BY <1>1, NullIsTree
<1>3. ASSUME NEW u \in Trees \ {NULL}, u.left \in S, u.right \in S PROVE u \in S
  <2> SUFFICES ASSUME key \notin KeysOf(u) PROVE f[u] = u
    OBVIOUS
  <2>1. KeysOf(u) = {u.key} \cup KeysOf(u.left) \cup KeysOf(u.right)
    BY KeysRecurse
  <2>2. f[u.left] = u.left /\ f[u.right] = u.right /\ u.key # key
    BY <1>3, <2>1
  <2>3. [u EXCEPT !.left = u.left] = u /\ [u EXCEPT !.right = u.right] = u
    <3>1. u \in AnyNode
      BY AnyTreeIsNode
    <3>2. u = Join(u.key, u.value, u.priority, u.left, u.right)
      BY <3>1, NodeFields
    <3> QED BY <3>1, <3>2, EditedNode
  <2> QED BY <1>1, <2>2, <2>3 DEF DeleteStep
<1>4. Trees \subseteq S
  <2> HIDE DEF S
  <2> QED BY <1>2, <1>3, TreeInduction
<1> QED BY <1>4

\* What a search tree binds is one of its keys.
LEMMA BoundKeys == \A t \in OrderedTrees : \A b \in Bindings(t) : b[1] \in KeysOf(t)
<1> SUFFICES ASSUME NEW t \in Trees, NEW b \in Bindings(t) PROVE b[1] \in KeysOf(t)
  BY DEF OrderedTrees
<1>1. b \in Keys \X (Values \cup {NULL})
  BY KeysAreBound
<1>2. b = <<b[1], b[2]>>
  BY <1>1
<1> QED BY <1>2, KeysAreBound

\* A tree without one of its keys, where the heap is kept and nothing moves up.
Removed(r, t, key) ==
    /\ r \in OrderedTrees
    /\ KeysOf(r) = KeysOf(t) \ {key}
    /\ Bindings(r) = {b \in Bindings(t) : b[1] # key}
    /\ HeapOrdered(t) =>
          /\ HeapOrdered(r)
          /\ \A p \in Nat : Below(t, p) => Below(r, p)
          /\ t # NULL /\ t.key = key => \A p \in Nat : Below(t.left, p) /\ Below(t.right, p) => Below(r, p)

\* At the root of a tree with one child, or with two.
LEMMA RemovedBesideNull ==
    ASSUME NEW t \in OrderedTrees, t # NULL, t.left = NULL \/ t.right = NULL,
           NEW r, r = (IF t.left = NULL THEN t.right ELSE t.left)
    PROVE  Removed(r, t, t.key)
<1>1. /\ t.left \in OrderedTrees /\ t.right \in OrderedTrees /\ t.key \in Nat /\ t.priority \in Nat
      /\ \A x \in KeysOf(t.left) : x > t.key
      /\ \A x \in KeysOf(t.right) : x < t.key
  BY OrderedNode
<1>2. /\ KeysOf(t) = {t.key} \cup KeysOf(t.left) \cup KeysOf(t.right)
      /\ Bindings(t) = {<<t.key, t.value>>} \cup Bindings(t.left) \cup Bindings(t.right)
      /\ HeapOrdered(t) <=> /\ Below(t.left, t.priority) /\ Below(t.right, t.priority)
                            /\ HeapOrdered(t.left) /\ HeapOrdered(t.right)
  BY OrderedNodeHolds
<1>3. t.key \notin KeysOf(t.left) /\ t.key \notin KeysOf(t.right)
  BY <1>1
<1>4. r \in OrderedTrees /\ KeysOf(t) = {t.key} \cup KeysOf(r) /\ Bindings(t) = {<<t.key, t.value>>} \cup Bindings(r)
  BY <1>1, <1>2, NullIsOrdered
<1>5. t.key \notin KeysOf(r) /\ \A b \in Bindings(r) : b[1] # t.key
  BY <1>1, <1>3, BoundKeys
<1>6. KeysOf(r) = KeysOf(t) \ {t.key}
  BY <1>4, <1>5
<1>7. Bindings(r) = {b \in Bindings(t) : b[1] # t.key}
  BY <1>4, <1>5
<1>8. ASSUME HeapOrdered(t)
      PROVE  /\ HeapOrdered(r)
             /\ \A p \in Nat : Below(t, p) => Below(r, p)
             /\ \A p \in Nat : Below(t.left, p) /\ Below(t.right, p) => Below(r, p)
  <2>1. HeapOrdered(r) /\ Below(r, t.priority)
    BY <1>2, <1>8
  <2>2. ASSUME NEW p \in Nat, Below(t, p) PROVE Below(r, p)
    BY <1>1, <1>4, <2>1, <2>2, BelowMore DEF Below
  <2> QED BY <2>1, <2>2
<1> QED BY <1>4, <1>6, <1>7, <1>8 DEF Removed

\* Below the root on the left.
LEMMA RemovedBelowLeft ==
    ASSUME NEW t \in OrderedTrees, t # NULL, t.left # NULL, t.right # NULL,
           t.left.priority > t.right.priority,
           NEW u, u = Join(t.key, t.value, t.priority, t.left.right, t.right),
           NEW c, u \in OrderedTrees => Removed(c, u, t.key),
           NEW r, r = Join(t.left.key, t.left.value, t.left.priority, t.left.left, c)
    PROVE  Removed(r, t, t.key)
<1> DEFINE a == t.left  b == t.right
<1>1. /\ a \in OrderedTrees /\ b \in OrderedTrees /\ t.key \in Keys /\ t.key \in Nat /\ t.priority \in Nat
      /\ t.value \in Values \cup {NULL} /\ Keys \subseteq Nat
      /\ \A x \in KeysOf(a) : x > t.key
      /\ \A x \in KeysOf(b) : x < t.key
      /\ KeysOf(t) = {t.key} \cup KeysOf(a) \cup KeysOf(b)
      /\ Bindings(t) = {<<t.key, t.value>>} \cup Bindings(a) \cup Bindings(b)
      /\ HeapOrdered(t) <=> Below(a, t.priority) /\ Below(b, t.priority) /\ HeapOrdered(a) /\ HeapOrdered(b)
  BY OrderedNode, OrderedNodeHolds
<1> HIDE DEF a, b
<1>2. /\ a # NULL /\ b # NULL
      /\ a.left \in OrderedTrees /\ a.right \in OrderedTrees /\ a.key \in Keys /\ a.priority \in Nat
      /\ a.value \in Values \cup {NULL}
      /\ \A x \in KeysOf(a.left) : x > a.key
      /\ \A x \in KeysOf(a.right) : x < a.key
      /\ KeysOf(a) = {a.key} \cup KeysOf(a.left) \cup KeysOf(a.right)
      /\ Bindings(a) = {<<a.key, a.value>>} \cup Bindings(a.left) \cup Bindings(a.right)
      /\ HeapOrdered(a) <=> /\ Below(a.left, a.priority) /\ Below(a.right, a.priority)
                            /\ HeapOrdered(a.left) /\ HeapOrdered(a.right)
  <2>1. a # NULL /\ b # NULL
    BY DEF a, b
  <2> QED BY <1>1, <2>1, OrderedNode, OrderedNodeHolds
<1>3. Joined(u, t.key, t.value, t.priority, a.right, b)
  <2>1. \A x \in KeysOf(a.right) : x > t.key
    BY <1>1, <1>2
  <2> QED BY <1>1, <1>2, <2>1, OrderedJoin DEF CanJoin, a, b
<1>4. Removed(c, u, t.key)
  BY <1>3 DEF Joined
<1>5. t.key \notin KeysOf(a) /\ t.key \notin KeysOf(b) /\ t.key < a.key
  BY <1>1, <1>2
<1>6. /\ \A x \in Bindings(a) : x[1] # t.key
      /\ \A x \in Bindings(b) : x[1] # t.key
  BY <1>1, <1>5, BoundKeys
<1>7. c \in OrderedTrees /\ KeysOf(c) = KeysOf(a.right) \cup KeysOf(b)
  BY <1>2, <1>3, <1>4, <1>5 DEF Removed, Joined
<1>8. Bindings(c) = Bindings(a.right) \cup Bindings(b)
  <2>1. \A x \in Bindings(a.right) \cup Bindings(b) : x[1] # t.key
    BY <1>2, <1>6
  <2>2. Bindings(u) = {<<t.key, t.value>>} \cup Bindings(a.right) \cup Bindings(b)
    BY <1>3 DEF Joined
  <2>3. Bindings(c) = {x \in Bindings(u) : x[1] # t.key}
    BY <1>4 DEF Removed
  <2> QED BY <2>1, <2>2, <2>3
<1>9. Joined(r, a.key, a.value, a.priority, a.left, c)
  <2>1. KeysOf(b) \subseteq Nat
    BY <1>1, KeysAreBound DEF OrderedTrees
  <2>2. \A x \in KeysOf(b) : x < a.key
    BY <1>1, <1>2, <1>5, <2>1
  <2>3. \A x \in KeysOf(c) : x < a.key
    BY <1>2, <1>7, <2>2
  <2> QED BY <1>2, <1>7, <2>3, OrderedJoin DEF CanJoin, a
<1>10. KeysOf(r) = KeysOf(t) \ {t.key}
  BY <1>1, <1>2, <1>5, <1>7, <1>9 DEF Joined
<1>11. Bindings(r) = {x \in Bindings(t) : x[1] # t.key}
  <2>1. Bindings(r) = Bindings(a) \cup Bindings(b)
    BY <1>2, <1>8, <1>9 DEF Joined
  <2> QED BY <1>1, <1>6, <2>1
<1>12. ASSUME HeapOrdered(t)
       PROVE  /\ HeapOrdered(r)
              /\ \A p \in Nat : Below(t, p) => Below(r, p)
              /\ \A p \in Nat : Below(a, p) /\ Below(b, p) => Below(r, p)
  <2>1. a.priority <= t.priority /\ b.priority <= a.priority /\ b.priority \in Nat
    <3>1. b.priority \in Nat /\ a.priority > b.priority
      BY <1>1, <1>2, OrderedNode DEF a, b
    <3> QED BY <1>1, <1>2, <1>12, <3>1 DEF Below
  <2>2. Below(a.right, t.priority) /\ Below(b, t.priority)
    BY <1>1, <1>2, <1>12, <2>1, BelowMore
  <2>3. HeapOrdered(u)
    BY <1>1, <1>2, <1>3, <1>12, <2>2 DEF Joined
  <2>4. HeapOrdered(c) /\ Below(c, a.priority)
    <3>1. Below(a.right, a.priority) /\ Below(b, a.priority)
      BY <1>1, <1>2, <1>12, <2>1 DEF Below
    <3>2. u # NULL /\ u.key = t.key /\ u.left = a.right /\ u.right = b
      BY <1>3 DEF Joined
    <3> QED BY <1>2, <1>4, <2>3, <3>1, <3>2 DEF Removed
  <2>5. HeapOrdered(r)
    BY <1>1, <1>2, <1>9, <1>12, <2>4 DEF Joined
  <2>6. r.priority = a.priority
    BY <1>9 DEF Joined
  <2>7. \A p \in Nat : Below(a, p) => Below(r, p)
    BY <1>2, <2>6 DEF Below
  <2>8. \A p \in Nat : Below(t, p) => Below(a, p)
    BY <1>1, <1>2, <2>1 DEF Below
  <2> QED BY <2>5, <2>7, <2>8
<1> QED BY <1>9, <1>10, <1>11, <1>12 DEF Removed, Joined, a, b

\* Below the root on the right.
LEMMA RemovedBelowRight ==
    ASSUME NEW t \in OrderedTrees, t # NULL, t.left # NULL, t.right # NULL,
           ~ (t.left.priority > t.right.priority),
           NEW u, u = Join(t.key, t.value, t.priority, t.left, t.right.left),
           NEW c, u \in OrderedTrees => Removed(c, u, t.key),
           NEW r, r = Join(t.right.key, t.right.value, t.right.priority, c, t.right.right)
    PROVE  Removed(r, t, t.key)
<1> DEFINE a == t.right  b == t.left
<1>1. /\ a \in OrderedTrees /\ b \in OrderedTrees /\ t.key \in Keys /\ t.key \in Nat /\ t.priority \in Nat
      /\ t.value \in Values \cup {NULL} /\ Keys \subseteq Nat
      /\ \A x \in KeysOf(a) : x < t.key
      /\ \A x \in KeysOf(b) : x > t.key
      /\ KeysOf(t) = {t.key} \cup KeysOf(a) \cup KeysOf(b)
      /\ Bindings(t) = {<<t.key, t.value>>} \cup Bindings(a) \cup Bindings(b)
      /\ HeapOrdered(t) <=> Below(a, t.priority) /\ Below(b, t.priority) /\ HeapOrdered(a) /\ HeapOrdered(b)
  BY OrderedNode, OrderedNodeHolds
<1> HIDE DEF a, b
<1>2. /\ a # NULL /\ b # NULL
      /\ a.right \in OrderedTrees /\ a.left \in OrderedTrees /\ a.key \in Keys /\ a.priority \in Nat
      /\ a.value \in Values \cup {NULL}
      /\ \A x \in KeysOf(a.right) : x < a.key
      /\ \A x \in KeysOf(a.left) : x > a.key
      /\ KeysOf(a) = {a.key} \cup KeysOf(a.right) \cup KeysOf(a.left)
      /\ Bindings(a) = {<<a.key, a.value>>} \cup Bindings(a.right) \cup Bindings(a.left)
      /\ HeapOrdered(a) <=> /\ Below(a.right, a.priority) /\ Below(a.left, a.priority)
                            /\ HeapOrdered(a.right) /\ HeapOrdered(a.left)
  <2>1. a # NULL /\ b # NULL
    BY DEF a, b
  <2> QED BY <1>1, <2>1, OrderedNode, OrderedNodeHolds
<1>3. Joined(u, t.key, t.value, t.priority, b, a.left)
  <2>1. \A x \in KeysOf(a.left) : x < t.key
    BY <1>1, <1>2
  <2> QED BY <1>1, <1>2, <2>1, OrderedJoin DEF CanJoin, a, b
<1>4. Removed(c, u, t.key)
  BY <1>3 DEF Joined
<1>5. t.key \notin KeysOf(a) /\ t.key \notin KeysOf(b) /\ t.key > a.key
  BY <1>1, <1>2
<1>6. /\ \A x \in Bindings(a) : x[1] # t.key
      /\ \A x \in Bindings(b) : x[1] # t.key
  BY <1>1, <1>5, BoundKeys
<1>7. c \in OrderedTrees /\ KeysOf(c) = KeysOf(a.left) \cup KeysOf(b)
  BY <1>2, <1>3, <1>4, <1>5 DEF Removed, Joined
<1>8. Bindings(c) = Bindings(a.left) \cup Bindings(b)
  <2>1. \A x \in Bindings(a.left) \cup Bindings(b) : x[1] # t.key
    BY <1>2, <1>6
  <2>2. Bindings(u) = {<<t.key, t.value>>} \cup Bindings(a.left) \cup Bindings(b)
    BY <1>3 DEF Joined
  <2>3. Bindings(c) = {x \in Bindings(u) : x[1] # t.key}
    BY <1>4 DEF Removed
  <2> QED BY <2>1, <2>2, <2>3
<1>9. Joined(r, a.key, a.value, a.priority, c, a.right)
  <2>1. KeysOf(b) \subseteq Nat
    BY <1>1, KeysAreBound DEF OrderedTrees
  <2>2. \A x \in KeysOf(b) : x > a.key
    BY <1>1, <1>2, <1>5, <2>1
  <2>3. \A x \in KeysOf(c) : x > a.key
    BY <1>2, <1>7, <2>2
  <2> QED BY <1>2, <1>7, <2>3, OrderedJoin DEF CanJoin, a
<1>10. KeysOf(r) = KeysOf(t) \ {t.key}
  BY <1>1, <1>2, <1>5, <1>7, <1>9 DEF Joined
<1>11. Bindings(r) = {x \in Bindings(t) : x[1] # t.key}
  <2>1. Bindings(r) = Bindings(a) \cup Bindings(b)
    BY <1>2, <1>8, <1>9 DEF Joined
  <2> QED BY <1>1, <1>6, <2>1
<1>12. ASSUME HeapOrdered(t)
       PROVE  /\ HeapOrdered(r)
              /\ \A p \in Nat : Below(t, p) => Below(r, p)
              /\ \A p \in Nat : Below(a, p) /\ Below(b, p) => Below(r, p)
  <2>1. a.priority <= t.priority /\ b.priority <= a.priority /\ b.priority \in Nat
    <3>1. b.priority \in Nat /\ a.priority >= b.priority
      BY <1>1, <1>2, OrderedNode DEF a, b
    <3> QED BY <1>1, <1>2, <1>12, <3>1 DEF Below
  <2>2. Below(a.left, t.priority) /\ Below(b, t.priority)
    BY <1>1, <1>2, <1>12, <2>1, BelowMore
  <2>3. HeapOrdered(u)
    BY <1>1, <1>2, <1>3, <1>12, <2>2 DEF Joined
  <2>4. HeapOrdered(c) /\ Below(c, a.priority)
    <3>1. Below(a.left, a.priority) /\ Below(b, a.priority)
      BY <1>1, <1>2, <1>12, <2>1 DEF Below
    <3>2. u # NULL /\ u.key = t.key /\ u.right = a.left /\ u.left = b
      BY <1>3 DEF Joined
    <3> QED BY <1>2, <1>4, <2>3, <3>1, <3>2 DEF Removed
  <2>5. HeapOrdered(r)
    BY <1>1, <1>2, <1>9, <1>12, <2>4 DEF Joined
  <2>6. r.priority = a.priority
    BY <1>9 DEF Joined
  <2>7. \A p \in Nat : Below(a, p) => Below(r, p)
    BY <1>2, <2>6 DEF Below
  <2>8. \A p \in Nat : Below(t, p) => Below(a, p)
    BY <1>1, <1>2, <2>1 DEF Below
  <2> QED BY <2>5, <2>7, <2>8
<1> QED BY <1>9, <1>10, <1>11, <1>12 DEF Removed, Joined, a, b

\* An erasure that descends as the search does, or finds its key at the root,
\* removes that key and nothing else.
LEMMA DeletionRemoves ==
    ASSUME NEW key \in Keys, NEW asFind \in BOOLEAN, NEW f, IsDeletion(f, key, asFind),
           NEW t \in OrderedTrees, asFind \/ (t # NULL /\ t.key = key)
    PROVE  Removed(f[t], t, key)
<1> DEFINE S == {u \in Trees : SearchOrdered(u) /\ (asFind \/ (u # NULL /\ u.key = key))
                                  => Removed(f[u], u, key)}
<1>1. f[NULL] = NULL /\ \A u \in Trees : f[u] = DeleteStep(u, key, f, asFind)
  BY NullIsTree DEF IsDeletion, DeleteStep
<1>2. ASSUME NEW u \in Trees, \A w \in Trees : Size(w) < Size(u) => w \in S
      PROVE  u \in S
  <2> SUFFICES ASSUME SearchOrdered(u), asFind \/ (u # NULL /\ u.key = key)
               PROVE  Removed(f[u], u, key)
    OBVIOUS
  <2>1. u \in OrderedTrees
    BY DEF OrderedTrees
  <2>2. CASE u = NULL
    BY <1>1, <2>2, NullIsOrdered DEF Removed
  <2>3. CASE u # NULL /\ u.key = key /\ (u.left = NULL \/ u.right = NULL)
    <3>1. f[u] = IF u.left = NULL THEN u.right ELSE u.left
      BY <1>1, <2>3 DEF DeleteStep
    <3> QED BY <2>1, <2>3, <3>1, RemovedBesideNull
  <2>4. CASE u # NULL /\ u.key = key /\ u.left # NULL /\ u.right # NULL
    <3>1. /\ u \in AnyNode /\ u.left \in AnyNode /\ u.right \in AnyNode
      BY <2>4, NodeOfTree, AnyTreeIsNode
    <3>2. CASE u.left.priority > u.right.priority
      <4> DEFINE d == Join(u.key, u.value, u.priority, u.left.right, u.right)  c == f[d]
      <4>1. RotateRight(u).right = d /\ d \in Trees /\ Size(d) < Size(u) /\ RotateRight(u) \in AnyNode
        BY <2>4, RotatedDown
      <4>2. f[u] = [RotateRight(u) EXCEPT !.right = c]
        BY <1>1, <2>4, <3>2, <4>1 DEF DeleteStep
      <4>3. f[u] = Join(u.left.key, u.left.value, u.left.priority, u.left.left, c)
        <5> DEFINE rot == RotateRight(u)
        <5>1. rot = Join(u.left.key, u.left.value, u.left.priority, u.left.left, d)
          BY <3>1, Rotated
        <5> HIDE DEF c, d, rot
        <5>2. [rot EXCEPT !.right = c] = Join(rot.key, rot.value, rot.priority, rot.left, c)
          BY <4>1, EditedNode DEF rot
        <5>3. rot.key = u.left.key /\ rot.value = u.left.value /\ rot.priority = u.left.priority /\ rot.left = u.left.left
          BY <5>1, JoinFields
        <5> QED BY <4>2, <5>2, <5>3 DEF rot
      <4>4. d.key = key /\ (d \in OrderedTrees => d # NULL)
        <5>1. NULL \notin NodesOver(Trees)
          BY TreesAssumption
        <5>2. d \in NodesOver(Trees)
          BY <2>4, NodeOfTree DEF NodesOver, Join
        <5> QED BY <2>4, <5>1, <5>2, JoinFields
      <4>5. d \in OrderedTrees => Removed(c, d, u.key)
        BY <1>2, <2>4, <4>1, <4>4 DEF OrderedTrees
      <4> DEFINE r == f[u]
      <4>6. Removed(r, u, u.key)
        <5> HIDE DEF c, r
        <5>1. r = Join(u.left.key, u.left.value, u.left.priority, u.left.left, c)
          BY <4>3 DEF r
        <5> QED BY <2>1, <2>4, <3>2, <4>5, <5>1, RemovedBelowLeft
      <4> QED BY <2>4, <4>6
    <3>3. CASE ~ (u.left.priority > u.right.priority)
      <4> DEFINE d == Join(u.key, u.value, u.priority, u.left, u.right.left)  c == f[d]
      <4>1. RotateLeft(u).left = d /\ d \in Trees /\ Size(d) < Size(u) /\ RotateLeft(u) \in AnyNode
        BY <2>4, RotatedDown
      <4>2. f[u] = [RotateLeft(u) EXCEPT !.left = c]
        BY <1>1, <2>4, <3>3, <4>1 DEF DeleteStep
      <4>3. f[u] = Join(u.right.key, u.right.value, u.right.priority, c, u.right.right)
        <5> DEFINE rot == RotateLeft(u)
        <5>1. rot = Join(u.right.key, u.right.value, u.right.priority, d, u.right.right)
          BY <3>1, Rotated
        <5> HIDE DEF c, d, rot
        <5>2. [rot EXCEPT !.left = c] = Join(rot.key, rot.value, rot.priority, c, rot.right)
          BY <4>1, EditedNode DEF rot
        <5>3. rot.key = u.right.key /\ rot.value = u.right.value /\ rot.priority = u.right.priority /\ rot.right = u.right.right
          BY <5>1, JoinFields
        <5> QED BY <4>2, <5>2, <5>3 DEF rot
      <4>4. d.key = key /\ (d \in OrderedTrees => d # NULL)
        <5>1. NULL \notin NodesOver(Trees)
          BY TreesAssumption
        <5>2. d \in NodesOver(Trees)
          BY <2>4, NodeOfTree DEF NodesOver, Join
        <5> QED BY <2>4, <5>1, <5>2, JoinFields
      <4>5. d \in OrderedTrees => Removed(c, d, u.key)
        BY <1>2, <2>4, <4>1, <4>4 DEF OrderedTrees
      <4> DEFINE r == f[u]
      <4>6. Removed(r, u, u.key)
        <5> HIDE DEF c, r
        <5>1. r = Join(u.right.key, u.right.value, u.right.priority, c, u.right.right)
          BY <4>3 DEF r
        <5> QED BY <2>1, <2>4, <3>3, <4>5, <5>1, RemovedBelowRight
      <4> QED BY <2>4, <4>6
    <3> QED BY <3>2, <3>3
  <2>5. CASE u # NULL /\ u.key # key
    <3>1. /\ u \in AnyNode /\ u.left \in OrderedTrees /\ u.right \in OrderedTrees
          /\ u.key \in Keys /\ u.value \in Values \cup {NULL} /\ u.priority \in Nat /\ Keys \subseteq Nat
          /\ u.left \in Trees /\ u.right \in Trees
          /\ \A x \in KeysOf(u.left) : x > u.key
          /\ \A x \in KeysOf(u.right) : x < u.key
          /\ KeysOf(u) = {u.key} \cup KeysOf(u.left) \cup KeysOf(u.right)
          /\ Bindings(u) = {<<u.key, u.value>>} \cup Bindings(u.left) \cup Bindings(u.right)
          /\ HeapOrdered(u) <=> /\ Below(u.left, u.priority) /\ Below(u.right, u.priority)
                                /\ HeapOrdered(u.left) /\ HeapOrdered(u.right)
      BY <2>1, <2>5, OrderedNode, OrderedNodeHolds DEF OrderedTrees
    <3>2. /\ \A b \in Bindings(u.left) : b[1] \in KeysOf(u.left)
          /\ \A b \in Bindings(u.right) : b[1] \in KeysOf(u.right)
      BY <3>1, BoundKeys
    <3>3. asFind
      BY <2>5
    <3>4. CASE u.key < key
      <4> DEFINE c == f[u.left]
      <4>1. f[u] = Join(u.key, u.value, u.priority, c, u.right)
        BY <1>1, <2>5, <3>1, <3>3, <3>4, EditedNode DEF DeleteStep, GoesLeft
      <4>2. Removed(c, u.left, key)
        BY <1>2, <2>5, <3>1, <3>3, ChildrenSmaller DEF OrderedTrees
      <4> HIDE DEF c
      <4>3. Joined(f[u], u.key, u.value, u.priority, c, u.right)
        BY <3>1, <4>1, <4>2, OrderedJoin DEF CanJoin, Removed
      <4>4. key \notin KeysOf(u.right)
        BY <3>1, <3>4
      <4>5. KeysOf(f[u]) = KeysOf(u) \ {key}
        BY <2>5, <3>1, <4>2, <4>3, <4>4 DEF Joined, Removed
      <4>6. Bindings(f[u]) = {b \in Bindings(u) : b[1] # key}
        <5>1. \A b \in Bindings(u.right) : b[1] # key
          BY <3>2, <4>4
        <5>2. \A b : b = <<u.key, u.value>> => b[1] # key
          BY <2>5
        <5> QED BY <3>1, <4>2, <4>3, <5>1, <5>2 DEF Joined, Removed
      <4>7. HeapOrdered(u) => HeapOrdered(f[u])
        BY <3>1, <4>2, <4>3 DEF Joined, Removed
      <4>8. \A p \in Nat : Below(u, p) => Below(f[u], p)
        BY <2>5, <4>3 DEF Joined, Below
      <4> QED BY <2>5, <4>3, <4>5, <4>6, <4>7, <4>8 DEF Removed, Joined
    <3>5. CASE ~ (u.key < key)
      <4> DEFINE c == f[u.right]
      <4>1. f[u] = Join(u.key, u.value, u.priority, u.left, c)
        BY <1>1, <2>5, <3>1, <3>3, <3>5, EditedNode DEF DeleteStep, GoesLeft
      <4>2. Removed(c, u.right, key)
        BY <1>2, <2>5, <3>1, <3>3, ChildrenSmaller DEF OrderedTrees
      <4> HIDE DEF c
      <4>3. Joined(f[u], u.key, u.value, u.priority, u.left, c)
        BY <3>1, <4>1, <4>2, OrderedJoin DEF CanJoin, Removed
      <4>4. key \notin KeysOf(u.left)
        BY <3>1, <3>5
      <4>5. KeysOf(f[u]) = KeysOf(u) \ {key}
        BY <2>5, <3>1, <4>2, <4>3, <4>4 DEF Joined, Removed
      <4>6. Bindings(f[u]) = {b \in Bindings(u) : b[1] # key}
        <5>1. \A b \in Bindings(u.left) : b[1] # key
          BY <3>2, <4>4
        <5>2. \A b : b = <<u.key, u.value>> => b[1] # key
          BY <2>5
        <5> QED BY <3>1, <4>2, <4>3, <5>1, <5>2 DEF Joined, Removed
      <4>7. HeapOrdered(u) => HeapOrdered(f[u])
        BY <3>1, <4>2, <4>3 DEF Joined, Removed
      <4>8. \A p \in Nat : Below(u, p) => Below(f[u], p)
        BY <2>5, <4>3 DEF Joined, Below
      <4> QED BY <2>5, <4>3, <4>5, <4>6, <4>7, <4>8 DEF Removed, Joined
    <3> QED BY <3>4, <3>5
  <2> QED BY <2>2, <2>3, <2>4, <2>5
<1>3. Trees \subseteq S
  <2> HIDE DEF S
  <2> QED BY <1>2, SizeInduction
<1> QED BY <1>3 DEF OrderedTrees

\* The map's erasure goes away from the key unless it is at the root.
LEMMA DeletionMissesBelow ==
    ASSUME NEW key \in Keys, NEW f, IsDeletion(f, key, FALSE),
           NEW t \in OrderedTrees, ~ (t # NULL /\ t.key = key)
    PROVE  f[t] = t
<1>1. f[NULL] = NULL /\ \A u \in Trees : f[u] = DeleteStep(u, key, f, FALSE)
  BY NullIsTree DEF IsDeletion, DeleteStep
<1>2. CASE t = NULL
  BY <1>1, <1>2
<1>3. CASE t # NULL
  <2>1. /\ t \in AnyNode /\ t \in Trees /\ t.left \in Trees /\ t.right \in Trees /\ t.key \in Nat /\ key \in Nat
        /\ \A x \in KeysOf(t.left) : x > t.key
        /\ \A x \in KeysOf(t.right) : x < t.key
        /\ t.key # key
    BY <1>3, OrderedNode DEF OrderedTrees
  <2>2. [t EXCEPT !.left = t.left] = t /\ [t EXCEPT !.right = t.right] = t
    <3>1. t = Join(t.key, t.value, t.priority, t.left, t.right)
      BY <2>1, NodeFields
    <3> QED BY <2>1, <3>1, EditedNode
  <2>3. CASE key < t.key
    <3>1. key \notin KeysOf(t.left)
      BY <2>1, <2>3
    <3>2. f[t.left] = t.left
      BY <2>1, <3>1, DeletionMisses
    <3> QED BY <1>1, <1>3, <2>1, <2>2, <2>3, <3>2 DEF DeleteStep, GoesLeft
  <2>4. CASE ~ (key < t.key)
    <3>1. key \notin KeysOf(t.right)
      BY <2>1, <2>4
    <3>2. f[t.right] = t.right
      BY <2>1, <3>1, DeletionMisses
    <3> QED BY <1>1, <1>3, <2>1, <2>2, <2>4, <3>2 DEF DeleteStep, GoesLeft
  <2> QED BY <2>3, <2>4
<1> QED BY <1>2, <1>3

\* The search finds the binding of every key of a search tree.
LEMMA FindBinds ==
    ASSUME NEW k \in Keys, NEW t \in OrderedTrees
    PROVE  /\ Find(t, k) # NULL <=> k \in KeysOf(t)
           /\ Find(t, k) # NULL => /\ <<k, Find(t, k).value>> \in Bindings(t)
                                   /\ \A v : <<k, v>> \in Bindings(t) => v = Find(t, k).value
<1> DEFINE Finds(u) == /\ Find(u, k) # NULL <=> k \in KeysOf(u)
                       /\ Find(u, k) # NULL => /\ <<k, Find(u, k).value>> \in Bindings(u)
                                               /\ \A v : <<k, v>> \in Bindings(u) => v = Find(u, k).value
           S == {u \in Trees : SearchOrdered(u) => Finds(u)}
<1>1. NULL \in S
  BY NullIsTree, NullIsOrdered, FindRecurses
<1>2. ASSUME NEW u \in Trees \ {NULL}, u.left \in S, u.right \in S PROVE u \in S
  <2> SUFFICES ASSUME SearchOrdered(u) PROVE Finds(u)
    OBVIOUS
  <2>1. u \in OrderedTrees /\ u # NULL
    BY DEF OrderedTrees
  <2>2. /\ u.left \in OrderedTrees /\ u.right \in OrderedTrees /\ u.key \in Nat /\ k \in Nat
        /\ \A x \in KeysOf(u.left) : x > u.key
        /\ \A x \in KeysOf(u.right) : x < u.key
        /\ KeysOf(u) = {u.key} \cup KeysOf(u.left) \cup KeysOf(u.right)
        /\ Bindings(u) = {<<u.key, u.value>>} \cup Bindings(u.left) \cup Bindings(u.right)
    BY <2>1, OrderedNode, OrderedNodeHolds
  <2>3. /\ \A v : <<k, v>> \in Bindings(u.left) => k \in KeysOf(u.left)
        /\ \A v : <<k, v>> \in Bindings(u.right) => k \in KeysOf(u.right)
    BY <2>2, KeysAreBound DEF OrderedTrees
  <2>4. Finds(u.left) /\ Finds(u.right)
    BY <1>2, <2>2 DEF OrderedTrees
  <2>5. Find(u, k) = IF u.key = k THEN u ELSE Find(IF u.key < k THEN u.left ELSE u.right, k)
    BY FindRecurses
  <2>6. CASE u.key = k
    <3>1. k \notin KeysOf(u.left) /\ k \notin KeysOf(u.right)
      BY <2>2, <2>6
    <3>2. Find(u, k) = u
      BY <2>5, <2>6
    <3> QED BY <2>1, <2>2, <2>3, <2>6, <3>1, <3>2
  <2>7. CASE u.key < k
    <3>1. Find(u, k) = Find(u.left, k)
      BY <2>2, <2>5, <2>7
    <3>2. k \notin KeysOf(u.right) /\ k # u.key
      BY <2>2, <2>7
    <3>3. \A v : <<k, v>> \in Bindings(u) <=> <<k, v>> \in Bindings(u.left)
      BY <2>2, <2>3, <3>2
    <3> QED BY <2>2, <2>4, <3>1, <3>2, <3>3
  <2>8. CASE u.key > k
    <3>1. Find(u, k) = Find(u.right, k)
      BY <2>2, <2>5, <2>8
    <3>2. k \notin KeysOf(u.left) /\ k # u.key
      BY <2>2, <2>8
    <3>3. \A v : <<k, v>> \in Bindings(u) <=> <<k, v>> \in Bindings(u.right)
      BY <2>2, <2>3, <3>2
    <3> QED BY <2>2, <2>4, <3>1, <3>2, <3>3
  <2> QED BY <2>2, <2>6, <2>7, <2>8
<1>3. Trees \subseteq S
  <2> HIDE DEF S
  <2> QED BY <1>1, <1>2, TreeInduction
<1> QED BY <1>3 DEF OrderedTrees

-----------------------------------------------------------------------------
\* The instances of the tree operators are those of Treap.
LEMMA TreeNames ==
    /\ TS!Trees = Trees /\ TM!Trees = Trees /\ BM!Trees = Trees
    /\ \A t : TS!Size(t) = Size(t) /\ TM!Size(t) = Size(t) /\ BM!Size(t) = Size(t)
    /\ \A t : BM!KeysOf(t) = KeysOf(t)
    /\ \A S : BM!Cardinality(S) = Cardinality(S)
    /\ \A t, k : TS!Find(t, k) = Find(t, k) /\ TM!Find(t, k) = Find(t, k) /\ BM!Find(t, k) = Find(t, k)
    /\ \A t : TS!RotateRight(t) = RotateRight(t) /\ TM!RotateRight(t) = RotateRight(t)
    /\ \A t : TS!RotateLeft(t) = RotateLeft(t) /\ TM!RotateLeft(t) = RotateLeft(t)
    /\ \A t : TS!LiftLeft(t) = LiftLeft(t) /\ TM!LiftLeft(t) = LiftLeft(t)
    /\ \A t : TS!LiftRight(t) = LiftRight(t) /\ TM!LiftRight(t) = LiftRight(t)
    /\ \A k, v, p : /\ TS!Node(k, v, p) = Node(k, v, p) /\ TM!Node(k, v, p) = Node(k, v, p)
                    /\ BM!Node(k, v, p) = Node(k, v, p)
<1>1. TS!Trees = Trees /\ TM!Trees = Trees /\ BM!Trees = Trees
  BY DEF TS!Trees, TM!Trees, BM!Trees, Trees, TS!TreesUpTo, TM!TreesUpTo, BM!TreesUpTo, TreesUpTo,
         TS!NodesOver, TM!NodesOver, BM!NodesOver, NodesOver,
         TS!Cardinality, TM!Cardinality, BM!Cardinality, Cardinality
<1>2. \A t : TS!Size(t) = Size(t) /\ TM!Size(t) = Size(t) /\ BM!Size(t) = Size(t)
  BY <1>1 DEF TS!Size, TM!Size, BM!Size, Size
<1>3. \A t : BM!KeysOf(t) = KeysOf(t)
  BY <1>1 DEF BM!KeysOf, KeysOf, BM!Nodes, Nodes
<1>4. \A t, k : TS!Find(t, k) = Find(t, k) /\ TM!Find(t, k) = Find(t, k) /\ BM!Find(t, k) = Find(t, k)
  BY <1>1 DEF TS!Find, TM!Find, BM!Find, Find
<1>5. \A t : TS!RotateRight(t) = RotateRight(t) /\ TM!RotateRight(t) = RotateRight(t)
  BY DEF TS!RotateRight, TM!RotateRight, RotateRight
<1>6. \A t : TS!RotateLeft(t) = RotateLeft(t) /\ TM!RotateLeft(t) = RotateLeft(t)
  BY DEF TS!RotateLeft, TM!RotateLeft, RotateLeft
<1>7. \A k, v, p : /\ TS!Node(k, v, p) = Node(k, v, p) /\ TM!Node(k, v, p) = Node(k, v, p)
                   /\ BM!Node(k, v, p) = Node(k, v, p)
  BY DEF TS!Node, TM!Node, BM!Node, Node
<1>8. \A S : BM!Cardinality(S) = Cardinality(S)
  BY DEF BM!Cardinality, Cardinality
<1>9. \A t : TS!LiftLeft(t) = LiftLeft(t) /\ TM!LiftLeft(t) = LiftLeft(t)
  BY <1>5 DEF TS!LiftLeft, TM!LiftLeft, LiftLeft
<1>10. \A t : TS!LiftRight(t) = LiftRight(t) /\ TM!LiftRight(t) = LiftRight(t)
  BY <1>6 DEF TS!LiftRight, TM!LiftRight, LiftRight
<1> QED BY <1>1, <1>2, <1>3, <1>4, <1>5, <1>6, <1>7, <1>8, <1>9, <1>10

\* The recursions of the containers are of the two kinds.
LEMMA SetInsertIsInsertion ==
    ASSUME NEW new \in AnyNode
    PROVE  \E f : IsInsertion(f, new, TRUE, TRUE) /\ \A t : TS!SetInsertRec(t, new) = f[t]
<1> DEFINE Body(f) == [t \in TS!Trees |->
              IF t = NULL THEN new
              ELSE IF t.key < new.key THEN TS!LiftLeft([t EXCEPT !.left = f[t.left]])
              ELSE IF t.key > new.key THEN TS!LiftRight([t EXCEPT !.right = f[t.right]])
              ELSE t]
           insert == CHOOSE f : f = Body(f)
<1>1. \A t : TS!SetInsertRec(t, new) = insert[t]
  BY DEF TS!SetInsertRec
<1>2. \A f : f = Body(f) <=> IsInsertion(f, new, TRUE, TRUE)
  BY TreeNames DEF IsInsertion, InsertStep, InsertBody
<1> HIDE DEF Body
<1>3. insert = Body(insert)
  BY <1>2, InsertionExists, Zenon
<1> HIDE DEF insert
<1> QED BY <1>1, <1>2, <1>3

\* CCMap's insertion overwrites, and rotates over the treap only.
LEMMA NodeInsertIsInsertion ==
    ASSUME NEW new \in AnyNode
    PROVE  \E f : IsInsertion(f, new, TRUE, FALSE) /\ \A t : TM!NodeInsert(t, new) = f[t]
<1> DEFINE Body(f) == [t \in TM!Trees |->
              IF t = NULL THEN new
              ELSE IF t.key < new.key THEN TM!LiftLeft([t EXCEPT !.left = f[t.left]])
              ELSE IF t.key > new.key THEN TM!LiftRight([t EXCEPT !.right = f[t.right]])
              ELSE [t EXCEPT !.value = new.value]]
           insert == CHOOSE f : f = Body(f)
<1>1. \A t : TM!NodeInsert(t, new) = insert[t]
  BY DEF TM!NodeInsert
<1>2. \A f : f = Body(f) <=> IsInsertion(f, new, TRUE, FALSE)
  BY TreeNames DEF IsInsertion, InsertStep, InsertBody
<1> HIDE DEF Body
<1>3. insert = Body(insert)
  BY <1>2, InsertionExists, Zenon
<1> HIDE DEF insert
<1> QED BY <1>1, <1>2, <1>3

LEMMA BstInsertIsInsertion ==
    ASSUME NEW new \in AnyNode
    PROVE  \E f : IsInsertion(f, new, FALSE, FALSE) /\ \A t : BM!BstInsertRec(t, new) = f[t]
<1> DEFINE Body(f) == [t \in BM!Trees |->
              IF t = NULL THEN new
              ELSE IF t.key < new.key THEN [t EXCEPT !.left = f[t.left]]
              ELSE IF t.key > new.key THEN [t EXCEPT !.right = f[t.right]]
              ELSE [t EXCEPT !.value = new.value]]
           insert == CHOOSE f : f = Body(f)
<1>1. \A t : BM!BstInsertRec(t, new) = insert[t]
  BY DEF BM!BstInsertRec
<1>2. \A f : f = Body(f) <=> IsInsertion(f, new, FALSE, FALSE)
  BY TreeNames DEF IsInsertion, InsertStep, InsertBody
<1> HIDE DEF Body
<1>3. insert = Body(insert)
  BY <1>2, InsertionExists, Zenon
<1> HIDE DEF insert
<1> QED BY <1>1, <1>2, <1>3

\* Both erasures are of one kind, and descend opposite ways.
LEMMA SetEraseIsDeletion ==
    ASSUME NEW key \in Keys
    PROVE  \E f : IsDeletion(f, key, TRUE) /\ \A t : TS!SetEraseRec(t, key) = f[t]
<1> DEFINE Body(f) == [t \in TS!Trees |->
              IF t = NULL THEN NULL
              ELSE IF t.key < key THEN [t EXCEPT !.left = f[t.left]]
              ELSE IF t.key > key THEN [t EXCEPT !.right = f[t.right]]
              ELSE IF t.left = NULL THEN t.right
              ELSE IF t.right = NULL THEN t.left
              ELSE IF t.left.priority > t.right.priority
              THEN [TS!RotateRight(t) EXCEPT !.right = f[TS!RotateRight(t).right]]
              ELSE [TS!RotateLeft(t) EXCEPT !.left = f[TS!RotateLeft(t).left]]]
           erase == CHOOSE f : f = Body(f)
<1>1. \A t : TS!SetEraseRec(t, key) = erase[t]
  BY DEF TS!SetEraseRec
<1>2. \A f : f = Body(f) <=> IsDeletion(f, key, TRUE)
  <2> TAKE f
  <2>1. \A t \in Trees : Body(f)[t] = DeleteStep(t, key, f, TRUE)
    <3> SUFFICES ASSUME NEW t \in Trees, t # NULL PROVE Body(f)[t] = DeleteStep(t, key, f, TRUE)
      BY TreeNames DEF DeleteStep
    <3>1. t.key \in Nat /\ key \in Nat
      BY NodeOfTree, KeysAssumption
    <3>2. (t.key # key <=> (t.key < key \/ t.key > key)) /\ ~ (t.key < key /\ t.key > key)
      BY <3>1
    <3> QED BY <3>2, TreeNames DEF DeleteStep, GoesLeft
  <2>2. Body(f) = [t \in Trees |-> DeleteStep(t, key, f, TRUE)]
    BY <2>1, TreeNames
  <2> HIDE DEF Body
  <2> QED BY <2>2 DEF IsDeletion
<1> HIDE DEF Body
<1>3. erase = Body(erase)
  BY <1>2, DeletionExists, Zenon
<1> HIDE DEF erase
<1> QED BY <1>1, <1>2, <1>3

LEMMA NodeDeleteIsDeletion ==
    ASSUME NEW key \in Keys
    PROVE  \E f : IsDeletion(f, key, FALSE) /\ \A t : TM!NodeDelete(t, key) = f[t]
<1> DEFINE Body(f) == [t \in TM!Trees |->
              IF t = NULL THEN NULL
              ELSE IF key < t.key THEN [t EXCEPT !.left = f[t.left]]
              ELSE IF key > t.key THEN [t EXCEPT !.right = f[t.right]]
              ELSE IF t.left = NULL THEN t.right
              ELSE IF t.right = NULL THEN t.left
              ELSE IF t.left.priority > t.right.priority
              THEN [TM!RotateRight(t) EXCEPT !.right = f[TM!RotateRight(t).right]]
              ELSE [TM!RotateLeft(t) EXCEPT !.left = f[TM!RotateLeft(t).left]]]
           delete == CHOOSE f : f = Body(f)
<1>1. \A t : TM!NodeDelete(t, key) = delete[t]
  BY DEF TM!NodeDelete
<1>2. \A f : f = Body(f) <=> IsDeletion(f, key, FALSE)
  <2> TAKE f
  <2>1. \A t \in Trees : Body(f)[t] = DeleteStep(t, key, f, FALSE)
    <3> SUFFICES ASSUME NEW t \in Trees, t # NULL PROVE Body(f)[t] = DeleteStep(t, key, f, FALSE)
      BY TreeNames DEF DeleteStep
    <3>1. t.key \in Nat /\ key \in Nat
      BY NodeOfTree, KeysAssumption
    <3>2. (t.key # key <=> (key < t.key \/ key > t.key)) /\ ~ (key < t.key /\ key > t.key)
      BY <3>1
    <3> QED BY <3>2, TreeNames DEF DeleteStep, GoesLeft
  <2>2. Body(f) = [t \in Trees |-> DeleteStep(t, key, f, FALSE)]
    BY <2>1, TreeNames
  <2> HIDE DEF Body
  <2> QED BY <2>2 DEF IsDeletion
<1> HIDE DEF Body
<1>3. delete = Body(delete)
  BY <1>2, DeletionExists, Zenon
<1> HIDE DEF delete
<1> QED BY <1>1, <1>2, <1>3

\* The deletion that meets no address of its own leaves every tree as it is.
LEMMA ForeignDeletionKeeps == \A t \in Trees : BM!BstDeleteForeign(t) = {t}
<1> DEFINE V == SUBSET AnyTree
           Step(f, t) == IF t = NULL THEN {NULL}
                         ELSE {[t EXCEPT !.left  = d] : d \in f[t.left]} \cup
                              {[t EXCEPT !.right = d] : d \in f[t.right]}
           step == [p \in Trees \X [Trees -> V] |-> Step(p[2], p[1])]
           delete == CHOOSE f : f = [t \in BM!Trees |-> Step(f, t)]
<1>1. ASSUME NEW t \in Trees, NEW f \in [Trees -> V] PROVE Step(f, t) \in V
  <2>1. CASE t = NULL
    BY <2>1, AnyTreeIsNode
  <2>2. CASE t # NULL
    <3>1. t \in AnyNode /\ f[t.left] \subseteq AnyTree /\ f[t.right] \subseteq AnyTree
      BY <2>2, ChildrenSmaller, AnyTreeIsNode
    <3>2. ASSUME NEW d \in AnyTree PROVE [t EXCEPT !.left = d] \in AnyTree /\ [t EXCEPT !.right = d] \in AnyTree
      <4>1. /\ t.key \in Keys /\ t.value \in Values \cup {NULL} /\ t.priority \in Nat
            /\ t.left \in AnyTree /\ t.right \in AnyTree
        BY <3>1, NodeFields
      <4>2. /\ Join(t.key, t.value, t.priority, d, t.right) \in AnyNode
            /\ Join(t.key, t.value, t.priority, t.left, d) \in AnyNode
        BY <4>1, JoinIsNode
      <4> QED BY <3>1, <4>2, EditedNode, AnyTreeIsNode
    <3> QED BY <2>2, <3>1, <3>2
  <2> QED BY <2>1, <2>2
<1>2. \A t \in Trees, f, g \in [Trees -> V] :
         (\A u \in Trees : Size(u) < Size(t) => f[u] = g[u]) => Step(f, t) = Step(g, t)
  BY ChildrenSmaller
<1>3. V # {}
  OBVIOUS
<1>4. \A t : BM!BstDeleteForeign(t) = delete[t]
  BY DEF BM!BstDeleteForeign
<1> HIDE DEF V, Step
<1>5. PICK f \in [Trees -> V] : \A t \in Trees : f[t] = step[<<t, f>>]
  <2>1. step \in [Trees \X [Trees -> V] -> V]
    BY <1>1
  <2>2. \A t \in Trees, h \in [Trees -> V] : step[<<t, h>>] = Step(h, t)
    OBVIOUS
  <2> HIDE DEF step
  <2>3. Recursive(step, V)
    BY <1>2, <1>3, <2>1, <2>2 DEF Recursive
  <2> QED BY <2>3, TreeRecursion
<1>6. f = [t \in BM!Trees |-> Step(f, t)]
  BY <1>5, TreeNames
<1>7. delete = [t \in BM!Trees |-> Step(delete, t)]
  BY <1>6, Zenon
<1> HIDE DEF delete
<1>8. \A t \in Trees : delete[t] = Step(delete, t)
  BY <1>7, TreeNames
<1> DEFINE S == {t \in Trees : delete[t] = {t}}
<1>9. NULL \in S
  BY <1>8, NullIsTree DEF Step
<1>10. ASSUME NEW t \in Trees \ {NULL}, t.left \in S, t.right \in S PROVE t \in S
  <2>1. t \in AnyNode /\ t = Join(t.key, t.value, t.priority, t.left, t.right)
    BY AnyTreeIsNode, NodeFields
  <2>2. [t EXCEPT !.left = t.left] = t /\ [t EXCEPT !.right = t.right] = t
    BY <2>1, EditedNode
  <2>3. delete[t] = {[t EXCEPT !.left  = d] : d \in {t.left}} \cup {[t EXCEPT !.right = d] : d \in {t.right}}
    BY <1>8, <1>10 DEF Step
  <2> QED BY <2>2, <2>3
<1>11. Trees \subseteq S
  <2> HIDE DEF S
  <2> QED BY <1>9, <1>10, TreeInduction
<1> QED BY <1>4, <1>11

\* The leftmost node is the root or holds one of the keys on its left.
LEMMA LeftMostRecurses ==
    \A t \in Trees \ {NULL} : BM!LeftMost[t] = IF t.left = NULL THEN t ELSE BM!LeftMost[t.left]
<1> DEFINE V == Trees
           Step(f, t) == IF t = NULL THEN NULL ELSE IF t.left = NULL THEN t ELSE f[t.left]
           step == [p \in Trees \X [Trees -> V] |-> Step(p[2], p[1])]
           Body(f) == [t \in BM!Trees \ {NULL} |-> IF t.left = NULL THEN t ELSE f[t.left]]
<1>1. \A t \in Trees, f \in [Trees -> V] : Step(f, t) \in V
  BY ChildrenSmaller, NullIsTree
<1>2. \A t \in Trees, f, g \in [Trees -> V] :
         (\A u \in Trees : Size(u) < Size(t) => f[u] = g[u]) => Step(f, t) = Step(g, t)
  BY ChildrenSmaller
<1>3. V # {}
  BY NullIsTree
<1>4. BM!LeftMost = CHOOSE f : f = Body(f)
  BY DEF BM!LeftMost
<1>5. PICK f \in [Trees -> V] : \A t \in Trees : f[t] = step[<<t, f>>]
  <2> HIDE DEF V, Step
  <2>1. step \in [Trees \X [Trees -> V] -> V]
    BY <1>1
  <2>2. \A t \in Trees, h \in [Trees -> V] : step[<<t, h>>] = Step(h, t)
    OBVIOUS
  <2> HIDE DEF step
  <2>3. Recursive(step, V)
    BY <1>2, <1>3, <2>1, <2>2 DEF Recursive
  <2> QED BY <2>3, TreeRecursion
<1>6. \A t \in Trees \ {NULL} : f[t] = IF t.left = NULL THEN t ELSE f[t.left]
  BY <1>5
<1> DEFINE g == [t \in BM!Trees \ {NULL} |-> f[t]]
<1>7. g = Body(g)
  BY <1>6, ChildrenSmaller, TreeNames
<1> HIDE DEF g, Body
<1>8. BM!LeftMost = Body(BM!LeftMost)
  BY <1>4, <1>7, Zenon
<1> QED BY <1>8, TreeNames DEF Body

\* Its key and value are those of some node of the tree.
LEMMA LeftMostIsBelow ==
    \A t \in Trees \ {NULL} :
        /\ BM!LeftMost[t].key \in KeysOf(t) /\ BM!LeftMost[t].key \in Keys
        /\ BM!LeftMost[t].value \in Values \cup {NULL}
        /\ t.left # NULL => BM!LeftMost[t].key \in KeysOf(t.left)
<1> DEFINE S == {t \in Trees : t # NULL => /\ BM!LeftMost[t].key \in KeysOf(t) /\ BM!LeftMost[t].key \in Keys
                                           /\ BM!LeftMost[t].value \in Values \cup {NULL}}
<1>1. NULL \in S
  BY NullIsTree
<1>2. ASSUME NEW t \in Trees \ {NULL}, t.left \in S, t.right \in S PROVE t \in S
  <2>1. BM!LeftMost[t] = IF t.left = NULL THEN t ELSE BM!LeftMost[t.left]
    BY LeftMostRecurses
  <2>2. KeysOf(t) = {t.key} \cup KeysOf(t.left) \cup KeysOf(t.right)
    BY KeysRecurse
  <2>3. t.key \in Keys /\ t.value \in Values \cup {NULL}
    BY NodeOfTree
  <2> QED BY <1>2, <2>1, <2>2, <2>3
<1>3. Trees \subseteq S
  <2> HIDE DEF S
  <2> QED BY <1>1, <1>2, TreeInduction
<1>4. \A t \in Trees \ {NULL} : t.left # NULL => BM!LeftMost[t].key \in KeysOf(t.left)
  BY <1>3, LeftMostRecurses, NodeOfTree
<1> QED BY <1>3, <1>4

\* What a deletion by address returns.
Deleted(tree, released) == [tree |-> tree, released |-> released]

\* One step of it, with the results for the children.
BstDeleteStep(t, key, l, r) ==
    IF t = NULL THEN Deleted(NULL, {})
    ELSE IF key < t.key THEN [l[key] EXCEPT !.tree = [t EXCEPT !.left = l[key].tree]]
    ELSE IF key > t.key THEN [r[key] EXCEPT !.tree = [t EXCEPT !.right = r[key].tree]]
    ELSE IF t.left = NULL THEN Deleted(t.right, {key})
    ELSE IF t.right = NULL THEN Deleted(t.left, {key})
    ELSE LET succ == BM!LeftMost[t.right]
         IN  [r[succ.key] EXCEPT !.tree = Join(succ.key, succ.value, t.priority, t.left, r[succ.key].tree)]

\* The deletion by address exists and follows its step.
LEMMA BstDeleteRecurses ==
    \A t \in Trees, key \in Keys :
        BM!BstDelete[t][key] = BstDeleteStep(t, key, BM!BstDelete[t.left], BM!BstDelete[t.right])
<1> DEFINE W == [tree : AnyTree, released : SUBSET Keys]
           V == [Keys -> W]
           Step(f, t) == [key \in Keys |-> BstDeleteStep(t, key, f[t.left], f[t.right])]
           step == [p \in Trees \X [Trees -> V] |-> Step(p[2], p[1])]
           Body(f) == [t \in BM!Trees |-> [key \in Keys |->
              IF t = NULL THEN [tree |-> NULL, released |-> {}]
              ELSE IF key < t.key
              THEN [f[t.left][key] EXCEPT !.tree = [t EXCEPT !.left = f[t.left][key].tree]]
              ELSE IF key > t.key
              THEN [f[t.right][key] EXCEPT !.tree = [t EXCEPT !.right = f[t.right][key].tree]]
              ELSE IF t.left = NULL THEN [tree |-> t.right, released |-> {key}]
              ELSE IF t.right = NULL THEN [tree |-> t.left, released |-> {key}]
              ELSE [f[t.right][BM!LeftMost[t.right].key] EXCEPT
                       !.tree = [key |-> BM!LeftMost[t.right].key,
                                 value |-> BM!LeftMost[t.right].value,
                                 priority |-> t.priority, left |-> t.left,
                                 right |-> f[t.right][BM!LeftMost[t.right].key].tree]]]]
<1>1. BM!BstDelete = CHOOSE f : f = Body(f)
  BY DEF BM!BstDelete
<1>2. \A f : Body(f) = [t \in Trees |-> Step(f, t)]
  BY TreeNames DEF BstDeleteStep, Deleted, Join
<1>3. ASSUME NEW t \in Trees, NEW f \in [Trees -> V] PROVE Step(f, t) \in V
  <2> SUFFICES ASSUME NEW key \in Keys PROVE BstDeleteStep(t, key, f[t.left], f[t.right]) \in W
    OBVIOUS
  <2>1. CASE t = NULL
    BY <2>1, AnyTreeIsNode DEF BstDeleteStep, Deleted
  <2>2. CASE t # NULL
    <3>1. /\ t \in AnyNode /\ t.left \in Trees /\ t.right \in Trees /\ t.left \in AnyTree /\ t.right \in AnyTree
          /\ t.key \in Keys /\ t.value \in Values \cup {NULL} /\ t.priority \in Nat
          /\ t = Join(t.key, t.value, t.priority, t.left, t.right)
      BY <2>2, NodeOfTree, AnyTreeIsNode
    <3>2. ASSUME NEW d \in W, NEW k \in Keys, NEW v \in Values \cup {NULL}
          PROVE  /\ [d EXCEPT !.tree = [t EXCEPT !.left = d.tree]] \in W
                 /\ [d EXCEPT !.tree = [t EXCEPT !.right = d.tree]] \in W
                 /\ [d EXCEPT !.tree = Join(k, v, t.priority, t.left, d.tree)] \in W
      <4>1. /\ Join(t.key, t.value, t.priority, d.tree, t.right) \in AnyTree
            /\ Join(t.key, t.value, t.priority, t.left, d.tree) \in AnyTree
            /\ Join(k, v, t.priority, t.left, d.tree) \in AnyTree
        BY <3>1, JoinIsNode, AnyTreeIsNode
      <4>2. /\ [t EXCEPT !.left = d.tree] = Join(t.key, t.value, t.priority, d.tree, t.right)
            /\ [t EXCEPT !.right = d.tree] = Join(t.key, t.value, t.priority, t.left, d.tree)
        BY <3>1, EditedNode
      <4>4. d \in [tree : AnyTree, released : SUBSET Keys]
        OBVIOUS
      <4>5. \A x \in AnyTree : [d EXCEPT !.tree = x] \in [tree : AnyTree, released : SUBSET Keys]
        BY <4>4
      <4> QED BY <4>1, <4>2, <4>5
    <3>3. \A k \in Keys : f[t.left][k] \in W /\ f[t.right][k] \in W
      <4>1. f[t.left] \in V /\ f[t.right] \in V
        BY <3>1
      <4> QED BY <4>1
    <3>4. t.right # NULL => BM!LeftMost[t.right].key \in Keys /\ BM!LeftMost[t.right].value \in Values \cup {NULL}
      BY <3>1, LeftMostIsBelow
    <3>5. Deleted(t.right, {key}) \in W /\ Deleted(t.left, {key}) \in W
      BY <3>1 DEF Deleted
    <3> HIDE DEF W
    <3> QED BY <2>2, <3>2, <3>3, <3>4, <3>5 DEF BstDeleteStep
  <2> QED BY <2>1, <2>2
<1>4. ASSUME NEW t \in Trees, NEW f \in [Trees -> V], NEW g \in [Trees -> V],
             \A u \in Trees : Size(u) < Size(t) => f[u] = g[u]
      PROVE  Step(f, t) = Step(g, t)
  <2>1. CASE t = NULL
    BY <2>1 DEF BstDeleteStep
  <2>2. CASE t # NULL
    <3>1. f[t.left] = g[t.left] /\ f[t.right] = g[t.right]
      BY <1>4, <2>2, ChildrenSmaller
    <3> QED BY <3>1
  <2> QED BY <2>1, <2>2
<1>5. V # {}
  <2>1. Deleted(NULL, {}) \in W
    BY AnyTreeIsNode DEF Deleted
  <2>2. [k \in Keys |-> Deleted(NULL, {})] \in V
    BY <2>1
  <2> QED BY <2>2
<1> HIDE DEF V, Step, Body
<1>6. PICK f \in [Trees -> V] : \A t \in Trees : f[t] = step[<<t, f>>]
  <2>1. step \in [Trees \X [Trees -> V] -> V]
    BY <1>3
  <2>2. \A t \in Trees, h \in [Trees -> V] : step[<<t, h>>] = Step(h, t)
    OBVIOUS
  <2> HIDE DEF step
  <2>3. Recursive(step, V)
    BY <1>4, <1>5, <2>1, <2>2 DEF Recursive
  <2> QED BY <2>3, TreeRecursion
<1>7. f = [t \in Trees |-> Step(f, t)]
  BY <1>6
<1>8. BM!BstDelete = [t \in Trees |-> Step(BM!BstDelete, t)]
  <2>1. f = Body(f)
    BY <1>2, <1>7, Zenon
  <2>2. BM!BstDelete = Body(BM!BstDelete)
    BY <1>1, <2>1, Zenon
  <2> QED BY <1>2, <2>2, Zenon
<1>9. \A t \in Trees : BM!BstDelete[t] = Step(BM!BstDelete, t)
  BY <1>8, Zenon
<1> QED BY <1>9 DEF Step

\* The deletion leaves a tree without the key as it is ...
LEMMA BstDeleteMisses ==
    \A t \in Trees, key \in Keys : key \notin KeysOf(t) => BM!BstDelete[t][key] = Deleted(t, {})
<1> DEFINE S == {t \in Trees : \A key \in Keys : key \notin KeysOf(t) => BM!BstDelete[t][key] = Deleted(t, {})}
<1>1. NULL \in S
  BY NullIsTree, BstDeleteRecurses DEF BstDeleteStep
<1>2. ASSUME NEW t \in Trees \ {NULL}, t.left \in S, t.right \in S PROVE t \in S
  <2> SUFFICES ASSUME NEW key \in Keys, key \notin KeysOf(t) PROVE BM!BstDelete[t][key] = Deleted(t, {})
    OBVIOUS
  <2>1. KeysOf(t) = {t.key} \cup KeysOf(t.left) \cup KeysOf(t.right)
    BY KeysRecurse
  <2>2. BM!BstDelete[t.left][key] = Deleted(t.left, {}) /\ BM!BstDelete[t.right][key] = Deleted(t.right, {})
    BY <1>2, <2>1
  <2>3. t \in AnyNode /\ t = Join(t.key, t.value, t.priority, t.left, t.right) /\ t.key \in Nat /\ key \in Nat
    BY AnyTreeIsNode, NodeFields, KeysAssumption
  <2>4. [t EXCEPT !.left = t.left] = t /\ [t EXCEPT !.right = t.right] = t
    BY <2>3, EditedNode
  <2>5. key < t.key \/ key > t.key
    BY <2>1, <2>3
  <2>6. BM!BstDelete[t][key] = BstDeleteStep(t, key, BM!BstDelete[t.left], BM!BstDelete[t.right])
    BY BstDeleteRecurses
  <2> QED BY <2>2, <2>4, <2>5, <2>6 DEF BstDeleteStep, Deleted
<1>3. Trees \subseteq S
  <2> HIDE DEF S
  <2> QED BY <1>1, <1>2, TreeInduction
<1> QED BY <1>3

\* ... and with it a search tree that holds the key below the root, because it goes
\* the other way.
LEMMA BstDeleteMissesBelow ==
    ASSUME NEW t \in OrderedTrees, NEW key \in Keys, ~ (t # NULL /\ t.key = key)
    PROVE  BM!BstDelete[t][key] = Deleted(t, {})
<1>1. t \in Trees
  BY DEF OrderedTrees
<1>2. CASE t = NULL
  BY <1>1, <1>2, BstDeleteMisses, NullIsOrdered
<1>3. CASE t # NULL
  <2>1. /\ t \in AnyNode /\ t = Join(t.key, t.value, t.priority, t.left, t.right)
        /\ t.key \in Nat /\ key \in Nat /\ t.left \in Trees /\ t.right \in Trees
        /\ \A x \in KeysOf(t.left) : x > t.key
        /\ \A x \in KeysOf(t.right) : x < t.key
    BY <1>3, OrderedNode DEF OrderedTrees
  <2>2. [t EXCEPT !.left = t.left] = t /\ [t EXCEPT !.right = t.right] = t
    BY <2>1, EditedNode
  <2>3. BM!BstDelete[t][key] = BstDeleteStep(t, key, BM!BstDelete[t.left], BM!BstDelete[t.right])
    BY <1>1, BstDeleteRecurses
  <2>4. key < t.key => BM!BstDelete[t.left][key] = Deleted(t.left, {})
    <3>1. key < t.key => key \notin KeysOf(t.left)
      BY <2>1
    <3> QED BY <2>1, <3>1, BstDeleteMisses
  <2>5. key > t.key => BM!BstDelete[t.right][key] = Deleted(t.right, {})
    <3>1. key > t.key => key \notin KeysOf(t.right)
      BY <2>1
    <3> QED BY <2>1, <3>1, BstDeleteMisses
  <2>6. CASE key < t.key
    BY <1>3, <2>2, <2>3, <2>4, <2>6 DEF BstDeleteStep, Deleted
  <2>7. CASE key > t.key
    <3>1. ~ (key < t.key)
      BY <2>1, <2>7
    <3> QED BY <1>3, <2>2, <2>3, <2>5, <2>7, <3>1 DEF BstDeleteStep, Deleted
  <2>8. key < t.key \/ key > t.key
    BY <1>3, <2>1
  <2> QED BY <2>6, <2>7, <2>8
<1> QED BY <1>2, <1>3

\* At a root with one child at most it removes the root.
LEMMA BstDeleteRemoves ==
    ASSUME NEW t \in OrderedTrees, t # NULL, t.left = NULL \/ t.right = NULL
    PROVE  /\ BM!BstDelete[t][t.key] = Deleted(IF t.left = NULL THEN t.right ELSE t.left, {t.key})
           /\ Removed(IF t.left = NULL THEN t.right ELSE t.left, t, t.key)
<1>1. t \in Trees /\ t.key \in Keys /\ t.key \in Nat
  BY OrderedNode
<1>2. BM!BstDelete[t][t.key] = BstDeleteStep(t, t.key, BM!BstDelete[t.left], BM!BstDelete[t.right])
  BY <1>1, BstDeleteRecurses
<1>3. ~ (t.key < t.key)
  BY <1>1
<1>4. BM!BstDelete[t][t.key] = Deleted(IF t.left = NULL THEN t.right ELSE t.left, {t.key})
  BY <1>2, <1>3 DEF BstDeleteStep
<1> QED BY <1>4, RemovedBesideNull

\* At a root with two children it damages the map: the root takes over the key of a
\* node that is released, or that stays where it is.
LEMMA BstDeleteDamages ==
    ASSUME NEW t \in OrderedTrees, t # NULL, t.left # NULL, t.right # NULL
    PROVE  BM!Damaged(BM!BstDelete[t][t.key].tree, BM!BstDelete[t][t.key].released)
<1> DEFINE succ == BM!LeftMost[t.right]
           r == BM!BstDelete[t.right][succ.key]
           d == BM!BstDelete[t][t.key]
           u == Join(succ.key, succ.value, t.priority, t.left, r.tree)
<1>1. /\ t \in Trees /\ t.key \in Keys /\ t.key \in Nat /\ t.priority \in Nat /\ Keys \subseteq Nat
      /\ t = Join(t.key, t.value, t.priority, t.left, t.right)
      /\ t.left \in OrderedTrees /\ t.right \in OrderedTrees /\ t.left \in Trees /\ t.right \in Trees
      /\ \A x \in KeysOf(t.left) : x > t.key
      /\ \A x \in KeysOf(t.right) : x < t.key
  BY OrderedNode DEF OrderedTrees
<1>2. /\ succ.key \in KeysOf(t.right) /\ succ.key \in Keys /\ succ.value \in Values \cup {NULL}
      /\ t.right.left = NULL => succ = t.right
      /\ t.right.left # NULL => succ.key \in KeysOf(t.right.left)
  BY <1>1, LeftMostIsBelow, LeftMostRecurses
<1>3. d = [r EXCEPT !.tree = u]
  <2>1. d = BstDeleteStep(t, t.key, BM!BstDelete[t.left], BM!BstDelete[t.right])
    BY <1>1, BstDeleteRecurses
  <2>2. ~ (t.key < t.key)
    BY <1>1
  <2> QED BY <2>1, <2>2 DEF BstDeleteStep
<1> HIDE DEF succ, r, d
<1>5. /\ t.right.key \in Nat /\ t.right.left \in OrderedTrees /\ t.right.right \in OrderedTrees
      /\ \A x \in KeysOf(t.right.left) : x > t.right.key
      /\ \A x \in KeysOf(t.right.right) : x < t.right.key
      /\ KeysOf(t.right) = {t.right.key} \cup KeysOf(t.right.left) \cup KeysOf(t.right.right)
  BY <1>1, OrderedNode, OrderedNodeHolds
<1>6. CASE t.right.left = NULL
  <2>1. r = Deleted(t.right.right, {succ.key})
    BY <1>1, <1>2, <1>6, BstDeleteRemoves DEF r
  <2>2. d.tree = Join(succ.key, succ.value, t.priority, t.left, t.right.right) /\ d.released = {succ.key}
    BY <1>3, <2>1 DEF Deleted
  <2>3. Joined(d.tree, succ.key, succ.value, t.priority, t.left, t.right.right)
    <3>1. KeysOf(t.left) \subseteq Nat
      BY <1>1, KeysAreBound
    <3>2. \A x \in KeysOf(t.left) : x > succ.key
      BY <1>1, <1>2, <3>1
    <3>3. succ.key = t.right.key
      BY <1>2, <1>6
    <3>4. CanJoin(succ.key, succ.value, t.priority, t.left, t.right.right)
      BY <1>1, <1>2, <1>5, <3>2, <3>3 DEF CanJoin
    <3> QED BY <2>2, <3>4, OrderedJoin
  <2>4. succ.key \in KeysOf(d.tree)
    BY <2>3 DEF Joined
  <2> QED BY <2>2, <2>4, TreeNames DEF BM!Damaged, d
<1>7. CASE t.right.left # NULL
  <2>1. r = Deleted(t.right, {})
    <3>1. succ.key # t.right.key
      BY <1>2, <1>5, <1>7
    <3> QED BY <1>1, <1>2, <3>1, BstDeleteMissesBelow DEF r
  <2>2. d.tree = Join(succ.key, succ.value, t.priority, t.left, t.right)
    BY <1>3, <2>1 DEF Deleted
  <2> DEFINE w == d.tree  L == KeysOf(t.left)  R == KeysOf(t.right)
  <2>3. w.key = succ.key /\ w.left = t.left /\ w.right = t.right
    BY <2>2, JoinFields
  <2>4. w \in Trees /\ w # NULL
    <3>1. Height # 0
      BY <1>1, HeightIsNat, LevelsRecurse
    <3>2. Height - 1 \in Nat /\ (Height - 1) + 1 = Height
      BY <3>1, HeightIsNat
    <3>3. t.left \in TreesUpTo(Height - 1) /\ t.right \in TreesUpTo(Height - 1)
      BY <1>1, <3>2, HeightIsNat, NodeOfLevel
    <3>4. w \in NodesOver(TreesUpTo(Height - 1))
      BY <1>1, <1>2, <2>2, <3>3 DEF NodesOver, Join
    <3>5. w \in NodesOver(Trees)
      BY <1>1, <1>2, <2>2 DEF NodesOver, Join
    <3> QED BY <3>2, <3>4, <3>5, LevelsRecurse, HeightIsNat, TreesAssumption
  <2> HIDE DEF w, L, R
  <2>5. KeysOf(w) = L \cup R
    <3>1. KeysOf(w) = {succ.key} \cup L \cup R
      BY <2>3, <2>4, KeysRecurse DEF L, R
    <3> QED BY <1>2, <3>1 DEF R
  <2>6. Size(w) = 1 + Cardinality(L) + Cardinality(R)
    <3>1. Size(w) = 1 + Size(t.left) + Size(t.right)
      BY <2>3, <2>4, SizeRecurses
    <3> QED BY <1>1, <3>1, OrderedSize DEF L, R
  <2>7. IsFiniteSet(L) /\ IsFiniteSet(R) /\ Cardinality(L) \in Nat /\ Cardinality(R) \in Nat
    BY <1>1, KeysAreBound, FS_CardinalityType DEF L, R
  <2>8. Cardinality(L \cup R) <= Cardinality(L) + Cardinality(R) /\ Cardinality(L \cup R) \in Nat
    <3>1. /\ IsFiniteSet(L \cup R)
          /\ Cardinality(L \cup R) = Cardinality(L) + Cardinality(R) - Cardinality(L \cap R)
      BY <2>7, FS_Union
    <3>2. Cardinality(L \cap R) \in Nat /\ Cardinality(L \cup R) \in Nat
      BY <2>7, <3>1, FS_Subset, FS_CardinalityType
    <3> QED BY <2>7, <3>1, <3>2
  <2>9. Cardinality(KeysOf(w)) < Size(w)
    BY <2>5, <2>6, <2>7, <2>8
  <2> QED BY <2>9, TreeNames DEF BM!Damaged, d, w
<1> QED BY <1>6, <1>7

\* A new node is a node with two empty children.
LEMMA NodeIsNode ==
    ASSUME NEW k \in Keys, NEW v \in Values \cup {NULL}, NEW p \in Nat
    PROVE  /\ Node(k, v, p) \in AnyNode /\ Node(k, v, p) = Join(k, v, p, NULL, NULL)
           /\ Node(k, v, p).key = k /\ Node(k, v, p).value = v /\ Node(k, v, p).priority = p
<1>1. Node(k, v, p) = Join(k, v, p, NULL, NULL)
  BY DEF Node, Join
<1> QED BY <1>1, JoinIsNode, JoinFields, AnyTreeIsNode

\* A search tree whose nodes all have a value, ordered as a heap.
GoodMap(t) == t \in OrderedTrees /\ HeapOrdered(t) /\ \A b \in Bindings(t) : b[2] \in Values

\* What the search answers.
Answer(t, k) == IF Find(t, k) = NULL THEN NULL ELSE Find(t, k).value

\* The search answers with the value that the tree binds to the key.
LEMMA BindingAnswers ==
    ASSUME NEW t, GoodMap(t), NEW k \in Keys
    PROVE  /\ k \notin KeysOf(t) <=> Answer(t, k) = NULL
           /\ \A v \in Values : <<k, v>> \in Bindings(t) <=> Answer(t, k) = v
           /\ Answer(t, k) \in Values \cup {NULL}
<1>1. /\ t \in OrderedTrees
      /\ \A v : <<k, v>> \in Bindings(t) => v \in Values
  BY DEF GoodMap
<1>2. /\ Find(t, k) # NULL <=> k \in KeysOf(t)
      /\ Find(t, k) # NULL => /\ <<k, Find(t, k).value>> \in Bindings(t)
                              /\ \A v : <<k, v>> \in Bindings(t) => v = Find(t, k).value
  BY <1>1, FindBinds
<1>3. \A v : <<k, v>> \in Bindings(t) => k \in KeysOf(t)
  BY <1>1, KeysAreBound DEF OrderedTrees
<1> QED BY <1>1, <1>2, <1>3, KeysAssumption DEF Answer

\* A tree with one binding replaced answers as before, but for that key.
LEMMA PutAnswers ==
    ASSUME NEW t, NEW r, GoodMap(t), GoodMap(r), NEW k \in Keys, NEW v \in Values,
           Bindings(r) = {<<k, v>>} \cup {b \in Bindings(t) : b[1] # k}, NEW x \in Keys
    PROVE  Answer(r, x) = IF x = k THEN v ELSE Answer(t, x)
<1>1. \A w \in Values : <<x, w>> \in Bindings(r) <=> (IF x = k THEN w = v ELSE <<x, w>> \in Bindings(t))
  OBVIOUS
<1>2. CASE x = k
  BY <1>1, <1>2, BindingAnswers
<1>3. CASE x # k
  <2>1. \A w \in Values : Answer(r, x) = w <=> Answer(t, x) = w
    BY <1>1, <1>3, BindingAnswers
  <2>2. Answer(r, x) \in Values \cup {NULL} /\ Answer(t, x) \in Values \cup {NULL}
    BY BindingAnswers
  <2> QED BY <1>3, <2>1, <2>2
<1> QED BY <1>2, <1>3

\* A tree with one binding removed answers as before, but for that key.
LEMMA RemoveAnswers ==
    ASSUME NEW t, NEW r, GoodMap(t), GoodMap(r), NEW k \in Keys,
           Bindings(r) = {b \in Bindings(t) : b[1] # k}, NEW x \in Keys
    PROVE  Answer(r, x) = IF x = k THEN NULL ELSE Answer(t, x)
<1>1. \A w \in Values : <<x, w>> \in Bindings(r) <=> (x # k /\ <<x, w>> \in Bindings(t))
  OBVIOUS
<1>2. /\ Answer(r, x) \in Values \cup {NULL} /\ Answer(t, x) \in Values \cup {NULL}
      /\ \A w \in Values : <<x, w>> \in Bindings(r) <=> Answer(r, x) = w
      /\ \A w \in Values : <<x, w>> \in Bindings(t) <=> Answer(t, x) = w
  BY BindingAnswers
<1>3. CASE x = k
  BY <1>1, <1>2, <1>3
<1>4. CASE x # k
  BY <1>1, <1>2, <1>4
<1> QED BY <1>3, <1>4

-----------------------------------------------------------------------------
\* What the operations of the containers do to their trees.
LEMMA SizesMove ==
    ASSUME NEW t \in OrderedTrees, NEW r \in OrderedTrees, NEW k
    PROVE  /\ Size(t) \in Nat /\ Size(t) = Cardinality(KeysOf(t))
           /\ KeysOf(r) = {k} \cup KeysOf(t) => Size(r) = Size(t) + (IF k \in KeysOf(t) THEN 0 ELSE 1)
           /\ KeysOf(r) = KeysOf(t) \ {k} => Size(r) = Size(t) - (IF k \in KeysOf(t) THEN 1 ELSE 0)
           /\ k \in KeysOf(t) => Size(t) > 0
<1>1. /\ IsFiniteSet(KeysOf(t)) /\ Size(t) \in Nat /\ Size(r) \in Nat
      /\ Size(t) = Cardinality(KeysOf(t)) /\ Size(r) = Cardinality(KeysOf(r))
  BY KeysAreBound, OrderedSize, SizeIsNat DEF OrderedTrees
<1>2. {k} \cup KeysOf(t) = KeysOf(t) \cup {k}
  OBVIOUS
<1>3. /\ Cardinality(KeysOf(t) \cup {k}) = IF k \in KeysOf(t) THEN Cardinality(KeysOf(t)) ELSE Cardinality(KeysOf(t)) + 1
      /\ Cardinality(KeysOf(t) \ {k}) = IF k \in KeysOf(t) THEN Cardinality(KeysOf(t)) - 1 ELSE Cardinality(KeysOf(t))
  BY <1>1, FS_AddElement, FS_RemoveElement
<1>4. k \in KeysOf(t) => Size(t) > 0
  BY <1>1, FS_EmptySet
<1> QED BY <1>1, <1>2, <1>3, <1>4

\* An insertion into the set adds the key.
LEMMA SetInserts ==
    ASSUME NEW t \in OrderedTrees, HeapOrdered(t), NEW k \in Keys, NEW p \in Nat,
           NEW r, r = TS!SetInsertRec(t, TS!Node(k, NULL, p))
    PROVE  r \in OrderedTrees /\ HeapOrdered(r) /\ KeysOf(r) = {k} \cup KeysOf(t)
<1> DEFINE new == Node(k, NULL, p)
<1>1. new \in AnyNode /\ new = Join(new.key, new.value, new.priority, NULL, NULL) /\ new.key = k
  BY NodeIsNode
<1>2. r = TS!SetInsertRec(t, new)
  BY TreeNames
<1> HIDE DEF new
<1>3. PICK f : IsInsertion(f, new, TRUE, TRUE) /\ \A u : TS!SetInsertRec(u, new) = f[u]
  BY <1>1, SetInsertIsInsertion
<1>4. Inserted(f[t], t, new, TRUE) /\ HeapGrown(f[t], t)
  BY <1>1, <1>3, InsertionInserts
<1> QED BY <1>1, <1>2, <1>3, <1>4 DEF Inserted, HeapGrown

\* An erasure from the set removes it.
LEMMA SetErases ==
    ASSUME NEW t \in OrderedTrees, HeapOrdered(t), NEW k \in Keys, NEW r, r = TS!SetEraseRec(t, k)
    PROVE  r \in OrderedTrees /\ HeapOrdered(r) /\ KeysOf(r) = KeysOf(t) \ {k}
<1>1. PICK f : IsDeletion(f, k, TRUE) /\ \A u : TS!SetEraseRec(u, k) = f[u]
  BY SetEraseIsDeletion
<1>2. Removed(f[t], t, k)
  BY <1>1, DeletionRemoves
<1> QED BY <1>1, <1>2 DEF Removed

\* An insertion into the map binds the key to the value.
LEMMA MapInserts ==
    ASSUME NEW t, GoodMap(t), NEW k \in Keys, NEW v \in Values, NEW p \in Nat,
           NEW r, \/ r = TM!NodeInsert(t, TM!Node(k, v, p))
                  \/ r = BM!BstInsertRec(t, BM!Node(k, v, 0))
    PROVE  /\ GoodMap(r) /\ KeysOf(r) = {k} \cup KeysOf(t)
           /\ Bindings(r) = {<<k, v>>} \cup {b \in Bindings(t) : b[1] # k}
<1>1. t \in OrderedTrees /\ HeapOrdered(t) /\ \A b \in Bindings(t) : b[2] \in Values
  BY DEF GoodMap
<1>2. CASE r = TM!NodeInsert(t, TM!Node(k, v, p))
  <2> DEFINE new == Node(k, v, p)
  <2>1. new \in AnyNode /\ new = Join(new.key, new.value, new.priority, NULL, NULL) /\ new.key = k /\ new.value = v
    BY NodeIsNode
  <2>2. r = TM!NodeInsert(t, new)
    BY <1>2, TreeNames
  <2> HIDE DEF new
  <2>3. PICK f : IsInsertion(f, new, TRUE, FALSE) /\ \A u : TM!NodeInsert(u, new) = f[u]
    BY <2>1, NodeInsertIsInsertion
  <2>4. Inserted(f[t], t, new, FALSE) /\ HeapGrown(f[t], t)
    BY <1>1, <2>1, <2>3, InsertionInserts
  <2> QED BY <1>1, <2>1, <2>2, <2>3, <2>4 DEF Inserted, HeapGrown, GoodMap
<1>3. CASE r = BM!BstInsertRec(t, BM!Node(k, v, 0))
  <2> DEFINE new == Node(k, v, 0)
  <2>1. /\ new \in AnyNode /\ new = Join(new.key, new.value, new.priority, NULL, NULL)
        /\ new.key = k /\ new.value = v /\ new.priority = 0
    BY NodeIsNode
  <2>2. r = BM!BstInsertRec(t, new)
    BY <1>3, TreeNames
  <2> HIDE DEF new
  <2>3. PICK f : IsInsertion(f, new, FALSE, FALSE) /\ \A u : BM!BstInsertRec(u, new) = f[u]
    BY <2>1, BstInsertIsInsertion
  <2>4. Inserted(f[t], t, new, FALSE) /\ HeapOrdered(f[t])
    BY <1>1, <2>1, <2>3, InsertionInserts
  <2> QED BY <1>1, <2>1, <2>2, <2>3, <2>4 DEF Inserted, GoodMap
<1> QED BY <1>2, <1>3

\* The map's deletions remove a key at the root, and miss it anywhere else.
Holds(t, k) == t # NULL /\ t.key = k

LEMMA RemovedIsGood ==
    ASSUME NEW t, GoodMap(t), NEW k \in Keys, NEW r, Removed(r, t, k)
    PROVE  /\ GoodMap(r) /\ KeysOf(r) = KeysOf(t) \ {k}
           /\ Bindings(r) = {b \in Bindings(t) : b[1] # k}
BY DEF GoodMap, Removed

\* Over the treap the map's erasure removes the root or nothing.
LEMMA MapErases ==
    ASSUME NEW t, GoodMap(t), NEW k \in Keys, NEW r, r = TM!NodeDelete(t, k)
    PROVE  /\ ~ Holds(t, k) => r = t
           /\ Holds(t, k) => Removed(r, t, k) /\ k \in KeysOf(t)
<1>1. PICK f : IsDeletion(f, k, FALSE) /\ \A u : TM!NodeDelete(u, k) = f[u]
  BY NodeDeleteIsDeletion
<1>2. t \in OrderedTrees
  BY DEF GoodMap
<1>3. ~ Holds(t, k) => r = t
  BY <1>1, <1>2, DeletionMissesBelow DEF Holds
<1>4. ASSUME Holds(t, k) PROVE Removed(r, t, k) /\ k \in KeysOf(t)
  <2>1. Removed(f[t], t, k)
    BY <1>1, <1>2, <1>4, DeletionRemoves DEF Holds
  <2> QED BY <1>1, <1>2, <1>4, <2>1, OrderedNodeHolds DEF Holds
<1> QED BY <1>3, <1>4

\* Over the plain tree with kept keys it may damage the map instead.
LEMMA BstErases ==
    ASSUME NEW t, GoodMap(t), NEW k \in Keys, NEW d, d = BM!BstDelete[t][k]
    PROVE  /\ ~ Holds(t, k) => d.tree = t /\ d.released = {} /\ ~ BM!Damaged(d.tree, d.released)
           /\ Holds(t, k) /\ (t.left = NULL \/ t.right = NULL) =>
                 /\ Removed(d.tree, t, k) /\ k \in KeysOf(t) /\ d.released = {k}
                 /\ ~ BM!Damaged(d.tree, d.released)
           /\ Holds(t, k) /\ t.left # NULL /\ t.right # NULL => BM!Damaged(d.tree, d.released)
<1>1. t \in OrderedTrees
  BY DEF GoodMap
<1>2. ASSUME NEW u \in OrderedTrees, NEW R, KeysOf(u) \cap R = {} PROVE ~ BM!Damaged(u, R)
  <2>1. Size(u) = Cardinality(KeysOf(u)) /\ Size(u) \in Nat
    BY OrderedSize, SizeIsNat DEF OrderedTrees
  <2>2. ~ (Cardinality(KeysOf(u)) < Size(u))
    BY <2>1
  <2> QED BY <1>2, <2>2, TreeNames DEF BM!Damaged
<1>3. ASSUME ~ Holds(t, k) PROVE d.tree = t /\ d.released = {} /\ ~ BM!Damaged(d.tree, d.released)
  <2>1. d = Deleted(t, {})
    BY <1>1, <1>3, BstDeleteMissesBelow DEF Holds
  <2>2. d.tree = t /\ d.released = {}
    BY <2>1 DEF Deleted
  <2> QED BY <1>1, <1>2, <2>2
<1>4. ASSUME Holds(t, k), t.left = NULL \/ t.right = NULL
      PROVE  /\ Removed(d.tree, t, k) /\ k \in KeysOf(t) /\ d.released = {k}
             /\ ~ BM!Damaged(d.tree, d.released)
  <2> DEFINE r == IF t.left = NULL THEN t.right ELSE t.left
  <2>1. d = Deleted(r, {k}) /\ Removed(r, t, k)
    BY <1>1, <1>4, BstDeleteRemoves DEF Holds
  <2> HIDE DEF r
  <2>2. d.tree = r /\ d.released = {k}
    BY <2>1 DEF Deleted
  <2>3. r \in OrderedTrees /\ KeysOf(r) \cap {k} = {}
    BY <2>1 DEF Removed
  <2>4. k \in KeysOf(t)
    BY <1>1, <1>4, OrderedNodeHolds DEF Holds
  <2> QED BY <1>2, <2>1, <2>2, <2>3, <2>4
<1>5. ASSUME Holds(t, k), t.left # NULL, t.right # NULL PROVE BM!Damaged(d.tree, d.released)
  BY <1>1, <1>5, BstDeleteDamages DEF Holds
<1> QED BY <1>3, <1>4, <1>5

-----------------------------------------------------------------------------
(* The steps of the client.                                                 *)

TreeContainers == TreeMaps \cup {"set"}

\* The containers over trees, until one of them is damaged: search trees that are
\* heaps, a size that counts the nodes, a value in every node of a map.
TreeInv ==
    /\ container \in Containers
    /\ set_root \in OrderedTrees /\ HeapOrdered(set_root) /\ set_sz = Size(set_root)
    /\ status # "damaged" => GoodMap(map_root)
    /\ status = "usable" /\ container \in TreeContainers => blocks \in Int

\* The empty map.
LEMMA NullIsGood == GoodMap(NULL) /\ Size(NULL) = 0
BY NullIsOrdered, SizeRecurses DEF GoodMap

LEMMA TreeInvStarts == Init => TreeInv
<1> SUFFICES ASSUME Init PROVE TreeInv
  OBVIOUS
<1>1. set_root = NULL /\ set_sz = 0 /\ map_root = NULL /\ container \in Containers
  BY DEF Init, TS!SetInit, TM!MapInit
<1>2. container \in TreeContainers => blocks \in Int
  <2>1. container \in TreeContainers => blocks = 1 + 2 * Size(NULL) \/ blocks = 1 + 3 * Size(NULL)
    BY <1>1 DEF Init, Reachable, TreeContainers, TreeMaps
  <2> QED BY <2>1, NullIsGood
<1> QED BY <1>1, <1>2, NullIsGood, NullIsOrdered DEF TreeInv

\* The lookups in terms of the trees.
LEMMA SetContainsIsKey == TreeInv => \A k \in Keys : TS!SetContains(k) <=> k \in KeysOf(set_root)
BY TreeNames, FindBinds DEF TreeInv, TS!SetContains

LEMMA MapFindIsAnswer == \A k : TM!MapFind(k) = Answer(map_root, k) /\ BM!MapFind(k) = Answer(map_root, k)
BY TreeNames DEF TM!MapFind, BM!MapFind, Answer

\* The steps of the client, one kind of container at a time.
LEMMA SetSteps ==
    ASSUME TreeInv, container = "set", NEW k \in Keys
    PROVE  /\ \A v \in Values, p \in Priorities : Insert(k, v, p) =>
                 /\ KeysOf(set_root') = {k} \cup KeysOf(set_root)
                 /\ set_root' \in OrderedTrees /\ HeapOrdered(set_root') /\ set_sz' = Size(set_root')
                 /\ blocks \in Int /\ blocks' \in Int /\ blocks' - blocks = 2 * (Size(set_root') - Size(set_root))
                 /\ UNCHANGED <<container, map_root, status>>
           /\ Erase(k) =>
                 /\ KeysOf(set_root') = KeysOf(set_root) \ {k}
                 /\ set_root' \in OrderedTrees /\ HeapOrdered(set_root') /\ set_sz' = Size(set_root')
                 /\ blocks \in Int /\ blocks' \in Int /\ blocks' - blocks = 2 * (Size(set_root') - Size(set_root))
                 /\ UNCHANGED <<container, map_root, status>>
<1>1. /\ set_root \in OrderedTrees /\ HeapOrdered(set_root) /\ set_sz = Size(set_root)
      /\ TS!SetContains(k) <=> k \in KeysOf(set_root)
      /\ status = "usable" => blocks \in Int
  BY SetContainsIsKey DEF TreeInv, TreeContainers
<1>2. ASSUME NEW v \in Values, NEW p \in Priorities, Insert(k, v, p)
      PROVE  /\ KeysOf(set_root') = {k} \cup KeysOf(set_root)
             /\ set_root' \in OrderedTrees /\ HeapOrdered(set_root') /\ set_sz' = Size(set_root')
             /\ blocks \in Int /\ blocks' \in Int /\ blocks' - blocks = 2 * (Size(set_root') - Size(set_root))
             /\ UNCHANGED <<container, map_root, status>>
  <2>1. TS!SetInsert(k, p) /\ status = "usable" /\ UNCHANGED <<container, map_root, status>>
    BY <1>2 DEF Insert, Usable, TreeMaps
  <2>2. /\ set_root' = TS!SetInsertRec(set_root, TS!Node(k, NULL, p))
        /\ set_sz' = (IF TS!SetContains(k) THEN set_sz ELSE set_sz + 1)
        /\ blocks' = (IF TS!SetContains(k) THEN blocks ELSE blocks + 2)
    BY <2>1 DEF TS!SetInsert
  <2>3. p \in Nat
    BY TreesAssumption
  <2> DEFINE r == set_root'
  <2> HIDE DEF r
  <2>4. r = TS!SetInsertRec(set_root, TS!Node(k, NULL, p))
    BY <2>2 DEF r
  <2>5. r \in OrderedTrees /\ HeapOrdered(r) /\ KeysOf(r) = {k} \cup KeysOf(set_root)
    BY <1>1, <2>3, <2>4, SetInserts
  <2>6. Size(set_root) \in Nat /\ Size(r) = Size(set_root) + (IF k \in KeysOf(set_root) THEN 0 ELSE 1)
    BY <1>1, <2>5, SizesMove
  <2> QED BY <1>1, <2>1, <2>2, <2>5, <2>6 DEF r
<1>3. ASSUME Erase(k)
      PROVE  /\ KeysOf(set_root') = KeysOf(set_root) \ {k}
             /\ set_root' \in OrderedTrees /\ HeapOrdered(set_root') /\ set_sz' = Size(set_root')
             /\ blocks \in Int /\ blocks' \in Int /\ blocks' - blocks = 2 * (Size(set_root') - Size(set_root))
             /\ UNCHANGED <<container, map_root, status>>
  <2>1. TS!SetErase(k) /\ status = "usable" /\ UNCHANGED <<container, map_root, status>>
    BY <1>3 DEF Erase, Usable, TreeMaps
  <2>2. /\ set_root' = TS!SetEraseRec(set_root, k)
        /\ set_sz' = (IF TS!SetContains(k) /\ set_sz > 0 THEN set_sz - 1 ELSE set_sz)
        /\ blocks' = (IF TS!SetContains(k) THEN blocks - 2 ELSE blocks)
    BY <2>1 DEF TS!SetErase
  <2> DEFINE r == set_root'
  <2> HIDE DEF r
  <2>4. r = TS!SetEraseRec(set_root, k)
    BY <2>2 DEF r
  <2>5. r \in OrderedTrees /\ HeapOrdered(r) /\ KeysOf(r) = KeysOf(set_root) \ {k}
    BY <1>1, <2>4, SetErases
  <2>6. /\ Size(set_root) \in Nat /\ Size(r) = Size(set_root) - (IF k \in KeysOf(set_root) THEN 1 ELSE 0)
        /\ k \in KeysOf(set_root) => Size(set_root) > 0
    BY <1>1, <2>5, SizesMove
  <2> QED BY <1>1, <2>1, <2>2, <2>5, <2>6 DEF r
<1> QED BY <1>2, <1>3

\* An insertion into a map, with the two blocks an overwrite leaks.
LEMMA MapInsertStep ==
    ASSUME TreeInv, container \in TreeMaps,
           NEW k \in Keys, NEW v \in Values, NEW p \in Priorities, Insert(k, v, p)
    PROVE  /\ GoodMap(map_root) /\ GoodMap(map_root')
           /\ KeysOf(map_root') = {k} \cup KeysOf(map_root)
           /\ Bindings(map_root') = {<<k, v>>} \cup {b \in Bindings(map_root) : b[1] # k}
           /\ blocks \in Int /\ blocks' \in Int
           /\ blocks' - blocks = 3 * (Size(map_root') - Size(map_root))
                                 + (IF container # "bst_map_kept" /\ k \in KeysOf(map_root) THEN 2 ELSE 0)
           /\ UNCHANGED <<container, set_root, set_sz, status>>
<1>1. GoodMap(map_root) /\ blocks \in Int /\ status = "usable" /\ UNCHANGED <<container, set_root, set_sz, status>>
  BY DEF Insert, Usable, TreeInv, TreeMaps, TreeContainers, setVars
<1>2. /\ \/ map_root' = TM!NodeInsert(map_root, TM!Node(k, v, p))
         \/ map_root' = BM!BstInsertRec(map_root, BM!Node(k, v, 0))
      /\ blocks' = IF Answer(map_root, k) = NULL THEN blocks + 3
                   ELSE IF container = "bst_map_kept" THEN blocks ELSE blocks + 2
  BY MapFindIsAnswer DEF Insert, TM!MapInsert, BM!BstInsert, TreeMaps
<1>3. k \notin KeysOf(map_root) <=> Answer(map_root, k) = NULL
  BY <1>1, BindingAnswers
<1>4. p \in Nat
  BY TreesAssumption
<1> DEFINE r == map_root'
<1> HIDE DEF r
<1>5. \/ r = TM!NodeInsert(map_root, TM!Node(k, v, p))
      \/ r = BM!BstInsertRec(map_root, BM!Node(k, v, 0))
  BY <1>2 DEF r
<1>6. /\ GoodMap(r) /\ KeysOf(r) = {k} \cup KeysOf(map_root)
      /\ Bindings(r) = {<<k, v>>} \cup {b \in Bindings(map_root) : b[1] # k}
  BY <1>1, <1>4, <1>5, MapInserts
<1>7. Size(map_root) \in Nat /\ Size(r) = Size(map_root) + (IF k \in KeysOf(map_root) THEN 0 ELSE 1)
  BY <1>1, <1>6, SizesMove DEF GoodMap
<1> QED BY <1>1, <1>2, <1>3, <1>6, <1>7 DEF r

\* An erasure from a map: of the root, below it, or one that damages the map.
LEMMA MapEraseStep ==
    ASSUME TreeInv, container \in TreeMaps, NEW k \in Keys, Erase(k)
    PROVE  /\ GoodMap(map_root) /\ blocks \in Int
           /\ UNCHANGED <<container, set_root, set_sz>>
           /\ container = "bst_map" \/ ~ Holds(map_root, k) => UNCHANGED <<map_root, blocks, status>>
           /\ container # "bst_map" /\ Holds(map_root, k)
              /\ ~ (container = "bst_map_kept" /\ map_root.left # NULL /\ map_root.right # NULL)
                 => /\ GoodMap(map_root') /\ KeysOf(map_root') = KeysOf(map_root) \ {k} /\ k \in KeysOf(map_root)
                    /\ Bindings(map_root') = {b \in Bindings(map_root) : b[1] # k}
                    /\ blocks' \in Int /\ blocks' - blocks = 3 * (Size(map_root') - Size(map_root))
                    /\ status' = status
           /\ container = "bst_map_kept" /\ Holds(map_root, k) /\ map_root.left # NULL /\ map_root.right # NULL
                 => status' = "damaged"
<1>1. GoodMap(map_root) /\ blocks \in Int /\ status = "usable" /\ UNCHANGED <<container, set_root, set_sz>>
  BY DEF Erase, Usable, TreeInv, TreeMaps, TreeContainers, setVars
<1> DEFINE r == map_root'
<1>2. ASSUME Removed(r, map_root, k), k \in KeysOf(map_root)
      PROVE  /\ GoodMap(r) /\ KeysOf(r) = KeysOf(map_root) \ {k}
             /\ Bindings(r) = {b \in Bindings(map_root) : b[1] # k}
             /\ Size(map_root) \in Nat /\ Size(r) = Size(map_root) - 1
  <2> HIDE DEF r
  <2>1. /\ GoodMap(r) /\ KeysOf(r) = KeysOf(map_root) \ {k}
        /\ Bindings(r) = {b \in Bindings(map_root) : b[1] # k}
    BY <1>1, <1>2, RemovedIsGood
  <2> QED BY <1>1, <1>2, <2>1, SizesMove DEF GoodMap
<1>3. CASE container = "map"
  <2>1. TM!MapErase(k) /\ status' = status
    BY <1>3 DEF Erase, TreeMaps
  <2>2. r = TM!NodeDelete(map_root, k) /\ blocks' = IF r = map_root THEN blocks ELSE blocks - 3
    BY <2>1 DEF TM!MapErase
  <2>3. /\ ~ Holds(map_root, k) => r = map_root
        /\ Holds(map_root, k) => Removed(r, map_root, k) /\ k \in KeysOf(map_root)
    <3> HIDE DEF r
    <3> QED BY <1>1, <2>2, MapErases
  <2>4. Holds(map_root, k) => r # map_root
    BY <1>2, <2>3
  <2> HIDE DEF r
  <2>5. Holds(map_root, k) => blocks' \in Int /\ blocks' - blocks = 3 * (Size(r) - Size(map_root))
    BY <1>1, <1>2, <2>2, <2>3, <2>4
  <2> QED BY <1>1, <1>2, <1>3, <2>1, <2>2, <2>3, <2>5 DEF r
<1>4. CASE container = "bst_map"
  <2>1. BM!BstEraseCopied /\ status' = status
    BY <1>4 DEF Erase, TreeMaps
  <2>2. map_root \in Trees
    BY <1>1 DEF GoodMap, OrderedTrees
  <2>3. map_root' = map_root /\ blocks' = blocks
    BY <2>1, <2>2, ForeignDeletionKeeps DEF BM!BstEraseCopied
  <2> QED BY <1>1, <1>4, <2>1, <2>3
<1>5. CASE container = "bst_map_kept"
  <2> DEFINE d == BM!BstDelete[map_root][k]
  <2>1. /\ map_root' = d.tree /\ blocks' = blocks - 3 * Cardinality(d.released)
        /\ status' = IF BM!Damaged(d.tree, d.released) THEN "damaged" ELSE "usable"
    BY <1>5, TreeNames DEF Erase, TreeMaps, BM!BstEraseKept, BM!BstEraseDamages
  <2> HIDE DEF d
  <2>2. /\ ~ Holds(map_root, k) => d.tree = map_root /\ d.released = {} /\ ~ BM!Damaged(d.tree, d.released)
        /\ Holds(map_root, k) /\ (map_root.left = NULL \/ map_root.right = NULL) =>
              /\ Removed(d.tree, map_root, k) /\ k \in KeysOf(map_root) /\ d.released = {k}
              /\ ~ BM!Damaged(d.tree, d.released)
        /\ Holds(map_root, k) /\ map_root.left # NULL /\ map_root.right # NULL
              => BM!Damaged(d.tree, d.released)
    BY <1>1, BstErases DEF d
  <2>3. Cardinality({}) = 0 /\ Cardinality({k}) = 1
    BY FS_EmptySet, FS_Singleton
  <2>4. ASSUME ~ Holds(map_root, k) PROVE UNCHANGED <<map_root, blocks, status>>
    <3>1. d.tree = map_root /\ d.released = {} /\ ~ BM!Damaged(d.tree, d.released)
      BY <2>2, <2>4
    <3>2. status' = status
      BY <1>1, <2>1, <3>1
    <3>3. Cardinality(d.released) = 0
      BY <2>3, <3>1
    <3>4. blocks' = blocks
      BY <1>1, <2>1, <3>3
    <3> QED BY <2>1, <3>1, <3>2, <3>4
  <2>5. ASSUME Holds(map_root, k), map_root.left = NULL \/ map_root.right = NULL
        PROVE  /\ GoodMap(r) /\ KeysOf(r) = KeysOf(map_root) \ {k} /\ k \in KeysOf(map_root)
               /\ Bindings(r) = {b \in Bindings(map_root) : b[1] # k}
               /\ blocks' \in Int /\ blocks' - blocks = 3 * (Size(r) - Size(map_root))
               /\ status' = status
    <3>1. Removed(r, map_root, k) /\ k \in KeysOf(map_root)
      BY <2>1, <2>2, <2>5
    <3> HIDE DEF r
    <3>2. d.released = {k} /\ ~ BM!Damaged(d.tree, d.released)
      BY <2>2, <2>5
    <3>3. status' = status
      BY <1>1, <2>1, <3>2
    <3>4. Cardinality(d.released) = 1
      BY <2>3, <3>2
    <3>5. blocks' = blocks - 3
      BY <1>1, <2>1, <3>4
    <3> QED BY <1>1, <1>2, <3>1, <3>3, <3>5
  <2>6. ASSUME Holds(map_root, k), map_root.left # NULL, map_root.right # NULL PROVE status' = "damaged"
    BY <2>1, <2>2, <2>6
  <2> QED BY <1>1, <1>5, <2>4, <2>5, <2>6
<1> QED BY <1>3, <1>4, <1>5 DEF TreeMaps

-----------------------------------------------------------------------------
(* The invariant of the ordered containers is kept.                         *)

\* A step that leaves the treap set alone.
LEMMA TreesStay ==
    ASSUME TreeInv, UNCHANGED <<container, set_root, set_sz>>,
           status' # "damaged" => GoodMap(map_root'),
           status' = "usable" /\ container \in TreeContainers => blocks' \in Int
    PROVE  TreeInv'
BY DEF TreeInv

\* Every kind of step keeps the invariant.
LEMMA TreeInvInserts ==
    ASSUME TreeInv, NEW k \in Keys, NEW v \in Values, NEW p \in Priorities, Insert(k, v, p)
    PROVE  TreeInv'
<1>1. status = "usable" /\ UNCHANGED <<container, status>>
  BY DEF Insert, Usable
<1>2. container \in Containers /\ (status # "damaged" => GoodMap(map_root))
  BY DEF TreeInv
<1>3. CASE container = "set"
  <2>1. /\ set_root' \in OrderedTrees /\ HeapOrdered(set_root') /\ set_sz' = Size(set_root')
        /\ blocks' \in Int /\ UNCHANGED map_root
    BY <1>3, SetSteps
  <2> QED BY <1>1, <1>2, <2>1 DEF TreeInv
<1>4. CASE container \in TreeMaps
  <2>1. GoodMap(map_root') /\ blocks' \in Int /\ UNCHANGED <<set_root, set_sz>>
    BY <1>4, MapInsertStep
  <2> QED BY <1>1, <2>1, TreesStay
<1>5. CASE container \notin TreeContainers
  <2>1. UNCHANGED <<set_root, set_sz, map_root>>
    BY <1>2, <1>5 DEF Insert, setVars, TreeContainers, TreeMaps
  <2> QED BY <1>1, <1>2, <1>5, <2>1, TreesStay
<1> QED BY <1>3, <1>4, <1>5 DEF TreeContainers

LEMMA TreeInvErases ==
    ASSUME TreeInv, NEW k \in Keys, Erase(k)
    PROVE  TreeInv'
<1>1. status = "usable" /\ UNCHANGED container
  BY DEF Erase, Usable
<1>2. container \in Containers /\ GoodMap(map_root)
  BY <1>1 DEF TreeInv
<1>3. CASE container = "set"
  <2>1. /\ set_root' \in OrderedTrees /\ HeapOrdered(set_root') /\ set_sz' = Size(set_root')
        /\ blocks' \in Int /\ UNCHANGED map_root
    BY <1>3, SetSteps
  <2> QED BY <1>1, <1>2, <2>1 DEF TreeInv
<1>4. CASE container \in TreeMaps
  <2>1. /\ blocks \in Int /\ UNCHANGED <<set_root, set_sz>>
        /\ \/ UNCHANGED <<map_root, blocks, status>>
           \/ GoodMap(map_root') /\ blocks' \in Int
           \/ status' = "damaged"
    BY <1>4, MapEraseStep
  <2> QED BY <1>1, <1>2, <2>1, TreesStay
<1>5. CASE container \notin TreeContainers
  <2>1. UNCHANGED <<set_root, set_sz, map_root>>
    BY <1>2, <1>5 DEF Erase, setVars, TreeContainers, TreeMaps
  <2> QED BY <1>1, <1>2, <1>5, <2>1, TreesStay
<1> QED BY <1>3, <1>4, <1>5 DEF TreeContainers

LEMMA TreeInvKept == TreeInv /\ [Next]_vars => TreeInv'
<1> SUFFICES ASSUME TreeInv, [Next]_vars PROVE TreeInv'
  OBVIOUS
<1>1. ASSUME NEW k \in Keys, NEW v \in Values, NEW p \in Priorities, Insert(k, v, p)
      PROVE  TreeInv'
  BY <1>1, TreeInvInserts
<1>2. ASSUME NEW k \in Keys, Erase(k) PROVE TreeInv'
  BY <1>2, TreeInvErases
<1>3. ASSUME NEW freer \in {0, 1}, Destroy(freer) PROVE TreeInv'
  <2>1. status = "usable" /\ status' # "usable" /\ UNCHANGED container
    BY <1>3 DEF Destroy, Usable
  <2>2. UNCHANGED <<set_root, set_sz, map_root>>
    BY <1>3 DEF Destroy, TS!SetDestroy, TM!MapDestroy, setVars
  <2>3. GoodMap(map_root)
    BY <2>1 DEF TreeInv
  <2> QED BY <2>1, <2>2, <2>3, TreesStay
<1>4. CASE UNCHANGED vars
  BY <1>4 DEF vars, setVars, TreeInv
<1> QED BY <1>1, <1>2, <1>3, <1>4 DEF Next

\* The trees of the ordered containers in every state.
THEOREM KeyedTreeInvariant == Spec => []TreeInv
BY TreeInvStarts, TreeInvKept, PTL DEF Spec

\* Every tree is a search tree with the larger keys on the left and a heap by
\* priority, through all rotations and also through the erasures that CCMap sends
\* down the wrong side, until one of them damages the map.
THEOREM KeyedTreesOrdered == Spec => []TreesOrdered
<1>1. TreeInv => TreesOrdered
  BY DEF TreeInv, TreesOrdered, GoodMap, OrderedTrees
<1> QED BY <1>1, KeyedTreeInvariant, PTL

\* The size of the ordered set counts its keys.
THEOREM KeyedTreapSize == Spec => []TreapSizeExact
<1>1. TreeInv => TreapSizeExact
  BY OrderedSize DEF TreeInv, TreapSizeExact
<1> QED BY <1>1, KeyedTreeInvariant, PTL

-----------------------------------------------------------------------------
(* The ordered containers answer like tables.                               *)

\* The lookups of the next state.
LEMMA SetContainsIsKeyNext == TreeInv' => \A k \in Keys : TS!SetContains(k)' <=> k \in KeysOf(set_root')
<1> SUFFICES ASSUME TreeInv', NEW k \in Keys PROVE TS!SetContains(k)' <=> k \in KeysOf(set_root')
  OBVIOUS
<1>1. set_root' \in OrderedTrees
  BY DEF TreeInv
<1>2. Find(set_root', k) # NULL <=> k \in KeysOf(set_root')
  BY <1>1, FindBinds
<1> QED BY <1>2, TreeNames DEF TS!SetContains

LEMMA MapFindIsAnswerNext == \A k : TM!MapFind(k)' = Answer(map_root', k)
BY TreeNames DEF TM!MapFind, Answer

\* What the steps do to the answers of the ordered set.
LEMMA TreapSetPuts ==
    ASSUME TreeInv, container = "set",
           NEW k \in Keys, NEW v \in Values, NEW p \in Priorities, Insert(k, v, p)
    PROVE  SetPromise!Put(k, k)
<1>1. KeysOf(set_root') = {k} \cup KeysOf(set_root) /\ TreeInv'
  BY SetSteps, TreeInvInserts
<1>2. \A x \in Keys : TS!SetContains(x)' <=> TS!SetContains(x) \/ x = k
  BY <1>1, SetContainsIsKey, SetContainsIsKeyNext
<1> QED BY <1>2 DEF SetTable, SetPromise!Put

LEMMA TreapSetRemoves ==
    ASSUME TreeInv, container = "set", NEW k \in Keys, Erase(k)
    PROVE  SetPromise!Remove(k)
<1>1. KeysOf(set_root') = KeysOf(set_root) \ {k} /\ TreeInv'
  BY SetSteps, TreeInvErases
<1>2. \A x \in Keys : TS!SetContains(x)' <=> TS!SetContains(x) /\ x # k
  BY <1>1, SetContainsIsKey, SetContainsIsKeyNext
<1> QED BY <1>2 DEF SetTable, SetPromise!Remove

LEMMA TreapSetPromiseStarts == Init => SetPromise!Init
<1> SUFFICES ASSUME Init PROVE SetTable = [k \in Keys |-> NULL]
  BY DEF SetPromise!Init
<1>1. set_root = NULL /\ KeysOf(NULL) = {}
  BY KeysRecurse DEF Init, TS!SetInit
<1>2. \A k \in Keys : ~ TS!SetContains(k)
  BY <1>1, SetContainsIsKey, TreeInvStarts
<1> QED BY <1>2 DEF SetTable

\* CCSet answers like a table: an insertion adds its key, an erasure removes it,
\* and no other answer changes, whatever rotations the priorities cause.
THEOREM KeyedTreapSetIsTable == Spec => TreapSetImplementsTable
<1> DEFINE Kept == container = "set" =>
                      /\ \A k \in Keys, v \in Values, p \in Priorities :
                            Insert(k, v, p) => SetPromise!Put(k, k)
                      /\ \A k \in Keys : Erase(k) => SetPromise!Remove(k)
<1>1. TreeInv => Kept
  BY TreapSetPuts, TreapSetRemoves
<1>2. Spec => [][Kept]_vars
  BY <1>1, KeyedTreeInvariant, PTL DEF Spec
<1>3. Spec => SetPromise!Init
  BY TreapSetPromiseStarts DEF Spec
<1> QED BY <1>2, <1>3 DEF TreapSetImplementsTable

\* So do both sets.
THEOREM KeyedSetsAreTables == Spec => SetsImplementTable
BY KeyedTreapSetIsTable, KeyedHashSetIsTable DEF SetsImplementTable

\* The sizes of the sets count their keys, and that of the unordered map is
\* nodes and erased keys together.
THEOREM KeyedSizes == ASSUME ~ ThreeWay PROVE Spec => SizesExact
BY KeyedTreapSize, KeyedHashSize, KeyedMapSizeDrifts DEF SizesExact

-----------------------------------------------------------------------------
(* CCMap binds and erases.                                                  *)

\* What the steps do to the answers of the map.
LEMMA MapPuts ==
    ASSUME TreeInv, container \in TreeMaps,
           NEW k \in Keys, NEW v \in Values, NEW p \in Priorities, Insert(k, v, p)
    PROVE  MapPromise!Put(k, v)
<1>1. /\ GoodMap(map_root) /\ GoodMap(map_root')
      /\ Bindings(map_root') = {<<k, v>>} \cup {b \in Bindings(map_root) : b[1] # k}
  BY MapInsertStep
<1>2. \A x \in Keys : Answer(map_root', x) = IF x = k THEN v ELSE Answer(map_root, x)
  <2> DEFINE r == map_root'
  <2>1. GoodMap(r) /\ Bindings(r) = {<<k, v>>} \cup {b \in Bindings(map_root) : b[1] # k}
    BY <1>1
  <2> HIDE DEF r
  <2>2. \A x \in Keys : Answer(r, x) = IF x = k THEN v ELSE Answer(map_root, x)
    BY <1>1, <2>1, PutAnswers
  <2> QED BY <2>2 DEF r
<1>3. \A x \in Keys : TM!MapFind(x)' = IF x = k THEN v ELSE TM!MapFind(x)
  BY <1>2, MapFindIsAnswer, MapFindIsAnswerNext
<1> QED BY <1>3 DEF MapTable, MapPromise!Put

LEMMA MapErasesRoot ==
    ASSUME TreeInv, container \in TreeMaps, NEW k \in Keys, Erase(k)
    PROVE  ErasesOnlyTheRoot(k)
<1>1. IsRoot(k) <=> Holds(map_root, k)
  BY DEF IsRoot, Holds
<1>2. IsInner(k) <=> Holds(map_root, k) /\ map_root.left # NULL /\ map_root.right # NULL
  BY <1>1 DEF IsInner
<1>3. ASSUME container = "bst_map_kept", IsInner(k) PROVE status' = "damaged"
  BY <1>2, <1>3, MapEraseStep
<1>4. ASSUME container = "bst_map" \/ ~ IsRoot(k) PROVE UNCHANGED mapState
  BY <1>1, <1>4, MapEraseStep DEF mapState
<1>5. ASSUME container # "bst_map", IsRoot(k), ~ (container = "bst_map_kept" /\ IsInner(k))
      PROVE  MapPromise!Remove(k) /\ UNCHANGED status
  <2>1. /\ GoodMap(map_root) /\ GoodMap(map_root') /\ status' = status
        /\ Bindings(map_root') = {b \in Bindings(map_root) : b[1] # k}
    BY <1>1, <1>2, <1>5, MapEraseStep
  <2>2. \A x \in Keys : Answer(map_root', x) = IF x = k THEN NULL ELSE Answer(map_root, x)
    <3> DEFINE r == map_root'
    <3>1. GoodMap(r) /\ Bindings(r) = {b \in Bindings(map_root) : b[1] # k}
      BY <2>1
    <3> HIDE DEF r
    <3>2. \A x \in Keys : Answer(r, x) = IF x = k THEN NULL ELSE Answer(map_root, x)
      BY <2>1, <3>1, RemoveAnswers
    <3> QED BY <3>2 DEF r
  <2>3. \A x \in Keys : TM!MapFind(x)' = IF x = k THEN NULL ELSE TM!MapFind(x)
    BY <2>2, MapFindIsAnswer, MapFindIsAnswerNext
  <2> QED BY <2>1, <2>3 DEF MapTable, MapPromise!Remove
<1> QED BY <1>3, <1>4, <1>5 DEF ErasesOnlyTheRoot

LEMMA MapPromiseStarts == Init => MapPromise!Init
<1> SUFFICES ASSUME Init PROVE MapTable = [k \in Keys |-> NULL]
  BY DEF MapPromise!Init
<1>1. map_root = NULL
  BY DEF Init, TM!MapInit
<1>2. \A k \in Keys : Answer(NULL, k) = NULL
  BY NullIsGood, KeysRecurse, BindingAnswers
<1>3. \A k \in Keys : TM!MapFind(k) = NULL
  BY <1>1, <1>2, MapFindIsAnswer
<1> QED BY <1>3 DEF MapTable

\* CCMap binds the inserted key to the new value and touches no other binding;
\* an erasure removes the key at the root, and below it nothing, over every
\* tree that the operations can build and under every backend.
THEOREM KeyedMapErasesOnlyTheRoot == Spec => MapErasesOnlyTheRoot
<1> DEFINE Kept == container \in TreeMaps =>
                      /\ \A k \in Keys, v \in Values, p \in Priorities :
                            Insert(k, v, p) => MapPromise!Put(k, v)
                      /\ \A k \in Keys : Erase(k) => ErasesOnlyTheRoot(k)
<1>1. TreeInv => Kept
  BY MapPuts, MapErasesRoot
<1>2. Spec => [][Kept]_vars
  BY <1>1, KeyedTreeInvariant, PTL DEF Spec
<1>3. Spec => MapPromise!Init
  BY MapPromiseStarts DEF Spec
<1> QED BY <1>2, <1>3 DEF MapErasesOnlyTheRoot

-----------------------------------------------------------------------------
(* Heap blocks of every keyed container.                                    *)

\* An overwrite of a copied key changes neither the keys nor the number of the
\* nodes, and leaks two blocks.
LEMMA OverwriteLeaks ==
    ASSUME TreeInv, container \in {"map", "bst_map"}, Overwrites
    PROVE  /\ Size(map_root') = Size(map_root) /\ Size(map_root) \in Nat
           /\ KeysOf(map_root') = KeysOf(map_root)
           /\ blocks' - blocks = 2 /\ status' = "usable"
<1>1. PICK k \in Keys, v \in Values, p \in Priorities : TM!MapFind(k) # NULL /\ Insert(k, v, p)
  BY DEF Overwrites
<1>2. container \in TreeMaps /\ container # "bst_map_kept"
  BY DEF TreeMaps
<1>3. status' = "usable"
  BY <1>1 DEF Insert, Usable
<1> DEFINE r == map_root'
<1>4. /\ GoodMap(map_root) /\ GoodMap(r) /\ KeysOf(r) = {k} \cup KeysOf(map_root)
      /\ blocks' - blocks = 3 * (Size(r) - Size(map_root)) + (IF k \in KeysOf(map_root) THEN 2 ELSE 0)
  BY <1>1, <1>2, MapInsertStep
<1>5. k \in KeysOf(map_root)
  BY <1>1, <1>4, MapFindIsAnswer, BindingAnswers
<1> HIDE DEF r
<1>6. Size(map_root) \in Nat /\ Size(r) = Size(map_root)
  BY <1>4, <1>5, SizesMove DEF GoodMap
<1>7. KeysOf(r) = KeysOf(map_root)
  BY <1>4, <1>5
<1>8. blocks' - blocks = 2
  BY <1>4, <1>5, <1>6
<1> QED BY <1>3, <1>6, <1>7, <1>8 DEF r

\* The blocks that can be reached, in this state and the next.
LEMMA TreeReachable ==
    /\ container = "set" => Reachable = 1 + 2 * Size(set_root)
    /\ container \in TreeMaps => Reachable = 1 + 3 * Size(map_root)
    /\ container' = "set" => Reachable' = 1 + 2 * Size(set_root')
    /\ container' \in TreeMaps => Reachable' = 1 + 3 * Size(map_root')
BY DEF Reachable, TreeMaps

\* Every step of the ordered set is balanced ...
LEMMA TreapSetBalances ==
    ASSUME TreeInv, container = "set", Next PROVE Balanced
<1>1. status = "usable" /\ container' = "set"
  BY DEF Next, Insert, Erase, Destroy, Usable
<1>2. Size(set_root) \in Nat /\ Reachable = 1 + 2 * Size(set_root) /\ Reachable' = 1 + 2 * Size(set_root')
  BY <1>1, TreeReachable, SizeIsNat DEF TreeInv, OrderedTrees
<1>3. ASSUME NEW k \in Keys, NEW v \in Values, NEW p \in Priorities, Insert(k, v, p) PROVE Balanced
  <2>1. /\ Size(set_root') \in Nat /\ blocks' - blocks = 2 * (Size(set_root') - Size(set_root))
        /\ status' = "usable"
    BY <1>1, <1>3, SetSteps, SizeIsNat DEF OrderedTrees
  <2> QED BY <1>2, <2>1 DEF Balanced
<1>4. ASSUME NEW k \in Keys, Erase(k) PROVE Balanced
  <2>1. /\ Size(set_root') \in Nat /\ blocks' - blocks = 2 * (Size(set_root') - Size(set_root))
        /\ status' = "usable"
    BY <1>1, <1>4, SetSteps, SizeIsNat DEF OrderedTrees
  <2> QED BY <1>2, <2>1 DEF Balanced
<1>5. ASSUME NEW freer \in {0, 1}, Destroy(freer) PROVE Balanced
  <2>1. blocks' = blocks - 2 * Size(set_root) - 1 /\ status' = "destroyed" /\ blocks \in Int
    BY <1>1, <1>5, TreeNames DEF Destroy, TreeMaps, TS!SetDestroy, TreeInv, TreeContainers
  <2> QED BY <1>2, <2>1 DEF Balanced
<1> QED BY <1>3, <1>4, <1>5 DEF Next

\* ... and every step of a map.
LEMMA TreeMapBalances ==
    ASSUME TreeInv, container \in TreeMaps, Next, status' # "damaged" PROVE Balanced
<1>1. status = "usable" /\ container' = container /\ GoodMap(map_root) /\ blocks \in Int
  BY DEF Next, Insert, Erase, Destroy, Usable, TreeInv, TreeContainers
<1>2. Size(map_root) \in Nat /\ Reachable = 1 + 3 * Size(map_root) /\ Reachable' = 1 + 3 * Size(map_root')
  BY <1>1, TreeReachable, SizeIsNat DEF GoodMap, OrderedTrees
<1> DEFINE Leak == IF container \in {"map", "bst_map"} /\ Overwrites THEN 2 ELSE 0
<1>3. ASSUME NEW k \in Keys, NEW v \in Values, NEW p \in Priorities, Insert(k, v, p) PROVE Balanced
  <2>1. /\ KeysOf(map_root') = {k} \cup KeysOf(map_root) /\ GoodMap(map_root')
        /\ blocks' - blocks = 3 * (Size(map_root') - Size(map_root))
                              + (IF container # "bst_map_kept" /\ k \in KeysOf(map_root) THEN 2 ELSE 0)
        /\ status' = "usable"
    BY <1>1, <1>3, MapInsertStep
  <2>2. Size(map_root') \in Nat
    BY <2>1, SizeIsNat DEF GoodMap, OrderedTrees
  <2>3. container # "bst_map_kept" => (Overwrites <=> k \in KeysOf(map_root))
    <3>1. k \in KeysOf(map_root) => TM!MapFind(k) # NULL
      BY <1>1, MapFindIsAnswer, BindingAnswers
    <3>2. k \in KeysOf(map_root) => Overwrites
      BY <1>3, <3>1 DEF Overwrites
    <3>3. ASSUME container # "bst_map_kept", Overwrites PROVE k \in KeysOf(map_root)
      BY <2>1, <3>3, OverwriteLeaks DEF TreeMaps
    <3> QED BY <3>2, <3>3
  <2>4. Leak = IF container # "bst_map_kept" /\ k \in KeysOf(map_root) THEN 2 ELSE 0
    BY <2>3 DEF TreeMaps
  <2> HIDE DEF Leak
  <2>5. Leak \in {0, 2} /\ blocks' - blocks = Reachable' - Reachable + Leak
    BY <1>2, <2>1, <2>2, <2>4
  <2> QED BY <2>1, <2>5 DEF Balanced, Leak
<1>4. ASSUME NEW k \in Keys, Erase(k) PROVE Balanced
  <2>1. /\ status' = "usable" /\ Size(map_root') \in Nat
        /\ blocks' - blocks = 3 * (Size(map_root') - Size(map_root))
        /\ Size(map_root') = Size(map_root) => blocks' = blocks
    <3>1. CASE UNCHANGED <<map_root, blocks, status>>
      BY <1>1, <1>2, <3>1
    <3>2. CASE /\ GoodMap(map_root') /\ status' = status /\ blocks' \in Int
               /\ blocks' - blocks = 3 * (Size(map_root') - Size(map_root))
      <4>1. Size(map_root') \in Nat
        BY <3>2, SizeIsNat DEF GoodMap, OrderedTrees
      <4> QED BY <1>1, <1>2, <3>2, <4>1
    <3> QED BY <1>4, <3>1, <3>2, MapEraseStep
  <2>2. ~ (container \in {"map", "bst_map"} /\ Overwrites)
    <3>1. SUFFICES ASSUME container \in {"map", "bst_map"}, Overwrites PROVE FALSE
      OBVIOUS
    <3>2. Size(map_root') = Size(map_root) /\ blocks' - blocks = 2
      BY <3>1, OverwriteLeaks
    <3> QED BY <1>1, <2>1, <3>2
  <2> QED BY <1>2, <2>1, <2>2 DEF Balanced
<1>5. ASSUME NEW freer \in {0, 1}, Destroy(freer) PROVE Balanced
  <2>1. /\ blocks' = blocks - 3 * Size(map_root) - (IF TM!MapDestroyFrees(freer) THEN 1 ELSE 0)
        /\ status' = IF TM!MapDestroyFrees(freer) THEN "destroyed" ELSE "emptied"
    BY <1>5, TreeNames DEF Destroy, TreeMaps, TM!MapDestroy
  <2>2. ~ (container \in {"map", "bst_map"} /\ Overwrites)
    <3>1. status' # "usable"
      BY <2>1
    <3> QED BY <3>1, OverwriteLeaks
  <2>3. CASE TM!MapDestroyFrees(freer)
    <3>1. blocks' = blocks - 3 * Size(map_root) - 1 /\ status' = "destroyed"
      BY <2>1, <2>3
    <3> QED BY <1>1, <1>2, <2>2, <3>1 DEF Balanced
  <2>4. CASE ~ TM!MapDestroyFrees(freer)
    <3>1. blocks' = blocks - 3 * Size(map_root) - 0 /\ status' = "emptied"
      BY <2>1, <2>4
    <3> QED BY <1>1, <1>2, <2>2, <3>1 DEF Balanced
  <2> QED BY <2>3, <2>4
<1> QED BY <1>3, <1>4, <1>5 DEF Next

\* What a keyed container allocates it can reach, and what it frees it no longer
\* reaches, but for the two blocks of an overwritten copied key and the map that
\* its own destruction keeps.
THEOREM KeyedBlocks == ASSUME ~ ThreeWay PROVE Spec => BlocksBalance
<1> DEFINE P == status' # "damaged" => Balanced
           H == container \in {"hash_set", "hash_map"} => Balanced
<1>1. TreeInv /\ [Next]_vars /\ [H]_vars => [P]_vars
  BY TreapSetBalances, TreeMapBalances DEF TreeInv, Containers
<1>2. Spec => [][H]_vars
  BY KeyedHashBlocks
<1> QED BY <1>1, <1>2, KeyedTreeInvariant, PTL DEF Spec, BlocksBalance
=============================================================================
