----------------------------- MODULE ListProofs -----------------------------
(***************************************************************************)
(* Proofs about CCList and the adapters over it, for every finite heap,    *)
(* every set of element values and every width of size_t that can count    *)
(* the nodes.  The invariant says that the nodes of a list can be written  *)
(* down as a sequence s, each once and in the order of the links; then a   *)
(* push or an insertion is Grown(s, i, n), a pop or an erasure Shrunk(s, i)*)
(* and a walk along the links meets the elements of s one after the other. *)
(***************************************************************************)
EXTENDS ListAdapters, DataLemmas, FunctionTheorems, FiniteSetTheorems

-----------------------------------------------------------------------------
(* Nodes in the order of a ring.                                             *)

Succ(i, m) == IF i = m THEN 1 ELSE i + 1

\* s lists the nodes al once each, in the order of the links, from hd to tl.
Order(s, hd, tl, nextOf, prevOf, al) ==
    /\ s \in Seq(al) /\ Len(s) # 0
    /\ \A i, j \in 1 .. Len(s) : s[i] = s[j] => i = j
    /\ \A n \in al : \E i \in 1 .. Len(s) : s[i] = n
    /\ hd = s[1] /\ tl = s[Len(s)]
    /\ \A i \in 1 .. Len(s) : /\ nextOf[s[i]] = s[Succ(i, Len(s))]
                              /\ prevOf[s[Succ(i, Len(s))]] = s[i]

\* What a splice of n between p and q does to the links of the nodes al.
Spliced(n, p, q, al, nextOf, prevOf, nextOf2, prevOf2) ==
    /\ nextOf2[n] = q /\ nextOf2[p] = n /\ \A x \in al : x # p => nextOf2[x] = nextOf[x]
    /\ prevOf2[n] = p /\ prevOf2[q] = n /\ \A x \in al : x # q => prevOf2[x] = prevOf[x]

\* A ring into which a node is spliced behind the i-th is a ring; what is spliced
\* between the tail and the head may become either.
LEMMA OrderGrows ==
    ASSUME NEW s, NEW hd, NEW tl, NEW nx, NEW pv, NEW al, Order(s, hd, tl, nx, pv, al),
           NEW i \in 1 .. Len(s), NEW n, n \notin al, NEW nx2, NEW pv2,
           Spliced(n, s[i], s[Succ(i, Len(s))], al, nx, pv, nx2, pv2)
    PROVE  /\ Order(Grown(s, i + 1, n), hd, IF i = Len(s) THEN n ELSE tl, nx2, pv2, al \cup {n})
           /\ i = Len(s) => Order(Grown(s, 1, n), n, tl, nx2, pv2, al \cup {n})
<1> DEFINE m == Len(s)
           b == al \cup {n}
<1>0. s \in Seq(b) /\ n \in b
  BY SeqMonotonic DEF Order
<1>1. m \in Nat \ {0} /\ \A j \in 1 .. m : s[j] \in al /\ s[j] # n
  <2>1. s \in Seq(al) /\ m # 0
    BY DEF Order
  <2> QED BY <2>1, LenProperties
<1>2. \A j \in 1 .. m : Succ(j, m) \in 1 .. m
  BY <1>1 DEF Succ
<1>3. /\ nx2[n] = s[Succ(i, m)] /\ pv2[n] = s[i]
      /\ \A j \in 1 .. m : nx2[s[j]] = IF j = i THEN n ELSE s[Succ(j, m)]
      /\ \A j \in 1 .. m : pv2[s[Succ(j, m)]] = IF j = i THEN n ELSE s[j]
  <2>1. ASSUME NEW j \in 1 .. m PROVE nx2[s[j]] = IF j = i THEN n ELSE s[Succ(j, m)]
    BY <1>1, <2>1 DEF Order, Spliced
  <2>2. ASSUME NEW j \in 1 .. m PROVE pv2[s[Succ(j, m)]] = IF j = i THEN n ELSE s[j]
    <3>1. j # i => Succ(j, m) # Succ(i, m)
      BY <1>1 DEF Succ
    <3>2. Succ(j, m) \in 1 .. m /\ Succ(i, m) \in 1 .. m
      BY <1>2
    <3>3. j # i => s[Succ(j, m)] # s[Succ(i, m)] /\ s[Succ(j, m)] \in al
      BY <1>1, <3>1, <3>2 DEF Order
    <3> QED BY <3>3 DEF Order, Spliced
  <2> QED BY <2>1, <2>2 DEF Spliced
<1> HIDE DEF b
<1>4. ASSUME NEW k \in 1 .. m + 1, k = i + 1 \/ (k = 1 /\ i = m)
      PROVE  LET t == Grown(s, k, n) IN
             /\ t \in Seq(b) /\ Len(t) = m + 1
             /\ \A x \in b : \E j \in 1 .. m + 1 : t[j] = x
             /\ \A j, l \in 1 .. m + 1 : t[j] = t[l] => j = l
             /\ \A j \in 1 .. m + 1 : /\ nx2[t[j]] = t[Succ(j, m + 1)]
                                      /\ pv2[t[Succ(j, m + 1)]] = t[j]
  <2> DEFINE t == Grown(s, k, n)
             at(j) == IF j < k THEN j ELSE j - 1
  <2>0. t \in Seq(b) /\ IsGrown(t, s, k, n)
    BY <1>0, GrownIsSeq
  <2> HIDE DEF t
  <2>1. /\ Len(t) = m + 1
        /\ \A j \in 1 .. m + 1 : t[j] = IF j < k THEN s[j] ELSE IF j = k THEN n ELSE s[j - 1]
    BY <2>0 DEF IsGrown
  <2>2. \A j \in 1 .. m + 1 : j # k => at(j) \in 1 .. m /\ t[j] = s[at(j)]
    BY <1>1, <2>1
  <2>3. t[k] = n
    BY <1>1, <2>1
  <2>4. \A j \in 1 .. m : LET l == IF j < k THEN j ELSE j + 1
                          IN  l \in 1 .. m + 1 /\ t[l] = s[j]
    BY <1>1, <2>1
  <2>5. ASSUME NEW x \in b PROVE \E j \in 1 .. m + 1 : t[j] = x
    <3>1. CASE x = n
      BY <2>3, <3>1
    <3>2. CASE x # n
      <4>1. PICK j \in 1 .. m : s[j] = x
        BY <3>2 DEF Order, b
      <4> QED BY <2>4, <4>1
    <3> QED BY <3>1, <3>2
  <2>6. ASSUME NEW j \in 1 .. m + 1, NEW l \in 1 .. m + 1, t[j] = t[l] PROVE j = l
    <3>1. CASE j = k \/ l = k
      BY <1>1, <2>2, <2>3, <2>6, <3>1
    <3>2. CASE j # k /\ l # k
      <4>1. at(j) \in 1 .. m /\ at(l) \in 1 .. m /\ s[at(j)] = s[at(l)]
        BY <2>2, <2>6, <3>2
      <4>2. at(j) = at(l)
        BY <4>1 DEF Order
      <4> QED BY <1>1, <3>2, <4>2
    <3> QED BY <3>1, <3>2
  <2>7. ASSUME NEW j \in 1 .. m + 1
        PROVE  nx2[t[j]] = t[Succ(j, m + 1)] /\ pv2[t[Succ(j, m + 1)]] = t[j]
    <3>0. Succ(j, m + 1) \in 1 .. m + 1
      BY <1>1 DEF Succ
    <3>1. CASE j = k
      <4>1. Succ(j, m + 1) # k /\ at(Succ(j, m + 1)) = Succ(i, m)
        BY <1>1, <1>4, <3>1 DEF Succ
      <4>2. t[Succ(j, m + 1)] = s[Succ(i, m)]
        BY <2>2, <3>0, <4>1
      <4> QED BY <1>3, <2>3, <3>1, <4>2
    <3>2. CASE Succ(j, m + 1) = k
      <4>1. j # k /\ at(j) = i
        BY <1>1, <1>4, <3>2 DEF Succ
      <4>2. t[j] = s[i]
        BY <2>2, <4>1
      <4> QED BY <1>3, <2>3, <3>2, <4>2
    <3>3. CASE j # k /\ Succ(j, m + 1) # k
      <4>1. at(j) \in 1 .. m /\ at(j) # i /\ at(Succ(j, m + 1)) = Succ(at(j), m)
        BY <1>1, <1>4, <3>3 DEF Succ
      <4>2. t[j] = s[at(j)] /\ t[Succ(j, m + 1)] = s[Succ(at(j), m)]
        BY <2>2, <3>0, <3>3, <4>1
      <4> HIDE DEF at
      <4> QED BY <1>3, <4>1, <4>2
    <3> QED BY <3>1, <3>2, <3>3
  <2> QED BY <2>0, <2>1, <2>5, <2>6, <2>7 DEF t
<1>5. Order(Grown(s, i + 1, n), hd, IF i = m THEN n ELSE tl, nx2, pv2, b)
  <2> DEFINE t == Grown(s, i + 1, n)
  <2>1. i + 1 \in 1 .. m + 1 /\ m + 1 # 0
    BY <1>1
  <2>2. t[1] = s[1] /\ t[m + 1] = IF i = m THEN n ELSE s[m]
    <3>1. IsGrown(t, s, i + 1, n)
      BY <1>0, <2>1, GrownIsSeq
    <3> HIDE DEF t
    <3>2. /\ 1 \in 1 .. m + 1 /\ m + 1 \in 1 .. m + 1 /\ 1 < i + 1 /\ (m + 1) - 1 = m
          /\ (m + 1 = i + 1 <=> i = m) /\ ~(m + 1 < i + 1)
      BY <1>1
    <3>3. t[1] = s[1]
      BY <3>1, <3>2 DEF IsGrown
    <3>4. t[m + 1] = IF m + 1 = i + 1 THEN n ELSE s[(m + 1) - 1]
      BY <3>1, <3>2 DEF IsGrown
    <3> QED BY <3>2, <3>3, <3>4
  <2>3. /\ t \in Seq(b) /\ Len(t) = m + 1
        /\ \A x \in b : \E j \in 1 .. m + 1 : t[j] = x
        /\ \A j, l \in 1 .. m + 1 : t[j] = t[l] => j = l
        /\ \A j \in 1 .. m + 1 : /\ nx2[t[j]] = t[Succ(j, m + 1)]
                                 /\ pv2[t[Succ(j, m + 1)]] = t[j]
    BY <1>4, <2>1
  <2> HIDE DEF t
  <2>4. hd = t[1] /\ (IF i = m THEN n ELSE tl) = t[m + 1]
    BY <2>2 DEF Order
  <2>5. Order(t, hd, IF i = m THEN n ELSE tl, nx2, pv2, b)
    BY <2>1, <2>3, <2>4 DEF Order
  <2> QED BY <2>5 DEF t
<1>6. ASSUME i = m PROVE Order(Grown(s, 1, n), n, tl, nx2, pv2, b)
  <2> DEFINE t == Grown(s, 1, n)
  <2>1. 1 \in 1 .. m + 1 /\ m + 1 # 0
    BY <1>1
  <2>2. t[1] = n /\ t[m + 1] = s[m]
    <3>1. IsGrown(t, s, 1, n)
      BY <1>0, <2>1, GrownIsSeq
    <3> HIDE DEF t
    <3> QED BY <1>1, <3>1 DEF IsGrown
  <2>3. /\ t \in Seq(b) /\ Len(t) = m + 1
        /\ \A x \in b : \E j \in 1 .. m + 1 : t[j] = x
        /\ \A j, l \in 1 .. m + 1 : t[j] = t[l] => j = l
        /\ \A j \in 1 .. m + 1 : /\ nx2[t[j]] = t[Succ(j, m + 1)]
                                 /\ pv2[t[Succ(j, m + 1)]] = t[j]
    BY <1>4, <1>6, <2>1
  <2> HIDE DEF t
  <2>4. n = t[1] /\ tl = t[m + 1]
    BY <2>2 DEF Order
  <2>5. Order(t, n, tl, nx2, pv2, b)
    BY <2>1, <2>3, <2>4 DEF Order
  <2> QED BY <2>5 DEF t
<1> QED BY <1>5, <1>6 DEF b

\* What the removal of d from between p and q does to the links of the nodes al.
Unspliced(d, p, q, al, nextOf, prevOf, nextOf2, prevOf2) ==
    /\ nextOf2[p] = q /\ \A x \in al : x # p /\ x # d => nextOf2[x] = nextOf[x]
    /\ prevOf2[q] = p /\ \A x \in al : x # q /\ x # d => prevOf2[x] = prevOf[x]

Pred(i, m) == IF i = 1 THEN m ELSE i - 1

\* A ring of several nodes without its i-th is a ring; head and tail move off it.
LEMMA OrderShrinks ==
    ASSUME NEW s, NEW hd, NEW tl, NEW nx, NEW pv, NEW al, Order(s, hd, tl, nx, pv, al),
           Len(s) # 1, NEW i \in 1 .. Len(s), NEW nx2, NEW pv2,
           Unspliced(s[i], s[Pred(i, Len(s))], s[Succ(i, Len(s))], al, nx, pv, nx2, pv2)
    PROVE  Order(Shrunk(s, i), IF i = 1 THEN s[Succ(i, Len(s))] ELSE hd,
                 IF i = Len(s) THEN s[Pred(i, Len(s))] ELSE tl, nx2, pv2, al \ {s[i]})
<1> DEFINE m == Len(s)
           t == Shrunk(s, i)
           b == al \ {s[i]}
           at(j) == IF j < i THEN j ELSE j + 1
<1>1. s \in Seq(al) /\ m # 0 /\ m # 1
  BY DEF Order
<1>2. m \in Nat \ {0, 1} /\ \A j \in 1 .. m : s[j] \in al
  BY <1>1, LenProperties
<1>3. t \in Seq(al) /\ IsShrunk(t, s, i)
  BY <1>1, ShrunkIsSeq
<1> HIDE DEF t
<1>4. Len(t) = m - 1 /\ \A j \in 1 .. m - 1 : at(j) \in 1 .. m /\ at(j) # i /\ t[j] = s[at(j)]
  BY <1>2, <1>3 DEF IsShrunk
<1>5. \A j \in 1 .. m - 1 : t[j] \in b
  <2>1. ASSUME NEW j \in 1 .. m PROVE j # i => s[j] \in b
    BY <1>2 DEF Order
  <2> HIDE DEF at, b
  <2> QED BY <1>4, <2>1
<1>6. t \in Seq(b)
  <2>1. t \in [1 .. m - 1 -> al] /\ m - 1 \in Nat
    BY <1>2, <1>3, <1>4, LenProperties
  <2> HIDE DEF b
  <2>2. t \in [1 .. m - 1 -> b]
    BY <1>5, <2>1
  <2> QED BY <2>1, <2>2, SeqDef
<1>7. ASSUME NEW x \in b PROVE \E j \in 1 .. m - 1 : t[j] = x
  <2>1. PICK j \in 1 .. m : s[j] = x
    BY DEF Order
  <2>2. j # i
    BY <2>1
  <2> DEFINE l == IF j < i THEN j ELSE j - 1
  <2>3. l \in 1 .. m - 1 /\ at(l) = j
    BY <1>2, <2>2
  <2> QED BY <1>4, <2>1, <2>3
<1>8. ASSUME NEW j \in 1 .. m - 1, NEW l \in 1 .. m - 1, t[j] = t[l] PROVE j = l
  <2>1. at(j) \in 1 .. m /\ at(l) \in 1 .. m /\ s[at(j)] = s[at(l)]
    BY <1>4, <1>8
  <2>2. at(j) = at(l)
    BY <2>1 DEF Order
  <2> QED BY <1>2, <2>2
<1>9. ASSUME NEW j \in 1 .. m - 1
      PROVE  nx2[t[j]] = t[Succ(j, m - 1)] /\ pv2[t[Succ(j, m - 1)]] = t[j]
  <2> DEFINE k == Succ(j, m - 1)
             p == Pred(i, m)
             q == Succ(i, m)
  <2>1. /\ k \in 1 .. m - 1 /\ p \in 1 .. m /\ q \in 1 .. m
        /\ Succ(p, m) = i /\ p # i /\ q # i
    BY <1>2 DEF Succ, Pred
  <2>2. CASE at(j) = p
    <3>1. at(k) = q
      BY <1>2, <2>2 DEF Succ, Pred
    <3>2. t[j] = s[p] /\ t[k] = s[q]
      BY <1>4, <2>1, <2>2, <3>1
    <3> QED BY <3>2 DEF Unspliced
  <2>3. CASE at(j) # p
    <3>1. at(k) = Succ(at(j), m) /\ at(k) # q /\ at(j) \in 1 .. m /\ at(k) \in 1 .. m
          /\ at(j) # i /\ at(k) # i
      BY <1>2, <1>4, <2>1, <2>3 DEF Succ, Pred
    <3>2. t[j] = s[at(j)] /\ t[k] = s[at(k)]
      BY <1>4, <2>1
    <3> HIDE DEF at
    <3>3. /\ s[at(j)] \in al /\ s[at(j)] # s[p] /\ s[at(j)] # s[i]
          /\ s[at(k)] \in al /\ s[at(k)] # s[q] /\ s[at(k)] # s[i]
      BY <1>2, <2>1, <2>3, <3>1 DEF Order
    <3>4. nx[s[at(j)]] = s[at(k)] /\ pv[s[at(k)]] = s[at(j)]
      BY <3>1 DEF Order
    <3> QED BY <3>2, <3>3, <3>4 DEF Unspliced
  <2> QED BY <2>2, <2>3
<1>10. t[1] = (IF i = 1 THEN s[Succ(i, m)] ELSE hd) /\ t[m - 1] = (IF i = m THEN s[Pred(i, m)] ELSE tl)
  <2>1. 1 \in 1 .. m - 1 /\ m - 1 \in 1 .. m - 1
    BY <1>2
  <2>2. t[1] = s[at(1)] /\ t[m - 1] = s[at(m - 1)]
    BY <1>4, <2>1
  <2>3. /\ at(1) = IF i = 1 THEN Succ(i, m) ELSE 1
        /\ at(m - 1) = IF i = m THEN Pred(i, m) ELSE m
    <3>1. m \in Int /\ m >= 2 /\ i \in Int /\ 1 <= i /\ i <= m
      BY <1>2
    <3> HIDE DEF m
    <3>2. at(1) = IF i = 1 THEN Succ(i, m) ELSE 1
      BY <3>1 DEF Succ
    <3>3. at(m - 1) = IF i = m THEN Pred(i, m) ELSE m
      BY <3>1 DEF Pred
    <3> QED BY <3>2, <3>3
  <2> QED BY <2>2, <2>3 DEF Order
<1>11. m - 1 # 0
  BY <1>2
<1> HIDE DEF b
<1>12. Order(t, IF i = 1 THEN s[Succ(i, m)] ELSE hd,
                IF i = m THEN s[Pred(i, m)] ELSE tl, nx2, pv2, b)
  BY <1>4, <1>6, <1>7, <1>8, <1>9, <1>10, <1>11 DEF Order
<1> QED BY <1>12 DEF t, b

-----------------------------------------------------------------------------
(* The walk along the links.                                                 *)
\* A walk takes the link of each node it is at.  Walk is defined by recursion:
\* that such a function exists is what Iteration is for.
LEMMA WalkSteps ==
    ASSUME NEW nx \in [Nodes -> Nodes \cup {NULL}], NEW first \in Nodes \cup {NULL}
    PROVE  /\ Walk(nx, first)[0] = first
           /\ \A i \in Nat : Walk(nx, first)[i] \in Nodes =>
                 Walk(nx, first)[i + 1] = nx[Walk(nx, first)[i]]
<1> DEFINE Addresses == Nodes \cup {NULL}
           step == [p \in Addresses |-> IF p \in Nodes THEN nx[p] ELSE NULL]
           Steps(f, i) == IF i = 0 THEN first ELSE IF f[i - 1] \in Nodes THEN nx[f[i - 1]] ELSE NULL
<1>0. step \in [Addresses -> Addresses] /\ first \in Addresses
  OBVIOUS
<1> HIDE DEF step, Addresses
<1>1. PICK f \in [Nat -> Addresses] : IteratesForEver(f, step, first)
  BY <1>0, Iteration
<1> USE DEF step, Addresses
<1>2. f = [i \in Nat |-> Steps(f, i)]
  <2>1. ASSUME NEW i \in Nat PROVE f[i] = Steps(f, i)
    <3>1. CASE i = 0
      BY <1>1, <3>1 DEF IteratesForEver
    <3>2. CASE i # 0
      <4>1. i - 1 \in Nat /\ (i - 1) + 1 = i
        BY <3>2
      <4>2. f[i] = step[f[i - 1]] /\ f[i - 1] \in Addresses
        BY <1>1, <4>1 DEF IteratesForEver
      <4> QED BY <3>2, <4>2
    <3> QED BY <3>1, <3>2
  <2> QED BY <1>1, <2>1
<1> DEFINE at == CHOOSE g : g = [i \in Nat |-> Steps(g, i)]
<1>3. at = [i \in Nat |-> Steps(at, i)]
  BY <1>2
<1>4. Walk(nx, first) = at
  BY DEF Walk
<1> HIDE DEF at
<1> DEFINE w == Walk(nx, first)
<1>5. \A i \in Nat : w[i] = Steps(w, i)
  BY <1>3, <1>4
<1>6. ASSUME NEW i \in Nat, w[i] \in Nodes PROVE w[i + 1] = nx[w[i]]
  <2>1. i + 1 \in Nat /\ i + 1 # 0 /\ (i + 1) - 1 = i
    OBVIOUS
  <2>2. w[i + 1] = Steps(w, i + 1)
    BY <1>5, <2>1
  <2> HIDE DEF w
  <2> QED BY <1>6, <2>1, <2>2
<1> QED BY <1>5, <1>6

\* A walk from the head of a ring passes its nodes in their order.
LEMMA WalkFollowsOrder ==
    ASSUME NEW al \in SUBSET Nodes, NEW nx \in [Nodes -> Nodes \cup {NULL}],
           NEW s, NEW hd, NEW tl, NEW pv, Order(s, hd, tl, nx, pv, al)
    PROVE  \A i \in 1 .. Len(s) : Walk(nx, hd)[i - 1] = s[i]
<1> DEFINE m == Len(s)
           w == Walk(nx, hd)
           T == {k \in Nat : k < m => w[k] = s[k + 1]}
<1>1. s \in Seq(al) /\ m # 0 /\ hd = s[1]
  BY DEF Order
<1>2. m \in Nat \ {0} /\ \A j \in 1 .. m : s[j] \in Nodes
  BY <1>1, LenProperties
<1>3. hd \in Nodes \cup {NULL}
  BY <1>1, <1>2
<1>4. w[0] = hd /\ \A i \in Nat : w[i] \in Nodes => w[i + 1] = nx[w[i]]
  BY <1>3, WalkSteps
<1> HIDE DEF w
<1>5. 0 \in T
  BY <1>1, <1>2, <1>4
<1>6. ASSUME NEW k \in Nat, k \in T PROVE k + 1 \in T
  <2> SUFFICES ASSUME k + 1 < m PROVE w[k + 1] = s[(k + 1) + 1]
    BY DEF T
  <2>1. k + 1 \in 1 .. m /\ w[k] = s[k + 1] /\ k + 1 # m
    BY <1>2, <1>6
  <2>2. w[k + 1] = nx[s[k + 1]]
    BY <1>2, <1>4, <2>1
  <2>3. nx[s[k + 1]] = s[Succ(k + 1, m)]
    BY <2>1 DEF Order
  <2> QED BY <2>1, <2>2, <2>3 DEF Succ
<1>7. Nat \subseteq T
  <2> HIDE DEF T
  <2> QED BY <1>5, <1>6, SetInduction
<1>8. ASSUME NEW i \in 1 .. m PROVE w[i - 1] = s[i]
  <2>1. i - 1 \in Nat /\ i - 1 < m /\ (i - 1) + 1 = i
    BY <1>2
  <2>2. i - 1 \in T
    BY <1>7, <2>1
  <2> QED BY <2>1, <2>2
<1> QED BY <1>8 DEF w

-----------------------------------------------------------------------------
(* The nodes of a list and the sequence it holds.                            *)

ListTypes ==
    /\ allocated \in SUBSET Nodes
    /\ size \in 0 .. SizeMax
    /\ head \in Nodes \cup {NULL} /\ tail \in Nodes \cup {NULL}
    /\ next \in [Nodes -> Nodes \cup {NULL}] /\ prev \in [Nodes -> Nodes \cup {NULL}]
    /\ elem \in [Nodes -> Elements \cup {NULL}]
    /\ \A n \in allocated : elem[n] \in Elements
    /\ Usable => \A n \in Nodes \ allocated : next[n] = NULL /\ prev[n] = NULL

Empty == allocated = {} /\ head = NULL /\ tail = NULL

\* The list consists of the nodes s, in this order.
Lists(s) == \/ Order(s, head, tail, next, prev, allocated)
            \/ Unlinked /\ s = <<head>>
            \/ (Empty \/ Dangling) /\ s = <<>>

ListInv == ListTypes /\ (Usable => \E s \in Seq(Nodes) : Lists(s))

\* What the nodes s hold.
Held(e, s) == [i \in 1 .. Len(s) |-> e[s[i]]]

\* Held is a sequence as long as s.
LEMMA HeldIsSeq ==
    ASSUME NEW S, NEW e, NEW s \in Seq(Nodes), \A i \in 1 .. Len(s) : e[s[i]] \in S
    PROVE  /\ Held(e, s) \in Seq(S) /\ Len(Held(e, s)) = Len(s)
           /\ \A i \in 1 .. Len(s) : Held(e, s)[i] = e[s[i]]
<1>1. Len(s) \in Nat
  BY LenProperties
<1>2. Held(e, s) \in [1 .. Len(s) -> S]
  BY DEF Held
<1>3. Held(e, s) \in Seq(S)
  BY <1>1, <1>2, SeqDef
<1> QED BY <1>2, <1>3, LenProperties DEF Held

\* Each node occurs once in the order of the list.
Once(s) == /\ s \in Seq(allocated)
           /\ \A i, j \in 1 .. Len(s) : s[i] = s[j] => i = j
           /\ \A n \in allocated : \E i \in 1 .. Len(s) : s[i] = n

\* However the list looks, its nodes are written down once each.
LEMMA ListsOnce == ASSUME NEW s, Lists(s) PROVE Once(s)
<1>1. CASE Order(s, head, tail, next, prev, allocated)
  BY <1>1 DEF Order, Once
<1>2. CASE Unlinked /\ s = <<head>>
  BY <1>2 DEF Unlinked, Once
<1>3. CASE allocated = {} /\ s = <<>>
  BY <1>3 DEF Once
<1> QED BY <1>1, <1>2, <1>3 DEF Lists, Empty, Dangling

\* There are as many of them as are allocated.
LEMMA OnceCounts == ASSUME NEW s, Once(s) PROVE Len(s) = Count
<1>1. /\ Len(s) \in Nat /\ s \in [1 .. Len(s) -> allocated]
  BY LenProperties DEF Once
<1>2. s \in Bijection(1 .. Len(s), allocated)
  BY <1>1, Fun_IsBij DEF Once
<1>3. ExistsBijection(1 .. Len(s), allocated)
  BY <1>2 DEF ExistsBijection
<1> QED BY <1>1, <1>3, FS_CountingElements DEF Count

\* Nodes in order form the ring of ListShape, and the walk meets them in order.
LEMMA OrderIsRing ==
    ASSUME ListTypes, NEW s, Order(s, head, tail, next, prev, allocated)
    PROVE  /\ Ring
           /\ \A i \in 1 .. Len(s) : Reached[i - 1] = s[i]
<1> DEFINE m == Len(s)
<1>1. s \in Seq(allocated) /\ m # 0 /\ Once(s)
  BY DEF Order, Once
<1>2. m \in Nat \ {0} /\ (\A j \in 1 .. m : s[j] \in allocated) /\ Count = m
  BY <1>1, LenProperties, OnceCounts
<1>3. \A i \in 1 .. m : Reached[i - 1] = s[i]
  BY WalkFollowsOrder DEF ListTypes, Reached
<1>4. head = s[1] /\ tail = s[m] /\ head \in allocated /\ tail \in allocated
  BY <1>2 DEF Order
<1>5. next[tail] = head /\ prev[head] = tail
  <2>1. m \in 1 .. m /\ Succ(m, m) = 1
    BY <1>2 DEF Succ
  <2> QED BY <1>4, <2>1 DEF Order
<1>6. {Reached[i] : i \in 0 .. Count - 1} = allocated
  <2>1. ASSUME NEW i \in 0 .. Count - 1 PROVE Reached[i] \in allocated
    <3>1. i + 1 \in 1 .. m /\ (i + 1) - 1 = i
      BY <1>2
    <3> QED BY <1>2, <1>3, <3>1
  <2>2. ASSUME NEW n \in allocated PROVE \E i \in 0 .. Count - 1 : Reached[i] = n
    <3>1. PICK j \in 1 .. m : s[j] = n
      BY DEF Order
    <3>2. j - 1 \in 0 .. Count - 1 /\ Reached[j - 1] = n
      BY <1>2, <1>3, <3>1
    <3> QED BY <3>2
  <2> QED BY <2>1, <2>2
<1>7. Reached[Count - 1] = tail
  <2>1. m \in 1 .. m
    BY <1>2
  <2> QED BY <1>2, <1>3, <1>4, <2>1
<1>8. ASSUME NEW n \in allocated
      PROVE  next[n] \in allocated /\ prev[next[n]] = n /\ prev[n] \in allocated /\ next[prev[n]] = n
  <2>1. PICK i \in 1 .. m : s[i] = n
    BY DEF Order
  <2>2. Succ(i, m) \in 1 .. m /\ Pred(i, m) \in 1 .. m /\ Succ(Pred(i, m), m) = i
    BY <1>2 DEF Succ, Pred
  <2>3. next[n] = s[Succ(i, m)] /\ prev[s[Succ(i, m)]] = n
    BY <2>1 DEF Order
  <2>4. next[s[Pred(i, m)]] = n /\ prev[n] = s[Pred(i, m)]
    BY <2>1, <2>2 DEF Order
  <2> QED BY <1>2, <2>2, <2>3, <2>4
<1>9. Ring
  BY <1>4, <1>5, <1>6, <1>7, <1>8 DEF Ring
<1> QED BY <1>3, <1>9

\* The walk meets the nodes of any list in order.
LEMMA ListsReached ==
    ASSUME HeapAddresses, ListTypes, NEW s, Lists(s)
    PROVE  /\ \A i \in 1 .. Len(s) : Reached[i - 1] = s[i]
           /\ Len(s) # 0 => Ring \/ Unlinked
           /\ Len(s) = 0 => ~Ring /\ ~Unlinked
<1>1. CASE Order(s, head, tail, next, prev, allocated)
  BY <1>1, OrderIsRing DEF Order
<1>2. CASE Unlinked /\ s = <<head>>
  <2>1. Reached[0] = head
    BY WalkSteps DEF Reached, ListTypes
  <2>2. Len(s) = 1 /\ s[1] = head
    BY <1>2
  <2> QED BY <1>2, <2>1, <2>2
<1>3. CASE (Empty \/ Dangling) /\ s = <<>>
  <2>1. allocated = {} /\ Len(s) = 0
    BY <1>3 DEF Empty, Dangling
  <2>2. ~Ring /\ ~Unlinked
    BY <2>1 DEF Ring, Unlinked
  <2>3. 1 .. Len(s) = {}
    BY <2>1
  <2> QED BY <2>1, <2>2, <2>3
<1> QED BY <1>1, <1>2, <1>3 DEF Lists

\* The contents of the list are what its nodes hold.
LEMMA ListsContents ==
    ASSUME HeapAddresses, ListTypes, NEW s, Lists(s)
    PROVE  /\ Contents = Held(elem, s)
           /\ Contents \in Seq(Elements) /\ Len(Contents) = Count /\ Len(s) = Count
           /\ s \in Seq(Nodes)
<1>1. Once(s) /\ Len(s) = Count
  BY ListsOnce, OnceCounts
<1>2. s \in Seq(Nodes) /\ \A i \in 1 .. Len(s) : s[i] \in allocated
  BY <1>1, SeqMonotonic, LenProperties DEF Once, ListTypes
<1>3. \A i \in 1 .. Len(s) : elem[s[i]] \in Elements
  BY <1>2 DEF ListTypes
<1>4. Held(elem, s) \in Seq(Elements) /\ Len(Held(elem, s)) = Len(s)
  BY <1>2, <1>3, HeldIsSeq
<1>5. Contents = Held(elem, s)
  <2>1. CASE Len(s) # 0
    <3>1. Ring \/ Unlinked
      BY <2>1, ListsReached
    <3>2. \A i \in 1 .. Count : elem[Reached[i - 1]] = elem[s[i]]
      BY <1>1, ListsReached
    <3> QED BY <1>1, <3>1, <3>2 DEF Contents, Held
  <2>2. CASE Len(s) = 0
    <3>1. Contents = <<>>
      BY <2>2, ListsReached DEF Contents
    <3>2. Held(elem, s) = <<>>
      BY <1>4, <2>2, EmptySeq
    <3> QED BY <3>1, <3>2
  <2> QED BY <2>1, <2>2
<1> QED BY <1>1, <1>2, <1>4, <1>5

\* The position of a node is its place in the order.
LEMMA PositionIs ==
    ASSUME HeapAddresses, ListTypes, NEW s, Lists(s), NEW i \in 1 .. Len(s)
    PROVE  Position(s[i]) = i
<1>1. Once(s) /\ Len(s) = Count
  BY ListsOnce, OnceCounts
<1>2. \A j \in 1 .. Count : Reached[j - 1] = s[i] <=> j = i
  BY <1>1, ListsReached DEF Once
<1> QED BY <1>1, <1>2 DEF Position

-----------------------------------------------------------------------------
(* Contents in the state after a step.                                       *)

\* ListsContents as one formula, so that it can be stated of the next state.
ContentsFollow == \A s : ListTypes /\ Lists(s) =>
    /\ Contents = Held(elem, s) /\ Contents \in Seq(Elements)
    /\ Len(s) = Count /\ s \in Seq(Nodes)

\* It holds of both states of a step.
LEMMA ContentsFollowNext == ASSUME HeapAddresses PROVE ContentsFollow /\ ContentsFollow'
<1>1. ContentsFollow
  BY ListsContents DEF ContentsFollow
<1>2. ContentsFollow'
  BY <1>1, PTL
<1> QED BY <1>1, <1>2

\* The element x is put at position i with the new node n.
Grows(s, i, n, x) == /\ n \in Nodes \ allocated
                     /\ i \in 1 .. Len(s) + 1
                     /\ Lists(Grown(s, i, n))'
                     /\ allocated' = allocated \cup {n}
                     /\ elem' = [elem EXCEPT ![n] = x]

\* The element at position i is taken out and its node freed.
Shrinks(s, i) == /\ i \in 1 .. Len(s)
                 /\ Lists(Shrunk(s, i))'
                 /\ allocated' = allocated \ {s[i]}
                 /\ elem' = [elem EXCEPT ![s[i]] = NULL]

\* The contents grow with the nodes,
LEMMA GrowsContents ==
    ASSUME HeapAddresses, ListTypes, ListTypes', NEW s, Lists(s),
           NEW i, NEW n, NEW x \in Elements, Grows(s, i, n, x)
    PROVE  Contents' = Grown(Contents, i, x) /\ Count' = Count + 1 /\ i \in 1 .. Len(Contents) + 1
<1> DEFINE t == Grown(s, i, n)
           c == Held(elem, s)
<1>1. /\ Contents = c /\ c \in Seq(Elements) /\ Len(s) = Count /\ s \in Seq(Nodes)
  BY ContentsFollowNext DEF ContentsFollow
<1>2. /\ Contents' = Held(elem', t) /\ Len(t) = Count' /\ Contents' \in Seq(Elements)
  BY ContentsFollowNext DEF ContentsFollow, Grows
<1>3. IsGrown(t, s, i, n)
  BY <1>1, GrownIsSeq DEF Grows
<1>4. Len(s) \in Nat /\ i \in 1 .. Len(s) + 1
  BY <1>1, LenProperties DEF Grows
<1>5. s \in Seq(allocated)
  BY ListsOnce DEF Once
<1>6. \A j \in 1 .. Len(s) : elem'[s[j]] = elem[s[j]]
  <2>1. \A j \in 1 .. Len(s) : s[j] \in allocated
    BY <1>5, LenProperties
  <2> QED BY <2>1 DEF Grows, ListTypes
<1>7. elem'[n] = x
  BY DEF Grows, ListTypes
<1> HIDE DEF t
<1>8. Len(t) = Len(s) + 1
  BY <1>3 DEF IsGrown
<1>9. ASSUME NEW j \in 1 .. Len(s) + 1
      PROVE  elem'[t[j]] = IF j < i THEN c[j] ELSE IF j = i THEN x ELSE c[j - 1]
  <2>1. t[j] = IF j < i THEN s[j] ELSE IF j = i THEN n ELSE s[j - 1]
    BY <1>3 DEF IsGrown
  <2>2. (j < i => j \in 1 .. Len(s)) /\ (~(j < i) /\ j # i => j - 1 \in 1 .. Len(s))
    BY <1>4
  <2>3. \A k \in 1 .. Len(s) : c[k] = elem[s[k]]
    BY DEF Held
  <2> HIDE DEF c
  <2> QED BY <1>6, <1>7, <2>1, <2>2, <2>3
<1>10. Len(c) = Len(s)
  BY <1>4 DEF Held
<1> HIDE DEF c
<1>11. Held(elem', t) = Grown(c, i, x)
  BY <1>8, <1>9, <1>10 DEF Held, Grown
<1> QED BY <1>1, <1>2, <1>4, <1>8, <1>10, <1>11

\* And shrink with them.
LEMMA ShrinksContents ==
    ASSUME HeapAddresses, ListTypes, ListTypes', NEW s, Lists(s), NEW i, Shrinks(s, i)
    PROVE  Contents' = Shrunk(Contents, i) /\ Count' = Count - 1 /\ i \in 1 .. Len(Contents)
<1> DEFINE t == Shrunk(s, i)
           c == Held(elem, s)
<1>1. /\ Contents = c /\ c \in Seq(Elements) /\ Len(s) = Count /\ s \in Seq(Nodes)
  BY ContentsFollowNext DEF ContentsFollow
<1>2. /\ Contents' = Held(elem', t) /\ Len(t) = Count' /\ Contents' \in Seq(Elements)
  BY ContentsFollowNext DEF ContentsFollow, Shrinks
<1>3. IsShrunk(t, s, i)
  BY <1>1, ShrunkIsSeq DEF Shrinks
<1>4. Len(s) \in Nat /\ i \in 1 .. Len(s)
  BY <1>1, LenProperties DEF Shrinks
<1>6. ASSUME NEW j \in 1 .. Len(s), j # i PROVE elem'[s[j]] = elem[s[j]]
  <2>1. s[j] # s[i]
    BY <1>4, <1>6, ListsOnce DEF Once
  <2> QED BY <1>1, <2>1, LenProperties DEF Shrinks, ListTypes
<1> HIDE DEF t
<1>8. Len(t) = Len(s) - 1
  BY <1>3 DEF IsShrunk
<1>9. ASSUME NEW j \in 1 .. Len(s) - 1
      PROVE  elem'[t[j]] = IF j < i THEN c[j] ELSE c[j + 1]
  <2>1. t[j] = IF j < i THEN s[j] ELSE s[j + 1]
    BY <1>3 DEF IsShrunk
  <2>2. j \in 1 .. Len(s) /\ j + 1 \in 1 .. Len(s) /\ (j < i => j # i) /\ (~(j < i) => j + 1 # i)
    BY <1>4
  <2>3. \A k \in 1 .. Len(s) : c[k] = elem[s[k]]
    BY DEF Held
  <2> HIDE DEF c
  <2> QED BY <1>6, <2>1, <2>2, <2>3
<1>10. Len(c) = Len(s)
  BY <1>4 DEF Held
<1> HIDE DEF c
<1>11. Held(elem', t) = Shrunk(c, i)
  BY <1>8, <1>9, <1>10 DEF Held, Shrunk
<1> QED BY <1>1, <1>2, <1>4, <1>8, <1>10, <1>11

-----------------------------------------------------------------------------
(* What each operation does to the nodes of the list.                        *)

\* A list with a head that may be followed consists of some nodes.
LEMMA SafeHead ==
    ASSUME NEW s, Lists(s), head \in allocated
    PROVE  \/ Order(s, head, tail, next, prev, allocated)
           \/ Unlinked /\ s = <<head>>
  BY DEF Lists, Empty, Dangling

\* A push on an empty list: one node, without links.
LEMMA FirstGrows ==
    ASSUME HeapAddresses, ListTypes, NEW s, Lists(s), NEW n, NEW x \in Elements,
           PushFirst(n, x), Usable
    PROVE  Len(s) = 0 /\ Grows(s, 1, n, x)
<1>1. NULL \notin Nodes /\ head \notin allocated
  BY DEF HeapAddresses, ListTypes, PushFirst
<1>2. Empty /\ s = <<>>
  <2>1. CASE Order(s, head, tail, next, prev, allocated)
    <3>1. Len(s) \in Nat \ {0} /\ s[1] \in allocated
      BY <2>1, LenProperties DEF Order
    <3> QED BY <1>1, <2>1, <3>1 DEF Order
  <2>2. ~Unlinked /\ ~Dangling
    BY <1>1 DEF Unlinked, Dangling, PushFirst
  <2> QED BY <2>1, <2>2 DEF Lists
<1>3. Grown(s, 1, n) = <<n>>
  <2>1. s \in Seq({n}) /\ n \in {n} /\ Len(s) = 0 /\ 1 \in 1 .. Len(s) + 1
    BY <1>2
  <2>2. Append(s, n) = Grown(s, Len(s) + 1, n)
    BY <2>1, AppendGrows
  <2>3. Len(s) + 1 = 1 /\ Append(s, n) = <<n>>
    BY <1>2
  <2> QED BY <2>2, <2>3
<1>4. Unlinked'
  BY <1>2 DEF Unlinked, PushFirst, Creates, Empty, links, ListTypes,
                Usable
<1>5. Lists(Grown(s, 1, n))'
  <2>1. head' = n
    BY DEF PushFirst
  <2> QED BY <1>3, <1>4, <2>1 DEF Lists
<1> QED BY <1>2, <1>5 DEF Grows, PushFirst, Creates

\* A node without links is spliced as if it were a ring of its own.
LEMMA UnlinkedOrder ==
    ASSUME ListTypes, Unlinked, NEW nx, NEW pv, nx[head] = head, pv[head] = head
    PROVE  Order(<<head>>, head, tail, nx, pv, allocated)
  BY DEF Unlinked, Order, Succ

\* A node linked at the seam may be taken for the new tail or the new head.
LEMMA SeamGrows ==
    ASSUME HeapAddresses, ListTypes, NEW s, Lists(s), NEW n, NEW x \in Elements, LinkAtSeam(n, x)
    PROVE  /\ s \in Seq(allocated) /\ Len(s) \in Nat \ {0}
           /\ Order(Grown(s, Len(s) + 1, n), head, n, next', prev', allocated')
           /\ Order(Grown(s, 1, n), n, tail, next', prev', allocated')
<1> DEFINE m == Len(s)
<1>1. /\ head \in allocated /\ tail \in allocated /\ n \in Nodes \ allocated
      /\ allocated' = allocated \cup {n} /\ allocated \subseteq Nodes
      /\ next' = [next EXCEPT ![n] = head, ![tail] = n]
      /\ prev' = [prev EXCEPT ![n] = tail, ![head] = n]
  BY DEF LinkAtSeam, Creates, Safe, ListTypes
<1>2. /\ next'[n] = head /\ next'[tail] = n /\ \A y \in allocated : y # tail => next'[y] = next[y]
      /\ prev'[n] = tail /\ prev'[head] = n /\ \A y \in allocated : y # head => prev'[y] = prev[y]
  BY <1>1 DEF ListTypes
<1>3. ASSUME NEW nx, NEW pv, Order(s, head, tail, nx, pv, allocated),
             \A y \in allocated : y # tail => next'[y] = nx[y],
             \A y \in allocated : y # head => prev'[y] = pv[y]
      PROVE  /\ m \in Nat \ {0}
             /\ Order(Grown(s, m + 1, n), head, n, next', prev', allocated')
             /\ Order(Grown(s, 1, n), n, tail, next', prev', allocated')
  <2>1. m \in Nat \ {0} /\ m \in 1 .. m /\ Succ(m, m) = 1
    <3>1. s \in Seq(allocated) /\ m # 0
      BY <1>3 DEF Order
    <3> QED BY <3>1, LenProperties DEF Succ
  <2>2. s[m] = tail /\ s[Succ(m, m)] = head
    BY <1>3, <2>1 DEF Order
  <2>3. Spliced(n, s[m], s[Succ(m, m)], allocated, nx, pv, next', prev')
    BY <1>2, <1>3, <2>2 DEF Spliced
  <2> HIDE DEF m
  <2>4. n \notin allocated
    BY <1>1
  <2>5. /\ Order(Grown(s, m + 1, n), head, IF m = Len(s) THEN n ELSE tail, next', prev', allocated \cup {n})
        /\ m = Len(s) => Order(Grown(s, 1, n), n, tail, next', prev', allocated \cup {n})
    BY <1>3, <2>1, <2>3, <2>4, OrderGrows DEF m
  <2> QED BY <1>1, <2>1, <2>5 DEF m
<1>4. CASE Order(s, head, tail, next, prev, allocated)
  <2>1. s \in Seq(allocated)
    BY <1>4 DEF Order
  <2> QED BY <1>2, <1>3, <1>4, <2>1
<1>5. CASE Unlinked /\ s = <<head>>
  <2> DEFINE nx == [next EXCEPT ![head] = head]
             pv == [prev EXCEPT ![head] = head]
  <2>1. nx[head] = head /\ pv[head] = head
    BY <1>1 DEF ListTypes
  <2>2. /\ \A y \in allocated : y # tail => next'[y] = nx[y]
        /\ \A y \in allocated : y # head => prev'[y] = pv[y]
    BY <1>5 DEF Unlinked
  <2> HIDE DEF nx, pv
  <2>3. Order(s, head, tail, nx, pv, allocated)
    BY <1>5, <2>1, UnlinkedOrder
  <2>4. s \in Seq(allocated)
    BY <2>3 DEF Order
  <2> QED BY <1>3, <2>2, <2>3, <2>4
<1> QED BY <1>1, <1>4, <1>5, SafeHead

\* PushFront takes it for the head,
LEMMA PushFrontGrows ==
    ASSUME HeapAddresses, ListTypes, NEW s, Lists(s), NEW n, NEW x \in Elements,
           PushFront(n, x), status' = "usable"
    PROVE  Grows(s, 1, n, x)
<1>1. CASE PushFirst(n, x)
  BY <1>1, FirstGrows DEF PushFront
<1>2. CASE LinkAtSeam(n, x) /\ head' = n /\ UNCHANGED tail
  <2>1. Order(Grown(s, 1, n), head', tail', next', prev', allocated') /\ Len(s) \in Nat
    BY <1>2, SeamGrows
  <2>2. Lists(Grown(s, 1, n))'
    BY <2>1 DEF Lists
  <2>3. 1 \in 1 .. Len(s) + 1
    BY <2>1
  <2> QED BY <1>2, <2>2, <2>3 DEF Grows, LinkAtSeam, Creates
<1> QED BY <1>1, <1>2 DEF PushFront, Crash

\* PushBack for the tail.
LEMMA PushBackGrows ==
    ASSUME HeapAddresses, ListTypes, NEW s, Lists(s), NEW n, NEW x \in Elements,
           PushBack(n, x), status' = "usable"
    PROVE  Grows(s, Len(s) + 1, n, x)
<1>1. CASE PushFirst(n, x)
  <2>1. Grows(s, 1, n, x) /\ Len(s) = 0
    BY <1>1, FirstGrows DEF PushBack
  <2> QED BY <2>1
<1>2. CASE LinkAtSeam(n, x) /\ tail' = n /\ UNCHANGED head
  <2>1. Order(Grown(s, Len(s) + 1, n), head', tail', next', prev', allocated') /\ Len(s) \in Nat
    BY <1>2, SeamGrows
  <2>2. Lists(Grown(s, Len(s) + 1, n))'
    BY <2>1 DEF Lists
  <2>3. Len(s) + 1 \in 1 .. Len(s) + 1
    BY <2>1
  <2> QED BY <1>2, <2>2, <2>3 DEF Grows, LinkAtSeam, Creates
<1> QED BY <1>1, <1>2 DEF PushBack, Crash

\* Insert puts the new node behind the one it is given.
LEMMA InsertGrows ==
    ASSUME HeapAddresses, ListTypes, NEW s, Lists(s), NEW i \in 1 .. Len(s),
           NEW n, NEW x \in Elements, Insert(s[i], n, x), status' = "usable"
    PROVE  Grows(s, i + 1, n, x)
<1> DEFINE m == Len(s)
<1>1. CASE s[i] = tail /\ PushBack(n, x)
  <2>1. Grows(s, m + 1, n, x)
    BY <1>1, PushBackGrows
  <2>2. i = m
    <3>1. CASE Order(s, head, tail, next, prev, allocated)
      <4>1. s \in Seq(allocated) /\ m # 0
        BY <3>1 DEF Order
      <4>2. m \in 1 .. m
        BY <4>1, LenProperties
      <4> QED BY <1>1, <3>1, <4>2 DEF Order
    <3>2. CASE s = <<head>>
      BY <3>2
    <3>3. CASE s = <<>>
      BY <3>3
    <3> QED BY <3>1, <3>2, <3>3 DEF Lists
  <2> QED BY <2>1, <2>2
<1>2. CASE InsertInside(s[i], n, x)
  <2>1. /\ s[i] \in allocated /\ s[i] # tail /\ next[s[i]] \in allocated /\ n \in Nodes \ allocated
        /\ allocated' = allocated \cup {n} /\ allocated \subseteq Nodes
        /\ next' = [next EXCEPT ![n] = next[s[i]], ![s[i]] = n]
        /\ prev' = [prev EXCEPT ![n] = s[i], ![next[s[i]]] = n]
        /\ head' = head /\ tail' = tail
    BY <1>2 DEF InsertInside, Creates, Safe, ListTypes, Crash
  <2>2. Order(s, head, tail, next, prev, allocated)
    <3>1. CASE s = <<head>> /\ tail = head
      BY <2>1, <3>1
    <3>2. CASE s = <<>>
      BY <3>2
    <3> QED BY <3>1, <3>2 DEF Lists, Unlinked
  <2>3. next[s[i]] = s[Succ(i, m)] /\ (i = m => s[i] = tail)
    BY <2>2 DEF Order
  <2>4. Spliced(n, s[i], s[Succ(i, m)], allocated, next, prev, next', prev')
    BY <2>1, <2>3 DEF Spliced, ListTypes
  <2>5. Order(Grown(s, i + 1, n), head, IF i = m THEN n ELSE tail, next', prev', allocated \cup {n})
    <3> HIDE DEF m
    <3>1. n \notin allocated
      BY <2>1
    <3> QED BY <2>2, <2>4, <3>1, OrderGrows DEF m
  <2>6. Lists(Grown(s, i + 1, n))'
    BY <2>1, <2>3, <2>5 DEF Lists
  <2>7. i + 1 \in 1 .. Len(s) + 1
    <3>1. Len(s) \in Nat
      BY <2>2, LenProperties DEF Order
    <3> QED BY <3>1
  <2> QED BY <1>2, <2>1, <2>6, <2>7 DEF Grows, InsertInside, Creates, Crash
<1> QED BY <1>1, <1>2 DEF Insert

\* Arithmetic of the places on a ring.
LEMMA RingSteps ==
    ASSUME NEW m \in Nat \ {0}, NEW i \in 1 .. m
    PROVE  /\ Succ(i, m) \in 1 .. m /\ Pred(i, m) \in 1 .. m /\ Succ(Pred(i, m), m) = i
           /\ m # 1 => Succ(i, m) # i /\ Pred(i, m) # i
           /\ 1 \in 1 .. m /\ m \in 1 .. m /\ Succ(m, m) = 1 /\ Pred(1, m) = m
  BY DEF Succ, Pred

\* What an order says of the fields of the list and of the links.
LEMMA RingOf ==
    ASSUME ListTypes, NEW s, Order(s, head, tail, next, prev, allocated)
    PROVE  /\ s \in Seq(allocated) /\ Len(s) \in Nat \ {0} /\ allocated \subseteq Nodes
           /\ \A i \in 1 .. Len(s) : /\ s[i] \in allocated
                                     /\ next[s[i]] = s[Succ(i, Len(s))] /\ Succ(i, Len(s)) \in 1 .. Len(s)
                                     /\ prev[s[i]] = s[Pred(i, Len(s))] /\ Pred(i, Len(s)) \in 1 .. Len(s)
           /\ head = s[1] /\ tail = s[Len(s)]
           /\ head = tail => Len(s) = 1
<1> DEFINE m == Len(s)
<1>1. s \in Seq(allocated) /\ m # 0 /\ allocated \subseteq Nodes /\ head = s[1] /\ tail = s[m]
  BY DEF Order, ListTypes
<1>2. m \in Nat \ {0} /\ \A i \in 1 .. m : s[i] \in allocated
  BY <1>1, LenProperties
<1>3. ASSUME NEW i \in 1 .. m
      PROVE  /\ next[s[i]] = s[Succ(i, m)] /\ Succ(i, m) \in 1 .. m
             /\ prev[s[i]] = s[Pred(i, m)] /\ Pred(i, m) \in 1 .. m
  <2>1. Succ(i, m) \in 1 .. m /\ Pred(i, m) \in 1 .. m /\ Succ(Pred(i, m), m) = i
    BY <1>2, RingSteps
  <2> QED BY <2>1 DEF Order
<1>4. head = tail => m = 1
  <2>1. 1 \in 1 .. m /\ m \in 1 .. m
    BY <1>2, RingSteps
  <2>2. s[1] = s[m] => 1 = m
    BY <2>1 DEF Order
  <2> QED BY <1>1, <2>2
<1> QED BY <1>1, <1>2, <1>3, <1>4

\* What taking out the i-th node of a ring leaves.
TakesOut(s, i) == /\ allocated' = allocated \ {s[i]}
                  /\ elem' = [elem EXCEPT ![s[i]] = NULL]

\* A ring of several nodes loses one,
LEMMA RingShrinks ==
    ASSUME ListTypes, NEW s, Order(s, head, tail, next, prev, allocated), Len(s) # 1,
           NEW i \in 1 .. Len(s), TakesOut(s, i),
           head' = (IF i = 1 THEN s[Succ(i, Len(s))] ELSE head),
           tail' = (IF i = Len(s) THEN s[Pred(i, Len(s))] ELSE tail),
           Unspliced(s[i], s[Pred(i, Len(s))], s[Succ(i, Len(s))], allocated, next, prev, next', prev')
    PROVE  Shrinks(s, i) /\ Order(Shrunk(s, i), head', tail', next', prev', allocated')
<1> DEFINE m == Len(s)
<1>1. Order(Shrunk(s, i), IF i = 1 THEN s[Succ(i, m)] ELSE head,
            IF i = m THEN s[Pred(i, m)] ELSE tail, next', prev', allocated \ {s[i]})
  BY OrderShrinks
<1>2. Order(Shrunk(s, i), head', tail', next', prev', allocated')
  BY <1>1 DEF TakesOut
<1>3. Lists(Shrunk(s, i))'
  BY <1>2 DEF Lists
<1> QED BY <1>2, <1>3 DEF Shrinks, TakesOut

\* A list of one node that is taken out.
LEMMA SingleShrinks ==
    ASSUME NEW s, Len(s) = 1, s[1] \in allocated, allocated = {s[1]}, TakesOut(s, 1),
           (Empty \/ Dangling)'
    PROVE  Shrinks(s, 1)
<1>1. Shrunk(s, 1) = <<>>
  BY DEF Shrunk
<1>2. Lists(Shrunk(s, 1))'
  BY <1>1 DEF Lists
<1> QED BY <1>2 DEF Shrinks, TakesOut

\* The list whose head is its tail has one node.
LEMMA SingleOf ==
    ASSUME ListTypes, NEW s, Lists(s), head \in allocated, head = tail
    PROVE  Len(s) = 1 /\ s[1] = head /\ allocated = {head}
<1>1. CASE Order(s, head, tail, next, prev, allocated)
  <2>1. Len(s) = 1 /\ head = s[1]
    BY <1>1, RingOf
  <2>2. \A y \in allocated : y = s[1]
    BY <1>1, <2>1 DEF Order
  <2> QED BY <2>1, <2>2
<1>2. CASE Unlinked /\ s = <<head>>
  BY <1>2 DEF Unlinked
<1> QED BY <1>1, <1>2, SafeHead

\* PopFront takes out the first node,
LEMMA PopFrontShrinks ==
    ASSUME HeapAddresses, ListTypes, NEW s, Lists(s), PopFront, status' = "usable"
    PROVE  Shrinks(s, 1)
<1> DEFINE m == Len(s)
<1>1. CASE head \in allocated /\ head = tail
  <2>1. head' = NULL /\ tail' = NULL /\ allocated' = allocated \ {head}
        /\ elem' = [elem EXCEPT ![head] = NULL]
    BY <1>1 DEF PopFront, Releases, Crash, Safe
  <2>2. m = 1 /\ s[1] = head /\ allocated = {head}
    BY <1>1, SingleOf
  <2>3. Empty'
    BY <2>1, <2>2 DEF Empty
  <2> QED BY <2>1, <2>2, <2>3, SingleShrinks DEF TakesOut
<1>2. CASE ~(head \in allocated /\ head = tail)
  <2>1. /\ head \in allocated /\ head # tail /\ tail \in allocated /\ next[head] \in allocated
        /\ head' = next[head] /\ tail' = tail
        /\ allocated' = allocated \ {head} /\ elem' = [elem EXCEPT ![head] = NULL]
        /\ next' = [[next EXCEPT ![tail] = head'] EXCEPT ![head] = NULL]
        /\ prev' = [[prev EXCEPT ![head'] = tail] EXCEPT ![head] = NULL]
    BY <1>2 DEF PopFront, Releases, Crash, Safe
  <2>2. Order(s, head, tail, next, prev, allocated)
    BY <2>1, SafeHead DEF Unlinked
  <2>3. m # 1 /\ m \in Nat \ {0} /\ head = s[1] /\ tail = s[m] /\ allocated \subseteq Nodes
    BY <2>1, <2>2, RingOf
  <2>4. 1 \in 1 .. m /\ Pred(1, m) = m /\ Succ(1, m) = 2 /\ 2 \in 1 .. m /\ m \in 1 .. m
    <3> HIDE DEF m
    <3> QED BY <2>3 DEF Succ, Pred
  <2>5. next[head] = s[2] /\ s[2] # head
    BY <2>2, <2>3, <2>4 DEF Order
  <2>6. Unspliced(s[1], s[m], s[2], allocated, next, prev, next', prev')
    BY <2>1, <2>3, <2>5 DEF Unspliced, ListTypes
  <2>7. TakesOut(s, 1)
    BY <2>1, <2>3 DEF TakesOut
  <2> QED BY <2>1, <2>2, <2>3, <2>4, <2>5, <2>6, <2>7, RingShrinks
<1> QED BY <1>1, <1>2

\* PopBack the last,
LEMMA PopBackShrinks ==
    ASSUME HeapAddresses, ListTypes, NEW s, Lists(s), PopBack, status' = "usable"
    PROVE  Shrinks(s, Len(s))
<1> DEFINE m == Len(s)
<1>0. head \in allocated /\ tail \in allocated
  <2>1. tail \in allocated
    BY DEF PopBack, Crash, Safe
  <2>2. Order(s, head, tail, next, prev, allocated) \/ Unlinked
    BY <2>1 DEF Lists, Empty, Dangling
  <2> QED BY <2>1, <2>2, RingOf DEF Unlinked
<1>1. CASE head = tail
  <2>1. head' = NULL /\ tail' = NULL /\ allocated' = allocated \ {head} /\ elem' = [elem EXCEPT ![head] = NULL]
    BY <1>0, <1>1 DEF PopBack, Releases, Crash, Safe
  <2>2. m = 1 /\ s[1] = head /\ allocated = {head}
    BY <1>0, <1>1, SingleOf
  <2>3. Empty'
    BY <2>1, <2>2 DEF Empty
  <2> QED BY <2>1, <2>2, <2>3, SingleShrinks DEF TakesOut
<1>2. CASE head # tail
  <2>1. /\ prev[tail] \in allocated
        /\ tail' = prev[tail] /\ head' = head
        /\ allocated' = allocated \ {tail} /\ elem' = [elem EXCEPT ![tail] = NULL]
        /\ next' = [[next EXCEPT ![tail'] = head] EXCEPT ![tail] = NULL]
        /\ prev' = [[prev EXCEPT ![head] = tail'] EXCEPT ![tail] = NULL]
    BY <1>2 DEF PopBack, Releases, Crash, Safe
  <2>2. Order(s, head, tail, next, prev, allocated)
    BY <1>0, <1>2, SafeHead DEF Unlinked
  <2>3. /\ m \in Nat \ {0} /\ head = s[1] /\ tail = s[m] /\ allocated \subseteq Nodes
        /\ prev[s[m]] = s[Pred(m, m)]
    <3>1. m \in Nat \ {0}
      BY <2>2, RingOf
    <3>2. m \in 1 .. m
      BY <3>1
    <3> QED BY <2>2, <3>1, <3>2, RingOf
  <2>4. m # 1
    BY <1>2, <2>3
  <2>5. 1 \in 1 .. m /\ Pred(m, m) = m - 1 /\ Succ(m, m) = 1 /\ m - 1 \in 1 .. m /\ m \in 1 .. m /\ m - 1 # m
    <3> HIDE DEF m
    <3> QED BY <2>3, <2>4 DEF Succ, Pred
  <2>6. prev[tail] = s[m - 1] /\ s[m - 1] # tail
    <3>1. s[m - 1] # s[m]
      BY <2>2, <2>5 DEF Order
    <3> QED BY <2>3, <2>5, <3>1
  <2>7. Unspliced(s[m], s[m - 1], s[1], allocated, next, prev, next', prev')
    BY <1>0, <1>2, <2>1, <2>3, <2>6 DEF Unspliced, ListTypes
  <2>8. TakesOut(s, m)
    BY <2>1, <2>3 DEF TakesOut
  <2> QED BY <2>1, <2>2, <2>3, <2>4, <2>5, <2>6, <2>7, <2>8, RingShrinks
<1> QED BY <1>1, <1>2

\* And Erase the one it is given; nothing is left only of a list of one.
LEMMA EraseShrinks ==
    ASSUME HeapAddresses, ListTypes, NEW s, Lists(s), NEW i \in 1 .. Len(s),
           Erase(s[i]), status' = "usable"
    PROVE  Shrinks(s, i) /\ (Len(s) # 1 => allocated' # {})
<1> DEFINE m == Len(s)
           d == s[i]
<1>1. /\ d \in allocated /\ prev[d] \in allocated /\ next[d] \in allocated
      /\ head' = (IF d = head THEN next[d] ELSE head)
      /\ tail' = (IF d = tail THEN prev[d] ELSE tail)
      /\ allocated' = allocated \ {d} /\ elem' = [elem EXCEPT ![d] = NULL]
      /\ next' = [[next EXCEPT ![prev[d]] = next[d]] EXCEPT ![d] = NULL]
      /\ prev' = [[prev EXCEPT ![next[d]] = prev[d]] EXCEPT ![d] = NULL]
  BY DEF Erase, Releases, Crash, Safe
<1>2. Order(s, head, tail, next, prev, allocated)
  BY <1>1 DEF Lists, Unlinked, Empty, Dangling, HeapAddresses, ListTypes
<1>3. /\ m \in Nat \ {0} /\ head = s[1] /\ tail = s[m] /\ allocated \subseteq Nodes
      /\ next[d] = s[Succ(i, m)] /\ prev[d] = s[Pred(i, m)]
      /\ Succ(i, m) \in 1 .. m /\ Pred(i, m) \in 1 .. m
  BY <1>2, RingOf
<1>4. /\ \A j \in 1 .. m : s[j] = d <=> j = i
      /\ 1 \in 1 .. m /\ m \in 1 .. m
  <2>1. \A j \in 1 .. m : s[j] = d <=> j = i
    BY <1>2 DEF Order
  <2> QED BY <1>3, <2>1, RingSteps
<1>5. TakesOut(s, i)
  BY <1>1 DEF TakesOut
<1>6. CASE m = 1
  <2>1. i = 1 /\ allocated = {d} /\ Succ(i, m) = 1 /\ Pred(i, m) = 1
    <3>1. i = 1
      BY <1>6
    <3>2. \A y \in allocated : y = d
      BY <1>2, <1>6, <3>1 DEF Order
    <3> QED BY <1>1, <1>6, <3>1, <3>2 DEF Succ, Pred
  <2>2. head' = d /\ tail' = d /\ allocated' = {} /\ d \in Nodes
    <3>1. d = head /\ d = tail /\ next[d] = d /\ prev[d] = d
      BY <1>3, <1>6, <2>1
    <3> QED BY <1>1, <1>3, <2>1, <3>1
  <2>3. Dangling'
    BY <2>2 DEF Dangling, Usable
  <2> QED BY <1>1, <1>5, <1>6, <2>1, <2>3, SingleShrinks
<1>7. CASE m # 1
  <2>1. Succ(i, m) # i /\ Pred(i, m) # i
    BY <1>3, <1>7, RingSteps
  <2>2. next[d] # d /\ prev[d] # d
    BY <1>3, <1>4, <2>1
  <2>3. Unspliced(d, s[Pred(i, m)], s[Succ(i, m)], allocated, next, prev, next', prev')
    BY <1>1, <1>3, <2>2 DEF Unspliced, ListTypes
  <2>4. /\ head' = (IF i = 1 THEN s[Succ(i, m)] ELSE head)
        /\ tail' = (IF i = m THEN s[Pred(i, m)] ELSE tail)
    BY <1>1, <1>3, <1>4
  <2>5. Shrinks(s, i)
    BY <1>2, <1>5, <1>7, <2>3, <2>4, RingShrinks
  <2> QED BY <1>1, <2>2, <2>5
<1> QED BY <1>6, <1>7

\* SetListNode leaves the nodes in order.
LEMMA SetKeeps ==
    ASSUME HeapAddresses, ListTypes, NEW s, Lists(s), NEW pos, NEW x \in Elements, SetListNode(pos, x)
    PROVE  Lists(s)'
  BY DEF SetListNode, Lists, Order, Unlinked, Empty, Dangling, links, Usable

-----------------------------------------------------------------------------
(* The inductive invariant.                                                  *)

\* Size_t stays in its range.
LEMMA SizeArithmetic ==
    ASSUME HeapAddresses, size \in 0 .. SizeMax
    PROVE  SizeInc \in 0 .. SizeMax /\ SizeDec \in 0 .. SizeMax /\ 1 \in 0 .. SizeMax
  BY DEF SizeInc, SizeDec, HeapAddresses

\* The types, action by action: pushes,
LEMMA PushTypes ==
    ASSUME HeapAddresses, ListTypes, Usable, NEW n, NEW x \in Elements, 
           PushFirst(n, x) \/ LinkAtSeam(n, x), head' \in {head, n}, tail' \in {tail, n}
    PROVE  ListTypes'
<1>1. n \in Nodes \ allocated /\ allocated' = allocated \cup {n} /\ elem' = [elem EXCEPT ![n] = x]
  BY DEF PushFirst, LinkAtSeam, Creates
<1>2. size' \in 0 .. SizeMax
  BY SizeArithmetic DEF PushFirst, LinkAtSeam, ListTypes
<1>3. /\ next' \in [Nodes -> Nodes \cup {NULL}] /\ prev' \in [Nodes -> Nodes \cup {NULL}]
      /\ \A y \in Nodes \ allocated' : next'[y] = NULL /\ prev'[y] = NULL
  <2>1. CASE PushFirst(n, x)
    BY <1>1, <2>1 DEF PushFirst, ListTypes, links
  <2>2. CASE LinkAtSeam(n, x)
    BY <1>1, <2>2 DEF LinkAtSeam, ListTypes, Safe
  <2> QED BY <2>1, <2>2
<1> QED BY <1>1, <1>2, <1>3 DEF ListTypes

\* Operations that free a node,
LEMMA ReleaseTypes ==
    ASSUME HeapAddresses, ListTypes, Usable, NEW d \in allocated, NEW nx, NEW pv, Releases(d, nx, pv),
           nx \in [Nodes -> Nodes \cup {NULL}], pv \in [Nodes -> Nodes \cup {NULL}],
           \A y \in Nodes \ allocated : nx[y] = NULL /\ pv[y] = NULL,
           head' \in Nodes \cup {NULL}, tail' \in Nodes \cup {NULL}, size' \in {size, SizeDec}
    PROVE  ListTypes'
<1>1. size' \in 0 .. SizeMax
  BY SizeArithmetic DEF ListTypes
<1>2. d \in Nodes /\ allocated' = allocated \ {d}
  BY DEF ListTypes, Releases
<1>3. next' \in [Nodes -> Nodes \cup {NULL}] /\ prev' \in [Nodes -> Nodes \cup {NULL}]
  BY <1>2 DEF Releases
<1>4. \A y \in Nodes \ allocated' : next'[y] = NULL /\ prev'[y] = NULL
  BY <1>2 DEF Releases
<1>5. elem' \in [Nodes -> Elements \cup {NULL}] /\ \A y \in allocated' : elem'[y] \in Elements
  BY <1>2 DEF Releases, ListTypes
<1> QED BY <1>1, <1>2, <1>3, <1>4, <1>5 DEF ListTypes

\* The initial state,
LEMMA InitTypes == ASSUME HeapAddresses PROVE Init => ListTypes /\ Empty
  BY DEF HeapAddresses, Init, ListTypes, Empty

\* Crashes,
LEMMA CrashTypes == ListTypes /\ status' = "crashed"
                    /\ UNCHANGED <<head, tail, size, links, elem, allocated>>
                    => ListTypes'
  BY DEF ListTypes, links, Usable

\* And every operation.
LEMMA NextTypes == ASSUME HeapAddresses, ListTypes, Next PROVE ListTypes'
<1>1. ASSUME NEW n \in Nodes, NEW x \in Elements, PushFront(n, x) PROVE ListTypes'
  BY <1>1, PushTypes, CrashTypes DEF PushFront, PushFirst, Crash
<1>2. ASSUME NEW n \in Nodes, NEW x \in Elements, PushBack(n, x) PROVE ListTypes'
  BY <1>2, PushTypes, CrashTypes DEF PushBack, PushFirst, Crash
<1>3. ASSUME NEW n \in Nodes, NEW x \in Elements, NEW pos \in allocated, InsertInside(pos, n, x)
      PROVE  ListTypes'
  <2>1. CASE ~Crash({next[pos]})
    <3>1. n \in Nodes \ allocated /\ allocated' = allocated \cup {n} /\ elem' = [elem EXCEPT ![n] = x]
          /\ next[pos] \in allocated
          /\ next' = [next EXCEPT ![n] = next[pos], ![pos] = n]
          /\ prev' = [prev EXCEPT ![n] = pos, ![next[pos]] = n]
          /\ UNCHANGED <<head, tail, size, status>>
      BY <1>3, <2>1 DEF InsertInside, Creates, Safe
    <3>2. \A y \in Nodes \ allocated' : y # n /\ y # pos /\ y # next[pos] /\ y \in Nodes \ allocated
      BY <3>1
    <3>3. /\ next' \in [Nodes -> Nodes \cup {NULL}] /\ prev' \in [Nodes -> Nodes \cup {NULL}]
      BY <3>1 DEF ListTypes
    <3>4. Usable => \A y \in Nodes \ allocated' : next'[y] = NULL /\ prev'[y] = NULL
      BY <3>1, <3>2 DEF ListTypes
    <3>5. elem' \in [Nodes -> Elements \cup {NULL}] /\ \A y \in allocated' : elem'[y] \in Elements
      BY <3>1 DEF ListTypes
    <3> QED BY <1>3, <3>1, <3>3, <3>4, <3>5 DEF ListTypes, InsertInside, Usable
  <2>2. CASE Crash({next[pos]})
    BY <2>2, CrashTypes DEF Crash
  <2> QED BY <2>1, <2>2
<1>4. ASSUME PopFront PROVE ListTypes'
  <2>1. CASE status' = "crashed"
    BY <1>4, <2>1, CrashTypes DEF PopFront, Crash, Usable
  <2>2. CASE status' # "crashed"
    <3>1. /\ Usable /\ head \in allocated /\ size' = SizeDec
          /\ \/ Releases(head, next, prev) /\ head' = NULL /\ tail' = NULL
             \/ /\ head # tail /\ tail \in allocated /\ next[head] \in allocated
                /\ head' = next[head] /\ tail' = tail
                /\ Releases(head, [next EXCEPT ![tail] = head'], [prev EXCEPT ![head'] = tail])
      BY <1>4, <2>2 DEF PopFront, Crash, Safe
    <3>2. CASE Releases(head, next, prev) /\ head' = NULL /\ tail' = NULL
      BY <3>1, <3>2, ReleaseTypes DEF ListTypes
    <3>3. CASE /\ head # tail /\ tail \in allocated /\ next[head] \in allocated
               /\ head' = next[head] /\ tail' = tail
               /\ Releases(head, [next EXCEPT ![tail] = head'], [prev EXCEPT ![head'] = tail])
      <4> DEFINE nx == [next EXCEPT ![tail] = head']
                 pv == [prev EXCEPT ![head'] = tail]
      <4>1. /\ nx \in [Nodes -> Nodes \cup {NULL}] /\ pv \in [Nodes -> Nodes \cup {NULL}]
            /\ \A y \in Nodes \ allocated : nx[y] = NULL /\ pv[y] = NULL
            /\ head' \in Nodes \cup {NULL} /\ tail' \in Nodes \cup {NULL}
        BY <3>1, <3>3 DEF ListTypes
      <4> HIDE DEF nx, pv
      <4>2. Releases(head, nx, pv)
        BY <3>3 DEF nx, pv
      <4> QED BY <3>1, <4>1, <4>2, ReleaseTypes
    <3> QED BY <3>1, <3>2, <3>3
  <2> QED BY <2>1, <2>2
<1>5. ASSUME PopBack PROVE ListTypes'
  <2>1. CASE status' = "crashed"
    BY <1>5, <2>1, CrashTypes DEF PopBack, Crash, Usable
  <2>2. CASE status' # "crashed"
    <3>1. /\ Usable /\ tail \in allocated /\ size' = SizeDec
          /\ \/ Releases(tail, next, prev) /\ head' = NULL /\ tail' = NULL
             \/ /\ head # tail /\ head \in allocated /\ prev[tail] \in allocated
                /\ tail' = prev[tail] /\ head' = head
                /\ Releases(tail, [next EXCEPT ![tail'] = head], [prev EXCEPT ![head] = tail'])
      BY <1>5, <2>2 DEF PopBack, Crash, Safe
    <3>2. CASE Releases(tail, next, prev) /\ head' = NULL /\ tail' = NULL
      BY <3>1, <3>2, ReleaseTypes DEF ListTypes
    <3>3. CASE /\ head # tail /\ head \in allocated /\ prev[tail] \in allocated
               /\ tail' = prev[tail] /\ head' = head
               /\ Releases(tail, [next EXCEPT ![tail'] = head], [prev EXCEPT ![head] = tail'])
      <4> DEFINE nx == [next EXCEPT ![tail'] = head]
                 pv == [prev EXCEPT ![head] = tail']
      <4>1. /\ nx \in [Nodes -> Nodes \cup {NULL}] /\ pv \in [Nodes -> Nodes \cup {NULL}]
            /\ \A y \in Nodes \ allocated : nx[y] = NULL /\ pv[y] = NULL
            /\ head' \in Nodes \cup {NULL} /\ tail' \in Nodes \cup {NULL}
        BY <3>1, <3>3 DEF ListTypes
      <4> HIDE DEF nx, pv
      <4>2. Releases(tail, nx, pv)
        BY <3>3 DEF nx, pv
      <4> QED BY <3>1, <4>1, <4>2, ReleaseTypes
    <3> QED BY <3>1, <3>2, <3>3
  <2> QED BY <2>1, <2>2
<1>6. ASSUME NEW d \in allocated, Erase(d) PROVE ListTypes'
  <2>1. CASE Crash({prev[d], next[d]})
    BY <2>1, CrashTypes DEF Crash
  <2>2. CASE ~Crash({prev[d], next[d]})
    <3> DEFINE nx == [next EXCEPT ![prev[d]] = next[d]]
               pv == [prev EXCEPT ![next[d]] = prev[d]]
    <3>1. /\ Usable /\ size' = size /\ prev[d] \in allocated /\ next[d] \in allocated
          /\ head' \in {head, next[d]} /\ tail' \in {tail, prev[d]} /\ Releases(d, nx, pv)
      BY <1>6, <2>2 DEF Erase, Safe
    <3>2. /\ nx \in [Nodes -> Nodes \cup {NULL}] /\ pv \in [Nodes -> Nodes \cup {NULL}]
          /\ \A y \in Nodes \ allocated : nx[y] = NULL /\ pv[y] = NULL
          /\ head' \in Nodes \cup {NULL} /\ tail' \in Nodes \cup {NULL}
      BY <3>1 DEF ListTypes
    <3> HIDE DEF nx, pv
    <3> QED BY <3>1, <3>2, ReleaseTypes
  <2> QED BY <2>1, <2>2
<1>7. ASSUME NEW pos \in allocated, NEW x \in Elements, SetListNode(pos, x) PROVE ListTypes'
  BY <1>7 DEF SetListNode, ListTypes, links, Usable
<1>8. ASSUME Destroy PROVE ListTypes'
  <2>1. /\ UNCHANGED <<head, tail, size, links, elem>> /\ allocated' \subseteq allocated
        /\ status' # "usable"
    BY <1>8 DEF Destroy
  <2> QED BY <2>1 DEF ListTypes, links, Usable
<1> QED BY <1>1, <1>2, <1>3, <1>4, <1>5, <1>6, <1>7, <1>8 DEF Next, Insert

\* What an operation that neither crashes nor destroys does to the nodes.
Edits(s) == \/ \E i, n : \E x \in Elements : Grows(s, i, n, x)
            \/ \E i : Shrinks(s, i)
            \/ Lists(s)' /\ \E pos \in allocated, x \in Elements : SetListNode(pos, x)

\* Every allocated node has a place in the order.
LEMMA IndexOf ==
    ASSUME NEW s, Lists(s), NEW pos \in allocated PROVE \E i \in 1 .. Len(s) : s[i] = pos
  BY ListsOnce DEF Once

\* Every operation that neither crashes nor destroys is one of these edits.
LEMMA NextEdits ==
    ASSUME HeapAddresses, ListTypes, NEW s, Lists(s), Next, status' = "usable"
    PROVE  Edits(s)
<1>1. ASSUME NEW n \in Nodes, NEW x \in Elements, PushFront(n, x) PROVE Edits(s)
  BY <1>1, PushFrontGrows DEF Edits
<1>2. ASSUME NEW n \in Nodes, NEW x \in Elements, PushBack(n, x) PROVE Edits(s)
  BY <1>2, PushBackGrows DEF Edits
<1>3. ASSUME NEW n \in Nodes, NEW x \in Elements, NEW pos \in allocated, Insert(pos, n, x) PROVE Edits(s)
  <2>1. PICK i \in 1 .. Len(s) : s[i] = pos
    BY IndexOf
  <2>2. Grows(s, i + 1, n, x)
    BY <1>3, <2>1, InsertGrows
  <2> QED BY <2>2 DEF Edits
<1>4. ASSUME PopFront PROVE Edits(s)
  BY <1>4, PopFrontShrinks DEF Edits
<1>5. ASSUME PopBack PROVE Edits(s)
  BY <1>5, PopBackShrinks DEF Edits
<1>6. ASSUME NEW pos \in allocated, Erase(pos) PROVE Edits(s)
  <2>1. PICK i \in 1 .. Len(s) : s[i] = pos
    BY IndexOf
  <2>2. Shrinks(s, i)
    BY <1>6, <2>1, EraseShrinks
  <2> QED BY <2>2 DEF Edits
<1>7. ASSUME NEW pos \in allocated, NEW x \in Elements, SetListNode(pos, x) PROVE Edits(s)
  BY <1>7, SetKeeps DEF Edits
<1>8. ~Destroy
  BY DEF Destroy
<1> QED BY <1>1, <1>2, <1>3, <1>4, <1>5, <1>6, <1>7, <1>8 DEF Next

\* Every step is one of a usable list.
LEMMA StepFromUsable == Next => Usable
  BY DEF Next, Usable, PushFront, PushBack, Insert, InsertInside, PopFront, PopBack, Erase,
         SetListNode, Destroy

\* The nodes stay in one order.
LEMMA NextInv == ASSUME HeapAddresses, ListInv, Next PROVE ListInv'
<1>1. ListTypes'
  BY NextTypes DEF ListInv
<1>2. ASSUME Usable' PROVE \E t \in Seq(Nodes) : Lists(t)'
  <2>1. Usable /\ status' = "usable"
    BY <1>2, StepFromUsable DEF Usable
  <2>2. PICK s \in Seq(Nodes) : Lists(s)
    BY <2>1 DEF ListInv
  <2>3. PICK t : Lists(t)'
    <3>1. Edits(s)
      BY <2>1, <2>2, NextEdits DEF ListInv
    <3> QED BY <3>1 DEF Edits, Grows, Shrinks
  <2>4. t \in Seq(Nodes)
    BY <1>1, <2>3, ContentsFollowNext DEF ContentsFollow
  <2> QED BY <2>3, <2>4
<1> QED BY <1>1, <1>2 DEF ListInv

\* An adapter only does what its list allows.
LEMMA AdapterStep == AdapterNext => Next
  BY DEF AdapterNext, Next, StackPush, QueuePush, DequePushBack, DequePushFront, StackPop, QueuePop,
         DequePopFront, DequePopBack, DestroyAdapter

\* From the creation on, the nodes of a list are in one order.
THEOREM ListInvariant == ASSUME HeapAddresses PROVE AdapterSpec => []ListInv
<1>1. AdapterInit => ListInv
  <2>1. <<>> \in Seq(Nodes)
    OBVIOUS
  <2> QED BY <2>1, InitTypes DEF AdapterInit, ListInv, Lists
<1>2. ListInv /\ [AdapterNext]_adapterVars => ListInv'
  <2>1. ListInv /\ AdapterNext => ListInv'
    BY AdapterStep, NextInv
  <2>2. ListInv /\ UNCHANGED adapterVars => ListInv'
    BY DEF ListInv, adapterVars, vars, links, ListTypes, Lists, Order, Unlinked, Empty, Dangling, Usable
  <2> QED BY <2>1, <2>2
<1> QED BY <1>1, <1>2, PTL DEF AdapterSpec

\* Whatever is pushed, popped, inserted and erased, the nodes form one ring and
\* none is lost, short of the states that ListShape lists (list.c).
THEOREM ListKeepsShape == ASSUME HeapAddresses PROVE AdapterSpec => []ListShape
<1>1. ListInv => ListShape
  BY OrderIsRing DEF ListInv, Lists, ListShape, Empty
<1> QED BY <1>1, ListInvariant, PTL

-----------------------------------------------------------------------------
(* Crashes.                                                                  *)

\* A destroy that trusts a size no larger than the list meets allocated nodes
\* only, and none twice.
LEMMA DestroyWalks ==
    ASSUME HeapAddresses, ListTypes, NEW s, Lists(s), Usable, size <= Count, ~Dangling, Destroy
    PROVE  status' = "destroyed"
<1>1. CASE Len(s) = 0
  <2>1. head = NULL
    BY <1>1, ListsReached DEF Lists, Empty, Order, Unlinked
  <2> QED BY <2>1 DEF Destroy, Safe
<1>2. CASE Len(s) # 0
  <2> DEFINE walked == {Reached[i] : i \in 0 .. size - 1}
  <2>1. Len(s) = Count /\ s \in Seq(allocated)
    BY ListsContents, ListsOnce DEF Once
  <2>2. size \in Nat /\ Count \in Nat
    BY <2>1, LenProperties DEF ListTypes, HeapAddresses
  <2>3. \A i \in 0 .. size - 1 : Reached[i] = s[i + 1] /\ i + 1 \in 1 .. Len(s)
    <3>1. ASSUME NEW i \in 0 .. size - 1 PROVE i + 1 \in 1 .. Len(s) /\ (i + 1) - 1 = i
      BY <2>1, <2>2
    <3> QED BY <3>1, ListsReached
  <2>4. walked \subseteq allocated
    BY <2>1, <2>3, LenProperties
  <2>5. Cardinality(walked) = size
    <3> DEFINE f == [i \in 1 .. size |-> Reached[i - 1]]
    <3>1. \A i \in 1 .. size : i - 1 \in 0 .. size - 1 /\ Reached[i - 1] = s[i] /\ i \in 1 .. Len(s)
      <4>1. ASSUME NEW i \in 1 .. size PROVE i - 1 \in 0 .. size - 1 /\ (i - 1) + 1 = i
        BY <2>2
      <4> QED BY <2>3, <4>1
    <3>2. \A w \in walked : \E i \in 1 .. size : f[i] = w
      <4>1. ASSUME NEW k \in 0 .. size - 1 PROVE k + 1 \in 1 .. size /\ (k + 1) - 1 = k
        BY <2>2
      <4> QED BY <4>1
    <3>3. f \in [1 .. size -> walked]
      BY <3>1
    <3>4. \A i, j \in 1 .. size : f[i] = f[j] => i = j
      <4>1. \A i \in 1 .. size : f[i] = s[i]
        BY <3>1
      <4> HIDE DEF f
      <4> QED BY <3>1, <4>1, ListsOnce DEF Once
    <3> HIDE DEF f, walked
    <3>5. f \in Bijection(1 .. size, walked)
      BY <3>2, <3>3, <3>4, Fun_IsBij
    <3> QED BY <2>2, <3>5, FS_CountingElements DEF ExistsBijection
  <2> HIDE DEF walked
  <2>6. Safe(walked)
    BY <2>4 DEF Safe
  <2>7. head # NULL
    BY <1>2, ListsReached DEF Ring, Unlinked, HeapAddresses, ListTypes
  <2> QED BY <2>5, <2>6, <2>7 DEF Destroy, walked
<1> QED BY <1>1, <1>2

\* At its two ends a list that does not dangle is safe.
LEMMA EndsAreSafe ==
    ASSUME HeapAddresses, ListInv, Usable, ~Dangling, status' = "crashed"
    PROVE  /\ \A n \in Nodes, x \in Elements : ~PushFront(n, x) /\ ~PushBack(n, x)
           /\ ~PopFront /\ ~PopBack
           /\ Destroy => size > Count
<1>1. PICK s \in Seq(Nodes) : Lists(s)
  BY DEF ListInv
<1>2. ListTypes /\ NULL \notin Nodes
  BY DEF ListInv, HeapAddresses
<1>3. Ring \/ Unlinked \/ Empty
  BY <1>1, <1>2, OrderIsRing DEF Lists
<1>4. head # NULL => head \in allocated /\ tail \in allocated
  BY <1>3 DEF Ring, Unlinked, Empty
<1>5. head # NULL /\ head # tail => next[head] \in allocated /\ prev[tail] \in allocated
  BY <1>3 DEF Ring, Unlinked, Empty
<1>6. \A n \in Nodes, x \in Elements : ~PushFront(n, x) /\ ~PushBack(n, x)
  BY <1>4 DEF PushFront, PushBack, PushFirst, LinkAtSeam, Crash, Safe, Usable
<1>7. ~PopFront /\ ~PopBack
  BY <1>4, <1>5 DEF PopFront, PopBack, Crash, Safe, Usable
<1>8. Destroy => ~(size <= Count)
  BY <1>1, <1>2, DestroyWalks
<1>9. size \in Nat /\ Count \in Nat
  <2>1. Len(s) = Count
    BY <1>1, <1>2, ListsContents
  <2> QED BY <1>1, <1>2, <2>1, LenProperties DEF ListTypes, HeapAddresses
<1> QED BY <1>6, <1>7, <1>8, <1>9

\* What a crash needs,
LEMMA CrashTraced ==
    ASSUME HeapAddresses, ListInv, Usable, Next, status' = "crashed"
    PROVE  Dangling \/ (Unlinked /\ \E n \in allocated : Erase(n)) \/ (Destroy /\ size > Count)
<1> SUFFICES ASSUME ~Dangling, ~(Unlinked /\ \E n \in allocated : Erase(n)) PROVE Destroy /\ size > Count
  OBVIOUS
<1>1. Ring \/ Unlinked \/ Empty
  BY OrderIsRing DEF ListInv, Lists
<1>2. /\ \A n \in Nodes, x \in Elements : ~PushFront(n, x) /\ ~PushBack(n, x)
      /\ ~PopFront /\ ~PopBack
      /\ Destroy => size > Count
  BY EndsAreSafe
<1>3. ASSUME NEW pos \in allocated, NEW n \in Nodes, NEW x \in Elements PROVE ~InsertInside(pos, n, x)
  <2>1. pos # tail => next[pos] \in allocated
    BY <1>1 DEF Ring, Unlinked, Empty
  <2> QED BY <2>1 DEF InsertInside, Crash, Safe, Usable
<1>4. ASSUME NEW pos \in allocated PROVE ~Erase(pos)
  <2>1. CASE Ring
    BY <2>1 DEF Ring, Erase, Crash, Safe, Usable
  <2>2. CASE ~Ring
    BY <1>1, <2>2 DEF Empty
  <2> QED BY <2>1, <2>2
<1>5. \A pos \in allocated, x \in Elements : ~SetListNode(pos, x)
  BY DEF SetListNode, Usable
<1> QED BY <1>2, <1>3, <1>4, <1>5 DEF Next, Insert

\* And what a dangling list comes from.
LEMMA DanglingNeeds ==
    ASSUME HeapAddresses, ListInv, Next, Dangling'
    PROVE  Dangling \/ (Count = 1 /\ \E n \in allocated : Erase(n))
<1>1. Usable /\ status' = "usable" /\ allocated' = {} /\ head' \in Nodes /\ NULL \notin Nodes
  BY StepFromUsable DEF Dangling, Usable, HeapAddresses
<1>2. PICK s \in Seq(Nodes) : Lists(s)
  BY <1>1 DEF ListInv
<1>3. ListTypes /\ Len(s) = Count
  BY <1>2, ListsContents DEF ListInv
<1>4. \A i, n, x : ~Grows(s, i, n, x)
  BY <1>1 DEF Grows
<1>5. \A n \in Nodes, x \in Elements : ~PushFront(n, x) /\ ~PushBack(n, x)
  BY <1>1, <1>2, <1>3, <1>4, PushFrontGrows, PushBackGrows
<1>6. ASSUME NEW pos \in allocated, NEW n \in Nodes, NEW x \in Elements PROVE ~Insert(pos, n, x)
  <2>1. PICK i \in 1 .. Len(s) : s[i] = pos
    BY <1>2, IndexOf
  <2> QED BY <1>1, <1>2, <1>3, <1>4, <2>1, InsertGrows
<1>7. ~PopFront
  <2> SUFFICES ASSUME PopFront PROVE FALSE
    OBVIOUS
  <2>1. /\ head \in allocated /\ head # tail /\ tail \in allocated /\ allocated' = allocated \ {head}
    BY <1>1 DEF PopFront, Crash, Safe, Releases
  <2> QED BY <1>1, <2>1
<1>8. ~PopBack
  <2> SUFFICES ASSUME PopBack PROVE FALSE
    OBVIOUS
  <2>1. /\ head \in allocated /\ head # tail /\ tail \in allocated /\ allocated' = allocated \ {tail}
    BY <1>1 DEF PopBack, Crash, Safe, Releases
  <2> QED BY <1>1, <2>1
<1>9. ASSUME NEW pos \in allocated, Erase(pos) PROVE Count = 1
  <2>1. PICK i \in 1 .. Len(s) : s[i] = pos
    BY <1>2, IndexOf
  <2> QED BY <1>1, <1>2, <1>3, <1>9, <2>1, EraseShrinks
<1>10. ASSUME NEW pos \in allocated, NEW x \in Elements, SetListNode(pos, x) PROVE FALSE
  BY <1>1, <1>10 DEF SetListNode
<1>11. ~Destroy
  BY <1>1 DEF Destroy
<1> QED BY <1>5, <1>6, <1>7, <1>8, <1>9, <1>10, <1>11 DEF Next

\* Every crash is traced to what made it possible: a list that dangles, the
\* erasure of a node without links, or a destroy that trusts a size above the
\* number of nodes; and a list dangles only after the erasure of its only node.
THEOREM ListCrashExplained == ASSUME HeapAddresses PROVE AdapterSpec => CrashExplained
<1>1. ListInv /\ [AdapterNext]_adapterVars => [CrashNeeds]_vars
  <2>1. ASSUME ListInv, AdapterNext PROVE CrashNeeds
    BY <2>1, AdapterStep, CrashTraced, DanglingNeeds DEF Usable, CrashNeeds
  <2> QED BY <2>1 DEF adapterVars
<1> QED BY <1>1, ListInvariant, PTL DEF AdapterSpec, CrashExplained

-----------------------------------------------------------------------------
(* The size and the number of nodes.                                         *)

\* Size_t arithmetic around the ends of its range.
LEMMA SizeSteps ==
    ASSUME HeapAddresses, size \in 0 .. SizeMax
    PROVE  /\ (SizeInc - size) % (SizeMax + 1) = 1 % (SizeMax + 1)
           /\ (SizeDec - size) % (SizeMax + 1) = (-1) % (SizeMax + 1)
           /\ size < SizeMax => SizeInc = size + 1
           /\ 0 < size => SizeDec = size - 1
<1>1. size \in Nat /\ SizeMax \in Nat \ {0} /\ size <= SizeMax
  BY DEF HeapAddresses
<1>2. SizeInc = IF size = SizeMax THEN 0 ELSE size + 1
  <2>1. CASE size = SizeMax
    BY <1>1, <2>1 DEF SizeInc
  <2>2. CASE size # SizeMax
    BY <1>1, <2>2 DEF SizeInc
  <2> QED BY <2>1, <2>2
<1>3. SizeDec = IF size = 0 THEN SizeMax ELSE size - 1
  <2>1. CASE size = 0
    BY <1>1, <2>1 DEF SizeDec
  <2>2. CASE size # 0
    BY <1>1, <2>2 DEF SizeDec
  <2> QED BY <2>1, <2>2
<1>4. 1 % (SizeMax + 1) = 1 /\ (-1) % (SizeMax + 1) = SizeMax /\ (0 - SizeMax) % (SizeMax + 1) = 1
  BY <1>1
<1>5. (SizeInc - size) % (SizeMax + 1) = 1 % (SizeMax + 1)
  <2>1. CASE size = SizeMax
    BY <1>2, <1>4, <2>1
  <2>2. CASE size # SizeMax
    <3>1. SizeInc - size = 1
      BY <1>1, <1>2, <2>2
    <3> QED BY <3>1
  <2> QED BY <2>1, <2>2
<1>6. (SizeDec - size) % (SizeMax + 1) = (-1) % (SizeMax + 1)
  <2>1. CASE size = 0
    <3>1. SizeDec - size = SizeMax /\ SizeMax % (SizeMax + 1) = SizeMax
      BY <1>1, <1>3, <2>1
    <3> QED BY <1>4, <3>1
  <2>2. CASE size # 0
    <3>1. SizeDec - size = -1
      BY <1>1, <1>3, <2>2
    <3> QED BY <3>1
  <2> QED BY <2>1, <2>2
<1> QED BY <1>1, <1>2, <1>3, <1>5, <1>6

\* No increment or decrement leaves the size as it was.
LEMMA SizeChanges ==
    ASSUME HeapAddresses, size \in 0 .. SizeMax PROVE SizeInc # size /\ SizeDec # size
<1>1. size \in Nat /\ SizeMax \in Nat \ {0} /\ size <= SizeMax
  BY DEF HeapAddresses
<1>2. SizeInc = IF size = SizeMax THEN 0 ELSE size + 1
  BY <1>1 DEF SizeInc
<1>3. SizeDec = IF size = 0 THEN SizeMax ELSE size - 1
  BY <1>1 DEF SizeDec
<1> QED BY <1>1, <1>2, <1>3

\* How each operation moves the size with the number of nodes.
LEMMA NextMoves ==
    ASSUME HeapAddresses, ListInv, Next, status' = "usable"
    PROVE  \/ Count' = Count + 1 /\ (size' = SizeInc \/ (size' = 1 /\ head = NULL))
           \/ Count' = Count - 1 /\ size' = SizeDec
           \/ /\ size' = size
              /\ \/ Count' = Count
                 \/ \E p, n \in Nodes, x \in Elements : InsertInside(p, n, x)
                 \/ \E p \in allocated : Erase(p)
<1>1. Usable /\ ListTypes /\ ListTypes'
  BY NextTypes, StepFromUsable DEF ListInv
<1>2. PICK s \in Seq(Nodes) : Lists(s)
  BY <1>1 DEF ListInv
<1>3. ASSUME NEW n \in Nodes, NEW x \in Elements, PushFront(n, x)
      PROVE  Count' = Count + 1 /\ (size' = SizeInc \/ (size' = 1 /\ head = NULL))
  <2>1. Grows(s, 1, n, x)
    BY <1>1, <1>2, <1>3, PushFrontGrows
  <2>2. Count' = Count + 1
    BY <1>1, <1>2, <2>1, GrowsContents
  <2> QED BY <1>3, <2>2 DEF PushFront, PushFirst, LinkAtSeam, Crash
<1>4. ASSUME NEW n \in Nodes, NEW x \in Elements, PushBack(n, x)
      PROVE  Count' = Count + 1 /\ (size' = SizeInc \/ (size' = 1 /\ head = NULL))
  <2>1. Grows(s, Len(s) + 1, n, x)
    BY <1>1, <1>2, <1>4, PushBackGrows
  <2>2. Count' = Count + 1
    BY <1>1, <1>2, <2>1, GrowsContents
  <2> QED BY <1>4, <2>2 DEF PushBack, PushFirst, LinkAtSeam, Crash
<1>5. ASSUME NEW pos \in allocated, NEW n \in Nodes, NEW x \in Elements, InsertInside(pos, n, x)
      PROVE  size' = size
  BY <1>5 DEF InsertInside, Crash
<1>6. ASSUME PopFront PROVE Count' = Count - 1 /\ size' = SizeDec
  <2>1. Shrinks(s, 1)
    BY <1>1, <1>2, <1>6, PopFrontShrinks
  <2>2. Count' = Count - 1
    BY <1>1, <1>2, <2>1, ShrinksContents
  <2> QED BY <1>6, <2>2 DEF PopFront, Crash
<1>7. ASSUME PopBack PROVE Count' = Count - 1 /\ size' = SizeDec
  <2>1. Shrinks(s, Len(s))
    BY <1>1, <1>2, <1>7, PopBackShrinks
  <2>2. Count' = Count - 1
    BY <1>1, <1>2, <2>1, ShrinksContents
  <2> QED BY <1>7, <2>2 DEF PopBack, Crash
<1>8. ASSUME NEW pos \in allocated, Erase(pos) PROVE size' = size
  BY <1>8 DEF Erase, Crash
<1>9. ASSUME NEW pos \in allocated, NEW x \in Elements, SetListNode(pos, x)
      PROVE  size' = size /\ Count' = Count
  BY <1>9 DEF SetListNode, Count
<1>10. ~Destroy
  BY DEF Destroy
<1>11. allocated \subseteq Nodes
  BY <1>1 DEF ListTypes
<1> QED BY <1>3, <1>4, <1>5, <1>6, <1>7, <1>8, <1>9, <1>10, <1>11 DEF Next, Insert

\* The size moves with the number of nodes, inner insertions and erasures
\* apart; a push onto an empty list repairs it.
THEOREM ListSizeMoves == ASSUME HeapAddresses PROVE AdapterSpec => SizeMoves
<1>1. ListInv /\ [AdapterNext]_adapterVars => [SizeStep]_vars
  <2>1. ASSUME ListInv, AdapterNext, status' = "usable", Count' # Count PROVE SizeStep
    <3>1. /\ (SizeInc - size) % (SizeMax + 1) = 1 % (SizeMax + 1)
          /\ (SizeDec - size) % (SizeMax + 1) = (-1) % (SizeMax + 1)
      BY <2>1, SizeSteps DEF ListInv, ListTypes
    <3>2. Count \in Nat
      <4>1. Usable
        BY <2>1, AdapterStep, StepFromUsable
      <4>2. PICK s \in Seq(Nodes) : Lists(s)
        BY <2>1, <4>1 DEF ListInv
      <4>3. Len(s) = Count
        BY <2>1, <4>2, ListsContents DEF ListInv
      <4> QED BY <4>2, <4>3, LenProperties
    <3>3. /\ Count' = Count + 1 => Count' - Count = 1
          /\ Count' = Count - 1 => Count' - Count = -1
      BY <3>2
    <3>4. \/ Count' = Count + 1 /\ (size' = SizeInc \/ (size' = 1 /\ head = NULL))
          \/ Count' = Count - 1 /\ size' = SizeDec
          \/ /\ size' = size
             /\ \/ \E p, n \in Nodes, x \in Elements : InsertInside(p, n, x)
                \/ \E p \in allocated : Erase(p)
      BY <2>1, AdapterStep, NextMoves
    <3>5. CASE Count' = Count + 1 /\ size' = SizeInc
      BY <3>1, <3>3, <3>5 DEF SizeStep
    <3>6. CASE Count' = Count - 1 /\ size' = SizeDec
      BY <3>1, <3>3, <3>6 DEF SizeStep
    <3> QED BY <3>4, <3>5, <3>6 DEF SizeStep
  <2> QED BY <2>1 DEF adapterVars, SizeStep
<1> QED BY <1>1, ListInvariant, PTL DEF AdapterSpec, SizeMoves

-----------------------------------------------------------------------------
(* The adapters.                                                             *)

\* What an adapter's operations keep of its list.
AdapterInv == /\ ListInv
              /\ kind # "list" => /\ status # "crashed"
                                  /\ Usable => size = Count /\ ~Dangling

\* No more nodes are allocated than a size can count.
LEMMA CountBounds ==
    ASSUME HeapAddresses, ListTypes
    PROVE  Count \in Nat /\ Count <= SizeMax /\ (head \in allocated => Count # 0)
<1>1. IsFiniteSet(allocated) /\ Cardinality(allocated) <= Cardinality(Nodes) /\ Cardinality(Nodes) \in Nat
  BY FS_Subset, FS_CardinalityType DEF HeapAddresses, ListTypes
<1>2. Cardinality(allocated) \in Nat /\ (Cardinality(allocated) = 0 => allocated = {})
  BY <1>1, FS_CardinalityType, FS_EmptySet
<1> QED BY <1>1, <1>2 DEF Count, HeapAddresses

\* The operations at the ends keep an exact size exact and never leave a list
\* dangling.
LEMMA EndsMove ==
    ASSUME HeapAddresses, ListInv, Next, Usable, size = Count, status' = "usable", ~Dangling,
           (\E n \in Nodes, x \in Elements : PushFront(n, x) \/ PushBack(n, x)) \/ PopFront \/ PopBack
    PROVE  size' = Count' /\ ~Dangling'
<1>1. ListTypes /\ ListTypes'
  BY NextTypes DEF ListInv
<1>2. Count \in Nat /\ Count <= SizeMax /\ (head \in allocated => Count # 0)
  BY <1>1, CountBounds
<1>3. Count' \in Nat /\ Count' <= SizeMax
  <2>1. IsFiniteSet(allocated') /\ Cardinality(allocated') <= Cardinality(Nodes)
        /\ Cardinality(Nodes) \in Nat
    BY <1>1, FS_Subset, FS_CardinalityType DEF HeapAddresses, ListTypes
  <2> QED BY <2>1, FS_CardinalityType DEF Count, HeapAddresses
<1>4. /\ size < SizeMax => SizeInc = size + 1
      /\ 0 < size => SizeDec = size - 1
      /\ size \in Nat /\ SizeMax \in Nat \ {0}
  BY <1>1, SizeSteps DEF ListTypes, HeapAddresses
<1>5. SizeInc # size /\ SizeDec # size
  BY <1>1, SizeChanges DEF ListTypes
<1>6. head = NULL => Count = 0
  <2>1. PICK s \in Seq(Nodes) : Lists(s)
    BY DEF ListInv
  <2>2. CASE head = NULL
    <3>1. ~Ring /\ ~Unlinked
      BY <1>1, <2>2 DEF Ring, Unlinked, HeapAddresses, ListTypes
    <3>2. Len(s) = Count
      BY <1>1, <2>1, ListsContents
    <3> QED BY <1>1, <2>1, <3>1, <3>2, ListsReached
  <2> QED BY <2>2
<1>7. size' # size
  BY <1>4, <1>5, <1>6 DEF PushFront, PushBack, PushFirst, LinkAtSeam, PopFront, PopBack, Crash
<1>8. ~ \E p \in allocated : Erase(p)
  BY <1>7 DEF Erase, Crash
<1>9. ~Dangling'
  BY <1>8, DanglingNeeds
<1>10. ~ \E p, n \in Nodes, x \in Elements : InsertInside(p, n, x)
  BY <1>7 DEF InsertInside, Crash
<1>11. \/ Count' = Count + 1 /\ (size' = SizeInc \/ (size' = 1 /\ head = NULL))
       \/ Count' = Count - 1 /\ size' = SizeDec
  BY <1>7, NextMoves
<1> QED BY <1>2, <1>3, <1>4, <1>6, <1>9, <1>11

\* The operations of the adapters keep it.
LEMMA AdapterInvStep == ASSUME HeapAddresses, AdapterInv, AdapterNext PROVE AdapterInv'
<1>1. ListInv /\ ListInv' /\ Next /\ kind' = kind /\ Usable
  BY AdapterStep, NextInv, StepFromUsable DEF AdapterInv, AdapterNext
<1> SUFFICES ASSUME kind # "list"
             PROVE  status' # "crashed" /\ (Usable' => size' = Count' /\ ~Dangling')
  BY <1>1 DEF AdapterInv
<1>2. size = Count /\ ~Dangling /\ ListTypes
  BY <1>1 DEF AdapterInv, ListInv
<1>3. \/ \E n \in Nodes, x \in Elements : PushFront(n, x) \/ PushBack(n, x)
      \/ PopFront \/ PopBack \/ Destroy
  BY DEF AdapterNext, StackPush, QueuePush, DequePushBack, DequePushFront, StackPop, QueuePop,
         DequePopFront, DequePopBack, DestroyAdapter
<1>4. status' # "crashed"
  <2> SUFFICES ASSUME status' = "crashed" PROVE FALSE
    OBVIOUS
  <2>1. Destroy /\ size > Count
    BY <1>1, <1>2, <1>3, EndsAreSafe
  <2>2. Count \in Nat
    BY <1>2, CountBounds
  <2> QED BY <1>2, <2>1, <2>2
<1>5. ASSUME Usable' PROVE size' = Count' /\ ~Dangling'
  <2>1. status' = "usable" /\ ~Destroy
    BY <1>5 DEF Usable, Destroy
  <2> QED BY <1>1, <1>2, <1>3, <2>1, EndsMove
<1> QED BY <1>4, <1>5

\* With an exact size the adapters read the ends of the sequence.
LEMMA EndsAreRead ==
    ASSUME HeapAddresses, ListInv, Usable, ~Dangling, size = Count
    PROVE  QueueFront = First /\ StackTop = Last /\ DequeFront = First /\ DequeBack = Last
<1>1. ListTypes /\ NULL \notin Nodes
  BY DEF ListInv, HeapAddresses
<1>2. PICK s \in Seq(Nodes) : Lists(s)
  BY DEF ListInv
<1>3. Contents = Held(elem, s) /\ Len(Contents) = Count /\ Len(s) = Count /\ Contents \in Seq(Elements)
  BY <1>1, <1>2, ListsContents
<1>4. CASE Len(s) = 0
  <2>1. Contents = <<>> /\ size = 0
    BY <1>3, <1>4, EmptySeq
  <2>2. head = NULL /\ tail = NULL
    BY <1>2, <1>4 DEF Lists, Order, Empty
  <2> QED BY <2>1, <2>2 DEF QueueFront, StackTop, DequeFront, DequeBack, First, Last
<1>5. CASE Len(s) # 0
  <2>1. /\ head = s[1] /\ tail = s[Len(s)]
        /\ 1 \in 1 .. Len(s) /\ Len(s) \in 1 .. Len(s) /\ s[1] \in Nodes /\ s[Len(s)] \in Nodes
    <3>1. Len(s) \in Nat \ {0} /\ \A i \in 1 .. Len(s) : s[i] \in Nodes
      BY <1>2, <1>5, LenProperties
    <3>2. 1 \in 1 .. Len(s) /\ Len(s) \in 1 .. Len(s)
      BY <3>1
    <3>3. head = s[1] /\ tail = s[Len(s)]
      BY <1>2, <1>5 DEF Lists, Order, Unlinked
    <3> QED BY <3>1, <3>2, <3>3
  <2>2. Contents[1] = elem[head] /\ Contents[Count] = elem[tail]
    BY <1>3, <2>1 DEF Held
  <2>3. Contents # <<>> /\ size # 0 /\ head # NULL /\ tail # NULL
    BY <1>1, <1>3, <1>5, <2>1, EmptySeq
  <2> QED BY <2>2, <2>3 DEF QueueFront, StackTop, DequeFront, DequeBack, First, Last
<1> QED BY <1>4, <1>5

\* Through the stack, the queue and the deque the list never crashes, its size
\* is the number of its nodes, and each reads the end it is meant to.
THEOREM AdaptersKeep == ASSUME HeapAddresses PROVE AdapterSpec => []AdaptersKeepTheList
<1>1. AdapterInit => AdapterInv
  <2>1. <<>> \in Seq(Nodes) /\ Cardinality({}) = 0
    BY FS_EmptySet
  <2> QED BY <2>1, InitTypes DEF AdapterInit, AdapterInv, ListInv, Lists, Init, Dangling, Count, HeapAddresses
<1>2. AdapterInv /\ [AdapterNext]_adapterVars => AdapterInv'
  <2>1. AdapterInv /\ UNCHANGED adapterVars => AdapterInv'
    BY DEF AdapterInv, ListInv, adapterVars, vars, links, ListTypes, Lists, Order, Unlinked, Empty,
           Dangling, Usable, Count
  <2> QED BY <2>1, AdapterInvStep
<1>3. AdapterInv => AdaptersKeepTheList
  BY EndsAreRead DEF AdapterInv, AdaptersKeepTheList
<1> QED BY <1>1, <1>2, <1>3, PTL DEF AdapterSpec

-----------------------------------------------------------------------------
(* The list implements the sequence of its elements.                         *)

\* The growth of the contents as an edit of the abstract sequence,
LEMMA GrowsIsInsertion ==
    ASSUME HeapAddresses, ListTypes, ListTypes', NEW s, Lists(s), NEW i, NEW n, NEW x \in Elements,
           Grows(s, i, n, x)
    PROVE  /\ i = 1 => Promise!PushFront(x)
           /\ i = Len(s) + 1 => Promise!PushBack(x)
           /\ i # 1 => Promise!InsertAfter(i - 1, x) /\ i - 1 \in DOMAIN Contents
<1>1. Contents' = Grown(Contents, i, x) /\ i \in 1 .. Len(Contents) + 1
  BY GrowsContents
<1>2. Contents \in Seq(Elements) /\ Len(s) = Len(Contents)
  BY ListsContents
<1>3. i - 1 + 1 = i /\ (i # 1 => i - 1 \in DOMAIN Contents)
  <2>1. Len(Contents) \in Nat /\ DOMAIN Contents = 1 .. Len(Contents)
    BY <1>2, LenProperties
  <2> QED BY <1>1, <2>1
<1>4. SubSeq(Contents, 1, i - 1) \o <<x>> \o SubSeq(Contents, i, Len(Contents)) = Grown(Contents, i, x)
  BY <1>1, <1>2, InsertAtGrows
<1>5. <<x>> \o Contents = Grown(Contents, 1, x)
  BY <1>2, ConsGrows
<1>6. Append(Contents, x) = Grown(Contents, Len(Contents) + 1, x)
  BY <1>2, AppendGrows
<1> QED BY <1>1, <1>2, <1>3, <1>4, <1>5, <1>6
        DEF Promise!PushFront, Promise!PushBack, Promise!InsertAfter, Promise!InsertAt, Promise!Cons

\* Their shrinking,
LEMMA ShrinksIsRemoval ==
    ASSUME HeapAddresses, ListTypes, ListTypes', NEW s, Lists(s), NEW i, Shrinks(s, i)
    PROVE  /\ i = 1 => Promise!PopFront
           /\ i = Len(s) => Promise!PopBack
           /\ Promise!Erase(i) /\ i \in DOMAIN Contents
<1>1. Contents' = Shrunk(Contents, i) /\ i \in 1 .. Len(Contents)
  BY ShrinksContents
<1>2. Contents \in Seq(Elements) /\ Len(s) = Len(Contents)
  BY ListsContents
<1>3. Len(Contents) \in Nat /\ DOMAIN Contents = 1 .. Len(Contents) /\ Contents # <<>>
  BY <1>1, <1>2, LenProperties
<1>4. SubSeq(Contents, 1, i - 1) \o SubSeq(Contents, i + 1, Len(Contents)) = Shrunk(Contents, i)
  BY <1>1, <1>2, RemoveAtShrinks
<1>5. Tail(Contents) = Shrunk(Contents, 1)
  BY <1>2, <1>3, TailShrinks
<1>6. SubSeq(Contents, 1, Len(Contents) - 1) = Shrunk(Contents, Len(Contents))
  BY <1>2, <1>3, FrontShrinks
<1> QED BY <1>1, <1>2, <1>3, <1>4, <1>5, <1>6
        DEF Promise!PopFront, Promise!PopBack, Promise!Erase, Promise!Front, Promise!RemoveAt

\* And the assignment of an element.
LEMMA SetIsAssignment ==
    ASSUME HeapAddresses, ListTypes, ListTypes', NEW s, Lists(s), Lists(s)',
           NEW i \in 1 .. Len(s), NEW x \in Elements, SetListNode(s[i], x)
    PROVE  Promise!Assign(i, x) /\ i \in DOMAIN Contents
<1>1. Contents = Held(elem, s) /\ s \in Seq(Nodes) /\ Len(s) = Len(Contents)
  BY ListsContents
<1>2. Contents' = Held(elem', s)
  BY ContentsFollowNext DEF ContentsFollow
<1>3. \A j \in 1 .. Len(s) : elem'[s[j]] = IF j = i THEN x ELSE elem[s[j]]
  <2>1. ASSUME NEW j \in 1 .. Len(s) PROVE s[j] \in Nodes /\ (s[j] = s[i] => j = i)
    BY <1>1, ListsOnce, LenProperties DEF Once
  <2> QED BY <2>1 DEF SetListNode, ListTypes
<1>4. Held(elem', s) = [Held(elem, s) EXCEPT ![i] = x]
  BY <1>3 DEF Held
<1> QED BY <1>1, <1>2, <1>4 DEF Promise!Assign, Promise!ReplaceAt, Held

\* Each step is an edit of the abstract sequence,
LEMMA NextImplements ==
    ASSUME HeapAddresses, ListInv, Next, status' = "usable"
    PROVE  Promise!Next \/ UNCHANGED Contents
<1>1. Usable /\ ListTypes /\ ListTypes'
  BY NextTypes, StepFromUsable DEF ListInv
<1>2. PICK s \in Seq(Nodes) : Lists(s)
  BY <1>1 DEF ListInv
<1>3. CASE \E i, n : \E x \in Elements : Grows(s, i, n, x)
  <2>1. PICK i, n : \E x \in Elements : Grows(s, i, n, x)
    BY <1>3
  <2>2. PICK x \in Elements : Grows(s, i, n, x)
    BY <2>1
  <2>3. \/ Promise!PushFront(x)
        \/ Promise!InsertAfter(i - 1, x) /\ i - 1 \in DOMAIN Contents
    BY <1>1, <1>2, <2>2, GrowsIsInsertion
  <2> QED BY <2>3 DEF Promise!Next
<1>4. CASE \E i : Shrinks(s, i)
  <2>1. PICK i : Shrinks(s, i)
    BY <1>4
  <2>2. Promise!Erase(i) /\ i \in DOMAIN Contents
    BY <1>1, <1>2, <2>1, ShrinksIsRemoval
  <2> QED BY <2>2 DEF Promise!Next
<1>5. CASE Lists(s)' /\ \E pos \in allocated, x \in Elements : SetListNode(pos, x)
  <2>1. PICK pos \in allocated, x \in Elements : SetListNode(pos, x)
    BY <1>5
  <2>2. PICK i \in 1 .. Len(s) : s[i] = pos
    BY <1>2, IndexOf
  <2>3. Promise!Assign(i, x) /\ i \in DOMAIN Contents
    BY <1>1, <1>2, <1>5, <2>1, <2>2, SetIsAssignment
  <2> QED BY <2>3 DEF Promise!Next
<1>6. Edits(s)
  BY <1>1, <1>2, NextEdits
<1> QED BY <1>3, <1>4, <1>5, <1>6 DEF Edits

\* The operations by name.
Named == /\ \A n \in Nodes \ allocated, x \in Elements :
                  /\ PushFront(n, x) => Promise!PushFront(x)
                  /\ \A pos \in allocated : Insert(pos, n, x) => Promise!InsertAfter(Position(pos), x)
         /\ PopBack  => Promise!PopBack
         /\ PopFront => Promise!PopFront
         /\ \A pos \in allocated : Erase(pos) => Promise!Erase(Position(pos))

\* And the one the operation is named for.
LEMMA NamedEdits == ASSUME HeapAddresses, ListInv, Next, status' = "usable" PROVE Named
<1>1. Usable /\ ListTypes /\ ListTypes'
  BY NextTypes, StepFromUsable DEF ListInv
<1>2. PICK s \in Seq(Nodes) : Lists(s)
  BY <1>1 DEF ListInv
<1>3. ASSUME NEW n \in Nodes, NEW x \in Elements, PushFront(n, x) PROVE Promise!PushFront(x)
  BY <1>1, <1>2, <1>3, PushFrontGrows, GrowsIsInsertion
<1>4. ASSUME NEW n \in Nodes, NEW x \in Elements, NEW pos \in allocated, Insert(pos, n, x)
      PROVE  Promise!InsertAfter(Position(pos), x)
  <2>1. PICK i \in 1 .. Len(s) : s[i] = pos
    BY <1>2, IndexOf
  <2>2. Grows(s, i + 1, n, x)
    BY <1>1, <1>2, <1>4, <2>1, InsertGrows
  <2>3. Position(pos) = i
    BY <1>1, <1>2, <2>1, PositionIs
  <2>4. i + 1 # 1 /\ (i + 1) - 1 = i
    OBVIOUS
  <2>5. Promise!InsertAfter((i + 1) - 1, x)
    BY <1>1, <1>2, <2>2, <2>4, GrowsIsInsertion
  <2> QED BY <2>3, <2>4, <2>5
<1>5. PopFront => Promise!PopFront
  BY <1>1, <1>2, PopFrontShrinks, ShrinksIsRemoval
<1>6. PopBack => Promise!PopBack
  BY <1>1, <1>2, PopBackShrinks, ShrinksIsRemoval
<1>7. ASSUME NEW pos \in allocated, Erase(pos) PROVE Promise!Erase(Position(pos))
  <2>1. PICK i \in 1 .. Len(s) : s[i] = pos
    BY <1>2, IndexOf
  <2>2. Position(pos) = i
    BY <1>1, <1>2, <2>1, PositionIs
  <2> QED BY <1>1, <1>2, <1>7, <2>1, <2>2, EraseShrinks, ShrinksIsRemoval
<1> QED BY <1>3, <1>4, <1>5, <1>6, <1>7 DEF Named

\* Every operation on the list is the edit it is named for of the sequence of
\* its elements, up to a crash or the list's destruction.
THEOREM ListImplements == ASSUME HeapAddresses PROVE AdapterSpec => ListImplementsSequence
<1>1. AdapterInit => Promise!Init
  BY InitTypes DEF AdapterInit, Promise!Init, Contents, Ring, Unlinked, Empty
<1>2. ListInv /\ [AdapterNext]_adapterVars => [SequenceStep]_vars
  <2>1. ASSUME ListInv, AdapterNext PROVE SequenceStep
    BY <2>1, AdapterStep, NextImplements, NamedEdits DEF Named, SequenceStep
  <2> QED BY <2>1 DEF adapterVars
<1> QED BY <1>1, <1>2, ListInvariant, PTL DEF AdapterSpec, ListImplementsSequence
=============================================================================
