-------------------------- MODULE SequenceLemmas --------------------------
(* What the operators on sequences that the modules are built from return:   *)
(* FlattenSeq, RemoveFirst, sums over a sequence.  The definitions of the    *)
(* community modules are recursive functions; that these exist, and what     *)
(* they are, is shown by induction over the numbers up to some n, which is   *)
(* stated here for sets.                                                     *)
EXTENDS Integers, Lists, SequenceTheorems, FiniteSetTheorems,
        WellFoundedInduction, TLAPS

-----------------------------------------------------------------------------
(* Induction                                                                 *)

\* A set with first that has i + 1 when it has i has all numbers up to last.
LEMMA Induction ==
  ASSUME NEW first \in Nat, NEW last \in Nat, NEW G, first \in G,
         \A i \in first..(last - 1) : i \in G => i + 1 \in G
  PROVE  \A i \in first..last : i \in G
<1>. DEFINE missing == {i \in first..last : i \notin G}
            R == OpToRel(<, Nat)
<1>. SUFFICES ASSUME missing # {} PROVE FALSE
  OBVIOUS
<1>1. missing \subseteq Nat
  OBVIOUS
<1>2. PICK least \in missing : \A y \in missing : ~ (<<y, least>> \in R)
  <2>. HIDE DEF missing, R
  <2>. QED BY <1>1, NatLessThanWellFounded, WFMin DEF R
<1>3. least \in first..last /\ least \notin G /\ least # first
  OBVIOUS
<1>4. least - 1 \in first..(last - 1) /\ least - 1 \in Nat /\ least \in Nat
  BY <1>3
<1>5. least - 1 \notin missing
  <2>1. ASSUME least - 1 \in missing PROVE FALSE
    <3>1. ~ (<<least - 1, least>> \in R)
      BY <1>2, <2>1
    <3>2. least - 1 < least
      BY <1>4
    <3>. HIDE DEF missing
    <3>. QED BY <1>4, <3>1, <3>2 DEF OpToRel
  <2>. QED BY <2>1
<1>6. least - 1 \in G
  BY <1>4, <1>5
<1>7. least - 1 + 1 = least
  BY <1>4
<1>. QED BY <1>3, <1>4, <1>6, <1>7

-----------------------------------------------------------------------------
(* FlattenSeq                                                                *)

\* The function that FlattenSeq defines by recursion, up to n.
Flattens(f, seqs, n) ==
  f = [i \in 1..n |-> IF i = 1 THEN seqs[i] ELSE f[i - 1] \o seqs[i]]

\* There is such a function.
LEMMA FlattensExists ==
  ASSUME NEW seqs, NEW n \in Nat \ {0}
  PROVE  \E f : Flattens(f, seqs, n)
<1>. DEFINE G == {m \in 1..n : \E f : Flattens(f, seqs, m)}
<1>1. 1 \in G
  <2>1. Flattens([i \in 1..1 |-> seqs[1]], seqs, 1)
    BY DEF Flattens
  <2>. QED BY <2>1
<1>2. ASSUME NEW m \in 1..(n - 1), m \in G PROVE m + 1 \in G
  <2>1. PICK f : Flattens(f, seqs, m)
    BY <1>2
  <2>. DEFINE g == [i \in 1..(m + 1) |-> IF i = m + 1 THEN f[m] \o seqs[m + 1] ELSE f[i]]
  <2>2. ASSUME NEW i \in 1..(m + 1)
        PROVE  g[i] = IF i = 1 THEN seqs[i] ELSE g[i - 1] \o seqs[i]
    <3>1. CASE i = m + 1
      <4>1. i # 1 /\ i - 1 = m /\ m \in 1..(m + 1) /\ m # m + 1
        BY <3>1
      <4>2. g[m] = f[m] /\ g[i] = f[m] \o seqs[m + 1]
        BY <3>1, <4>1
      <4>. HIDE DEF g
      <4>. QED BY <3>1, <4>1, <4>2
    <3>2. CASE i \in 1..m
      <4>1. f[i] = IF i = 1 THEN seqs[i] ELSE f[i - 1] \o seqs[i]
        BY <2>1, <3>2 DEF Flattens
      <4>. QED BY <3>2, <4>1
    <3>. QED BY <3>1, <3>2
  <2>3. g = [i \in 1..(m + 1) |-> g[i]]
    OBVIOUS
  <2>4. Flattens(g, seqs, m + 1)
    <3>. HIDE DEF g
    <3>. QED BY <2>2, <2>3 DEF Flattens
  <2>. QED BY <2>4
<1>3. \A i \in 1..n : i \in G
  <2>. HIDE DEF G
  <2>. QED BY <1>1, <1>2, Induction
<1>. QED BY <1>3

\* FlattenSeq returns the last value of that function.
Parts(seqs, n) == UNION {ToSet(seqs[j]) : j \in 1..n}

Apart(seqs, n) ==
  /\ \A i \in 1..n : IsInjective(seqs[i])
  /\ \A i, j \in 1..n : i # j => ToSet(seqs[i]) \cap ToSet(seqs[j]) = {}

\* What a concatenation has.
LEMMA ConcatIs ==
  ASSUME NEW S, NEW s \in Seq(S), NEW t \in Seq(S)
  PROVE  /\ s \o t \in Seq(S)
         /\ ToSet(s \o t) = ToSet(s) \cup ToSet(t)
         /\ IsInjective(s \o t) <=>
              IsInjective(s) /\ IsInjective(t) /\ ToSet(s) \cap ToSet(t) = {}
<1>. DEFINE c == s \o t
            m == Len(s)
            n == Len(t)
<1>1. /\ m \in Nat /\ n \in Nat /\ DOMAIN s = 1..m /\ DOMAIN t = 1..n
      /\ c \in Seq(S) /\ DOMAIN c = 1..(m + n)
      /\ \A i \in 1..m : c[i] = s[i]
      /\ \A i \in 1..n : c[m + i] = t[i]
  BY ConcatProperties
<1>. HIDE DEF c, m, n
<1>2. \A i \in 1..(m + n) : i \in 1..m \/ (i - m \in 1..n /\ i = m + (i - m))
  BY <1>1
<1>3. \A i \in 1..m : i \in 1..(m + n)
  BY <1>1
<1>4. \A i \in 1..n : m + i \in 1..(m + n) /\ m + i \notin 1..m
  BY <1>1
<1>5. ToSet(c) = ToSet(s) \cup ToSet(t)
  <2>1. ASSUME NEW i \in 1..(m + n) PROVE c[i] \in ToSet(s) \cup ToSet(t)
    <3>1. CASE i \in 1..m
      BY <1>1, <3>1 DEF ToSet
    <3>2. CASE i - m \in 1..n /\ i = m + (i - m)
      <4>1. c[i] = t[i - m]
        BY <1>1, <3>2
      <4>. QED BY <1>1, <3>2, <4>1 DEF ToSet
    <3>. QED BY <1>2, <3>1, <3>2
  <2>2. ASSUME NEW i \in 1..m PROVE s[i] \in ToSet(c)
    BY <1>1, <1>3 DEF ToSet
  <2>3. ASSUME NEW i \in 1..n PROVE t[i] \in ToSet(c)
    <3>1. t[i] = c[m + i] /\ m + i \in DOMAIN c
      BY <1>1, <1>4
    <3>. QED BY <3>1 DEF ToSet
  <2>4. ToSet(c) = {c[i] : i \in 1..(m + n)} /\ ToSet(s) = {s[i] : i \in 1..m}
        /\ ToSet(t) = {t[i] : i \in 1..n}
    BY <1>1 DEF ToSet
  <2>. QED BY <2>1, <2>2, <2>3, <2>4
<1>6. ASSUME IsInjective(c)
      PROVE  IsInjective(s) /\ IsInjective(t) /\ ToSet(s) \cap ToSet(t) = {}
  <2>1. IsInjective(s)
    BY <1>1, <1>3, <1>6 DEF IsInjective
  <2>2. ASSUME NEW i \in 1..n, NEW j \in 1..n, t[i] = t[j] PROVE i = j
    <3>1. c[m + i] = c[m + j]
      BY <1>1, <2>2
    <3>2. m + i = m + j
      BY <1>1, <1>4, <1>6, <3>1 DEF IsInjective
    <3>. QED BY <1>1, <3>2
  <2>3. ASSUME NEW i \in 1..m, NEW j \in 1..n, s[i] = t[j] PROVE FALSE
    <3>1. c[i] = c[m + j]
      BY <1>1, <2>3
    <3>2. i = m + j
      BY <1>1, <1>3, <1>4, <1>6, <3>1 DEF IsInjective
    <3>. QED BY <1>1, <3>2
  <2>. QED BY <1>1, <2>1, <2>2, <2>3 DEF IsInjective, ToSet
<1>7. ASSUME IsInjective(s), IsInjective(t), ToSet(s) \cap ToSet(t) = {}
      PROVE  IsInjective(c)
  <2>1. ASSUME NEW i \in 1..(m + n), NEW j \in 1..(m + n), c[i] = c[j] PROVE i = j
    <3>1. CASE i \in 1..m /\ j \in 1..m
      BY <1>1, <1>7, <2>1, <3>1 DEF IsInjective
    <3>2. CASE i \notin 1..m /\ j \notin 1..m
      <4>1. i - m \in 1..n /\ j - m \in 1..n /\ i = m + (i - m) /\ j = m + (j - m)
        BY <1>2, <3>2
      <4>2. t[i - m] = t[j - m]
        BY <1>1, <2>1, <4>1
      <4>3. i - m = j - m
        BY <1>1, <1>7, <4>1, <4>2 DEF IsInjective
      <4>. QED BY <1>1, <4>3
    <3>3. ASSUME NEW k \in 1..m, NEW l \in 1..(m + n), l \notin 1..m, c[k] = c[l]
          PROVE  FALSE
      <4>1. l - m \in 1..n /\ l = m + (l - m)
        BY <1>2, <3>3
      <4>2. s[k] = t[l - m]
        BY <1>1, <3>3, <4>1
      <4>. QED BY <1>1, <1>7, <4>1, <4>2 DEF ToSet
    <3>. QED BY <2>1, <3>1, <3>2, <3>3
  <2>. QED BY <1>1, <2>1 DEF IsInjective
<1>. QED BY <1>1, <1>5, <1>6, <1>7 DEF c

\* Each value is a sequence; the elements are those of the parts, and they are
\* distinct where each part has distinct ones and no two parts share one.
LEMMA FlattensIs ==
  ASSUME NEW S, NEW n \in Nat \ {0}, NEW seqs, \A i \in 1..n : seqs[i] \in Seq(S),
         NEW f, Flattens(f, seqs, n)
  PROVE  /\ f[n] \in Seq(S)
         /\ ToSet(f[n]) = Parts(seqs, n)
         /\ IsInjective(f[n]) <=> Apart(seqs, n)
<1>. DEFINE Is(m) == /\ f[m] \in Seq(S)
                     /\ ToSet(f[m]) = Parts(seqs, m)
                     /\ IsInjective(f[m]) <=> Apart(seqs, m)
            G == {m \in 1..n : Is(m)}
<1>1. 1 \in G
  <2>1. f[1] = seqs[1] /\ 1 \in 1..n /\ seqs[1] \in Seq(S)
    BY DEF Flattens
  <2>2. \A i \in 1..1 : i = 1
    OBVIOUS
  <2>3. Parts(seqs, 1) = ToSet(seqs[1])
    BY <2>2 DEF Parts
  <2>4. Apart(seqs, 1) <=> IsInjective(seqs[1])
    BY <2>2 DEF Apart
  <2>. QED BY <2>1, <2>3, <2>4
<1>2. ASSUME NEW m \in 1..(n - 1), m \in G PROVE m + 1 \in G
  <2>1. m + 1 \in 1..n /\ m + 1 # 1 /\ m + 1 - 1 = m /\ m \in Nat
    OBVIOUS
  <2>2. f[m + 1] = f[m] \o seqs[m + 1] /\ f[m] \in Seq(S) /\ seqs[m + 1] \in Seq(S)
    <3>1. \A i \in 1..n : f[i] = IF i = 1 THEN seqs[i] ELSE f[i - 1] \o seqs[i]
      BY DEF Flattens
    <3>2. f[m + 1] = f[m] \o seqs[m + 1]
      <4>1. PICK l \in 1..n : l = m + 1 /\ l - 1 = m /\ l # 1
        BY <2>1
      <4>2. f[l] = IF l = 1 THEN seqs[l] ELSE f[l - 1] \o seqs[l]
        BY <3>1
      <4>3. f[l] = f[m] \o seqs[l]
        BY <4>1, <4>2, Zenon
      <4>. QED BY <4>1, <4>3, Zenon
    <3>3. f[m] \in Seq(S)
      BY <1>2
    <3>4. seqs[m + 1] \in Seq(S)
      BY <2>1
    <3>. QED BY <3>2, <3>3, <3>4
  <2>3. \A i : i \in 1..(m + 1) <=> i \in 1..m \/ i = m + 1
    BY <2>1
  <2>4. m + 1 \notin 1..m
    BY <2>1
  <2>5. Parts(seqs, m + 1) = Parts(seqs, m) \cup ToSet(seqs[m + 1])
    BY <2>3 DEF Parts
  <2>6. Apart(seqs, m + 1) <=>
          /\ Apart(seqs, m) /\ IsInjective(seqs[m + 1])
          /\ Parts(seqs, m) \cap ToSet(seqs[m + 1]) = {}
    <3>. DEFINE k == m + 1
    <3>. HIDE DEF k
    <3>1. /\ \A i : i \in 1..k <=> i \in 1..m \/ i = k
          /\ k \notin 1..m
      BY <2>3, <2>4, Zenon DEF k
    <3>2. Parts(seqs, m) \cap ToSet(seqs[k]) = {} <=>
            \A i \in 1..m : ToSet(seqs[i]) \cap ToSet(seqs[k]) = {}
      BY Zenon DEF Parts
    <3>3. Apart(seqs, k) <=>
            /\ Apart(seqs, m) /\ IsInjective(seqs[k])
            /\ \A i \in 1..m : ToSet(seqs[i]) \cap ToSet(seqs[k]) = {}
      <4>. DEFINE Clear(i, j) == ToSet(seqs[i]) \cap ToSet(seqs[j]) = {}
      <4>1. \A i, j : Clear(i, j) <=> Clear(j, i)
        OBVIOUS
      <4>2. (\A i \in 1..k : IsInjective(seqs[i])) <=>
              (\A i \in 1..m : IsInjective(seqs[i])) /\ IsInjective(seqs[k])
        BY <3>1, Zenon
      <4>. HIDE DEF Clear
      <4>3. (\A i, j \in 1..k : i # j => Clear(i, j)) <=>
              /\ \A i, j \in 1..m : i # j => Clear(i, j)
              /\ \A i \in 1..m : Clear(i, k)
        <5>1. ASSUME \A i, j \in 1..k : i # j => Clear(i, j)
              PROVE  /\ \A i, j \in 1..m : i # j => Clear(i, j)
                     /\ \A i \in 1..m : Clear(i, k)
          BY <3>1, <5>1, Zenon
        <5>2. ASSUME \A i, j \in 1..m : i # j => Clear(i, j),
                     \A i \in 1..m : Clear(i, k)
              PROVE  \A i, j \in 1..k : i # j => Clear(i, j)
          BY <3>1, <4>1, <5>2, Zenon
        <5>. QED BY <5>1, <5>2, Zenon
      <4>. QED BY <4>2, <4>3, Zenon DEF Apart, Clear
    <3>. QED BY <3>2, <3>3, Zenon DEF k
  <2>7. /\ f[m + 1] \in Seq(S)
        /\ ToSet(f[m + 1]) = ToSet(f[m]) \cup ToSet(seqs[m + 1])
        /\ IsInjective(f[m + 1]) <=>
             IsInjective(f[m]) /\ IsInjective(seqs[m + 1])
               /\ ToSet(f[m]) \cap ToSet(seqs[m + 1]) = {}
    BY <2>2, ConcatIs
  <2>8. ToSet(f[m]) = Parts(seqs, m) /\ (IsInjective(f[m]) <=> Apart(seqs, m))
    BY <1>2
  <2>9. /\ ToSet(f[m + 1]) = Parts(seqs, m + 1)
        /\ IsInjective(f[m + 1]) <=> Apart(seqs, m + 1)
    BY <2>5, <2>6, <2>7, <2>8, Zenon
  <2>. QED BY <2>1, <2>7, <2>9
<1>3. \A i \in 1..n : i \in G
  <2>. HIDE DEF G
  <2>. QED BY <1>1, <1>2, Induction
<1>4. n \in G
  <2>. HIDE DEF G
  <2>. QED BY <1>3
<1>. QED BY <1>4

\* What FlattenSeq returns.
LEMMA FlattenSeqIs ==
  ASSUME NEW S, NEW seqs \in Seq(Seq(S))
  PROVE  /\ FlattenSeq(seqs) \in Seq(S)
         /\ ToSet(FlattenSeq(seqs)) = UNION {ToSet(seqs[i]) : i \in DOMAIN seqs}
         /\ IsInjective(FlattenSeq(seqs)) <=> Apart(seqs, Len(seqs))
<1>. DEFINE n == Len(seqs)
<1>1. n \in Nat /\ DOMAIN seqs = 1..n /\ \A i \in 1..n : seqs[i] \in Seq(S)
  OBVIOUS
<1>2. CASE n = 0
  <2>1. seqs = <<>> /\ FlattenSeq(seqs) = seqs /\ DOMAIN seqs = {}
    BY <1>1, <1>2 DEF FlattenSeq
  <2>2. ToSet(seqs) = {} /\ IsInjective(seqs)
    BY <2>1, Zenon DEF ToSet, IsInjective
  <2>3. 1..n = {}
    BY <1>2
  <2>4. Apart(seqs, n)
    BY <2>3, Zenon DEF Apart
  <2>5. UNION {ToSet(seqs[i]) : i \in DOMAIN seqs} = {}
    BY <2>1, Zenon
  <2>. HIDE DEF n
  <2>6. <<>> \in Seq(S)
    OBVIOUS
  <2>. QED BY <2>1, <2>2, <2>4, <2>5, <2>6, Zenon DEF n
<1>3. CASE n # 0
  <2>. DEFINE f == CHOOSE g : Flattens(g, seqs, n)
  <2>1. Flattens(f, seqs, n)
    <3>. HIDE DEF n
    <3>. QED BY <1>1, <1>3, FlattensExists
  <2>2. FlattenSeq(seqs) = f[n]
    BY <1>1, <1>3, Zenon DEF FlattenSeq, Flattens
  <2>3. Parts(seqs, n) = UNION {ToSet(seqs[i]) : i \in DOMAIN seqs}
    BY <1>1 DEF Parts
  <2>. HIDE DEF f, n
  <2>. QED BY <1>1, <1>3, <2>1, <2>2, <2>3, FlattensIs DEF n
<1>. QED BY <1>2, <1>3

\* What is flattened up to a position, and with the sequence there.
LEMMA FlattenNext ==
  ASSUME NEW S, NEW seqs \in Seq(Seq(S)), NEW k \in 1..Len(seqs)
  PROVE  FlattenSeq(SubSeq(seqs, 1, k)) = FlattenSeq(SubSeq(seqs, 1, k - 1)) \o seqs[k]
<1>. DEFINE a == SubSeq(seqs, 1, k)
            b == SubSeq(seqs, 1, k - 1)
            f == CHOOSE g : Flattens(g, a, k)
            h == CHOOSE g : Flattens(g, b, k - 1)
            T == Seq(S)
<1>1. /\ seqs \in Seq(T) /\ Len(seqs) \in Nat /\ k \in Nat \ {0} /\ k - 1 \in Nat
      /\ k \in 0..Len(seqs) /\ k - 1 \in 0..Len(seqs) /\ seqs[k] \in T
  OBVIOUS
<1>2. /\ a \in Seq(T) /\ Len(a) = k /\ \A i \in 1..k : a[i] = seqs[i]
      /\ b \in Seq(T) /\ Len(b) = k - 1 /\ \A i \in 1..(k - 1) : b[i] = seqs[i]
  <2>. HIDE DEF T
  <2>. QED BY <1>1
<1>. HIDE DEF a, b
<1>3. Flattens(f, a, k)
  <2>1. \E g : Flattens(g, a, k)
    BY <1>1, FlattensExists
  <2>. QED BY <2>1, Zenon
<1>4. FlattenSeq(a) = f[k]
  <2>1. FlattenSeq(a) = f[Len(a)]
    BY <1>1, <1>2, Zenon DEF FlattenSeq, Flattens
  <2>. HIDE DEF f
  <2>. QED BY <1>2, <2>1
<1>. HIDE DEF f
<1>5. \A i \in 1..k : f[i] = IF i = 1 THEN a[i] ELSE f[i - 1] \o a[i]
  BY <1>3, Zenon DEF Flattens
<1>6. CASE k = 1
  <2>1. b = <<>> /\ Len(b) = 0
    BY <1>2, <1>6
  <2>2. FlattenSeq(b) = <<>>
    BY <2>1, Zenon DEF FlattenSeq
  <2>3. f[1] = seqs[1]
    BY <1>2, <1>5, <1>6
  <2>4. seqs[k] \in Seq(S) /\ f[k] = seqs[k]
    BY <1>1, <1>6, <2>3
  <2>5. <<>> \o seqs[k] = seqs[k]
    BY <2>4
  <2>. QED BY <1>4, <2>2, <2>4, <2>5, Zenon DEF a, b
<1>7. CASE k # 1
  <2>0. k - 1 \in Nat \ {0}
    BY <1>1, <1>7
  <2>1. Flattens(h, b, k - 1)
    <3>1. \E g : Flattens(g, b, k - 1)
      BY <2>0, FlattensExists
    <3>. QED BY <3>1, Zenon
  <2>2. FlattenSeq(b) = h[k - 1]
    <3>1. Len(b) # 0
      BY <1>2, <2>0
    <3>2. FlattenSeq(b) = h[Len(b)]
      BY <1>2, <3>1, Zenon DEF FlattenSeq, Flattens
    <3>. HIDE DEF h
    <3>. QED BY <1>2, <3>2
  <2>. HIDE DEF h
  <2>3. \A i \in 1..(k - 1) : h[i] = IF i = 1 THEN b[i] ELSE h[i - 1] \o b[i]
    BY <2>1, Zenon DEF Flattens
  <2>. DEFINE last == k - 1
              G == {i \in 1..last : h[i] = f[i]}
  <2>4. last \in Nat /\ 1 \in 1..last /\ \A i \in 1..last : i \in 1..k
    BY <1>1, <2>0
  <2>5. 1 \in G
    BY <1>2, <1>5, <2>3, <2>4
  <2>6. ASSUME NEW i \in 1..(last - 1), i \in G PROVE i + 1 \in G
    <3>. DEFINE m == i + 1
    <3>1. m \in 1..last /\ m # 1 /\ m - 1 = i /\ m \in 1..k
      BY <2>4
    <3>2. h[i] = f[i]
      BY <2>6
    <3>. HIDE DEF m
    <3>3. h[m] = h[i] \o b[m]
      BY <2>3, <3>1, Zenon
    <3>4. f[m] = f[i] \o a[m]
      BY <1>5, <3>1, Zenon
    <3>5. a[m] = b[m]
      BY <1>2, <3>1
    <3>6. h[m] = f[m]
      BY <3>2, <3>3, <3>4, <3>5, Zenon
    <3>7. m \in G
      BY <3>1, <3>6, Zenon
    <3>. QED BY <3>7 DEF m
  <2>7. \A i \in 1..last : i \in G
    <3>. HIDE DEF G, last
    <3>. QED BY <2>4, <2>5, <2>6, Induction
  <2>8. h[last] = f[last]
    <3>1. last \in 1..last
      BY <2>4
    <3>2. last \in G
      BY <2>7, <3>1, Zenon
    <3>. QED BY <3>2, Zenon
  <2>9. f[k] = f[k - 1] \o a[k]
    <3>1. k \in 1..k
      BY <1>1
    <3>. QED BY <1>5, <1>7, <3>1, Zenon
  <2>10. a[k] = seqs[k]
    BY <1>1, <1>2
  <2>. QED BY <1>4, <2>2, <2>8, <2>9, <2>10, Zenon DEF a, b
<1>. QED BY <1>6, <1>7

\* Where the elements of the sequences are, once they are flattened.
LEMMA FlattenAt ==
  ASSUME NEW S, NEW seqs \in Seq(Seq(S)), NEW k \in DOMAIN seqs, NEW j \in DOMAIN seqs[k]
  PROVE  /\ Len(FlattenSeq(SubSeq(seqs, 1, k - 1))) \in Nat
         /\ Len(FlattenSeq(SubSeq(seqs, 1, k - 1))) + j \in DOMAIN FlattenSeq(seqs)
         /\ FlattenSeq(seqs)[Len(FlattenSeq(SubSeq(seqs, 1, k - 1))) + j] = seqs[k][j]
<1>. DEFINE n == Len(seqs)
            F(m) == FlattenSeq(SubSeq(seqs, 1, m))
            at == Len(F(k - 1)) + j
            T == Seq(S)
<1>1. /\ n \in Nat /\ k \in 1..n /\ DOMAIN seqs = 1..n /\ seqs \in Seq(T)
      /\ \A m \in 1..n : seqs[m] \in Seq(S)
  OBVIOUS
<1>2. \A m \in 0..n : F(m) \in Seq(S)
  <2>1. ASSUME NEW m \in 0..n PROVE F(m) \in Seq(S)
    <3>1. SubSeq(seqs, 1, m) \in Seq(T)
      <4>. HIDE DEF T
      <4>. QED BY <1>1
    <3>. QED BY <3>1, FlattenSeqIs
  <2>. QED BY <2>1
<1>3. \A m \in 1..n : F(m) = F(m - 1) \o seqs[m]
  BY FlattenNext
<1>4. F(n) = FlattenSeq(seqs)
  <2>1. SubSeq(seqs, 1, n) = seqs
    <3>. HIDE DEF T
    <3>. QED BY <1>1
  <2>. QED BY <2>1
<1>. HIDE DEF F, n
<1>. DEFINE G == {m \in k..n : at \in DOMAIN F(m) /\ F(m)[at] = seqs[k][j]}
<1>5. k \in G
  <2>. DEFINE s == F(k - 1)
              t == seqs[k]
  <2>0. k - 1 \in 0..n
    BY <1>1
  <2>1. s \in Seq(S) /\ t \in Seq(S) /\ F(k) = s \o t /\ j \in 1..Len(t)
    <3>1. s \in Seq(S)
      BY <1>2, <2>0, Zenon
    <3>2. F(k) = s \o t /\ t \in Seq(S)
      BY <1>1, <1>3, Zenon
    <3>. QED BY <3>1, <3>2
  <2>. HIDE DEF s, t
  <2>2. /\ Len(s) + j \in DOMAIN F(k) /\ F(k)[Len(s) + j] = t[j]
    BY <2>1
  <2>. QED BY <1>1, <2>2 DEF s, t
<1>. HIDE DEF at
<1>6. ASSUME NEW m \in k..(n - 1), m \in G PROVE m + 1 \in G
  <2>. DEFINE s == F(m)
              t == seqs[m + 1]
  <2>1. m \in 0..n /\ m + 1 \in 1..n /\ m + 1 - 1 = m /\ m + 1 \in k..n
    BY <1>1
  <2>2. s \in Seq(S) /\ t \in Seq(S) /\ F(m + 1) = s \o t
    <3>1. s \in Seq(S)
      BY <1>2, <2>1, Zenon
    <3>. DEFINE i == m + 1
    <3>2. i \in 1..n /\ F(i - 1) = s
      BY <2>1
    <3>3. seqs[i] \in Seq(S)
      BY <1>1, <3>2, Zenon
    <3>. HIDE DEF i
    <3>4. F(i) = F(i - 1) \o seqs[i]
      BY <1>3, <3>2
    <3>. QED BY <3>1, <3>2, <3>3, <3>4 DEF i
  <2>3. at \in DOMAIN s /\ s[at] = seqs[k][j]
    BY <1>6
  <2>. HIDE DEF s, t
  <2>4. at \in DOMAIN (s \o t) /\ (s \o t)[at] = s[at]
    BY <2>2, <2>3
  <2>. QED BY <2>1, <2>2, <2>3, <2>4
<1>7. n \in G
  <2>1. \A m \in k..n : m \in G
    <3>. HIDE DEF G
    <3>1. k \in Nat
      BY <1>1
    <3>. QED BY <1>1, <1>5, <1>6, <3>1, Induction
  <2>. HIDE DEF G
  <2>. QED BY <1>1, <2>1
<1>8. Len(F(k - 1)) \in Nat
  BY <1>1, <1>2
<1>. QED BY <1>4, <1>7, <1>8 DEF at, F

-----------------------------------------------------------------------------
(* Sums                                                                      *)

\* A set up to n has a greatest element n if it has n.
LEMMA MaxIsLast ==
  ASSUME NEW n \in Nat, NEW T \in SUBSET (1..n), n \in T
  PROVE  Max(T) = n
<1>1. \A y \in T : n >= y
  OBVIOUS
<1>2. \A x \in T : (\A y \in T : x >= y) => x = n
  OBVIOUS
<1>. QED BY <1>1, <1>2, Zenon DEF Max

\* The function on sets of positions that a sum is defined by, up to n.
Sums(h, counts, n) ==
  h = [T \in SUBSET (1..n) |->
         IF T = {} THEN 0 ELSE h[T \ {Max(T)}] + counts[Max(T)]]

\* There is such a function.
LEMMA SumsExists ==
  ASSUME NEW counts, NEW n \in Nat
  PROVE  \E h : Sums(h, counts, n)
<1>. DEFINE G == {m \in 0..n : \E h : Sums(h, counts, m)}
<1>1. 0 \in G
  <2>1. \A T \in SUBSET (1..0) : T = {}
    OBVIOUS
  <2>2. Sums([T \in SUBSET (1..0) |-> 0], counts, 0)
    BY <2>1 DEF Sums
  <2>. QED BY <2>2
<1>2. ASSUME NEW m \in 0..(n - 1), m \in G PROVE m + 1 \in G
  <2>0. m \in Nat /\ m + 1 \in Nat /\ m + 1 \in 0..n
    OBVIOUS
  <2>1. PICK h : Sums(h, counts, m)
    BY <1>2
  <2>. DEFINE g == [T \in SUBSET (1..(m + 1)) |->
                      IF m + 1 \in T THEN h[T \ {m + 1}] + counts[m + 1] ELSE h[T]]
  <2>2. ASSUME NEW T \in SUBSET (1..(m + 1))
        PROVE  g[T] = IF T = {} THEN 0 ELSE g[T \ {Max(T)}] + counts[Max(T)]
    <3>1. CASE m + 1 \in T
      <4>1. Max(T) = m + 1
        BY <2>0, <3>1, MaxIsLast
      <4>2. T \ {m + 1} \in SUBSET (1..(m + 1)) /\ m + 1 \notin T \ {m + 1} /\ T # {}
        BY <3>1
      <4>3. g[T] = h[T \ {m + 1}] + counts[m + 1] /\ g[T \ {m + 1}] = h[T \ {m + 1}]
        BY <3>1, <4>2
      <4>. HIDE DEF g
      <4>. QED BY <4>1, <4>2, <4>3
    <3>2. CASE m + 1 \notin T
      <4>0. \A i \in 1..(m + 1) : i \in 1..m \/ i = m + 1
        BY <2>0
      <4>1. T \in SUBSET (1..m) /\ T \ {Max(T)} \in SUBSET (1..(m + 1))
            /\ m + 1 \notin T \ {Max(T)}
        BY <3>2, <4>0, Zenon
      <4>2. h[T] = IF T = {} THEN 0 ELSE h[T \ {Max(T)}] + counts[Max(T)]
        BY <2>1, <4>1, Zenon DEF Sums
      <4>3. g[T] = h[T] /\ g[T \ {Max(T)}] = h[T \ {Max(T)}]
        BY <3>2, <4>1
      <4>. HIDE DEF g
      <4>. QED BY <4>2, <4>3
    <3>. QED BY <3>1, <3>2
  <2>3. g = [T \in SUBSET (1..(m + 1)) |-> g[T]]
    OBVIOUS
  <2>4. Sums(g, counts, m + 1)
    <3>. HIDE DEF g
    <3>. QED BY <2>2, <2>3 DEF Sums
  <2>. QED BY <2>0, <2>4
<1>3. \A i \in 0..n : i \in G
  <2>. HIDE DEF G
  <2>. QED BY <1>1, <1>2, Induction
<1>. QED BY <1>3

\* Its value on no position.
LEMMA SumsFirst ==
  ASSUME NEW counts, NEW n, NEW h, Sums(h, counts, n)
  PROVE  h[1..0] = 0
<1>1. \A T \in SUBSET (1..n) :
        h[T] = IF T = {} THEN 0 ELSE h[T \ {Max(T)}] + counts[Max(T)]
  BY Zenon DEF Sums
<1>2. 1..0 = {} /\ {} \in SUBSET (1..n)
  OBVIOUS
<1>. QED BY <1>1, <1>2, Zenon

\* Its value on the first positions, from that on all but the last of them.
LEMMA SumsStep ==
  ASSUME NEW counts, NEW n \in Nat, NEW h, Sums(h, counts, n), NEW j \in 0..(n - 1)
  PROVE  h[1..(j + 1)] = h[1..j] + counts[j + 1]
<1>1. \A T \in SUBSET (1..n) :
        h[T] = IF T = {} THEN 0 ELSE h[T \ {Max(T)}] + counts[Max(T)]
  BY Zenon DEF Sums
<1>. DEFINE T == 1..(j + 1)
<1>2. j + 1 \in Nat /\ T \in SUBSET (1..(j + 1)) /\ j + 1 \in T
  OBVIOUS
<1>3. Max(T) = j + 1
  <2>. HIDE DEF T
  <2>. QED BY <1>2, MaxIsLast
<1>4. T \in SUBSET (1..n) /\ T # {}
  BY <1>2
<1>5. T \ {j + 1} = 1..j
  OBVIOUS
<1>. HIDE DEF T
<1>6. h[T] = h[1..j] + counts[j + 1]
  BY <1>1, <1>3, <1>4, <1>5, Zenon
<1>. QED BY <1>6 DEF T

\* FoldLeft returns the last of them.
LEMMA FoldLeftIs ==
  ASSUME NEW S, NEW s \in Seq(S)
  PROVE  \E h : Sums(h, s, Len(s)) /\ FoldLeft(+, 0, s) = h[1..Len(s)]
<1>. DEFINE n == Len(s)
            h == CHOOSE g : Sums(g, s, n)
<1>1. n \in Nat /\ DOMAIN s = 1..n
  OBVIOUS
<1>. HIDE DEF n
<1>2. Sums(h, s, n)
  BY <1>1, SumsExists
<1>3. FoldLeft(+, 0, s) = h[1..n]
  BY <1>1 DEF FoldLeft, MapThenFoldSet, Sums
<1>. HIDE DEF h
<1>. QED BY <1>2, <1>3 DEF n

\* The sums of the first elements of a sequence of numbers: each adds the next
\* element to the one before, and so they grow.
SumOfFirst(s, i) == FoldLeft(+, 0, SubSeq(s, 1, i))

\* They are the values of the function for the whole sequence.
LEMMA SumOfFirstIs ==
  ASSUME NEW s \in Seq(Nat), NEW h, Sums(h, s, Len(s)), NEW i \in 0..Len(s)
  PROVE  SumOfFirst(s, i) = h[1..i]
<1>. DEFINE t == SubSeq(s, 1, i)
            n == Len(s)
<1>1. n \in Nat /\ i \in Nat /\ i \in 0..n
  OBVIOUS
<1>2. t \in Seq(Nat) /\ Len(t) = i /\ \A j \in 1..i : t[j] = s[j]
  OBVIOUS
<1>. HIDE DEF t, n
<1>3. PICK g : Sums(g, t, i) /\ FoldLeft(+, 0, t) = g[1..i]
  BY <1>2, FoldLeftIs
<1>. DEFINE G == {j \in 0..i : g[1..j] = h[1..j]}
<1>4. 0 \in G
  <2>1. g[1..0] = 0
    BY <1>3, SumsFirst, Zenon
  <2>2. h[1..0] = 0
    BY SumsFirst, Zenon
  <2>3. 0 \in 0..i
    BY <1>1
  <2>. QED BY <2>1, <2>2, <2>3
<1>5. ASSUME NEW j \in 0..(i - 1), j \in G PROVE j + 1 \in G
  <2>1. j + 1 \in 0..i /\ j + 1 \in 1..i /\ j \in 0..(n - 1)
    BY <1>1
  <2>2. g[1..(j + 1)] = g[1..j] + t[j + 1]
    BY <1>1, <1>3, SumsStep, Zenon
  <2>3. h[1..(j + 1)] = h[1..j] + s[j + 1]
    BY <1>1, <2>1, SumsStep, Zenon DEF n
  <2>4. t[j + 1] = s[j + 1]
    BY <1>2, <2>1
  <2>5. g[1..j] = h[1..j]
    BY <1>5
  <2>. QED BY <2>1, <2>2, <2>3, <2>4, <2>5
<1>6. \A j \in 0..i : j \in G
  <2>. HIDE DEF G
  <2>. QED BY <1>1, <1>4, <1>5, Induction
<1>7. g[1..i] = h[1..i]
  BY <1>1, <1>6
<1>. QED BY <1>3, <1>7 DEF SumOfFirst, t

\* Each sum adds one element; none is below an earlier one.
LEMMA SumOfFirstGrows ==
  ASSUME NEW s \in Seq(Nat)
  PROVE  /\ SumOfFirst(s, 0) = 0 /\ SumOfFirst(s, Len(s)) = FoldLeft(+, 0, s)
         /\ \A i \in 0..Len(s) : SumOfFirst(s, i) \in Nat
         /\ \A i \in 1..Len(s) : SumOfFirst(s, i) = SumOfFirst(s, i - 1) + s[i]
         /\ \A i, j \in 0..Len(s) : i <= j => SumOfFirst(s, i) <= SumOfFirst(s, j)
<1>. DEFINE n == Len(s)
            P(i) == SumOfFirst(s, i)
<1>1. n \in Nat /\ \A i \in 1..n : s[i] \in Nat
  OBVIOUS
<1>2. PICK h : Sums(h, s, n) /\ FoldLeft(+, 0, s) = h[1..n]
  BY FoldLeftIs
<1>3. \A i \in 0..n : P(i) = h[1..i]
  BY <1>2, SumOfFirstIs
<1>. HIDE DEF n, P
<1>4. P(0) = 0
  <2>1. 0 \in 0..n
    BY <1>1
  <2>2. h[1..0] = 0
    BY <1>2, SumsFirst, Zenon
  <2>. QED BY <1>3, <2>1, <2>2
<1>0. P(n) = FoldLeft(+, 0, s)
  <2>1. n \in 0..n
    BY <1>1
  <2>. QED BY <1>2, <1>3, <2>1
<1>5. ASSUME NEW i \in 0..(n - 1) PROVE P(i + 1) = P(i) + s[i + 1]
  <2>1. i \in 0..n /\ i + 1 \in 0..n
    BY <1>1
  <2>2. h[1..(i + 1)] = h[1..i] + s[i + 1]
    BY <1>1, <1>2, SumsStep, Zenon
  <2>. QED BY <1>3, <2>1, <2>2
<1>6. \A i \in 0..n : P(i) \in Nat
  <2>. DEFINE G == {i \in 0..n : P(i) \in Nat}
  <2>1. 0 \in G
    <3>1. 0 \in 0..n /\ P(0) \in Nat
      BY <1>1, <1>4
    <3>. QED BY <3>1
  <2>2. ASSUME NEW i \in 0..(n - 1), i \in G PROVE i + 1 \in G
    <3>1. i + 1 \in 0..n /\ i + 1 \in 1..n /\ P(i) \in Nat
      BY <1>1, <2>2
    <3>2. s[i + 1] \in Nat
      BY <1>1, <3>1
    <3>3. P(i + 1) = P(i) + s[i + 1]
      BY <1>5, Zenon
    <3>4. P(i + 1) \in Nat
      BY <3>1, <3>2, <3>3
    <3>. QED BY <3>1, <3>4, Zenon
  <2>3. \A i \in 0..n : i \in G
    <3>. HIDE DEF G
    <3>. QED BY <1>1, <2>1, <2>2, Induction
  <2>. QED BY <2>3
<1>7. ASSUME NEW i \in 0..n, NEW j \in i..n PROVE P(i) <= P(j)
  <2>. DEFINE G == {l \in i..n : P(i) <= P(l)}
  <2>1. i \in G
    BY <1>1, <1>6
  <2>2. ASSUME NEW l \in i..(n - 1), l \in G PROVE l + 1 \in G
    <3>1. l + 1 \in i..n /\ l + 1 \in 1..n /\ l \in 0..(n - 1) /\ l \in 0..n
          /\ P(i) <= P(l)
      BY <1>1, <2>2
    <3>2. P(l + 1) = P(l) + s[l + 1] /\ s[l + 1] \in Nat
      BY <1>1, <1>5, <3>1
    <3>3. P(i) \in Nat /\ P(l) \in Nat
      BY <1>6, <3>1
    <3>. QED BY <3>1, <3>2, <3>3
  <2>3. \A l \in i..n : l \in G
    <3>1. i \in Nat
      BY <1>1
    <3>. HIDE DEF G
    <3>. QED BY <1>1, <2>1, <2>2, <3>1, Induction
  <2>. QED BY <2>3
<1>8. ASSUME NEW i \in 1..n PROVE P(i) = P(i - 1) + s[i]
  <2>1. i - 1 \in 0..(n - 1) /\ i - 1 + 1 = i
    BY <1>1
  <2>. QED BY <1>5, <2>1
<1>9. ASSUME NEW i \in 0..n, NEW j \in 0..n, i <= j PROVE P(i) <= P(j)
  BY <1>1, <1>7, <1>9
<1>. QED BY <1>0, <1>4, <1>6, <1>8, <1>9 DEF n, P

-----------------------------------------------------------------------------
(* Slices, RemoveFirst and Reverse                                           *)

\* A slice has the elements at its positions, distinct ones if they were.
LEMMA SubSeqIs ==
  ASSUME NEW S, NEW s \in Seq(S), NEW a \in Nat \ {0}, NEW b \in 0..Len(s)
  PROVE  /\ SubSeq(s, a, b) \in Seq(S)
         /\ Len(SubSeq(s, a, b)) = IF a <= b THEN b - a + 1 ELSE 0
         /\ ToSet(SubSeq(s, a, b)) = {s[i] : i \in a..b}
         /\ IsInjective(s) => IsInjective(SubSeq(s, a, b))
<1>. DEFINE t == SubSeq(s, a, b)
            m == IF a <= b THEN b - a + 1 ELSE 0
<1>1. DOMAIN s = 1..Len(s) /\ Len(s) \in Nat /\ a \in Int /\ b \in Int
      /\ \A i \in a..b : i \in 1..Len(s) /\ s[i] \in S
  OBVIOUS
<1>2. t \in Seq(S) /\ Len(t) = m /\ \A i \in 1..(b - a + 1) : t[i] = s[a + i - 1]
  BY <1>1, SubSeqProperties
<1>3. DOMAIN t = 1..m /\ m \in Nat
  BY <1>1, <1>2
<1>. HIDE DEF t
<1>4. \A i \in 1..m : t[i] = s[a + i - 1] /\ a + i - 1 \in a..b
  BY <1>1, <1>2
<1>5. \A i \in a..b : i - a + 1 \in 1..m /\ a + (i - a + 1) - 1 = i
  BY <1>1
<1>6. ToSet(t) = {s[i] : i \in a..b}
  <2>1. \A i \in 1..m : t[i] \in {s[l] : l \in a..b}
    BY <1>4
  <2>2. ASSUME NEW i \in a..b PROVE s[i] \in ToSet(t)
    <3>1. t[i - a + 1] = s[i] /\ i - a + 1 \in DOMAIN t
      BY <1>3, <1>4, <1>5
    <3>. QED BY <3>1 DEF ToSet
  <2>. HIDE DEF m
  <2>. QED BY <1>3, <2>1, <2>2 DEF ToSet
<1>7. ASSUME IsInjective(s) PROVE IsInjective(t)
  <2>1. ASSUME NEW i \in 1..m, NEW j \in 1..m, t[i] = t[j] PROVE i = j
    <3>1. s[a + i - 1] = s[a + j - 1]
          /\ a + i - 1 \in DOMAIN s /\ a + j - 1 \in DOMAIN s
      BY <1>1, <1>4, <2>1
    <3>2. a + i - 1 = a + j - 1
      BY <1>7, <3>1 DEF IsInjective
    <3>. QED BY <1>3, <3>2
  <2>. QED BY <1>3, <2>1 DEF IsInjective
<1>. QED BY <1>2, <1>6, <1>7 DEF t

\* Removing an element from a sequence of distinct ones leaves the others.
LEMMA RemoveFirstIs ==
  ASSUME NEW S, NEW s \in Seq(S), IsInjective(s), NEW e \in ToSet(s)
  PROVE  /\ RemoveFirst(s, e) \in Seq(S)
         /\ ToSet(RemoveFirst(s, e)) = ToSet(s) \ {e}
         /\ IsInjective(RemoveFirst(s, e))
<1>. DEFINE n == Len(s)
<1>1. n \in Nat /\ DOMAIN s = 1..n
  OBVIOUS
<1>. HIDE DEF n
<1>2. PICK p \in 1..n : s[p] = e
  BY <1>1 DEF ToSet
<1>3. \A i \in 1..n : s[i] = e <=> i = p
  BY <1>1, <1>2 DEF IsInjective
<1>4. RemoveFirst(s, e) = RemoveAt(s, p)
  <2>1. {i \in 1..n : s[i] = e} = {p}
    BY <1>3
  <2>2. Min({p}) = p
    <3>1. \A x \in {p} : (\A y \in {p} : x =< y) => x = p
      OBVIOUS
    <3>2. p =< p
      BY <1>1
    <3>. QED BY <3>1, <3>2, Zenon DEF Min
  <2>3. SelectInSeq(s, LAMBDA v : v = e) = p
    BY <2>1, <2>2, Zenon DEF SelectInSeq, n
  <2>. QED BY <1>2, <2>3, Zenon DEF RemoveFirst, n
<1>. DEFINE before == SubSeq(s, 1, p - 1)
            after == SubSeq(s, p + 1, n)
<1>5. p - 1 \in 0..n /\ n \in 0..n /\ p + 1 \in Nat \ {0} /\ 1 \in Nat \ {0}
  BY <1>1
<1>6. /\ before \in Seq(S) /\ IsInjective(before)
      /\ ToSet(before) = {s[i] : i \in 1..(p - 1)}
  BY <1>5, SubSeqIs DEF n
<1>7. /\ after \in Seq(S) /\ IsInjective(after)
      /\ ToSet(after) = {s[i] : i \in (p + 1)..n}
  BY <1>5, SubSeqIs DEF n
<1>8. RemoveAt(s, p) = before \o after
  BY DEF RemoveAt, n
<1>. HIDE DEF before, after
<1>9. \A i : i \in 1..n <=> i \in 1..(p - 1) \/ i = p \/ i \in (p + 1)..n
  BY <1>1
<1>10. \A i \in 1..(p - 1) : i \notin (p + 1)..n /\ i # p
  BY <1>1
<1>11. ToSet(before) \cap ToSet(after) = {}
  <2>1. ASSUME NEW i \in 1..(p - 1), NEW j \in (p + 1)..n, s[i] = s[j] PROVE FALSE
    <3>1. i = j
      BY <1>1, <1>9, <2>1 DEF IsInjective
    <3>. QED BY <1>10, <3>1
  <2>. QED BY <1>6, <1>7, <2>1
<1>12. ToSet(before) \cup ToSet(after) = ToSet(s) \ {e}
  <2>1. ToSet(s) = {s[i] : i \in 1..n}
    BY <1>1 DEF ToSet
  <2>2. \A i \in (p + 1)..n : i # p
    BY <1>1
  <2>. QED BY <1>2, <1>3, <1>6, <1>7, <1>9, <1>10, <2>1, <2>2
<1>13. /\ before \o after \in Seq(S)
       /\ ToSet(before \o after) = ToSet(before) \cup ToSet(after)
       /\ IsInjective(before \o after)
  BY <1>6, <1>7, <1>11, ConcatIs
<1>. QED BY <1>4, <1>8, <1>12, <1>13, Zenon

\* Reversing keeps the elements.
LEMMA ReverseIs ==
  ASSUME NEW S, NEW s \in Seq(S)
  PROVE  /\ Reverse(s) \in Seq(S)
         /\ ToSet(Reverse(s)) = ToSet(s)
         /\ IsInjective(s) => IsInjective(Reverse(s))
<1>. DEFINE n == Len(s)
            t == Reverse(s)
<1>1. n \in Nat /\ DOMAIN s = 1..n
  OBVIOUS
<1>2. \A i \in 1..n : n - i + 1 \in 1..n /\ n - (n - i + 1) + 1 = i
  BY <1>1
<1>3. DOMAIN t = 1..n /\ \A i \in 1..n : t[i] = s[n - i + 1]
  BY DEF Reverse
<1>4. t \in Seq(S)
  <2>1. \A i \in 1..n : s[n - i + 1] \in S
    BY <1>1, <1>2
  <2>2. t \in [1..n -> S]
    BY <2>1 DEF Reverse
  <2>. HIDE DEF n, t
  <2>. QED BY <1>1, <2>2
<1>. HIDE DEF n, t
<1>5. ToSet(t) = ToSet(s)
  <2>1. \A i \in 1..n : t[i] \in ToSet(s)
    BY <1>1, <1>2, <1>3 DEF ToSet
  <2>2. ASSUME NEW i \in 1..n PROVE s[i] \in ToSet(t)
    <3>1. t[n - i + 1] = s[i] /\ n - i + 1 \in DOMAIN t
      BY <1>2, <1>3
    <3>. QED BY <3>1 DEF ToSet
  <2>. QED BY <1>1, <1>3, <2>1, <2>2 DEF ToSet
<1>6. ASSUME IsInjective(s) PROVE IsInjective(t)
  <2>1. ASSUME NEW i \in 1..n, NEW j \in 1..n, t[i] = t[j] PROVE i = j
    <3>1. n - i + 1 = n - j + 1
      BY <1>1, <1>2, <1>3, <1>6, <2>1 DEF IsInjective
    <3>. QED BY <1>1, <3>1
  <2>. QED BY <1>3, <2>1 DEF IsInjective
<1>. QED BY <1>4, <1>5, <1>6 DEF t

\* A sequence with as many elements as positions has distinct ones.
LEMMA DistinctIsInjective ==
  ASSUME NEW S, NEW s \in Seq(S), Cardinality(ToSet(s)) = Len(s)
  PROVE  IsInjective(s)
<1>. DEFINE n == Len(s)
            T == ToSet(s)
<1>1. n \in Nat /\ DOMAIN s = 1..n /\ s \in [1..n -> T]
  BY DEF ToSet
<1>2. \A y \in T : \E i \in 1..n : s[i] = y
  BY <1>1 DEF ToSet
<1>. HIDE DEF n, T
<1>3. s \in Surjection(1..n, T)
  BY <1>1, <1>2 DEF Surjection
<1>4. IsFiniteSet(1..n) /\ Cardinality(1..n) = n
  <2>1. n \in Int /\ 1 \in Int
    BY <1>1
  <2>2. IsFiniteSet(1..n) /\ Cardinality(1..n) = IF 1 > n THEN 0 ELSE n - 1 + 1
    BY <2>1, FS_Interval
  <2>. QED BY <1>1, <2>2
<1>5. s \in Injection(1..n, T)
  <2>1. Cardinality(1..n) = Cardinality(T)
    BY <1>4 DEF n, T
  <2>. QED BY <1>3, <1>4, <2>1, FS_Surjection
<1>. QED BY <1>5 DEF Injection

-----------------------------------------------------------------------------
(* Folds *)

\* The function on sets of positions that a fold from base is defined by, up to n;
\* step gives what comes of a state and a position.
Folds(h, base, step, n) ==
  h = [T \in SUBSET (1..n) |->
         IF T = {} THEN base ELSE step[h[T \ {Max(T)}], Max(T)]]

\* A set of positions that is not empty has a greatest element.
LEMMA MaxIsIn ==
  ASSUME NEW n \in Nat, NEW T \in SUBSET (1..n), T # {}
  PROVE  Max(T) \in T
<1>. DEFINE HasMax(R) == \E x \in R : \A y \in R : x >= y
            G == {m \in 0..n : \A R \in SUBSET (1..m) : R # {} => HasMax(R)}
<1>1. 0 \in G
  <2>1. \A R \in SUBSET (1..0) : R = {}
    OBVIOUS
  <2>2. 0 \in 0..n
    OBVIOUS
  <2>. HIDE DEF HasMax
  <2>. QED BY <2>1, <2>2, Zenon
<1>2. ASSUME NEW m \in 0..(n - 1), m \in G PROVE m + 1 \in G
  <2>1. ASSUME NEW R \in SUBSET (1..(m + 1)), R # {} PROVE HasMax(R)
    <3>1. CASE m + 1 \in R
      <4>1. \A y \in R : m + 1 >= y
        OBVIOUS
      <4>. QED BY <3>1, <4>1
    <3>2. CASE m + 1 \notin R
      <4>1. R \in SUBSET (1..m)
        BY <3>2
      <4>. HIDE DEF HasMax
      <4>. QED BY <1>2, <2>1, <4>1
    <3>. QED BY <3>1, <3>2
  <2>. HIDE DEF HasMax
  <2>. QED BY <2>1
<1>3. \A m \in 0..n : m \in G
  <2>. HIDE DEF G
  <2>. QED BY <1>1, <1>2, Induction
<1>4. n \in G
  <2>. HIDE DEF G
  <2>. QED BY <1>3
<1>5. HasMax(T)
  <2>. HIDE DEF HasMax
  <2>. QED BY <1>4
<1>. QED BY <1>5, Zenon DEF Max

\* A set up to n + 1 that has n + 1 has that as its greatest element.
LEMMA FirstPositions ==
  ASSUME NEW n \in Nat, NEW j \in 0..(n - 1)
  PROVE  /\ 1..(j + 1) \in SUBSET (1..n) /\ 1..(j + 1) # {}
         /\ Max(1..(j + 1)) = j + 1
         /\ 1..(j + 1) \ {j + 1} = 1..j
<1>. DEFINE T == 1..(j + 1)
<1>2. j + 1 \in Nat /\ T \in SUBSET (1..(j + 1)) /\ j + 1 \in T
  OBVIOUS
<1>3. Max(T) = j + 1
  <2>. HIDE DEF T
  <2>. QED BY <1>2, MaxIsLast
<1>4. T \in SUBSET (1..n) /\ T # {}
  BY <1>2
<1>5. T \ {j + 1} = 1..j
  OBVIOUS
<1>. QED BY <1>3, <1>4, <1>5

\* There is such a function, and its values are states.
LEMMA FoldsExists ==
  ASSUME NEW S, NEW base \in S, NEW n \in Nat, NEW step \in [S \X (1..n) -> S]
  PROVE  \E h \in [SUBSET (1..n) -> S] : Folds(h, base, step, n)
<1>. DEFINE G == {m \in 0..n : \E h \in [SUBSET (1..m) -> S] : Folds(h, base, step, m)}
<1>1. 0 \in G
  <2>1. \A T \in SUBSET (1..0) : T = {}
    OBVIOUS
  <2>. DEFINE h == [T \in SUBSET (1..0) |-> base]
  <2>2. h \in [SUBSET (1..0) -> S]
    OBVIOUS
  <2>3. Folds(h, base, step, 0)
    BY <2>1 DEF Folds
  <2>. QED BY <2>2, <2>3
<1>2. ASSUME NEW m \in 0..(n - 1), m \in G PROVE m + 1 \in G
  <2>0. m \in Nat /\ m + 1 \in 0..n /\ m + 1 \in 1..n
    OBVIOUS
  <2>1. PICK f \in [SUBSET (1..m) -> S] : Folds(f, base, step, m)
    BY <1>2
  <2>. DEFINE Part(T) == IF T = {} THEN base ELSE step[f[T \ {Max(T)}], Max(T)]
              g == [T \in SUBSET (1..(m + 1)) |->
                      IF m + 1 \in T THEN step[f[T \ {m + 1}], m + 1] ELSE f[T]]
  <2>2. ASSUME NEW T \in SUBSET (1..(m + 1))
        PROVE  /\ g[T] \in S
               /\ g[T] = IF T = {} THEN base ELSE step[g[T \ {Max(T)}], Max(T)]
    <3>1. CASE m + 1 \in T
      <4>1. Max(T) = m + 1
        BY <2>0, <3>1, MaxIsLast
      <4>. DEFINE R == T \ {m + 1}
      <4>2. R \in SUBSET (1..m) /\ R \in SUBSET (1..(m + 1)) /\ m + 1 \notin R
        BY <2>0
      <4>. HIDE DEF R
      <4>3. g[R] = f[R] /\ f[R] \in S
        BY <4>2
      <4>4. g[T] = step[f[R], m + 1]
        BY <3>1 DEF R
      <4>5. <<f[R], m + 1>> \in S \X (1..n)
        BY <2>0, <4>3
      <4>. HIDE DEF g, R
      <4>6. g[T] \in S
        <5>. DEFINE x == <<f[R], m + 1>>
        <5>1. g[T] = step[x]
          BY <4>4, Zenon
        <5>2. x \in S \X (1..n)
          BY <4>5, Zenon
        <5>. HIDE DEF x
        <5>. QED BY <5>1, <5>2
      <4>7. g[T] = step[g[R], Max(T)] /\ T # {}
        BY <3>1, <4>1, <4>3, <4>4, Zenon
      <4>. QED BY <4>1, <4>6, <4>7, Zenon DEF R
    <3>2. CASE m + 1 \notin T
      <4>1. T \in SUBSET (1..m)
        BY <2>0, <3>2
      <4>2. g[T] = f[T] /\ f[T] \in S
        BY <3>2, <4>1
      <4>3. f[T] = IF T = {} THEN base ELSE step[f[T \ {Max(T)}], Max(T)]
        BY <2>1, <4>1, Zenon DEF Folds
      <4>4. T # {} => g[T \ {Max(T)}] = f[T \ {Max(T)}]
        <5>1. T \ {Max(T)} \in SUBSET (1..(m + 1)) /\ m + 1 \notin T \ {Max(T)}
          BY <3>2
        <5>. QED BY <5>1
      <4>. HIDE DEF g
      <4>. QED BY <4>2, <4>3, <4>4, Zenon
    <3>. QED BY <3>1, <3>2
  <2>3. g = [T \in SUBSET (1..(m + 1)) |-> g[T]]
    OBVIOUS
  <2>. HIDE DEF g
  <2>4. Folds(g, base, step, m + 1)
    BY <2>2, <2>3, Zenon DEF Folds
  <2>5. g \in [SUBSET (1..(m + 1)) -> S]
    BY <2>2, <2>3
  <2>. QED BY <2>0, <2>4, <2>5
<1>3. \A i \in 0..n : i \in G
  <2>. HIDE DEF G
  <2>. QED BY <1>1, <1>2, Induction
<1>4. n \in G
  <2>. HIDE DEF G
  <2>. QED BY <1>3
<1>. QED BY <1>4

-----------------------------------------------------------------------------
(* Sequences that grow                                                       *)

\* What is appended comes last.
LEMMA AppendIs ==
  ASSUME NEW A, NEW s \in Seq(A), NEW x \in A
  PROVE  /\ Append(s, x) \in Seq(A) /\ ToSet(Append(s, x)) = ToSet(s) \cup {x}
         /\ IsInjective(s) /\ x \notin ToSet(s) => IsInjective(Append(s, x))
<1>. DEFINE n == Len(s)
            t == Append(s, x)
<1>1. /\ t \in Seq(A) /\ Len(t) = n + 1 /\ DOMAIN t = 1..(n + 1) /\ DOMAIN s = 1..n
      /\ \A i \in 1..n : t[i] = s[i]
      /\ t[n + 1] = x /\ n \in Nat
  OBVIOUS
<1>. HIDE DEF n, t
<1>2. \A i : i \in 1..(n + 1) <=> i \in 1..n \/ i = n + 1
  BY <1>1
<1>3. ToSet(t) = ToSet(s) \cup {x}
  <2>1. ToSet(t) = {t[i] : i \in 1..(n + 1)} /\ ToSet(s) = {s[i] : i \in 1..n}
    BY <1>1, Zenon DEF ToSet
  <2>. QED BY <1>1, <1>2, <2>1
<1>4. ASSUME IsInjective(s), x \notin ToSet(s) PROVE IsInjective(t)
  <2>1. \A i, j \in 1..n : s[i] = s[j] => i = j
    BY <1>1, <1>4, Zenon DEF IsInjective
  <2>2. \A i \in 1..n : s[i] # x
    BY <1>1, <1>4, Zenon DEF ToSet
  <2>3. ASSUME NEW i \in 1..(n + 1), NEW j \in 1..(n + 1), t[i] = t[j] PROVE i = j
    BY <1>1, <1>2, <2>1, <2>2, <2>3, Zenon
  <2>. QED BY <1>1, <2>3, Zenon DEF IsInjective
<1>. QED BY <1>1, <1>3, <1>4 DEF t

\* The empty sequence has nothing.
LEMMA EmptySeqIs ==
  ASSUME NEW A
  PROVE  <<>> \in Seq(A) /\ ToSet(<<>>) = {} /\ IsInjective(<<>>)
BY DEF ToSet, IsInjective

\* The elements at the first positions of a sequence.
Firsts(s, k) == {s[i] : i \in 1..k}

\* One position more.
LEMMA FirstsGrow ==
  ASSUME NEW s, NEW k \in Nat
  PROVE  Firsts(s, k + 1) = Firsts(s, k) \cup {s[k + 1]}
<1>1. \A i : i \in 1..(k + 1) <=> i \in 1..k \/ i = k + 1
  OBVIOUS
<1>. QED BY <1>1 DEF Firsts

\* Each element of a sequence once.
Once(s) ==
  LET add(seen, q) == IF Contains(seen, q) THEN seen ELSE Append(seen, q)
  IN  FoldLeft(add, <<>>, s)

\* It has the elements of the sequence, each at one place.
LEMMA OnceIs ==
  ASSUME NEW A, NEW s \in Seq(A)
  PROVE  Once(s) \in Seq(A) /\ ToSet(Once(s)) = ToSet(s) /\ IsInjective(Once(s))
<1>. DEFINE n == Len(s)
            Next1(v, x) == IF Contains(v, x) THEN v ELSE Append(v, x)
            States == Seq(A)
            first == <<>>
            Rec(h) == h = [T \in SUBSET (1..n) |->
                             IF T = {} THEN first ELSE Next1(h[T \ {Max(T)}], s[Max(T)])]
            h == CHOOSE g : Rec(g)
            step == [x \in States \X (1..n) |-> Next1(x[1], s[x[2]])]
<1>1. n \in Nat /\ DOMAIN s = 1..n /\ \A k \in 1..n : s[k] \in A
  OBVIOUS
<1>2. Once(s) = h[1..n]
  BY <1>1, Zenon DEF Once, FoldLeft, MapThenFoldSet
<1>3. first \in States
  OBVIOUS
<1>4. ASSUME NEW v \in States, NEW x \in A PROVE Next1(v, x) \in States
  OBVIOUS
<1>. HIDE DEF n, first, Next1
<1>5. step \in [States \X (1..n) -> States]
  <2>1. \A x \in States \X (1..n) : x[1] \in States /\ s[x[2]] \in A
    <3>. HIDE DEF States
    <3>. QED BY <1>1
  <2>. HIDE DEF States
  <2>. QED BY <1>4, <2>1
<1>. HIDE DEF step
<1>6. PICK g \in [SUBSET (1..n) -> States] : Folds(g, first, step, n)
  <2>. HIDE DEF States
  <2>. QED BY <1>1, <1>3, <1>5, FoldsExists
<1>7. Rec(g)
  <2>. HIDE DEF States
  <2>1. ASSUME NEW T \in SUBSET (1..n), T # {}
        PROVE  step[g[T \ {Max(T)}], Max(T)] = Next1(g[T \ {Max(T)}], s[Max(T)])
    <3>1. Max(T) \in 1..n
      <4>1. Max(T) \in T
        BY <1>1, <2>1, MaxIsIn, Zenon
      <4>. QED BY <4>1
    <3>2. g[T \ {Max(T)}] \in States
      OBVIOUS
    <3>. QED BY <3>1, <3>2 DEF step
  <2>. QED BY <1>6, <2>1, Zenon DEF Folds
<1>8. Rec(h)
  BY <1>7, Zenon
<1>. HIDE DEF h
<1>. DEFINE Good(v, k) == v \in States /\ ToSet(v) = Firsts(s, k) /\ IsInjective(v)
            G == {k \in 0..n : Good(h[1..k], k)}
<1>9. 0 \in G
  <2>1. 1..0 = {} /\ {} \in SUBSET (1..n) /\ 0 \in 0..n
    BY <1>1
  <2>2. h[1..0] = first
    BY <1>8, <2>1, Zenon
  <2>3. Good(first, 0)
    BY <1>3, <2>1, EmptySeqIs DEF first, Firsts
  <2>. QED BY <2>1, <2>2, <2>3, Zenon
<1>10. ASSUME NEW k \in 0..(n - 1), k \in G PROVE k + 1 \in G
  <2>. DEFINE T == 1..(k + 1)
              x == s[k + 1]
              v == h[1..k]
  <2>1. T \in SUBSET (1..n) /\ T # {} /\ Max(T) = k + 1 /\ T \ {k + 1} = 1..k
    BY <1>1, FirstPositions, Zenon
  <2>2. k \in Nat /\ k + 1 \in 1..n /\ k + 1 \in 0..n
    BY <1>1
  <2>. HIDE DEF T, States
  <2>3. h[T] = Next1(h[T \ {Max(T)}], s[Max(T)])
    BY <1>8, <2>1, Zenon
  <2>4. h[T] = Next1(v, x)
    BY <2>1, <2>3, Zenon
  <2>5. v \in States /\ ToSet(v) = Firsts(s, k) /\ IsInjective(v) /\ x \in A
    BY <1>1, <1>10, <2>2
  <2>6. Firsts(s, k + 1) = Firsts(s, k) \cup {x}
    BY <2>2, FirstsGrow
  <2>. HIDE DEF v, x, Good
  <2>7. Good(h[T], k + 1)
    <3>0. v \in Seq(A)
      BY <2>5 DEF States
    <3>1. Contains(v, x) <=> x \in ToSet(v)
      <4>1. DOMAIN v = 1..Len(v)
        BY <3>0
      <4>. QED BY <4>1, Zenon DEF Contains, ToSet
    <3>2. CASE x \notin ToSet(v)
      <4>1. h[T] = Append(v, x)
        BY <2>4, <3>1, <3>2 DEF Next1
      <4>2. /\ Append(v, x) \in Seq(A) /\ ToSet(Append(v, x)) = ToSet(v) \cup {x}
            /\ IsInjective(Append(v, x))
        <5>1. /\ Append(v, x) \in Seq(A) /\ ToSet(Append(v, x)) = ToSet(v) \cup {x}
              /\ IsInjective(v) /\ x \notin ToSet(v) => IsInjective(Append(v, x))
          BY <2>5, <3>0, AppendIs
        <5>. QED BY <2>5, <3>2, <5>1, Zenon
      <4>3. ToSet(Append(v, x)) = Firsts(s, k + 1)
        BY <2>5, <2>6, <4>2, Zenon
      <4>. QED BY <4>1, <4>2, <4>3, Zenon DEF Good, States
    <3>3. CASE x \in ToSet(v)
      <4>1. h[T] = v
        BY <2>4, <3>1, <3>3 DEF Next1
      <4>. QED BY <2>5, <2>6, <3>3, <4>1 DEF Good
    <3>. QED BY <3>2, <3>3
  <2>. QED BY <2>2, <2>7 DEF T
<1>11. n \in G
  <2>1. \A k \in 0..n : k \in G
    <3>. HIDE DEF G
    <3>. QED BY <1>1, <1>9, <1>10, Induction
  <2>. HIDE DEF G
  <2>. QED BY <1>1, <2>1
<1>12. Good(h[1..n], n)
  <2>. HIDE DEF States, Good
  <2>. QED BY <1>11
<1>13. Firsts(s, n) = ToSet(s)
  BY <1>1, Zenon DEF Firsts, ToSet
<1>. QED BY <1>2, <1>12, <1>13, Zenon

\* What is kept of a sequence.
LEMMA KeptIs ==
  ASSUME NEW A, NEW s \in Seq(A), NEW S
  PROVE  /\ Kept(s, S) \in Seq(A) /\ ToSet(Kept(s, S)) = ToSet(s) \cap S
         /\ IsInjective(s) => IsInjective(Kept(s, S))
<1>. DEFINE n == Len(s)
            Next1(v, x) == IF x \in S THEN Append(v, x) ELSE v
            States == Seq(A)
            first == <<>>
            Rec(h) == h = [T \in SUBSET (1..n) |->
                             IF T = {} THEN first ELSE Next1(h[T \ {Max(T)}], s[Max(T)])]
            h == CHOOSE g : Rec(g)
            step == [x \in States \X (1..n) |-> Next1(x[1], s[x[2]])]
<1>1. n \in Nat /\ DOMAIN s = 1..n /\ \A k \in 1..n : s[k] \in A
  OBVIOUS
<1>2. Kept(s, S) = h[1..n]
  BY <1>1, Zenon DEF Kept, FoldLeft, MapThenFoldSet
<1>3. first \in States
  OBVIOUS
<1>4. ASSUME NEW v \in States, NEW x \in A PROVE Next1(v, x) \in States
  OBVIOUS
<1>. HIDE DEF n, first, Next1
<1>5. step \in [States \X (1..n) -> States]
  <2>1. \A x \in States \X (1..n) : x[1] \in States /\ s[x[2]] \in A
    <3>. HIDE DEF States
    <3>. QED BY <1>1
  <2>. HIDE DEF States
  <2>. QED BY <1>4, <2>1
<1>. HIDE DEF step
<1>6. PICK g \in [SUBSET (1..n) -> States] : Folds(g, first, step, n)
  <2>. HIDE DEF States
  <2>. QED BY <1>1, <1>3, <1>5, FoldsExists
<1>7. Rec(g)
  <2>. HIDE DEF States
  <2>1. ASSUME NEW T \in SUBSET (1..n), T # {}
        PROVE  step[g[T \ {Max(T)}], Max(T)] = Next1(g[T \ {Max(T)}], s[Max(T)])
    <3>1. Max(T) \in 1..n
      <4>1. Max(T) \in T
        BY <1>1, <2>1, MaxIsIn, Zenon
      <4>. QED BY <4>1
    <3>2. g[T \ {Max(T)}] \in States
      OBVIOUS
    <3>. QED BY <3>1, <3>2 DEF step
  <2>. QED BY <1>6, <2>1, Zenon DEF Folds
<1>8. Rec(h)
  BY <1>7, Zenon
<1>. HIDE DEF h
<1>. DEFINE Good(v, k) == /\ v \in States /\ ToSet(v) = Firsts(s, k) \cap S
                          /\ IsInjective(s) => IsInjective(v)
            G == {k \in 0..n : Good(h[1..k], k)}
<1>9. 0 \in G
  <2>1. 1..0 = {} /\ {} \in SUBSET (1..n) /\ 0 \in 0..n
    BY <1>1
  <2>2. h[1..0] = first
    BY <1>8, <2>1, Zenon
  <2>3. Good(first, 0)
    BY <1>3, <2>1, EmptySeqIs DEF first, Firsts
  <2>. QED BY <2>1, <2>2, <2>3, Zenon
<1>10. ASSUME NEW k \in 0..(n - 1), k \in G PROVE k + 1 \in G
  <2>. DEFINE T == 1..(k + 1)
              x == s[k + 1]
              v == h[1..k]
  <2>1. T \in SUBSET (1..n) /\ T # {} /\ Max(T) = k + 1 /\ T \ {k + 1} = 1..k
    BY <1>1, FirstPositions, Zenon
  <2>2. k \in Nat /\ k + 1 \in 1..n /\ k + 1 \in 0..n
    BY <1>1
  <2>. HIDE DEF T, States
  <2>3. h[T] = Next1(h[T \ {Max(T)}], s[Max(T)])
    BY <1>8, <2>1, Zenon
  <2>4. h[T] = Next1(v, x)
    BY <2>1, <2>3, Zenon
  <2>5. /\ v \in States /\ ToSet(v) = Firsts(s, k) \cap S /\ x \in A
        /\ IsInjective(s) => IsInjective(v)
    BY <1>1, <1>10, <2>2
  <2>6. Firsts(s, k + 1) = Firsts(s, k) \cup {x}
    BY <2>2, FirstsGrow
  <2>8. IsInjective(s) => x \notin Firsts(s, k)
    BY <1>1, <2>2 DEF IsInjective, Firsts
  <2>. HIDE DEF v, x, Good
  <2>7. Good(h[T], k + 1)
    <3>1. CASE x \in S
      <4>1. h[T] = Append(v, x)
        BY <2>4, <3>1 DEF Next1
      <4>2. /\ Append(v, x) \in States /\ ToSet(Append(v, x)) = ToSet(v) \cup {x}
            /\ IsInjective(v) /\ x \notin ToSet(v) => IsInjective(Append(v, x))
        BY <2>5, AppendIs DEF States
      <4>. QED BY <2>5, <2>6, <2>8, <3>1, <4>1, <4>2 DEF Good
    <3>2. CASE x \notin S
      <4>1. h[T] = v
        BY <2>4, <3>2 DEF Next1
      <4>. QED BY <2>5, <2>6, <3>2, <4>1 DEF Good
    <3>. QED BY <3>1, <3>2
  <2>. QED BY <2>2, <2>7 DEF T
<1>11. n \in G
  <2>1. \A k \in 0..n : k \in G
    <3>. HIDE DEF G
    <3>. QED BY <1>1, <1>9, <1>10, Induction
  <2>. HIDE DEF G
  <2>. QED BY <1>1, <2>1
<1>12. Good(h[1..n], n)
  <2>. HIDE DEF States, Good
  <2>. QED BY <1>11
<1>13. Firsts(s, n) = ToSet(s)
  BY <1>1, Zenon DEF Firsts, ToSet
<1>. QED BY <1>2, <1>12, <1>13, Zenon

\* Nothing is left out of a sequence if all of it passes.
LEMMA KeptAll ==
  ASSUME NEW A, NEW s \in Seq(A), NEW S, ToSet(s) \subseteq S
  PROVE  Kept(s, S) = s
<1>. DEFINE n == Len(s)
            Next1(v, x) == IF x \in S THEN Append(v, x) ELSE v
            States == Seq(A)
            first == <<>>
            Rec(h) == h = [T \in SUBSET (1..n) |->
                             IF T = {} THEN first ELSE Next1(h[T \ {Max(T)}], s[Max(T)])]
            h == CHOOSE g : Rec(g)
            step == [x \in States \X (1..n) |-> Next1(x[1], s[x[2]])]
<1>1. n \in Nat /\ DOMAIN s = 1..n /\ \A k \in 1..n : s[k] \in A /\ s[k] \in S
  BY DEF ToSet
<1>2. Kept(s, S) = h[1..n]
  BY <1>1, Zenon DEF Kept, FoldLeft, MapThenFoldSet
<1>3. first \in States
  OBVIOUS
<1>4. ASSUME NEW v \in States, NEW x \in A PROVE Next1(v, x) \in States
  OBVIOUS
<1>. HIDE DEF n, first, Next1
<1>5. step \in [States \X (1..n) -> States]
  <2>1. \A x \in States \X (1..n) : x[1] \in States /\ s[x[2]] \in A
    <3>. HIDE DEF States
    <3>. QED BY <1>1
  <2>. HIDE DEF States
  <2>. QED BY <1>4, <2>1
<1>. HIDE DEF step
<1>6. PICK g \in [SUBSET (1..n) -> States] : Folds(g, first, step, n)
  <2>. HIDE DEF States
  <2>. QED BY <1>1, <1>3, <1>5, FoldsExists
<1>7. Rec(g)
  <2>. HIDE DEF States
  <2>1. ASSUME NEW T \in SUBSET (1..n), T # {}
        PROVE  step[g[T \ {Max(T)}], Max(T)] = Next1(g[T \ {Max(T)}], s[Max(T)])
    <3>1. Max(T) \in 1..n
      <4>1. Max(T) \in T
        BY <1>1, <2>1, MaxIsIn, Zenon
      <4>. QED BY <4>1
    <3>2. g[T \ {Max(T)}] \in States
      OBVIOUS
    <3>. QED BY <3>1, <3>2 DEF step
  <2>. QED BY <1>6, <2>1, Zenon DEF Folds
<1>8. Rec(h)
  BY <1>7, Zenon
<1>. HIDE DEF h
<1>. DEFINE Good(v, k) == /\ v \in States /\ Len(v) = k
                          /\ \A i \in 1..k : v[i] = s[i]
            G == {k \in 0..n : Good(h[1..k], k)}
<1>9. 0 \in G
  <2>1. 1..0 = {} /\ {} \in SUBSET (1..n) /\ 0 \in 0..n
    BY <1>1
  <2>2. h[1..0] = first
    BY <1>8, <2>1, Zenon
  <2>3. Good(first, 0)
    BY <1>3 DEF first
  <2>. QED BY <2>1, <2>2, <2>3, Zenon
<1>10. ASSUME NEW k \in 0..(n - 1), k \in G PROVE k + 1 \in G
  <2>. DEFINE T == 1..(k + 1)
              x == s[k + 1]
              v == h[1..k]
  <2>1. T \in SUBSET (1..n) /\ T # {} /\ Max(T) = k + 1 /\ T \ {k + 1} = 1..k
    BY <1>1, FirstPositions, Zenon
  <2>2. k \in Nat /\ k + 1 \in 1..n /\ k + 1 \in 0..n
    BY <1>1
  <2>. HIDE DEF T, States
  <2>3. h[T] = Next1(h[T \ {Max(T)}], s[Max(T)])
    BY <1>8, <2>1, Zenon
  <2>4. h[T] = Next1(v, x)
    BY <2>1, <2>3, Zenon
  <2>5. v \in States /\ Len(v) = k /\ x \in A /\ x \in S /\ \A i \in 1..k : v[i] = s[i]
    BY <1>1, <1>10, <2>2
  <2>. HIDE DEF v, Good
  <2>6. h[T] = Append(v, x)
    BY <2>4, <2>5 DEF Next1
  <2>7. Good(Append(v, x), k + 1)
    <3>. HIDE DEF x
    <3>1. Append(v, x) \in Seq(A) /\ Len(Append(v, x)) = k + 1
      BY <2>5 DEF States
    <3>2. \A i \in 1..k : Append(v, x)[i] = s[i]
      BY <2>5 DEF States
    <3>3. Append(v, x)[k + 1] = s[k + 1]
      BY <2>5 DEF States, x
    <3>. QED BY <2>2, <3>1, <3>2, <3>3 DEF Good, States
  <2>. QED BY <2>2, <2>6, <2>7 DEF T
<1>11. n \in G
  <2>1. \A k \in 0..n : k \in G
    <3>. HIDE DEF G
    <3>. QED BY <1>1, <1>9, <1>10, Induction
  <2>. HIDE DEF G
  <2>. QED BY <1>1, <2>1
<1>12. Good(h[1..n], n)
  <2>. HIDE DEF States, Good
  <2>. QED BY <1>11
<1>13. h[1..n] = s
  <2>1. PICK w : w = h[1..n]
    OBVIOUS
  <2>2. w \in Seq(A) /\ Len(w) = n /\ \A i \in 1..n : w[i] = s[i]
    BY <1>12, <2>1
  <2>3. w = s
    BY <1>1, <2>2 DEF n
  <2>. QED BY <2>1, <2>3
<1>. QED BY <1>2, <1>13

\* SetToSeq lists the elements of a set, each once.
LEMMA SetToSeqIs ==
  ASSUME NEW S, IsFiniteSet(S)
  PROVE  /\ SetToSeq(S) \in Seq(S) /\ Len(SetToSeq(S)) = Cardinality(S)
         /\ ToSet(SetToSeq(S)) = S /\ IsInjective(SetToSeq(S))
<1>. DEFINE n == Cardinality(S)
            s == SetToSeq(S)
<1>1. n \in Nat /\ ExistsBijection(1..n, S)
  BY FS_CardinalityType
<1>2. \E g \in [1..n -> S] : IsInjective(g)
  BY <1>1, Zenon DEF ExistsBijection, Bijection, Injection
<1>3. s = CHOOSE g \in [1..n -> S] : IsInjective(g)
  BY DEF SetToSeq
<1>4. s \in [1..n -> S] /\ IsInjective(s)
  BY <1>2, <1>3, Zenon
<1>5. s \in Injection(1..n, S)
  BY <1>4, Zenon DEF Injection
<1>6. IsFiniteSet(1..n) /\ Cardinality(1..n) = n
  BY <1>1, FS_Interval
<1>7. s \in Surjection(1..n, S)
  BY <1>5, <1>6, FS_Injection
<1>8. \A x \in S : \E j \in 1..n : s[j] = x
  BY <1>7, Zenon DEF Surjection
<1>. HIDE DEF s, n
<1>9. s \in Seq(S) /\ DOMAIN s = 1..n /\ Len(s) = n
  <2>1. s \in Seq(S)
    BY <1>1, <1>4, IsASeq
  <2>. QED BY <1>1, <1>4, <2>1
<1>10. ToSet(s) = S
  BY <1>4, <1>8, <1>9, Zenon DEF ToSet
<1>. QED BY <1>4, <1>9, <1>10 DEF s, n
==============================================================================
