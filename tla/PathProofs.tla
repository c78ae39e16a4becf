------------------------------ MODULE PathProofs ------------------------------
(* What find_paths and map_paths (path/builder.py) compute from any graph:     *)
(* each closed walk over distinct pools is found once, because a walk is found *)
(* exactly when no substack of the stack holds a step that leads to it, and it *)
(* is entered once under each of its pools.                                    *)
EXTENDS PathFinding, SequenceLemmas

-----------------------------------------------------------------------------
(* Walks, place by place                                                     *)

Ends(start) == IF start \in Weths THEN Weths ELSE {start}
Places == DOMAIN graph \cup ToSet(PathTokens) \cup (UNION {graph[p] : p \in DOMAIN graph})

\* A pool joins two tokens, and neither is a pool.
GraphOk ==
  /\ IsFiniteSet(DOMAIN graph)
  /\ \A p \in DOMAIN graph : \E a, b : a # b /\ graph[p] = {a, b}
  /\ \A p \in DOMAIN graph : graph[p] \cap DOMAIN graph = {}
  /\ ToSet(PathTokens) \cap DOMAIN graph = {}

\* The n-th pool of w joins the tokens around it.
Joins(w, n) ==
  /\ w[2 * n] \in DOMAIN graph
  /\ graph[w[2 * n]] = {w[2 * n - 1], w[2 * n + 1]} /\ w[2 * n - 1] # w[2 * n + 1]

\* w goes over k distinct pools, from start.
Walk(w, start, k) ==
  /\ w \in Seq(Places) /\ Len(w) = 2 * k + 1 /\ w[1] = start
  /\ \A n \in 1..k : Joins(w, n)
  /\ \A m, n \in 1..k : m # n => w[2 * m] # w[2 * n]

\* The tokens after the first k pools are neither ends nor ignored.
Inner(w, start, k) == \A n \in 1..k : w[2 * n + 1] \notin Ends(start) \cup Ignored

OpenWalk(w, start, k) == Walk(w, start, k) /\ Inner(w, start, k)
ClosedWalk(w, start, k) ==
  Walk(w, start, k) /\ Inner(w, start, k - 1) /\ w[2 * k + 1] \in Ends(start)

\* Even places have pools, odd ones tokens.
LEMMA EvenOdd ==
  ASSUME NEW k \in Nat, NEW i \in 1..(2 * k + 1)
  PROVE  IF i % 2 = 0 THEN i = 2 * (i \div 2) /\ i \div 2 \in 1..k
         ELSE i = 2 * (i \div 2) + 1 /\ i \div 2 \in 0..k
OBVIOUS

\* The token of p that is not u.
Other(p, u) == CHOOSE t \in graph[p] : t # u

TokensFrom(token, start, pools) ==
  token = [n \in 0..Len(pools) |->
             IF n = 0 THEN start ELSE Other(pools[n], token[n - 1])]

\* The recursion over the pools of a walk has a solution, for a walk of any length.
LEMMA TokensExist ==
  ASSUME NEW start, NEW pools, Len(pools) \in Nat
  PROVE  \E token : TokensFrom(token, start, pools)
<1>. DEFINE k == Len(pools)
            Next1(n, u) == Other(pools[n], u)
            Upto(h, m) == h = [n \in 0..m |-> IF n = 0 THEN start ELSE Next1(n, h[n - 1])]
            G == {m \in 0..k : \E h : Upto(h, m)}
<1>. HIDE DEF Next1
<1>1. 0 \in G
  <2>. DEFINE h == [n \in 0..0 |-> start]
  <2>1. \A n \in 0..0 : n = 0
    OBVIOUS
  <2>2. Upto(h, 0) /\ 0 \in 0..k
    BY <2>1
  <2>. HIDE DEF h
  <2>. QED BY <2>2
<1>2. ASSUME NEW m \in 0..(k - 1), m \in G PROVE m + 1 \in G
  <2>1. PICK h : Upto(h, m)
    BY <1>2
  <2>. DEFINE g == [n \in 0..(m + 1) |-> IF n = m + 1 THEN Next1(m + 1, h[m]) ELSE h[n]]
  <2>2. \A n \in 0..m : g[n] = h[n] /\ h[n] = IF n = 0 THEN start ELSE Next1(n, h[n - 1])
    BY <2>1
  <2>3. g[m + 1] = Next1(m + 1, g[m])
    BY <2>2
  <2>4. \A n \in 0..(m + 1) : g[n] = IF n = 0 THEN start ELSE Next1(n, g[n - 1])
    <3>1. ASSUME NEW n \in 0..m PROVE g[n] = IF n = 0 THEN start ELSE Next1(n, g[n - 1])
      <4>1. n # 0 => n - 1 \in 0..m
        OBVIOUS
      <4>2. n # 0 => g[n - 1] = h[n - 1]
        BY <2>2, <4>1
      <4>. HIDE DEF g
      <4>. QED BY <2>2, <4>2
    <3>2. m + 1 # 0 /\ (m + 1) - 1 = m /\ \A n \in 0..(m + 1) : n \in 0..m \/ n = m + 1
      OBVIOUS
    <3>. HIDE DEF g
    <3>. QED BY <2>3, <3>1, <3>2
  <2>5. g = [n \in 0..(m + 1) |-> g[n]]
    OBVIOUS
  <2>. HIDE DEF g
  <2>6. Upto(g, m + 1)
    BY <2>4, <2>5
  <2>. QED BY <2>6
<1>3. k \in G
  <2>1. \A i \in 0..k : i \in G
    <3>. HIDE DEF G
    <3>. QED BY <1>1, <1>2, Induction
  <2>. HIDE DEF G
  <2>. QED BY <2>1
<1>. QED BY <1>3 DEF TokensFrom, Next1

\* Each pool is left by its other token.
TokensOf(token, start, pools, k) ==
  token[0] = start /\ \A n \in 1..k : token[n] = Other(pools[n], token[n - 1])

\* TokensAlong is that solution.
LEMMA TokensAlongAre ==
  ASSUME NEW start, NEW pools, NEW k \in Nat, Len(pools) = k,
         NEW token, token = TokensAlong(start, pools)
  PROVE  TokensOf(token, start, pools, k)
<1>. DEFINE h == CHOOSE g : TokensFrom(g, start, pools)
<1>1. TokensAlong(start, pools) = h
  BY DEF TokensAlong, TokensFrom, Other
<1>2. TokensFrom(h, start, pools)
  BY TokensExist, Zenon
<1>. HIDE DEF h
<1>3. token = h
  BY <1>1
<1>4. token = [n \in 0..k |-> IF n = 0 THEN start ELSE Other(pools[n], token[n - 1])]
  BY <1>2, <1>3 DEF TokensFrom
<1>5. token[0] = start /\ \A n \in 1..k : token[n] = Other(pools[n], token[n - 1])
  BY <1>4
<1>. QED BY <1>5 DEF TokensOf

-----------------------------------------------------------------------------
(* The walks that PathFinding defines                                        *)

\* The other token of a pool.
LEMMA OtherToken ==
  ASSUME GraphOk, NEW p \in DOMAIN graph, NEW u \in graph[p]
  PROVE  /\ Other(p, u) \in graph[p] /\ Other(p, u) # u
         /\ graph[p] = {u, Other(p, u)}
<1>1. PICK a, b : a # b /\ graph[p] = {a, b}
  BY DEF GraphOk
<1>2. \E x \in graph[p] : x # u
  BY <1>1
<1>3. Other(p, u) \in graph[p] /\ Other(p, u) # u
  BY <1>2 DEF Other
<1>4. graph[p] = {u, Other(p, u)}
  BY <1>1, <1>3
<1>. QED BY <1>3, <1>4

\* The walk from start over s, and what makes it one of ClosedWalks.
Walked(start, s) ==
  [i \in 1..(2 * Len(s) + 1) |->
     IF i % 2 = 0 THEN s[i \div 2] ELSE TokensAlong(start, s)[i \div 2]]
Simple(s, m) == s \in [1..m -> DOMAIN graph] /\ \A i, j \in 1..m : i # j => s[i] # s[j]
Closed(start, s) == IsClosed(TokensAlong(start, s), s, Ends(start))

\* Pools that lead back without a repetition make a closed walk.
LEMMA ClosedWalkIs ==
  ASSUME GraphOk, NEW start \in Places, NEW m \in 1..Length,
         NEW s, Simple(s, m), Closed(start, s)
  PROVE  ClosedWalk(Walked(start, s), start, m)
<1>. DEFINE token == TokensAlong(start, s)
            w == [i \in 1..(2 * Len(s) + 1) |-> IF i % 2 = 0 THEN s[i \div 2] ELSE token[i \div 2]]
<1>0. s \in [1..m -> DOMAIN graph] /\ \A i, j \in 1..m : i # j => s[i] # s[j]
  BY DEF Simple
<1>1. m \in Nat /\ Len(s) = m /\ m \in 1..m
  BY <1>0, LengthAssumption
<1>2. /\ token[0] = start
      /\ \A n \in 1..m : token[n] = Other(s[n], token[n - 1])
  <2>1. PICK k : k = m
    OBVIOUS
  <2>2. PICK t : t = token
    OBVIOUS
  <2>3. TokensOf(t, start, s, k)
    BY <1>1, <2>1, <2>2, TokensAlongAre
  <2>. HIDE DEF token
  <2>. QED BY <2>1, <2>2, <2>3 DEF TokensOf
<1>3. /\ \A n \in 1..m : token[n - 1] \in graph[s[n]]
      /\ token[m] \in Ends(start)
      /\ \A n \in 1..(m - 1) : token[n] \notin Ends(start) \cup Ignored
  BY <1>1 DEF Closed, IsClosed
<1>. HIDE DEF token
<1>4. \A n \in 1..m : /\ s[n] \in DOMAIN graph /\ token[n] \in graph[s[n]]
                      /\ token[n] # token[n - 1] /\ graph[s[n]] = {token[n - 1], token[n]}
  <2>1. ASSUME NEW n \in 1..m
        PROVE  /\ s[n] \in DOMAIN graph /\ token[n] \in graph[s[n]]
               /\ token[n] # token[n - 1] /\ graph[s[n]] = {token[n - 1], token[n]}
    <3>1. PICK p, u, t : p = s[n] /\ u = token[n - 1] /\ t = token[n]
      OBVIOUS
    <3>2. p \in DOMAIN graph /\ u \in graph[p]
      BY <1>0, <1>3, <3>1
    <3>3. t = Other(p, u)
      BY <1>2, <3>1
    <3>4. t \in graph[p] /\ t # u /\ graph[p] = {u, t}
      BY <3>2, <3>3, OtherToken
    <3>. QED BY <3>1, <3>2, <3>4
  <2>. QED BY <2>1
<1>5. /\ \A n \in 1..m : s[n] \in Places /\ token[n] \in Places
      /\ token[0] \in Places
  BY <1>2, <1>4 DEF Places
<1>6. w = [i \in 1..(2 * m + 1) |-> IF i % 2 = 0 THEN s[i \div 2] ELSE token[i \div 2]]
  BY <1>1
<1>7. ASSUME NEW n \in 1..m PROVE w[2 * n] = s[n]
  BY <1>1, <1>6
<1>8. ASSUME NEW n \in 0..m PROVE w[2 * n + 1] = token[n]
  <2>1. 2 * n + 1 \in 1..(2 * m + 1) /\ (2 * n + 1) % 2 = 1 /\ (2 * n + 1) \div 2 = n
    BY <1>1
  <2>. QED BY <1>6, <2>1
<1>9. \A i \in 1..(2 * m + 1) : w[i] \in Places
  <2>1. ASSUME NEW i \in 1..(2 * m + 1) PROVE w[i] \in Places
    <3>1. IF i % 2 = 0 THEN i \div 2 \in 1..m ELSE i \div 2 \in 0..m
      BY <1>1, EvenOdd
    <3>2. w[i] = IF i % 2 = 0 THEN s[i \div 2] ELSE token[i \div 2]
      BY <1>6
    <3>3. \A n \in 0..m : n = 0 \/ n \in 1..m
      BY <1>1
    <3>. HIDE DEF w
    <3>. QED BY <1>5, <3>1, <3>2, <3>3
  <2>. QED BY <2>1
<1>. DEFINE l == 2 * m + 1
<1>10. w \in Seq(Places) /\ Len(w) = l
  <2>1. l \in Nat /\ DOMAIN w = 1..l
    BY <1>1
  <2>2. w \in [1..l -> Places]
    BY <1>6, <1>9
  <2>. HIDE DEF w, l
  <2>. QED BY <2>1, <2>2, IsASeq
<1>. HIDE DEF w
<1>11. w[1] = start
  BY <1>1, <1>2, <1>8
<1>12. ASSUME NEW n \in 1..m PROVE Joins(w, n)
  <2>1. n - 1 \in 0..m /\ n \in 0..m /\ 2 * (n - 1) + 1 = 2 * n - 1
    BY <1>1
  <2>2. w[2 * n] = s[n] /\ w[2 * n + 1] = token[n] /\ w[2 * (n - 1) + 1] = token[n - 1]
    BY <1>7, <1>8, <2>1
  <2>. QED BY <1>4, <2>1, <2>2 DEF Joins
<1>13. Walk(w, start, m)
  <2>1. \A i, j \in 1..m : i # j => w[2 * i] # w[2 * j]
    BY <1>0, <1>7
  <2>. QED BY <1>10, <1>11, <1>12, <2>1 DEF Walk
<1>14. Inner(w, start, m - 1)
  <2>1. \A n \in 1..(m - 1) : n \in 0..m
    BY <1>1
  <2>. QED BY <1>3, <1>8, <2>1 DEF Inner
<1>15. w[2 * m + 1] \in Ends(start)
  BY <1>1, <1>3, <1>8
<1>. QED BY <1>13, <1>14, <1>15 DEF ClosedWalk, Walked, w, token

\* A closed walk is made of its pools in this way.
LEMMA WalkIsClosed ==
  ASSUME GraphOk, NEW start \in Places, NEW m \in 1..Length, NEW w, ClosedWalk(w, start, m),
         NEW s, s = [n \in 1..m |-> w[2 * n]]
  PROVE  Simple(s, m) /\ Closed(start, s) /\ w = Walked(start, s)
<1>. DEFINE token == TokensAlong(start, s)
<1>1. m \in Nat /\ Len(s) = m /\ m \in 1..m
  BY LengthAssumption
<1>2. /\ token[0] = start
      /\ \A n \in 1..m : token[n] = Other(s[n], token[n - 1])
  <2>1. PICK k : k = m
    OBVIOUS
  <2>2. PICK t : t = token
    OBVIOUS
  <2>3. TokensOf(t, start, s, k)
    BY <1>1, <2>1, <2>2, TokensAlongAre
  <2>. HIDE DEF token
  <2>. QED BY <2>1, <2>2, <2>3 DEF TokensOf
<1>3. /\ w \in Seq(Places) /\ Len(w) = 2 * m + 1 /\ w[1] = start
      /\ \A n \in 1..m : Joins(w, n)
      /\ \A i, j \in 1..m : i # j => w[2 * i] # w[2 * j]
      /\ \A n \in 1..(m - 1) : w[2 * n + 1] \notin Ends(start) \cup Ignored
      /\ w[2 * m + 1] \in Ends(start)
  BY DEF ClosedWalk, Walk, Inner
<1>4. \A n \in 1..m : s[n] = w[2 * n]
  OBVIOUS
<1>5. s \in [1..m -> DOMAIN graph] /\ \A i, j \in 1..m : i # j => s[i] # s[j]
  BY <1>3 DEF Joins
<1>. HIDE DEF token
<1>6. \A n \in 0..m : token[n] = w[2 * n + 1]
  <2>. DEFINE G == {n \in 0..m : token[n] = w[2 * n + 1]}
  <2>1. 0 \in G
    BY <1>1, <1>2, <1>3
  <2>2. ASSUME NEW n \in 0..(m - 1), n \in G PROVE n + 1 \in G
    <3>1. n \in Nat /\ n + 1 \in 1..m /\ n + 1 \in 0..m /\ (n + 1) - 1 = n
          /\ 2 * (n + 1) - 1 = 2 * n + 1
      BY <1>1
    <3>2. PICK p, u, t : p = s[n + 1] /\ u = token[n] /\ t = token[n + 1]
      OBVIOUS
    <3>3. t = Other(p, u)
      <4>1. token[n + 1] = Other(s[n + 1], token[(n + 1) - 1])
        BY <1>2, <3>1
      <4>. QED BY <3>1, <3>2, <4>1
    <3>4. Joins(w, n + 1)
      BY <1>3, <3>1
    <3>5. p \in DOMAIN graph /\ graph[p] = {w[2 * n + 1], w[2 * (n + 1) + 1]}
      BY <1>4, <3>1, <3>2, <3>4 DEF Joins
    <3>6. u = w[2 * n + 1]
      BY <2>2, <3>2
    <3>7. t \in graph[p] /\ t # u
      BY <3>3, <3>5, <3>6, OtherToken
    <3>8. t = w[2 * (n + 1) + 1]
      BY <3>5, <3>6, <3>7
    <3>. QED BY <3>1, <3>2, <3>8
  <2>3. \A n \in 0..m : n \in G
    <3>. HIDE DEF G
    <3>. QED BY <1>1, <2>1, <2>2, Induction
  <2>. QED BY <2>3
<1>7. \A n \in 1..m : token[n - 1] \in graph[s[n]]
  <2>1. ASSUME NEW n \in 1..m PROVE token[n - 1] \in graph[s[n]]
    <3>1. n - 1 \in 0..m /\ 2 * (n - 1) + 1 = 2 * n - 1
      BY <1>1
    <3>2. token[n - 1] = w[2 * (n - 1) + 1]
      BY <1>6, <3>1
    <3>. QED BY <1>3, <1>4, <3>1, <3>2 DEF Joins
  <2>. QED BY <2>1
<1>8. token[m] \in Ends(start) /\ \A n \in 1..(m - 1) : token[n] \notin Ends(start) \cup Ignored
  <2>1. m \in 0..m /\ \A n \in 1..(m - 1) : n \in 0..m
    BY <1>1
  <2>. QED BY <1>3, <1>6, <2>1
<1>9. IsClosed(token, s, Ends(start))
  BY <1>1, <1>7, <1>8 DEF IsClosed
<1>. DEFINE l == 2 * m + 1
            f(i) == IF i % 2 = 0 THEN s[i \div 2] ELSE token[i \div 2]
<1>10. \A i \in 1..l : w[i] = f(i)
  <2>1. ASSUME NEW i \in 1..l PROVE w[i] = f(i)
    <3>1. IF i % 2 = 0 THEN i = 2 * (i \div 2) /\ i \div 2 \in 1..m
          ELSE i = 2 * (i \div 2) + 1 /\ i \div 2 \in 0..m
      BY <1>1, EvenOdd
    <3>2. CASE i % 2 = 0
      <4>1. s[i \div 2] = w[2 * (i \div 2)]
        BY <1>4, <3>1, <3>2
      <4>. QED BY <3>1, <3>2, <4>1
    <3>3. CASE i % 2 # 0
      <4>1. token[i \div 2] = w[2 * (i \div 2) + 1]
        BY <1>6, <3>1, <3>3
      <4>. QED BY <3>1, <3>3, <4>1
    <3>. QED BY <3>2, <3>3
  <2>. QED BY <2>1
<1>11. l \in Nat /\ DOMAIN w = 1..l /\ w = [i \in DOMAIN w |-> w[i]]
  BY <1>1, <1>3
<1>. HIDE DEF f, l
<1>12. w = [i \in 1..l |-> f(i)]
  BY <1>10, <1>11
<1>13. w = [i \in 1..(2 * Len(s) + 1) |-> IF i % 2 = 0 THEN s[i \div 2] ELSE token[i \div 2]]
  BY <1>1, <1>12 DEF f, l
<1>. QED BY <1>5, <1>9, <1>13 DEF Simple, Closed, Walked, token

\* Said place by place.
LEMMA ClosedWalksAre ==
  ASSUME GraphOk, NEW start \in Places, NEW w
  PROVE  w \in ClosedWalks(start) <=> \E k \in 1..Length : ClosedWalk(w, start, k)
<1>1. ClosedWalks(start) = {Walked(start, s) : s \in {s \in SimpleSequences : Closed(start, s)}}
  BY Zenon DEF ClosedWalks, Ends, Walked, Closed
<1>2. \A s : s \in SimpleSequences <=> \E m \in 1..Length : Simple(s, m)
  BY DEF SimpleSequences, Simple
<1>3. ASSUME w \in ClosedWalks(start) PROVE \E k \in 1..Length : ClosedWalk(w, start, k)
  <2>1. PICK s \in SimpleSequences : Closed(start, s) /\ w = Walked(start, s)
    BY <1>1, <1>3
  <2>2. PICK m \in 1..Length : Simple(s, m)
    BY <1>2, <2>1
  <2>3. ClosedWalk(w, start, m)
    BY <2>1, <2>2, ClosedWalkIs
  <2>. QED BY <2>3
<1>4. ASSUME NEW m \in 1..Length, ClosedWalk(w, start, m) PROVE w \in ClosedWalks(start)
  <2>1. PICK s : s = [n \in 1..m |-> w[2 * n]]
    OBVIOUS
  <2>2. Simple(s, m) /\ Closed(start, s) /\ w = Walked(start, s)
    BY <1>4, <2>1, WalkIsClosed
  <2>. QED BY <1>1, <1>2, <2>2
<1>. QED BY <1>3, <1>4

-----------------------------------------------------------------------------
(* One step of a walk                                                        *)

\* s goes on from path after its first k pools.
Fits(path, s, k) ==
  /\ s \in (DOMAIN graph) \X Places
  /\ graph[s[1]] = {path[2 * k + 1], s[2]} /\ s[2] # path[2 * k + 1]
  /\ \A m \in 1..k : path[2 * m] # s[1]

\* Tokens are no pools.
LEMMA TokensNoPools ==
  ASSUME GraphOk, NEW start \in ToSet(PathTokens), NEW k \in Nat, NEW w, Walk(w, start, k)
  PROVE  \A n \in 0..k : w[2 * n + 1] \in Places /\ w[2 * n + 1] \notin DOMAIN graph
<1>1. w[1] = start /\ start \notin DOMAIN graph /\ start \in Places
  BY DEF Walk, GraphOk, Places
<1>2. ASSUME NEW n \in 1..k
      PROVE  w[2 * n + 1] \in Places /\ w[2 * n + 1] \notin DOMAIN graph
  <2>1. w[2 * n] \in DOMAIN graph /\ graph[w[2 * n]] = {w[2 * n - 1], w[2 * n + 1]}
    BY DEF Walk, Joins
  <2>. QED BY <2>1 DEF GraphOk, Places
<1>3. \A n \in 0..k : n = 0 \/ n \in 1..k
  OBVIOUS
<1>. QED BY <1>1, <1>2, <1>3

\* The pools of a walk are those of its elements that are pools.
LEMMA PoolsAre ==
  ASSUME GraphOk, NEW start \in ToSet(PathTokens), NEW k \in Nat, NEW w, Walk(w, start, k),
         NEW p \in DOMAIN graph
  PROVE  p \in ToSet(w) <=> \E m \in 1..k : w[2 * m] = p
<1>1. DOMAIN w = 1..(2 * k + 1)
  BY DEF Walk
<1>2. ASSUME NEW i \in 1..(2 * k + 1), w[i] = p PROVE \E m \in 1..k : w[2 * m] = p
  <2>1. IF i % 2 = 0 THEN i = 2 * (i \div 2) /\ i \div 2 \in 1..k
        ELSE i = 2 * (i \div 2) + 1 /\ i \div 2 \in 0..k
    BY EvenOdd
  <2>2. i % 2 = 0
    BY <1>2, <2>1, TokensNoPools
  <2>. QED BY <1>2, <2>1, <2>2
<1>3. ASSUME NEW m \in 1..k, w[2 * m] = p PROVE \E i \in 1..(2 * k + 1) : w[i] = p
  <2>1. 2 * m \in 1..(2 * k + 1)
    OBVIOUS
  <2>. QED BY <1>3, <2>1
<1>. QED BY <1>1, <1>2, <1>3 DEF ToSet

\* _find_neighbors and _finalize_path look at the steps that fit.
LEMMA OnwardIs ==
  ASSUME GraphOk, NEW start \in ToSet(PathTokens), NEW k \in Nat, NEW path, Walk(path, start, k)
  PROVE  IsFiniteSet(Onward(path)) /\ \A s : s \in Onward(path) <=> Fits(path, s, k)
<1>. DEFINE u == path[2 * k + 1]
            near(t) == {step \in (DOMAIN graph) \X UNION {graph[p] : p \in DOMAIN graph} :
                          step[2] # t /\ graph[step[1]] = {t, step[2]}}
<1>1. path[Len(path)] = u
  BY DEF Walk
<1>2. \A s : s \in Onward(path) <=> s \in near(u) /\ s[1] \notin ToSet(path)
  BY <1>1 DEF Onward, Neighbours
<1>. HIDE DEF u
<1>3. ASSUME NEW s \in (DOMAIN graph) \X Places, graph[s[1]] = {u, s[2]}
      PROVE  s \in (DOMAIN graph) \X UNION {graph[p] : p \in DOMAIN graph}
  <2>1. s = <<s[1], s[2]>> /\ s[1] \in DOMAIN graph /\ s[2] \in graph[s[1]]
    BY <1>3
  <2>. QED BY <2>1
<1>4. ASSUME NEW s \in (DOMAIN graph) \X UNION {graph[p] : p \in DOMAIN graph}
      PROVE  s \in (DOMAIN graph) \X Places
  BY DEF Places
<1>5. \A s \in (DOMAIN graph) \X Places :
        s[1] \notin ToSet(path) <=> \A m \in 1..k : path[2 * m] # s[1]
  BY PoolsAre
<1>6. ASSUME NEW s PROVE s \in Onward(path) <=> Fits(path, s, k)
  BY <1>2, <1>3, <1>4, <1>5 DEF Fits, u
<1>7. IsFiniteSet(Onward(path))
  <2>. DEFINE f == [p \in DOMAIN graph |-> <<p, Other(p, u)>>]
              T == {<<p, Other(p, u)>> : p \in DOMAIN graph}
  <2>1. f \in Surjection(DOMAIN graph, T)
    BY DEF Surjection
  <2>2. IsFiniteSet(T)
    <3>. HIDE DEF f, T
    <3>. QED BY <2>1, FS_Surjection DEF GraphOk
  <2>3. ASSUME NEW s, s \in Onward(path) PROVE s \in T
    <3>1. s \in near(u)
      BY <1>2, <2>3
    <3>2. s = <<s[1], s[2]>> /\ s[1] \in DOMAIN graph /\ graph[s[1]] = {u, s[2]} /\ s[2] # u
      BY <3>1
    <3>3. Other(s[1], u) \in graph[s[1]] /\ Other(s[1], u) # u
      BY <3>2, OtherToken
    <3>4. s[2] = Other(s[1], u)
      BY <3>2, <3>3
    <3>. QED BY <3>2, <3>4
  <2>. HIDE DEF T
  <2>. QED BY <2>2, <2>3, FS_Subset
<1>. QED BY <1>6, <1>7

\* v is path with a step more.
Longer(v, path, s, k) ==
  /\ \A i \in 1..(2 * k + 1) : v[i] = path[i]
  /\ v[2 * (k + 1)] = s[1] /\ v[2 * (k + 1) + 1] = s[2]

\* A path with a step that fits is a walk with one pool more.
LEMMA StepIs ==
  ASSUME NEW start, NEW k \in Nat, NEW path, Walk(path, start, k), NEW s, Fits(path, s, k),
         NEW v, v = path \o s
  PROVE  Walk(v, start, k + 1) /\ Longer(v, path, s, k)
<1>. DEFINE l == 2 * k + 1
<1>1. path \in Seq(Places) /\ Len(path) = l /\ path[1] = start
  BY DEF Walk
<1>2. s = <<s[1], s[2]>> /\ s[1] \in Places /\ s[2] \in Places /\ s[1] \in DOMAIN graph
  BY DEF Fits, Places
<1>3. s \in Seq(Places) /\ Len(s) = 2
  <2>1. PICK a, b : s = <<a, b>> /\ a \in Places /\ b \in Places
    BY <1>2
  <2>. QED BY <2>1
<1>4. /\ v \in Seq(Places) /\ Len(v) = l + 2
      /\ \A i \in 1..(l + 2) : v[i] = IF i <= l THEN path[i] ELSE s[i - l]
  <2>. HIDE DEF l
  <2>1. /\ v \in Seq(Places) /\ Len(v) = Len(path) + Len(s)
        /\ \A i \in 1..(Len(path) + Len(s)) :
             v[i] = IF i <= Len(path) THEN path[i] ELSE s[i - Len(path)]
    BY <1>1, <1>3, ConcatProperties
  <2>. QED BY <1>1, <1>3, <2>1
<1>5. l \in Nat /\ \A i \in 1..l : i \in 1..(l + 2) /\ i <= l
  OBVIOUS
<1>6. 2 * (k + 1) = l + 1 /\ 2 * (k + 1) + 1 = l + 2 /\ 2 * (k + 1) - 1 = l
  OBVIOUS
<1>7. \A i \in 1..l : v[i] = path[i]
  BY <1>4, <1>5
<1>8. v[l + 1] = s[1] /\ v[l + 2] = s[2]
  <2>1. l + 1 \in 1..(l + 2) /\ l + 2 \in 1..(l + 2) /\ ~(l + 1 <= l) /\ ~(l + 2 <= l)
        /\ (l + 1) - l = 1 /\ (l + 2) - l = 2
    OBVIOUS
  <2>. HIDE DEF l
  <2>. QED BY <1>4, <2>1
<1>9. \A n \in 1..k : /\ 2 * n \in 1..l /\ 2 * n - 1 \in 1..l /\ 2 * n + 1 \in 1..l
  OBVIOUS
<1>10. \A n \in 1..(k + 1) : n \in 1..k \/ n = k + 1
  OBVIOUS
<1>11. ASSUME NEW n \in 1..(k + 1) PROVE Joins(v, n)
  <2>1. CASE n \in 1..k
    BY <1>7, <1>9, <2>1 DEF Walk, Joins
  <2>2. CASE n = k + 1
    <3>1. 1 \in 1..l /\ l \in 1..l
      OBVIOUS
    <3>2. v[l] = path[2 * k + 1]
      BY <1>7, <3>1
    <3>3. v[2 * n] = s[1] /\ v[2 * n + 1] = s[2] /\ v[2 * n - 1] = path[2 * k + 1]
      BY <1>6, <1>8, <2>2, <3>2
    <3>. QED BY <3>3 DEF Fits, Joins
  <2>. QED BY <1>10, <2>1, <2>2
<1>12. ASSUME NEW m \in 1..(k + 1), NEW n \in 1..(k + 1), m # n
       PROVE  v[2 * m] # v[2 * n]
  <2>1. \A i \in 1..k : v[2 * i] = path[2 * i] /\ v[2 * i] # s[1]
    BY <1>7, <1>9 DEF Fits
  <2>2. v[2 * (k + 1)] = s[1]
    BY <1>6, <1>8
  <2>3. CASE m \in 1..k /\ n \in 1..k
    BY <1>12, <2>1, <2>3 DEF Walk
  <2>4. CASE m = k + 1 \/ n = k + 1
    BY <1>10, <1>12, <2>1, <2>2, <2>4
  <2>. QED BY <1>10, <2>3, <2>4
<1>13. Walk(v, start, k + 1)
  <2>1. 1 \in 1..l /\ 2 * (k + 1) + 1 = l + 2
    OBVIOUS
  <2>2. v[1] = start
    BY <1>1, <1>7, <2>1
  <2>. QED BY <1>4, <1>11, <1>12, <2>1, <2>2 DEF Walk
<1>. QED BY <1>6, <1>7, <1>8, <1>13 DEF Longer

\* Two walks that agree up to a length are one there.
LEMMA SameWalk ==
  ASSUME NEW l \in Nat, NEW v \in Seq(Places), NEW w \in Seq(Places), Len(v) = l, Len(w) = l,
         \A i \in 1..l : v[i] = w[i]
  PROVE  v = w
OBVIOUS

\* A closed walk that begins with an open one goes on with a step that fits, and ends
\* there or goes on.
LEMMA Continues ==
  ASSUME NEW start, NEW k \in Nat, NEW path, OpenWalk(path, start, k),
         NEW j \in Nat \ {0}, NEW w, ClosedWalk(w, start, j),
         2 * k + 1 <= Len(w), \A i \in 1..(2 * k + 1) : w[i] = path[i],
         NEW s, s = <<w[2 * (k + 1)], w[2 * (k + 1) + 1]>>
  PROVE  /\ k + 1 <= j /\ Fits(path, s, k)
         /\ s[2] \in Ends(start) => w = path \o s
         /\ s[2] \notin Ends(start) => k + 1 < j /\ s[2] \notin Ignored
<1>. DEFINE a == w[2 * (k + 1)]
            b == w[2 * (k + 1) + 1]
<1>0. s = <<a, b>>
  OBVIOUS
<1>1. /\ w \in Seq(Places) /\ Len(w) = 2 * j + 1
      /\ \A n \in 1..j : Joins(w, n)
      /\ \A m, n \in 1..j : m # n => w[2 * m] # w[2 * n]
      /\ \A n \in 1..(j - 1) : w[2 * n + 1] \notin Ends(start) \cup Ignored
      /\ w[2 * j + 1] \in Ends(start) /\ 1 <= j
  BY DEF ClosedWalk, Walk, Inner
<1>2. /\ path \in Seq(Places) /\ Len(path) = 2 * k + 1
      /\ \A n \in 1..k : path[2 * n + 1] \notin Ends(start) \cup Ignored
  BY DEF OpenWalk, Walk, Inner
<1>3. k <= j
  BY <1>1
<1>4. k # j
  <2>1. ASSUME k = j PROVE FALSE
    <3>1. k \in 1..k /\ 2 * k + 1 \in 1..(2 * k + 1)
      BY <1>1, <2>1
    <3>2. w[2 * k + 1] = path[2 * k + 1]
      BY <3>1
    <3>. QED BY <1>1, <1>2, <2>1, <3>1, <3>2
  <2>. QED BY <2>1
<1>5. k + 1 <= j /\ k + 1 \in 1..j
  BY <1>3, <1>4
<1>6. Joins(w, k + 1)
  BY <1>1, <1>5
<1>7. 2 * (k + 1) - 1 = 2 * k + 1 /\ 2 * k + 1 \in 1..(2 * k + 1)
  OBVIOUS
<1>8. /\ a \in DOMAIN graph /\ graph[a] = {path[2 * k + 1], b} /\ b # path[2 * k + 1]
  BY <1>6, <1>7 DEF Joins
<1>9. a \in Places /\ b \in Places
  <2>1. 2 * (k + 1) \in 1..(2 * j + 1) /\ 2 * (k + 1) + 1 \in 1..(2 * j + 1)
    BY <1>5
  <2>. QED BY <1>1, <2>1
<1>10. \A m \in 1..k : path[2 * m] # a
  <2>1. ASSUME NEW m \in 1..k PROVE path[2 * m] # a
    <3>1. m \in 1..j /\ m # k + 1 /\ 2 * m \in 1..(2 * k + 1)
      BY <1>5
    <3>2. w[2 * m] # w[2 * (k + 1)] /\ w[2 * m] = path[2 * m]
      BY <1>1, <1>5, <3>1
    <3>. QED BY <3>2
  <2>. QED BY <2>1
<1>. HIDE DEF a, b
<1>11. Fits(path, s, k)
  BY <1>0, <1>8, <1>9, <1>10 DEF Fits
<1>12. ASSUME b \in Ends(start) PROVE w = path \o s
  <2>1. j = k + 1
    <3>1. ASSUME j # k + 1 PROVE FALSE
      <4>1. k + 1 \in 1..(j - 1)
        BY <1>5, <3>1
      <4>2. w[2 * (k + 1) + 1] \notin Ends(start)
        BY <1>1, <4>1
      <4>. QED BY <1>12, <4>2 DEF b
    <3>. QED BY <3>1
  <2>. DEFINE v == path \o s
              l == 2 * k + 1
  <2>2. /\ Walk(v, start, k + 1)
        /\ \A i \in 1..l : v[i] = path[i]
        /\ v[2 * (k + 1)] = a /\ v[2 * (k + 1) + 1] = b
    <3>1. s[1] = a /\ s[2] = b /\ Walk(path, start, k)
      BY <1>0 DEF OpenWalk
    <3>2. PICK t, u : t = s /\ u = path \o s
      OBVIOUS
    <3>3. Walk(u, start, k + 1) /\ Longer(u, path, t, k)
      BY <1>11, <3>1, <3>2, StepIs
    <3>. HIDE DEF l
    <3>4. v = u
      BY <3>2
    <3>. HIDE DEF v
    <3>. QED BY <3>1, <3>2, <3>3, <3>4 DEF l, Longer
  <2>. HIDE DEF v
  <2>3. v \in Seq(Places) /\ Len(v) = 2 * (k + 1) + 1
    BY <2>2 DEF Walk
  <2>4. \A i \in 1..(2 * (k + 1) + 1) : i \in 1..l \/ i = 2 * (k + 1) \/ i = 2 * (k + 1) + 1
    OBVIOUS
  <2>5. \A i \in 1..(2 * (k + 1) + 1) : v[i] = w[i]
    BY <2>2, <2>4 DEF a, b
  <2>6. Len(w) = 2 * (k + 1) + 1 /\ 2 * (k + 1) + 1 \in Nat
    BY <1>1, <2>1
  <2>7. v = w
    BY <1>1, <2>3, <2>5, <2>6, SameWalk
  <2>. QED BY <2>7 DEF v
<1>13. ASSUME b \notin Ends(start) PROVE k + 1 < j /\ b \notin Ignored
  <2>1. k + 1 # j
    BY <1>1, <1>13 DEF b
  <2>2. k + 1 < j /\ k + 1 \in 1..(j - 1)
    BY <1>5, <2>1
  <2>3. w[2 * (k + 1) + 1] \notin Ignored
    BY <1>1, <2>2
  <2>. QED BY <2>2, <2>3 DEF b
<1>14. s[2] = b
  BY <1>0
<1>. QED BY <1>5, <1>11, <1>12, <1>13, <1>14

-----------------------------------------------------------------------------
(* The search                                                                *)

StartToken == PathTokens[task]
Depth == Len(stack)
Steps == {<<>>} \cup ((DOMAIN graph) \X Places)

\* The path that is being followed is open, each substack has steps that fit to it at
\* their place, and the path's own step is not among them any more.
SearchOk ==
  /\ task \in DOMAIN PathTokens
  /\ stack \in Seq(SUBSET Steps) /\ stack # <<>> /\ stack[1] \subseteq {<<>>}
  /\ Depth = 1 => current_path = <<>>
  /\ Depth > 1 => stack[1] = {} /\ OpenWalk(current_path, StartToken, Depth - 2)
  /\ \A n \in 2..Depth :
       /\ stack[n] # {} => n <= Length
       /\ \A s \in stack[n] : /\ Fits(current_path, s, n - 2)
                              /\ s[2] \notin Ends(StartToken) \cup Ignored
  /\ \A n \in 2..(Depth - 1) :
       <<current_path[2 * (n - 1)], current_path[2 * (n - 1) + 1]>> \notin stack[n]

\* w begins like path, over k pools.
Begins(w, path, k) ==
  2 * k + 1 <= Len(w) /\ \A i \in 1..(2 * k + 1) : w[i] = path[i]

\* w is reached from a step of the n-th substack.
PassesAt(w, n, path, substack) ==
  IF n = 1 THEN substack # {}
  ELSE /\ Begins(w, path, n - 2) /\ 2 * (n - 1) + 1 <= Len(w)
       /\ <<w[2 * (n - 1)], w[2 * (n - 1) + 1]>> \in substack
Passes(w, n) == PassesAt(w, n, current_path, stack[n])
Pending(w) == \E n \in DOMAIN stack : Passes(w, n)

\* The walks from the n-th token that are paths.
WalksOf(n) == ClosedWalks(PathTokens[n]) \ Blacklist

\* Each walk is found or still to come, and found once.
FoundOk ==
  /\ final_paths \in Seq(WalksOf(task)) /\ IsInjective(final_paths)
  /\ \A w \in WalksOf(task) : w \in ToSet(final_paths) <=> ~Pending(w)

\* The search starts from one of the tokens, and ends where that one may end.
LEMMA StartIs ==
  ASSUME SearchOk
  PROVE  StartToken \in ToSet(PathTokens) /\ StartToken \in Places /\ final_tokens = Ends(StartToken)
<1>1. StartToken \in ToSet(PathTokens)
  BY DEF SearchOk, StartToken, ToSet
<1>2. final_tokens = Ends(StartToken)
  BY Zenon DEF StartToken, final_tokens, Ends
<1>3. ToSet(PathTokens) \subseteq Places
  BY Zenon DEF Places
<1>. QED BY <1>1, <1>2, <1>3

\* What fits to a path fits to one that begins like it.
LEMMA FitsStays ==
  ASSUME NEW k \in Nat, NEW path, NEW v, \A i \in 1..(2 * k + 1) : v[i] = path[i], NEW s
  PROVE  Fits(path, s, k) <=> Fits(v, s, k)
<1>1. 2 * k + 1 \in 1..(2 * k + 1) /\ \A m \in 1..k : 2 * m \in 1..(2 * k + 1)
  OBVIOUS
<1>2. v[2 * k + 1] = path[2 * k + 1] /\ \A m \in 1..k : v[2 * m] = path[2 * m]
  BY <1>1
<1>. QED BY <1>2 DEF Fits

PathOk ==
  /\ OpenWalk(Path, StartToken, Depth - 1) /\ Depth \in 1..Length /\ Taken \in Top
  /\ IF Depth = 1 THEN Taken = <<>> ELSE Longer(Path, current_path, Taken, Depth - 2)

\* What _find_neighbors is called with is an open walk, one step longer than the path.
LEMMA PathIs ==
  ASSUME GraphOk, SearchOk, ToVisit
  PROVE  PathOk
<1>1. Depth \in Nat \ {0} /\ Depth = Len(stack) /\ stack[Depth] = Top
  BY DEF SearchOk, Depth, Top
<1>2. Taken \in Top /\ Top # {}
  BY DEF ToVisit, Taken
<1>3. CASE Depth = 1
  <2>1. Taken = <<>>
    BY <1>1, <1>2, <1>3 DEF SearchOk
  <2>2. Path = <<StartToken>>
    BY <2>1 DEF Path, StartToken
  <2>3. PICK v, b : v = Path /\ b = StartToken
    OBVIOUS
  <2>4. v = <<b>> /\ b \in Places
    BY <2>2, <2>3, StartIs
  <2>5. v \in Seq(Places) /\ Len(v) = 2 * 0 + 1 /\ v[1] = b
    BY <2>4
  <2>6. OpenWalk(v, b, 0)
    BY <2>5 DEF OpenWalk, Walk, Inner
  <2>7. 1 \in 1..Length /\ Depth - 1 = 0
    BY <1>3, LengthAssumption
  <2>. QED BY <1>2, <1>3, <2>1, <2>3, <2>6, <2>7 DEF PathOk
<1>4. CASE Depth # 1
  <2>. DEFINE k == Depth - 2
  <2>1. Depth > 1 /\ Depth \in 2..Depth /\ k \in Nat /\ k + 1 = Depth - 1
    BY <1>1, <1>4
  <2>2. Depth <= Length /\ Fits(current_path, Taken, k) /\ Taken[2] \notin Ends(StartToken) \cup Ignored
    BY <1>1, <1>2, <2>1 DEF SearchOk
  <2>3. Taken # <<>>
    <3>1. Taken \in (DOMAIN graph) \X Places
      BY <2>2 DEF Fits
    <3>2. PICK a, b : Taken = <<a, b>>
      BY <3>1
    <3>. QED BY <3>2
  <2>4. OpenWalk(current_path, StartToken, k)
    BY <2>1 DEF SearchOk
  <2>5. PICK v, s, b, d : v = current_path \o Taken /\ s = Taken /\ b = StartToken /\ d = k
    OBVIOUS
  <2>6. Path = v
    BY <2>3, <2>5 DEF Path
  <2>7. Walk(current_path, b, d) /\ Fits(current_path, s, d) /\ v = current_path \o s /\ d \in Nat
    BY <2>1, <2>2, <2>4, <2>5 DEF OpenWalk
  <2>8. Walk(v, b, d + 1) /\ Longer(v, current_path, s, d)
    BY <2>7, StepIs
  <2>9. Inner(v, b, d + 1)
    <3>1. \A n \in 1..(d + 1) : n = d + 1 \/ (n \in 1..d /\ 2 * n + 1 \in 1..(2 * d + 1))
      BY <2>7
    <3>2. v[2 * (d + 1) + 1] \notin Ends(b) \cup Ignored
      BY <2>2, <2>5, <2>8 DEF Longer
    <3>3. \A n \in 1..d : current_path[2 * n + 1] \notin Ends(b) \cup Ignored
      BY <2>4, <2>5 DEF OpenWalk, Inner
    <3>4. ASSUME NEW n \in 1..(d + 1) PROVE v[2 * n + 1] \notin Ends(b) \cup Ignored
      <4>1. CASE n = d + 1
        BY <3>2, <4>1
      <4>2. CASE n \in 1..d /\ 2 * n + 1 \in 1..(2 * d + 1)
        <5>1. v[2 * n + 1] = current_path[2 * n + 1]
          BY <2>8, <4>2 DEF Longer
        <5>. QED BY <3>3, <4>2, <5>1
      <4>. QED BY <3>1, <4>1, <4>2
    <3>. QED BY <3>4 DEF Inner
  <2>10. Depth \in 1..Length
    BY <1>1, <2>2, LengthAssumption
  <2>11. OpenWalk(Path, StartToken, Depth - 1)
    BY <2>1, <2>5, <2>6, <2>8, <2>9 DEF OpenWalk
  <2>. QED BY <1>2, <1>4, <2>5, <2>6, <2>8, <2>10, <2>11 DEF PathOk
<1>. QED BY <1>3, <1>4

\* The walks that begin like the path which the search goes on with.
Agrees(w) == Begins(w, Path, Depth - 1)

\* The steps that end a path, and those that go on.
Closing(s) == s \in Onward(Path) /\ s[2] \in Ends(StartToken)
Going(s) == s \in Onward(Path) /\ s[2] \notin Ends(StartToken) \cup Ignored /\ Depth < Length

\* A closed walk that begins like the path is found with it, or begins like one of those
\* that the search goes on with.
NextStep(w) == <<w[2 * Depth], w[2 * Depth + 1]>>
Resumes(w, s) ==
  /\ 2 * Depth + 1 <= Len(w) /\ Fits(Path, s, Depth - 1)
  /\ IF s[2] \in Ends(StartToken) THEN Closing(s) /\ w = Path \o s ELSE Going(s)

\* A closed walk that begins like the path goes on with a step that closes it, or that
\* goes into the next substack.
LEMMA WalkResumes ==
  ASSUME GraphOk, SearchOk, PathOk, NEW w \in WalksOf(task), Agrees(w),
         NEW s, s = NextStep(w)
  PROVE  Resumes(w, s)
<1>1. StartToken \in Places /\ StartToken \in ToSet(PathTokens)
  BY StartIs
<1>2. PICK j \in 1..Length : ClosedWalk(w, StartToken, j)
  BY <1>1, ClosedWalksAre DEF WalksOf, StartToken
<1>3. PICK k, b, path : k = Depth - 1 /\ b = StartToken /\ path = Path
  OBVIOUS
<1>4. k \in Nat /\ k + 1 = Depth /\ j \in Nat \ {0} /\ j <= Length
  BY <1>3, LengthAssumption DEF PathOk
<1>5. OpenWalk(path, b, k) /\ ClosedWalk(w, b, j)
  BY <1>2, <1>3 DEF PathOk
<1>6. 2 * k + 1 <= Len(w) /\ \A i \in 1..(2 * k + 1) : w[i] = path[i]
  BY <1>3 DEF Agrees, Begins
<1>7. s = <<w[2 * (k + 1)], w[2 * (k + 1) + 1]>>
  BY <1>4 DEF NextStep
<1>8. /\ k + 1 <= j /\ Fits(path, s, k)
      /\ s[2] \in Ends(b) => w = path \o s
      /\ s[2] \notin Ends(b) => k + 1 < j /\ s[2] \notin Ignored
  BY <1>4, <1>5, <1>6, <1>7, Continues, ZenonT(30)
<1>9. s \in Onward(path)
  <2>1. b \in ToSet(PathTokens) /\ Walk(path, b, k) /\ Fits(path, s, k)
    BY <1>1, <1>3, <1>5, <1>8 DEF OpenWalk
  <2>2. \A q : q \in Onward(path) <=> Fits(path, q, k)
    BY <1>4, <2>1, OnwardIs
  <2>. QED BY <2>1, <2>2
<1>10. 2 * Depth + 1 <= Len(w)
  <2>1. Len(w) = 2 * j + 1
    BY <1>5 DEF ClosedWalk, Walk
  <2>. QED BY <1>4, <1>8, <2>1
<1>11. s[2] \notin Ends(StartToken) => Depth < Length
  BY <1>3, <1>4, <1>8, LengthAssumption
<1>. QED BY <1>3, <1>8, <1>9, <1>10, <1>11 DEF Resumes, Closing, Going

\* The path with a step that closes it is a walk.
LEMMA ClosingIs ==
  ASSUME GraphOk, SearchOk, PathOk, NEW s, Closing(s), NEW w, w = Path \o s
  PROVE  /\ w \in ClosedWalks(StartToken) /\ Agrees(w) /\ NextStep(w) = s
<1>1. StartToken \in Places /\ StartToken \in ToSet(PathTokens)
  BY StartIs
<1>2. PICK k, b, path : k = Depth - 1 /\ b = StartToken /\ path = Path
  OBVIOUS
<1>3. k \in Nat /\ k + 1 = Depth /\ Depth \in 1..Length
  BY <1>2, LengthAssumption DEF PathOk
<1>4. Walk(path, b, k) /\ Inner(path, b, k) /\ w = path \o s
  BY <1>2 DEF PathOk, OpenWalk
<1>5. Fits(path, s, k)
  BY <1>1, <1>2, <1>3, <1>4, OnwardIs DEF Closing
<1>6. Walk(w, b, k + 1) /\ Longer(w, path, s, k)
  BY <1>3, <1>4, <1>5, StepIs
<1>7. Inner(w, b, (k + 1) - 1)
  <2>1. \A n \in 1..k : 2 * n + 1 \in 1..(2 * k + 1)
    BY <1>3
  <2>2. (k + 1) - 1 = k
    BY <1>3
  <2>. QED BY <1>4, <1>6, <2>1, <2>2 DEF Inner, Longer
<1>8. w[2 * (k + 1) + 1] \in Ends(b)
  BY <1>2, <1>6 DEF Closing, Longer
<1>9. ClosedWalk(w, StartToken, Depth)
  BY <1>2, <1>3, <1>6, <1>7, <1>8 DEF ClosedWalk
<1>10. w \in ClosedWalks(StartToken)
  BY <1>1, <1>3, <1>9, ClosedWalksAre
<1>11. Agrees(w)
  <2>1. 2 * k + 1 <= Len(w)
    BY <1>3, <1>6 DEF Walk
  <2>. QED BY <1>2, <1>6, <2>1 DEF Agrees, Begins, Longer
<1>12. NextStep(w) = s
  <2>1. s = <<s[1], s[2]>>
    BY <1>5 DEF Fits
  <2>2. w[2 * Depth] = s[1] /\ w[2 * Depth + 1] = s[2]
    BY <1>3, <1>6 DEF Longer
  <2>. QED BY <2>1, <2>2 DEF NextStep
<1>. QED BY <1>10, <1>11, <1>12

\* What the path is closed with is found, each walk once.
LEMMA ClosingsAre ==
  ASSUME GraphOk, SearchOk, PathOk, NEW steps \in SUBSET Onward(Path),
         \A s : s \in steps /\ s[2] \in Ends(StartToken) <=> Closing(s),
         NEW found, found = Closings(Path, steps)
  PROVE  /\ IsFiniteSet(found) /\ found \subseteq WalksOf(task)
         /\ \A w \in WalksOf(task) : w \in found <=> Agrees(w) /\ Closing(NextStep(w))
<1>1. final_tokens = Ends(StartToken) /\ StartToken \in ToSet(PathTokens)
  BY StartIs
<1>. DEFINE ends == {s \in steps : s[2] \in Ends(StartToken)}
            T == {Path \o s : s \in ends}
<1>2. found = T \ Blacklist
  BY <1>1 DEF Closings
<1>3. IsFiniteSet(found)
  <2>1. IsFiniteSet(Onward(Path))
    <3>1. PICK k, b, path : k = Depth - 1 /\ b = StartToken /\ path = Path
      OBVIOUS
    <3>2. k \in Nat /\ Walk(path, b, k)
      BY <3>1, LengthAssumption DEF PathOk, OpenWalk
    <3>. QED BY <1>1, <3>1, <3>2, OnwardIs
  <2>. DEFINE f == [s \in ends |-> Path \o s]
  <2>2. f \in Surjection(ends, T)
    BY DEF Surjection
  <2>3. IsFiniteSet(ends)
    BY <2>1, FS_Subset
  <2>. HIDE DEF ends, T, f
  <2>4. IsFiniteSet(T)
    BY <2>2, <2>3, FS_Surjection
  <2>. QED BY <1>2, <2>4, FS_Subset
<1>4. ASSUME NEW w \in found
      PROVE  w \in WalksOf(task) /\ Agrees(w) /\ Closing(NextStep(w))
  <2>1. PICK s \in steps : s[2] \in Ends(StartToken) /\ w = Path \o s
    BY <1>2
  <2>2. Closing(s)
    BY <2>1
  <2>3. w \in ClosedWalks(StartToken) /\ Agrees(w) /\ NextStep(w) = s
    BY <2>1, <2>2, ClosingIs
  <2>. QED BY <1>2, <2>2, <2>3 DEF WalksOf, StartToken
<1>5. ASSUME NEW w \in WalksOf(task), Agrees(w), Closing(NextStep(w))
      PROVE  w \in found
  <2>1. PICK s : s = NextStep(w)
    OBVIOUS
  <2>2. Resumes(w, s)
    BY <1>5, <2>1, WalkResumes
  <2>3. w = Path \o s /\ Closing(s)
    BY <1>5, <2>1, <2>2 DEF Resumes, Closing
  <2>4. s \in ends /\ w \in T
    BY <2>3
  <2>5. w \notin Blacklist
    BY DEF WalksOf
  <2>. QED BY <1>2, <2>4, <2>5
<1>. QED BY <1>3, <1>4, <1>5

\* A step of the search, whichever branch it takes: the path's closings are found, and
\* the steps that it may go on with are the next substack.
Explores(found, substack) ==
  /\ Visit(found, substack)
  /\ IsFiniteSet(found) /\ found \subseteq WalksOf(task)
  /\ \A w \in WalksOf(task) : w \in found <=> Agrees(w) /\ Closing(NextStep(w))
  /\ substack \subseteq Steps /\ \A s : s \in substack <=> Going(s)

\* At full length only the steps that close the path are looked at.
LEMMA FinalizeExplores ==
  ASSUME GraphOk, SearchOk, FinalizePath
  PROVE  PathOk /\ \E found, substack : Explores(found, substack)
<1>1. PathOk
  BY PathIs DEF FinalizePath
<1>2. Len(Path) = 2 * Length - 1
  BY DEF FinalizePath, CompareLength
<1>3. Depth = Length
  <2>1. Len(Path) = 2 * (Depth - 1) + 1 /\ Depth \in 1..Length
    BY <1>1 DEF PathOk, OpenWalk, Walk
  <2>. QED BY <1>2, <2>1, LengthAssumption
<1>4. PICK found, steps, substack : found = Closings(Path, steps) /\ steps = Onward(Path) /\ substack = {}
  OBVIOUS
<1>5. Visit(found, substack)
  BY <1>4, Zenon DEF FinalizePath
<1>6. \A s : s \in steps /\ s[2] \in Ends(StartToken) <=> Closing(s)
  BY <1>4 DEF Closing
<1>7. /\ IsFiniteSet(found) /\ found \subseteq WalksOf(task)
      /\ \A w \in WalksOf(task) : w \in found <=> Agrees(w) /\ Closing(NextStep(w))
  BY <1>1, <1>4, <1>6, ClosingsAre
<1>8. Depth \in Nat
  BY <1>1, LengthAssumption DEF PathOk
<1>9. \A s : ~Going(s)
  BY <1>3, <1>8 DEF Going
<1>. QED BY <1>1, <1>4, <1>5, <1>7, <1>9 DEF Explores

\* Before that, steps close the path or go into the next substack.
LEMMA FindExplores ==
  ASSUME GraphOk, SearchOk, FindNeighbors
  PROVE  PathOk /\ \E found, substack : Explores(found, substack)
<1>1. PathOk
  BY PathIs DEF FindNeighbors
<1>2. Len(Path) < 2 * Length - 1
  BY DEF FindNeighbors, CompareLength
<1>3. Depth < Length
  <2>1. Len(Path) = 2 * (Depth - 1) + 1 /\ Depth \in 1..Length
    BY <1>1 DEF PathOk, OpenWalk, Walk
  <2>. QED BY <1>2, <2>1, LengthAssumption
<1>4. final_tokens = Ends(StartToken) /\ StartToken \in ToSet(PathTokens)
  BY StartIs
<1>5. PICK found, steps, substack :
        /\ steps = NotIgnored(Onward(Path)) /\ found = Closings(Path, steps)
        /\ substack = {s \in steps : s[2] \notin final_tokens}
  OBVIOUS
<1>6. Visit(found, substack)
  BY <1>5, Zenon DEF FindNeighbors
<1>7. Ends(StartToken) \cap Ignored = {}
  BY <1>4, IgnoredAssumption DEF Ends, ToSet
<1>8. \A s : s \in steps <=> s \in Onward(Path) /\ s[2] \notin Ignored
  BY <1>5 DEF NotIgnored
<1>9. \A s : s \in steps /\ s[2] \in Ends(StartToken) <=> Closing(s)
  BY <1>7, <1>8 DEF Closing
<1>10. steps \in SUBSET Onward(Path)
  BY <1>8
<1>11. /\ IsFiniteSet(found) /\ found \subseteq WalksOf(task)
       /\ \A w \in WalksOf(task) : w \in found <=> Agrees(w) /\ Closing(NextStep(w))
  BY <1>1, <1>5, <1>9, <1>10, ClosingsAre
<1>12. \A s : s \in substack <=> Going(s)
  BY <1>3, <1>4, <1>5, <1>8 DEF Going
<1>13. substack \subseteq Steps
  <2>1. PICK k, b, path : k = Depth - 1 /\ b = StartToken /\ path = Path
    OBVIOUS
  <2>2. k \in Nat /\ Walk(path, b, k)
    BY <1>1, <2>1, LengthAssumption DEF PathOk, OpenWalk
  <2>3. \A s : s \in Onward(path) => Fits(path, s, k)
    BY <1>4, <2>1, <2>2, OnwardIs
  <2>4. \A s : s \in Onward(Path) => s \in Steps
    BY <2>1, <2>3 DEF Fits, Steps
  <2>. QED BY <1>5, <1>8, <2>4
<1>. QED BY <1>1, <1>6, <1>11, <1>12, <1>13 DEF Explores

\* The stack after a step.
LEMMA StackIs ==
  ASSUME SearchOk, PathOk, NEW found, NEW substack, Explores(found, substack)
  PROVE  /\ stack' \in Seq(SUBSET Steps) /\ Len(stack') = Depth + 1 /\ Depth \in Nat \ {0}
         /\ \A n \in 1..(Depth - 1) : stack'[n] = stack[n]
         /\ stack'[Depth] = stack[Depth] \ {Taken} /\ stack'[Depth + 1] = substack
         /\ Taken \in stack[Depth]
<1>1. stack' = Under \o <<Top \ {Taken}, substack>> /\ substack \subseteq Steps
  BY DEF Explores, Visit
<1>2. PICK st, d : st = stack /\ d = Depth
  OBVIOUS
<1>3. st \in Seq(SUBSET Steps) /\ d = Len(st) /\ d \in Nat \ {0}
  BY <1>2 DEF SearchOk, Depth
<1>4. Top = st[d] /\ Under = SubSeq(st, 1, d - 1) /\ Taken \in Top
  BY <1>2 DEF Top, Under, Depth, PathOk
<1>5. PICK a, b, t : a = SubSeq(st, 1, d - 1) /\ t = Top \ {Taken} /\ b = <<t, substack>>
  OBVIOUS
<1>6. a \in Seq(SUBSET Steps) /\ Len(a) = d - 1 /\ \A n \in 1..(d - 1) : a[n] = st[n]
  BY <1>3, <1>5
<1>7. t \in SUBSET Steps /\ substack \in SUBSET Steps
  <2>1. st[d] \in SUBSET Steps
    BY <1>3
  <2>. QED BY <1>1, <1>4, <1>5, <2>1
<1>8. b \in Seq(SUBSET Steps) /\ Len(b) = 2 /\ b[1] = t /\ b[2] = substack
  BY <1>5, <1>7
<1>9. PICK c : c = a \o b
  OBVIOUS
<1>10. /\ c \in Seq(SUBSET Steps) /\ Len(c) = d + 1
       /\ \A n \in 1..(d - 1) : c[n] = st[n]
       /\ c[d] = t /\ c[d + 1] = substack
  <2>1. PICK l \in Nat : l = d - 1
    BY <1>3
  <2>2. /\ c \in Seq(SUBSET Steps) /\ Len(c) = l + 2
        /\ \A i \in 1..(l + 2) : c[i] = IF i <= l THEN a[i] ELSE b[i - l]
    <3>1. /\ c \in Seq(SUBSET Steps) /\ Len(c) = Len(a) + Len(b)
          /\ \A i \in 1..(Len(a) + Len(b)) :
               c[i] = IF i <= Len(a) THEN a[i] ELSE b[i - Len(a)]
      BY <1>6, <1>8, <1>9, ConcatProperties
    <3>2. Len(a) = l /\ Len(b) = 2
      BY <1>6, <1>8, <2>1
    <3>. QED BY <3>1, <3>2
  <2>3. d = l + 1 /\ d + 1 = l + 2
    BY <1>3, <2>1
  <2>4. c[l + 1] = b[1] /\ c[l + 2] = b[2]
    <3>1. l + 1 \in 1..(l + 2) /\ l + 2 \in 1..(l + 2) /\ ~(l + 1 <= l) /\ ~(l + 2 <= l)
          /\ (l + 1) - l = 1 /\ (l + 2) - l = 2
      OBVIOUS
    <3>. QED BY <2>2, <3>1
  <2>5. \A n \in 1..l : c[n] = a[n]
    <3>1. \A n \in 1..l : n \in 1..(l + 2) /\ n <= l
      OBVIOUS
    <3>. QED BY <2>2, <3>1
  <2>. QED BY <1>6, <1>8, <2>1, <2>2, <2>3, <2>4, <2>5
<1>11. stack' = c
  BY <1>1, <1>4, <1>5, <1>9
<1>. QED BY <1>2, <1>3, <1>4, <1>5, <1>10, <1>11

\* A walk that begins like the path begins like what it was before its last step.
LEMMA BeginsStays ==
  ASSUME NEW k \in Nat, NEW path, NEW v, \A i \in 1..(2 * k + 1) : v[i] = path[i], NEW w
  PROVE  Begins(w, path, k) <=> Begins(w, v, k)
BY DEF Begins

\* A walk begins like the longer path if it does like the shorter one and takes its step.
LEMMA BeginsNext ==
  ASSUME NEW k \in Nat, NEW path, NEW s, s = <<s[1], s[2]>>, NEW v, Longer(v, path, s, k),
         NEW w, Len(w) \in Nat
  PROVE  Begins(w, v, k + 1) <=>
           /\ Begins(w, path, k) /\ 2 * (k + 1) + 1 <= Len(w)
           /\ <<w[2 * (k + 1)], w[2 * (k + 1) + 1]>> = s
<1>1. /\ \A i \in 1..(2 * k + 1) : v[i] = path[i]
      /\ v[2 * (k + 1)] = s[1] /\ v[2 * (k + 1) + 1] = s[2]
  BY DEF Longer
<1>2. \A i : i \in 1..(2 * (k + 1) + 1) <=>
               i \in 1..(2 * k + 1) \/ i = 2 * (k + 1) \/ i = 2 * (k + 1) + 1
  OBVIOUS
<1>3. 2 * (k + 1) + 1 <= Len(w) => 2 * k + 1 <= Len(w)
  OBVIOUS
<1>4. ASSUME NEW a, NEW b PROVE <<a, b>> = s <=> a = s[1] /\ b = s[2]
  <2>1. PICK x, y : s = <<x, y>> /\ x = s[1] /\ y = s[2]
    OBVIOUS
  <2>. QED BY <2>1
<1>5. Begins(w, v, k + 1) <=>
        2 * (k + 1) + 1 <= Len(w) /\ \A i \in 1..(2 * (k + 1) + 1) : w[i] = v[i]
  BY DEF Begins
<1>6. Begins(w, path, k) <=>
        2 * k + 1 <= Len(w) /\ \A i \in 1..(2 * k + 1) : w[i] = v[i]
  BY <1>1 DEF Begins
<1>7. <<w[2 * (k + 1)], w[2 * (k + 1) + 1]>> = s <=>
        w[2 * (k + 1)] = v[2 * (k + 1)] /\ w[2 * (k + 1) + 1] = v[2 * (k + 1) + 1]
  BY <1>1, <1>4
<1>. QED BY <1>2, <1>3, <1>5, <1>6, <1>7

\* The last step of the path.
LEMMA TakenIs ==
  ASSUME SearchOk, PathOk, Depth > 1
  PROVE  /\ Depth - 2 \in Nat /\ Fits(current_path, Taken, Depth - 2)
         /\ Taken = <<Taken[1], Taken[2]>>
         /\ Longer(Path, current_path, Taken, Depth - 2)
<1>1. Depth \in Nat /\ Depth \in 2..Depth /\ Depth - 2 \in Nat
  BY LengthAssumption DEF PathOk
<1>2. Taken \in stack[Depth]
  BY DEF PathOk, Top, Depth
<1>3. Fits(current_path, Taken, Depth - 2)
  BY <1>1, <1>2 DEF SearchOk
<1>4. Taken = <<Taken[1], Taken[2]>>
  BY <1>3 DEF Fits
<1>. QED BY <1>1, <1>3, <1>4 DEF PathOk

\* How a step changes what walks are still to come.
LEMMA PassesIs ==
  ASSUME GraphOk, SearchOk, PathOk, NEW found, NEW substack, Explores(found, substack),
         NEW w \in WalksOf(task), NEW d, d = Depth
  PROVE  /\ Agrees(w) => Passes(w, d) /\ \A n \in 1..(d - 1) : ~Passes(w, n)
         /\ \A n \in 1..(d - 1) : Passes(w, n)' <=> Passes(w, n)
         /\ Passes(w, d)' <=> Passes(w, d) /\ ~Agrees(w)
         /\ Passes(w, d + 1)' <=> Agrees(w) /\ Going(NextStep(w))
<1>1. /\ d \in Nat \ {0} /\ \A n \in 1..(d - 1) : stack'[n] = stack[n]
      /\ stack'[d] = stack[d] \ {Taken} /\ stack'[d + 1] = substack /\ Taken \in stack[d]
  BY StackIs
<1>2. current_path' = Path
  BY DEF Explores, Visit
<1>3. Len(w) \in Nat
  <2>1. PICK b : b = StartToken /\ b \in Places
    BY StartIs
  <2>2. PICK j \in 1..Length : ClosedWalk(w, b, j)
    BY <2>1, ClosedWalksAre DEF WalksOf, StartToken
  <2>. QED BY <2>2, LengthAssumption DEF ClosedWalk, Walk
<1>4. Passes(w, d + 1)' <=> Agrees(w) /\ Going(NextStep(w))
  <2>1. d + 1 # 1 /\ (d + 1) - 2 = d - 1 /\ (d + 1) - 1 = d
    BY <1>1
  <2>2. Passes(w, d + 1)' <=>
          /\ Begins(w, Path, d - 1) /\ 2 * d + 1 <= Len(w)
          /\ <<w[2 * d], w[2 * d + 1]>> \in substack
    BY <1>1, <1>2, <2>1 DEF Passes, PassesAt
  <2>3. Begins(w, Path, d - 1) <=> Agrees(w)
    BY DEF Agrees
  <2>4. <<w[2 * d], w[2 * d + 1]>> \in substack <=> Going(NextStep(w))
    BY DEF Explores, NextStep
  <2>5. Agrees(w) => 2 * d + 1 <= Len(w)
    BY WalkResumes DEF Resumes
  <2>. QED BY <2>2, <2>3, <2>4, <2>5
<1>5. CASE d = 1
  <2>1. Agrees(w) => Passes(w, d)
    BY <1>1, <1>5 DEF Passes, PassesAt
  <2>2. stack'[d] = {}
    BY <1>1, <1>5 DEF SearchOk
  <2>3. Taken = <<>> /\ Path = <<StartToken>> 
    BY <1>5 DEF PathOk, Path, StartToken
  <2>4. Agrees(w)
    <3>1. PICK v, b : v = Path /\ b = StartToken
      OBVIOUS
    <3>2. v = <<b>> /\ b \in Places
      BY <2>3, <3>1, StartIs
    <3>3. PICK j \in 1..Length : ClosedWalk(w, b, j)
      BY <3>1, <3>2, ClosedWalksAre DEF WalksOf, StartToken
    <3>4. w[1] = b /\ 1 <= Len(w)
      BY <3>3, LengthAssumption DEF ClosedWalk, Walk
    <3>5. Begins(w, v, 0)
      BY <3>2, <3>4 DEF Begins
    <3>. QED BY <1>5, <3>1, <3>5 DEF Agrees
  <2>5. ~Passes(w, d)'
    BY <1>5, <2>2 DEF Passes, PassesAt
  <2>6. 1..(d - 1) = {}
    BY <1>5
  <2>. QED BY <1>4, <2>1, <2>4, <2>5, <2>6
<1>6. CASE d # 1
  <2>1. PICK k \in Nat : k = d - 2 /\ k + 1 = d - 1
    BY <1>1, <1>6
  <2>2. PICK v, cp, s : v = Path /\ cp = current_path /\ s = Taken
    OBVIOUS
  <2>3. s = <<s[1], s[2]>> /\ Longer(v, cp, s, k) /\ Fits(cp, s, k)
    BY <1>1, <1>6, <2>1, <2>2, TakenIs
  <2>4. Agrees(w) <=> /\ Begins(w, cp, k) /\ 2 * (k + 1) + 1 <= Len(w)
                      /\ <<w[2 * (k + 1)], w[2 * (k + 1) + 1]>> = s
    <3>1. Agrees(w) <=> Begins(w, v, k + 1)
      BY <2>1, <2>2 DEF Agrees
    <3>. QED BY <1>3, <2>3, <3>1, BeginsNext
  <2>5. Passes(w, d) <=> /\ Begins(w, cp, k) /\ 2 * (k + 1) + 1 <= Len(w)
                         /\ <<w[2 * (k + 1)], w[2 * (k + 1) + 1]>> \in stack[d]
    BY <1>6, <2>1, <2>2 DEF Passes, PassesAt
  <2>6. Begins(w, v, k) <=> Begins(w, cp, k)
    BY <2>3, BeginsStays DEF Longer
  <2>7. Passes(w, d)' <=> /\ Begins(w, cp, k) /\ 2 * (k + 1) + 1 <= Len(w)
                          /\ <<w[2 * (k + 1)], w[2 * (k + 1) + 1]>> \in stack[d] \ {s}
    <3>1. Passes(w, d)' <=> PassesAt(w, d, v, stack[d] \ {s})
      BY <1>1, <1>2, <2>2 DEF Passes
    <3>. QED BY <1>6, <2>1, <2>6, <3>1 DEF PassesAt
  <2>8. Passes(w, d)' <=> Passes(w, d) /\ ~Agrees(w)
    BY <2>4, <2>5, <2>7
  <2>9. Agrees(w) => Passes(w, d)
    BY <1>1, <2>2, <2>4, <2>5
  <2>10. ASSUME NEW n \in 1..(d - 1) 
         PROVE  (Passes(w, n)' <=> Passes(w, n)) /\ (Agrees(w) => ~Passes(w, n))
    <3>1. CASE n = 1
      <4>1. stack[1] = {} /\ stack'[1] = {}
        BY <1>1, <1>6 DEF SearchOk
      <4>. QED BY <3>1, <4>1 DEF Passes, PassesAt
    <3>2. CASE n # 1
      <4>1. PICK m \in Nat : m = n - 2 /\ m + 1 = n - 1 /\ m < k /\ n \in 2..(d - 1)
        BY <1>1, <2>1, <3>2
      <4>2. \A i \in 1..(2 * (m + 1) + 1) : i \in 1..(2 * k + 1)
        BY <4>1
      <4>3. \A i \in 1..(2 * (m + 1) + 1) : v[i] = cp[i]
        BY <2>3, <4>2 DEF Longer
      <4>4. \A i \in 1..(2 * m + 1) : i \in 1..(2 * (m + 1) + 1)
        OBVIOUS
      <4>5. Begins(w, v, m) <=> Begins(w, cp, m)
        BY <4>3, <4>4, BeginsStays
      <4>6. stack'[n] = stack[n]
        BY <1>1
      <4>7. PassesAt(w, n, v, stack[n]) <=> PassesAt(w, n, cp, stack[n])
        BY <4>1, <4>5 DEF PassesAt
      <4>8. Passes(w, n)' <=> Passes(w, n)
        BY <1>2, <2>2, <4>6, <4>7 DEF Passes
      <4>9. ASSUME Agrees(w) PROVE ~Passes(w, n)
        <5>1. \A i \in 1..(2 * k + 1) : w[i] = cp[i]
          BY <2>4, <4>9 DEF Begins
        <5>2. 2 * (m + 1) \in 1..(2 * k + 1) /\ 2 * (m + 1) + 1 \in 1..(2 * k + 1)
          BY <4>1
        <5>3. w[2 * (m + 1)] = cp[2 * (m + 1)] /\ w[2 * (m + 1) + 1] = cp[2 * (m + 1) + 1]
          BY <5>1, <5>2
        <5>4. <<cp[2 * (n - 1)], cp[2 * (n - 1) + 1]>> \notin stack[n]
          BY <2>2, <4>1 DEF SearchOk
        <5>. QED BY <3>2, <4>1, <5>3, <5>4 DEF Passes, PassesAt
      <4>. QED BY <4>8, <4>9
    <3>. QED BY <3>1, <3>2
  <2>. QED BY <1>4, <2>8, <2>9, <2>10
<1>. QED BY <1>5, <1>6

\* What the walks are does not change while they are searched.
LEMMA WalksStay ==
  ASSUME UNCHANGED <<graph, task>>
  PROVE  /\ StartToken' = StartToken /\ WalksOf(task)' = WalksOf(task) /\ Steps' = Steps /\ GraphOk' = GraphOk
         /\ \A n : WalksOf(n)' = WalksOf(n)
         /\ \A path, s, k : Fits(path, s, k)' <=> Fits(path, s, k)
         /\ \A path, b, k : OpenWalk(path, b, k)' <=> OpenWalk(path, b, k)
<1>1. Places' = Places
  BY DEF Places
<1>2. \A b : ClosedWalks(b)' = ClosedWalks(b)
  BY DEF ClosedWalks, SimpleSequences, IsClosed, TokensAlong
<1>3. WalksOf(task)' = WalksOf(task) /\ \A n : WalksOf(n)' = WalksOf(n)
  BY <1>2 DEF WalksOf
<1>4. \A path, s, k : Fits(path, s, k)' <=> Fits(path, s, k)
  BY <1>1 DEF Fits
<1>5. \A path, b, k : OpenWalk(path, b, k)' <=> OpenWalk(path, b, k)
  BY <1>1 DEF OpenWalk, Walk, Inner, Joins, Ends
<1>. QED BY <1>1, <1>3, <1>4, <1>5 DEF StartToken, Steps, GraphOk

\* Visiting an element keeps the invariant: the walks that it led to are found at once, or
\* wait in the next substack.
LEMMA VisitKeeps ==
  ASSUME GraphOk, SearchOk, FoundOk, PathOk, NEW found, NEW substack, Explores(found, substack)
  PROVE  SearchOk' /\ FoundOk'
<1>1. PICK d, v, cp : d = Depth /\ v = Path /\ cp = current_path
  OBVIOUS
<1>2. /\ stack' \in Seq(SUBSET Steps) /\ Len(stack') = d + 1 /\ d \in Nat \ {0}
      /\ \A n \in 1..(d - 1) : stack'[n] = stack[n]
      /\ stack'[d] = stack[d] \ {Taken} /\ stack'[d + 1] = substack
      /\ Taken \in stack[d]
  BY <1>1, StackIs
<1>3. /\ current_path' = v /\ final_paths' = final_paths \o SetToSeq(found)
      /\ graph' = graph /\ task' = task
  BY <1>1 DEF Explores, Visit
<1>4. /\ StartToken' = StartToken /\ WalksOf(task)' = WalksOf(task) /\ Steps' = Steps
      /\ \A path, s, k : Fits(path, s, k)' <=> Fits(path, s, k)
      /\ \A path, b, k : OpenWalk(path, b, k)' <=> OpenWalk(path, b, k)
  BY <1>3, WalksStay
<1>5. SearchOk'
  <2>1. /\ task \in DOMAIN PathTokens /\ d = Len(stack)
        /\ d > 1 => stack[1] = {}
        /\ stack[1] \subseteq {<<>>}
        /\ \A n \in 2..d :
             /\ stack[n] # {} => n <= Length
             /\ \A s \in stack[n] : Fits(cp, s, n - 2) /\ s[2] \notin Ends(StartToken) \cup Ignored
        /\ \A n \in 2..(d - 1) : <<cp[2 * (n - 1)], cp[2 * (n - 1) + 1]>> \notin stack[n]
    BY <1>1 DEF SearchOk, Depth
  <2>2. stack'[1] = {}
    <3>1. CASE d = 1
      BY <1>1, <1>2, <2>1, <3>1 DEF PathOk
    <3>2. CASE d # 1
      BY <1>2, <2>1, <3>2
    <3>. QED BY <3>1, <3>2
  <2>3. OpenWalk(v, StartToken, d - 1)
    BY <1>1 DEF PathOk
  <2>4. d > 1 => Longer(v, cp, Taken, d - 2) /\ Taken = <<Taken[1], Taken[2]>>
    BY <1>1, TakenIs
  <2>5. ASSUME NEW n \in 2..d, NEW s \in stack[n] PROVE Fits(v, s, n - 2)
    <3>1. PICK m, k \in Nat : m = n - 2 /\ k = d - 2 /\ m <= k
      BY <1>2
    <3>2. \A i \in 1..(2 * m + 1) : i \in 1..(2 * k + 1)
      BY <3>1
    <3>3. \A i \in 1..(2 * m + 1) : v[i] = cp[i]
      <4>1. d > 1 /\ d - 2 = k
        BY <1>2, <3>1
      <4>2. \A i \in 1..(2 * k + 1) : v[i] = cp[i]
        BY <2>4, <4>1 DEF Longer
      <4>. QED BY <3>2, <4>2
    <3>4. Fits(cp, s, m)
      BY <2>1, <3>1
    <3>5. Fits(v, s, m)
      BY <3>3, <3>4, FitsStays
    <3>. QED BY <3>1, <3>5
  <2>6. ASSUME NEW s \in substack
        PROVE  Fits(v, s, d - 1) /\ s[2] \notin Ends(StartToken) \cup Ignored /\ d + 1 <= Length
    <3>1. Going(s)
      BY DEF Explores
    <3>2. PICK b : b = StartToken /\ b \in ToSet(PathTokens)
      BY StartIs
    <3>3. PICK k \in Nat : k = d - 1
      BY <1>2
    <3>4. Walk(v, b, k)
      BY <2>3, <3>2, <3>3 DEF OpenWalk
    <3>5. Fits(v, s, k)
      BY <1>1, <3>1, <3>2, <3>4, OnwardIs DEF Going
    <3>. QED BY <1>1, <1>2, <3>1, <3>3, <3>5, LengthAssumption DEF Going
  <2>7. ASSUME NEW n \in 2..(d + 1)
        PROVE  /\ stack'[n] # {} => n <= Length
               /\ \A s \in stack'[n] : Fits(v, s, n - 2) /\ s[2] \notin Ends(StartToken) \cup Ignored
    <3>1. CASE n = d + 1
      <4>1. (d + 1) - 2 = d - 1
        BY <1>2
      <4>. QED BY <1>2, <2>6, <3>1, <4>1
    <3>2. CASE n # d + 1
      <4>1. n \in 2..d /\ stack'[n] \subseteq stack[n]
        BY <1>2, <3>2
      <4>. QED BY <2>1, <2>5, <4>1
    <3>. QED BY <3>1, <3>2
  <2>8. ASSUME NEW n \in 2..d
        PROVE  <<v[2 * (n - 1)], v[2 * (n - 1) + 1]>> \notin stack'[n]
    <3>1. PICK m, k \in Nat : m + 1 = n - 1 /\ k = d - 2 /\ m <= k
      <4>1. n - 2 \in Nat /\ d - 2 \in Nat /\ (n - 2) + 1 = n - 1 /\ n - 2 <= d - 2
        BY <1>2
      <4>. QED BY <4>1
    <3>2. /\ \A i \in 1..(2 * k + 1) : v[i] = cp[i]
          /\ v[2 * (k + 1)] = Taken[1] /\ v[2 * (k + 1) + 1] = Taken[2]
      BY <1>2, <2>4, <3>1 DEF Longer
    <3>3. CASE m = k
      <4>1. n = d
        BY <1>2, <3>1, <3>3
      <4>2. <<v[2 * (n - 1)], v[2 * (n - 1) + 1]>> = Taken
        <5>1. v[2 * (n - 1)] = Taken[1] /\ v[2 * (n - 1) + 1] = Taken[2]
          BY <3>1, <3>2, <3>3
        <5>. QED BY <1>2, <2>4, <4>1, <5>1
      <4>. QED BY <1>2, <4>1, <4>2
    <3>4. CASE m # k
      <4>1. n \in 2..(d - 1) /\ n \in 1..(d - 1)
        BY <1>2, <3>1, <3>4
      <4>2. 2 * (n - 1) \in 1..(2 * k + 1) /\ 2 * (n - 1) + 1 \in 1..(2 * k + 1)
        BY <3>1, <3>4
      <4>. QED BY <1>2, <2>1, <3>2, <4>1, <4>2
    <3>. QED BY <3>3, <3>4
  <2>9. stack' # <<>> /\ d + 1 > 1 /\ (d + 1) - 2 = d - 1 /\ (d + 1) - 1 = d /\ d + 1 # 1
    BY <1>2
  <2>10. Ends(StartToken)' = Ends(StartToken)
    BY <1>4 DEF Ends
  <2>11. Depth' = d + 1
    BY <1>2 DEF Depth
  <2>12. /\ task' \in DOMAIN PathTokens
         /\ stack' \in Seq(SUBSET Steps') /\ stack' # <<>> /\ stack'[1] \subseteq {<<>>}
         /\ Depth' # 1
         /\ stack'[1] = {} /\ OpenWalk(current_path, StartToken, Depth - 2)'
    BY <1>2, <1>3, <1>4, <2>1, <2>2, <2>3, <2>9, <2>11
  <2>13. \A n \in 2..Depth' :
           /\ stack'[n] # {} => n <= Length
           /\ \A s \in stack'[n] : /\ Fits(current_path, s, n - 2)'
                                   /\ s[2] \notin Ends(StartToken)' \cup Ignored
    BY <1>3, <1>4, <2>7, <2>10, <2>11
  <2>14. \A n \in 2..(Depth' - 1) :
           <<current_path'[2 * (n - 1)], current_path'[2 * (n - 1) + 1]>> \notin stack'[n]
    BY <1>3, <2>8, <2>9, <2>11
  <2>. QED BY <2>12, <2>13, <2>14 DEF SearchOk
<1>6. \A w \in WalksOf(task) : w \in found \/ Agrees(w) => w \notin ToSet(final_paths)
  <2>1. ASSUME NEW w \in WalksOf(task), Agrees(w) PROVE w \notin ToSet(final_paths)
    <3>1. Passes(w, d)
      BY <1>1, <2>1, PassesIs
    <3>2. d \in DOMAIN stack
      BY <1>1, <1>2 DEF SearchOk, Depth
    <3>. QED BY <3>1, <3>2 DEF FoundOk, Pending
  <2>2. \A w \in WalksOf(task) : w \in found => Agrees(w)
    BY DEF Explores
  <2>. QED BY <2>1, <2>2
<1>7. /\ final_paths' \in Seq(WalksOf(task)) /\ IsInjective(final_paths')
      /\ ToSet(final_paths') = ToSet(final_paths) \cup found
  <2>1. /\ SetToSeq(found) \in Seq(found) /\ ToSet(SetToSeq(found)) = found
        /\ IsInjective(SetToSeq(found))
    BY SetToSeqIs DEF Explores
  <2>2. PICK S, a, b : S = WalksOf(task) /\ a = final_paths /\ b = SetToSeq(found)
    OBVIOUS
  <2>3. b \in Seq(S)
    BY <2>1, <2>2 DEF Explores
  <2>4. a \in Seq(S) /\ IsInjective(a)
    BY <2>2 DEF FoundOk
  <2>5. ToSet(a) \cap ToSet(b) = {}
    BY <1>6, <2>1, <2>2 DEF Explores
  <2>6. a \o b \in Seq(S) /\ ToSet(a \o b) = ToSet(a) \cup ToSet(b) /\ IsInjective(a \o b)
    BY <2>1, <2>2, <2>3, <2>4, <2>5, ConcatIs
  <2>. QED BY <1>3, <2>1, <2>2, <2>6
<1>8. ASSUME NEW w \in WalksOf(task)
      PROVE  w \in ToSet(final_paths') <=> ~Pending(w)'
  <2>1. /\ Agrees(w) => Passes(w, d) /\ \A n \in 1..(d - 1) : ~Passes(w, n)
        /\ \A n \in 1..(d - 1) : Passes(w, n)' <=> Passes(w, n)
        /\ Passes(w, d)' <=> Passes(w, d) /\ ~Agrees(w)
        /\ Passes(w, d + 1)' <=> Agrees(w) /\ Going(NextStep(w))
    BY <1>1, PassesIs
  <2>2. /\ \A n : n \in 1..(d + 1) <=> n \in 1..(d - 1) \/ n = d \/ n = d + 1
        /\ \A n : n \in 1..d <=> n \in 1..(d - 1) \/ n = d
    BY <1>2
  <2>3. DOMAIN stack = 1..d /\ DOMAIN stack' = 1..(d + 1)
    BY <1>1, <1>2 DEF SearchOk, Depth
  <2>4. Pending(w) <=> Passes(w, d) \/ \E n \in 1..(d - 1) : Passes(w, n)
    BY <2>2, <2>3 DEF Pending
  <2>5. Pending(w)' <=> \/ Passes(w, d)' \/ Passes(w, d + 1)'
                        \/ \E n \in 1..(d - 1) : Passes(w, n)'
    BY <2>2, <2>3 DEF Pending
  <2>6. w \in found <=> Agrees(w) /\ Closing(NextStep(w))
    BY DEF Explores
  <2>7. w \in ToSet(final_paths) <=> ~Pending(w)
    BY DEF FoundOk
  <2>8. Agrees(w) => (Closing(NextStep(w)) <=> ~Going(NextStep(w)))
    BY WalkResumes DEF Resumes, Closing, Going
  <2>. QED BY <1>6, <1>7, <2>1, <2>4, <2>5, <2>6, <2>7, <2>8
<1>9. FoundOk'
  BY <1>4, <1>7, <1>8 DEF FoundOk
<1>. QED BY <1>5, <1>9

\* The first k pools of a walk are a walk, v is path without its last pool.
Shorter(v, path) == v = SubSeq(path, 1, Len(path) - 2)
Alike(v, path, k) == \A i \in 1..(2 * k + 1) : v[i] = path[i]

\* A path without its last step is a walk with one pool less.
LEMMA ShorterWalk ==
  ASSUME NEW start, NEW k \in Nat, NEW path, OpenWalk(path, start, k + 1),
         NEW v, Shorter(v, path)
  PROVE  OpenWalk(v, start, k) /\ Alike(v, path, k)
<1>. DEFINE l == 2 * k + 1
<1>1. /\ path \in Seq(Places) /\ Len(path) = l + 2 /\ path[1] = start
      /\ \A n \in 1..(k + 1) : Joins(path, n)
      /\ \A m, n \in 1..(k + 1) : m # n => path[2 * m] # path[2 * n]
      /\ \A n \in 1..(k + 1) : path[2 * n + 1] \notin Ends(start) \cup Ignored
  BY DEF OpenWalk, Walk, Inner
<1>2. l \in Nat /\ l = (l + 2) - 2 /\ l = 2 * k + 1 /\ 1 \in 1..l
      /\ \A n \in 1..k : /\ 2 * n \in 1..l /\ 2 * n - 1 \in 1..l /\ 2 * n + 1 \in 1..l
                         /\ n \in 1..(k + 1)
  OBVIOUS
<1>. HIDE DEF l
<1>3. v \in Seq(Places) /\ Len(v) = l /\ \A i \in 1..l : v[i] = path[i]
  <2>1. v = SubSeq(path, 1, l)
    BY <1>1, <1>2 DEF Shorter
  <2>. QED BY <1>1, <1>2, <2>1
<1>4. \A n \in 1..k : Joins(v, n)
  BY <1>1, <1>2, <1>3 DEF Joins
<1>5. /\ \A m, n \in 1..k : m # n => v[2 * m] # v[2 * n]
      /\ \A n \in 1..k : v[2 * n + 1] \notin Ends(start) \cup Ignored
  BY <1>1, <1>2, <1>3
<1>6. Walk(v, start, k) /\ Inner(v, start, k)
  BY <1>1, <1>2, <1>3, <1>4, <1>5 DEF Walk, Inner
<1>. QED BY <1>2, <1>3, <1>6 DEF OpenWalk, Alike

\* Leaving an empty substack keeps the invariant: no walk was waiting in it.
LEMMA BacktrackKeeps ==
  ASSUME GraphOk, SearchOk, FoundOk, Backtrack
  PROVE  SearchOk' /\ FoundOk'
<1>1. PICK st, d, cp, v : st = stack /\ d = Depth /\ cp = current_path
                          /\ v = SubSeq(cp, 1, Len(cp) - 2)
  OBVIOUS
<1>2. /\ stack' = SubSeq(st, 1, d - 1) /\ current_path' = v /\ d > 1 /\ st[d] = {}
      /\ graph' = graph /\ task' = task /\ final_paths' = final_paths
  BY <1>1 DEF Backtrack, Under, Top, Depth
<1>3. /\ task \in DOMAIN PathTokens /\ d = Len(st) /\ d \in Nat /\ st \in Seq(SUBSET Steps)
      /\ st[1] = {} /\ OpenWalk(cp, StartToken, d - 2)
      /\ \A n \in 2..d :
           /\ st[n] # {} => n <= Length
           /\ \A s \in st[n] : Fits(cp, s, n - 2) /\ s[2] \notin Ends(StartToken) \cup Ignored
      /\ \A n \in 2..(d - 1) : <<cp[2 * (n - 1)], cp[2 * (n - 1) + 1]>> \notin st[n]
  BY <1>1, <1>2 DEF SearchOk, Depth
<1>4. /\ StartToken' = StartToken /\ WalksOf(task)' = WalksOf(task) /\ Steps' = Steps
      /\ \A path, s, k : Fits(path, s, k)' <=> Fits(path, s, k)
      /\ \A path, b, k : OpenWalk(path, b, k)' <=> OpenWalk(path, b, k)
  BY <1>2, WalksStay
<1>5. PICK e \in Nat : e = d - 1 /\ e >= 1 /\ d \in Nat
  BY <1>2, <1>3
<1>6. /\ stack' \in Seq(SUBSET Steps) /\ Len(stack') = e
      /\ \A n \in 1..e : stack'[n] = st[n]
  <2>1. \A n \in 1..e : n \in 1..d
    BY <1>3, <1>5
  <2>. QED BY <1>2, <1>3, <1>5, <2>1
<1>7. e = 1 => v = <<>>
  <2>1. ASSUME e = 1 PROVE v = <<>>
    <3>1. d - 2 = 0
      BY <1>5, <2>1
    <3>2. OpenWalk(cp, StartToken, 0)
      BY <1>3, <3>1
    <3>3. Len(cp) = 2 * 0 + 1 /\ cp \in Seq(Places)
      BY <3>2 DEF OpenWalk, Walk
    <3>4. Len(cp) = 1
      BY <3>3
    <3>. QED BY <1>1, <3>3, <3>4
  <2>. QED BY <2>1
<1>8. e > 1 => /\ e - 2 \in Nat /\ OpenWalk(v, StartToken, e - 2)
               /\ \A i \in 1..(2 * (e - 2) + 1) : v[i] = cp[i]
  <2>1. ASSUME e > 1
        PROVE  /\ e - 2 \in Nat /\ OpenWalk(v, StartToken, e - 2)
               /\ \A i \in 1..(2 * (e - 2) + 1) : v[i] = cp[i]
    <3>1. PICK k \in Nat : k = e - 2 /\ k + 1 = d - 2
      <4>1. e - 2 \in Nat /\ (e - 2) + 1 = d - 2
        BY <1>5, <2>1
      <4>. QED BY <4>1
    <3>2. PICK b : b = StartToken
      OBVIOUS
    <3>3. OpenWalk(cp, b, k + 1) /\ Shorter(v, cp)
      BY <1>1, <1>3, <3>1, <3>2 DEF Shorter
    <3>4. OpenWalk(v, b, k) /\ Alike(v, cp, k)
      BY <3>1, <3>3, ShorterWalk
    <3>. QED BY <3>1, <3>2, <3>4 DEF Alike
  <2>. QED BY <2>1
<1>9. ASSUME NEW n \in 2..e
      PROVE  /\ n - 2 \in Nat /\ \A i \in 1..(2 * (n - 2) + 1) : v[i] = cp[i]
             /\ n \in 2..d /\ n \in 1..e /\ e > 1
  <2>1. e > 1 /\ n - 2 \in Nat /\ n - 2 <= e - 2 /\ n \in 2..d /\ n \in 1..e
    BY <1>5
  <2>2. \A i \in 1..(2 * (n - 2) + 1) : i \in 1..(2 * (e - 2) + 1)
    BY <1>8, <2>1
  <2>. QED BY <1>8, <2>1, <2>2
<1>10. SearchOk'
  <2>1. ASSUME NEW n \in 2..e
        PROVE  /\ stack'[n] # {} => n <= Length
               /\ \A s \in stack'[n] : Fits(v, s, n - 2) /\ s[2] \notin Ends(StartToken) \cup Ignored
    <3>1. PICK k \in Nat : k = n - 2
      BY <1>9
    <3>2. ASSUME NEW s \in st[n] PROVE Fits(v, s, k)
      <4>1. Fits(cp, s, k)
        BY <1>3, <1>9, <3>1
      <4>2. \A i \in 1..(2 * k + 1) : v[i] = cp[i]
        BY <1>9, <3>1
      <4>. QED BY <4>1, <4>2, FitsStays
    <3>3. n \in 2..d /\ stack'[n] = st[n]
      BY <1>6, <1>9
    <3>. QED BY <1>3, <3>1, <3>2, <3>3
  <2>2. ASSUME NEW n \in 2..(e - 1)
        PROVE  <<v[2 * (n - 1)], v[2 * (n - 1) + 1]>> \notin stack'[n]
    <3>1. n \in 1..e /\ n \in 2..(d - 1) /\ e > 1
      BY <1>5
    <3>2. 2 * (n - 1) \in 1..(2 * (e - 2) + 1) /\ 2 * (n - 1) + 1 \in 1..(2 * (e - 2) + 1)
      BY <1>5
    <3>3. v[2 * (n - 1)] = cp[2 * (n - 1)] /\ v[2 * (n - 1) + 1] = cp[2 * (n - 1) + 1]
      BY <1>8, <3>1, <3>2
    <3>. QED BY <1>3, <1>6, <3>1, <3>3
  <2>3. Ends(StartToken)' = Ends(StartToken)
    BY <1>4 DEF Ends
  <2>4. Depth' = e /\ stack' # <<>> /\ stack'[1] = {}
    <3>1. 1 \in 1..e
      BY <1>5
    <3>. QED BY <1>3, <1>5, <1>6, <3>1 DEF Depth
  <2>5. /\ task' \in DOMAIN PathTokens
        /\ stack' \in Seq(SUBSET Steps') /\ stack' # <<>> /\ stack'[1] \subseteq {<<>>}
        /\ Depth' = 1 => current_path' = <<>>
        /\ Depth' > 1 => stack'[1] = {} /\ OpenWalk(current_path, StartToken, Depth - 2)'
    BY <1>2, <1>3, <1>4, <1>6, <1>7, <1>8, <2>4
  <2>6. \A n \in 2..Depth' :
          /\ stack'[n] # {} => n <= Length
          /\ \A s \in stack'[n] : /\ Fits(current_path, s, n - 2)'
                                  /\ s[2] \notin Ends(StartToken)' \cup Ignored
    BY <1>2, <1>4, <2>1, <2>3, <2>4
  <2>7. \A n \in 2..(Depth' - 1) :
          <<current_path'[2 * (n - 1)], current_path'[2 * (n - 1) + 1]>> \notin stack'[n]
    BY <1>2, <2>2, <2>4
  <2>. QED BY <2>5, <2>6, <2>7 DEF SearchOk
<1>11. ASSUME NEW w PROVE Pending(w)' <=> Pending(w)
  <2>1. ASSUME NEW n \in 1..e PROVE Passes(w, n)' <=> Passes(w, n)
    <3>1. Passes(w, n)' <=> PassesAt(w, n, v, st[n])
      BY <1>2, <1>6 DEF Passes
    <3>2. Passes(w, n) <=> PassesAt(w, n, cp, st[n])
      BY <1>1 DEF Passes
    <3>3. CASE n = 1
      BY <3>1, <3>2, <3>3 DEF PassesAt
    <3>4. CASE n # 1
      <4>1. n \in 2..e
        BY <1>5, <3>4
      <4>2. PICK k \in Nat : k = n - 2 /\ \A i \in 1..(2 * k + 1) : v[i] = cp[i]
        BY <1>9, <4>1
      <4>3. Begins(w, cp, k) <=> Begins(w, v, k)
        BY <4>2, BeginsStays
      <4>. QED BY <3>1, <3>2, <3>4, <4>2, <4>3 DEF PassesAt
    <3>. QED BY <3>3, <3>4
  <2>2. ~Passes(w, d)
    BY <1>1, <1>2 DEF Passes, PassesAt
  <2>3. DOMAIN stack = 1..d /\ DOMAIN stack' = 1..e /\ \A n : n \in 1..d <=> n \in 1..e \/ n = d
    BY <1>1, <1>3, <1>5, <1>6
  <2>. QED BY <2>1, <2>2, <2>3 DEF Pending
<1>12. FoundOk'
  BY <1>2, <1>4, <1>11 DEF FoundOk
<1>. QED BY <1>10, <1>12

-----------------------------------------------------------------------------
(* From search to search                                                     *)

\* At its start every walk is still to come.
LEMMA StartKeeps ==
  ASSUME NEW n \in DOMAIN PathTokens, StartSearch(n)
  PROVE  SearchOk' /\ FoundOk'
<1>1. task' = n /\ stack' = <<{<<>>}>> /\ current_path' = <<>> /\ final_paths' = <<>>
  BY DEF StartSearch
<1>2. PICK s : s = {<<>>}
  OBVIOUS
<1>3. stack' = <<s>> /\ s \in SUBSET Steps' /\ s # {}
  BY <1>1, <1>2 DEF Steps
<1>4. stack' \in Seq(SUBSET Steps') /\ stack' # <<>> /\ stack'[1] = s /\ Len(stack') = 1
  BY <1>3
<1>5. SearchOk'
  <2>1. Depth' = 1 /\ 2..1 = {} /\ 2..(1 - 1) = {}
    BY <1>4 DEF Depth
  <2>2. ~(Depth' > 1) /\ 2..Depth' = {} /\ 2..(Depth' - 1) = {}
    BY <2>1
  <2>. QED BY <1>1, <1>2, <1>4, <2>1, <2>2 DEF SearchOk
<1>6. \A w : Pending(w)'
  <2>1. 1 \in DOMAIN stack'
    BY <1>4
  <2>. QED BY <1>3, <1>4, <2>1 DEF Pending, Passes, PassesAt
<1>7. /\ final_paths' \in Seq(WalksOf(task)') /\ IsInjective(final_paths')
      /\ ToSet(final_paths') = {}
  <2>1. PICK S : S = WalksOf(task)'
    OBVIOUS
  <2>. QED BY <1>1, <2>1, EmptySeqIs
<1>. QED BY <1>5, <1>6, <1>7 DEF FoundOk

\* At its end every walk is found.
LEMMA AllFound ==
  ASSUME SearchOk, FoundOk, SearchDone
  PROVE  ToSet(final_paths) = WalksOf(task)
<1>1. Len(stack) = 1 /\ stack[1] = {} /\ stack \in Seq(SUBSET Steps)
  BY DEF SearchDone, Top, SearchOk
<1>2. DOMAIN stack = {1}
  BY <1>1
<1>3. \A w : ~Pending(w)
  BY <1>1, <1>2 DEF Pending, Passes, PassesAt
<1>4. \A w \in ToSet(final_paths) : w \in WalksOf(task)
  BY DEF FoundOk, ToSet
<1>. QED BY <1>3, <1>4 DEF FoundOk

\* The walks from the first n tokens, and the pools mapped to them.
WalksUpTo(n) == UNION {WalksOf(m) : m \in 1..n}
MappedUpTo(n) ==
  \A p : /\ PathsAt(p) \in Seq(WalksUpTo(n)) /\ IsInjective(PathsAt(p))
         /\ ToSet(PathsAt(p)) = {w \in WalksUpTo(n) : p \in PoolsOf(w)}

\* A walk starts from its token.
LEMMA StartsFrom ==
  ASSUME GraphOk, NEW n \in DOMAIN PathTokens, NEW w \in WalksOf(n)
  PROVE  w[1] = PathTokens[n]
<1>1. PICK b : b = PathTokens[n]
  OBVIOUS
<1>2. b \in Places /\ w \in ClosedWalks(b)
  BY <1>1 DEF Places, ToSet, WalksOf
<1>. QED BY <1>1, <1>2, ClosedWalksAre DEF ClosedWalk, Walk

\* map_paths enters the walks of a task, each once under each of its pools, after those of
\* the tasks before.
LEMMA MappedKeeps ==
  ASSUME GraphOk, SearchOk, FoundOk, SearchDone, MappedUpTo(task - 1),
         UNCHANGED graph, pool_to_paths' = Mapped, NEW n, n = task
  PROVE  MappedUpTo(n)'
<1>. DEFINE Through(p) == {path \in ToSet(final_paths) : p \in PoolsOf(path)}
            old == WalksUpTo(n - 1)
            all == WalksUpTo(n)
<1>1. n \in DOMAIN PathTokens /\ DOMAIN PathTokens = 1..Len(PathTokens) /\ Len(PathTokens) \in Nat
  BY PathTokensAssumption DEF SearchOk
<1>2. all = old \cup WalksOf(n)
  <2>1. \A m : m \in 1..n <=> m \in 1..(n - 1) \/ m = n
    BY <1>1
  <2>. QED BY <2>1 DEF WalksUpTo
<1>3. old \cap WalksOf(n) = {}
  <2>1. ASSUME NEW m \in 1..(n - 1), NEW w \in WalksOf(m), w \in WalksOf(n) PROVE FALSE
    <3>1. m \in DOMAIN PathTokens /\ m # n
      BY <1>1
    <3>2. PathTokens[m] = PathTokens[n]
      BY <1>1, <2>1, <3>1, StartsFrom
    <3>. QED BY <1>1, <3>1, <3>2, PathTokensAssumption DEF IsInjective
  <2>. QED BY <2>1 DEF WalksUpTo
<1>4. /\ final_paths \in Seq(WalksOf(n)) /\ IsInjective(final_paths)
      /\ ToSet(final_paths) = WalksOf(n)
  BY AllFound DEF FoundOk
<1>5. WalksUpTo(n)' = all
  <2>1. \A m : WalksOf(m)' = WalksOf(m)
    BY DEF WalksOf, ClosedWalks, SimpleSequences, IsClosed, TokensAlong
  <2>. QED BY <2>1 DEF WalksUpTo
<1>6. ASSUME NEW p
      PROVE  PathsAt(p)' = PathsAt(p) \o Kept(final_paths, Through(p))
  <2>. DEFINE pools == UNION {PoolsOf(final_paths[i]) : i \in DOMAIN final_paths}
              D == DOMAIN pool_to_paths \cup pools
              F(q) == PathsAt(q) \o Kept(final_paths, Through(q))
  <2>1. Mapped = [q \in D |-> F(q)]
    BY Zenon DEF Mapped
  <2>2. CASE p \in D
    <3>. HIDE DEF D, F
    <3>1. p \in DOMAIN pool_to_paths' /\ pool_to_paths'[p] = F(p)
      BY <2>1, <2>2
    <3>2. PathsAt(p)' = F(p)
      BY <3>1 DEF PathsAt
    <3>. QED BY <3>2 DEF F
  <2>3. CASE p \notin D
    <3>1. PathsAt(p) = <<>>
      BY <2>3 DEF PathsAt
    <3>2. Through(p) = {}
      BY <2>3 DEF ToSet
    <3>3. PathsAt(p)' = <<>>
      <4>. HIDE DEF F
      <4>1. DOMAIN pool_to_paths' = D
        BY <2>1
      <4>. HIDE DEF D
      <4>. QED BY <2>3, <4>1 DEF PathsAt
    <3>4. Kept(final_paths, {}) = <<>>
      <4>1. PICK k : k = Kept(final_paths, {})
        OBVIOUS
      <4>2. k \in Seq(WalksOf(n)) /\ ToSet(k) = {}
        BY <1>4, <4>1, KeptIs
      <4>3. Len(k) = 0
        <5>1. ASSUME Len(k) # 0 PROVE FALSE
          <6>1. 1 \in DOMAIN k
            BY <4>2, <5>1
          <6>. QED BY <4>2, <6>1 DEF ToSet
        <5>. QED BY <5>1
      <4>. QED BY <4>1, <4>2, <4>3
    <3>5. <<>> \o <<>> = <<>>
      OBVIOUS
    <3>. HIDE DEF Through
    <3>. QED BY <3>1, <3>2, <3>3, <3>4, <3>5
  <2>. QED BY <2>2, <2>3
<1>7. ASSUME NEW p
      PROVE  /\ PathsAt(p)' \in Seq(all) /\ IsInjective(PathsAt(p)')
             /\ ToSet(PathsAt(p)') = {w \in all : p \in PoolsOf(w)}
  <2>1. PICK a, b, T : a = PathsAt(p) /\ b = Kept(final_paths, T) /\ T = Through(p)
    OBVIOUS
  <2>2. a \in Seq(old) /\ IsInjective(a) /\ ToSet(a) = {w \in old : p \in PoolsOf(w)}
    BY <2>1 DEF MappedUpTo
  <2>3. b \in Seq(WalksOf(n)) /\ IsInjective(b) /\ ToSet(b) = WalksOf(n) \cap T
    BY <1>4, <2>1, KeptIs
  <2>4. ToSet(b) = {w \in WalksOf(n) : p \in PoolsOf(w)}
    BY <1>4, <2>1, <2>3
  <2>5. PICK A : A = all
    OBVIOUS
  <2>. HIDE DEF all, old
  <2>6. a \in Seq(A) /\ b \in Seq(A)
    BY <1>2, <2>2, <2>3, <2>5
  <2>7. ToSet(a) \cap ToSet(b) = {}
    BY <1>3, <2>2, <2>4
  <2>8. a \o b \in Seq(A) /\ ToSet(a \o b) = ToSet(a) \cup ToSet(b) /\ IsInjective(a \o b)
    BY <2>2, <2>3, <2>6, <2>7, ConcatIs
  <2>9. PathsAt(p)' = a \o b
    BY <1>6, <2>1
  <2>. QED BY <1>2, <2>2, <2>4, <2>5, <2>8, <2>9
<1>. HIDE DEF all
<1>. QED BY <1>5, <1>7 DEF MappedUpTo

\* What holds while the paths are searched, and is kept by every step of the search.
SearchInv == GraphOk /\ SearchOk /\ FoundOk /\ MappedUpTo(task - 1)

\* What the walks are, and what is mapped, does not change while they are searched.
LEMMA MapStays ==
  ASSUME UNCHANGED <<graph, task, pool_to_paths>>, NEW n, MappedUpTo(n)
  PROVE  MappedUpTo(n)'
<1>1. WalksUpTo(n)' = WalksUpTo(n)
  BY WalksStay DEF WalksUpTo
<1>2. \A p : PathsAt(p)' = PathsAt(p)
  BY DEF PathsAt
<1>. QED BY <1>1, <1>2 DEF MappedUpTo

\* Each step of the search keeps the invariant, the step to the next task included.
LEMMA SearchKeeps ==
  ASSUME SearchInv, SearchStep
  PROVE  SearchInv' /\ UNCHANGED graph
<1>1. GraphOk /\ SearchOk /\ FoundOk /\ MappedUpTo(task - 1)
  BY DEF SearchInv
<1>2. CASE \E found, substack : PathOk /\ Explores(found, substack)
  <2>1. UNCHANGED <<graph, task, pool_to_paths>>
    BY <1>2 DEF Explores, Visit
  <2>2. SearchOk' /\ FoundOk'
    BY <1>1, <1>2, VisitKeeps
  <2>3. PICK n : n = task - 1
    OBVIOUS
  <2>4. MappedUpTo(n)' /\ GraphOk'
    BY <1>1, <2>1, <2>3, MapStays, WalksStay
  <2>. QED BY <2>1, <2>2, <2>3, <2>4 DEF SearchInv
<1>3. CASE FinalizePath
  BY <1>1, <1>2, <1>3, FinalizeExplores
<1>4. CASE FindNeighbors
  BY <1>1, <1>2, <1>4, FindExplores
<1>5. CASE Backtrack
  <2>1. UNCHANGED <<graph, task, pool_to_paths>>
    BY <1>5 DEF Backtrack
  <2>2. SearchOk' /\ FoundOk'
    BY <1>1, <1>5, BacktrackKeeps
  <2>3. PICK n : n = task - 1
    OBVIOUS
  <2>4. MappedUpTo(n)' /\ GraphOk'
    BY <1>1, <2>1, <2>3, MapStays, WalksStay
  <2>. QED BY <2>1, <2>2, <2>3, <2>4 DEF SearchInv
<1>6. CASE NextTask
  <2>1. PICK n : n = task
    OBVIOUS
  <2>2. /\ SearchDone /\ n < Len(PathTokens) /\ pool_to_paths' = Mapped
        /\ StartSearch(n + 1) /\ graph' = graph
    BY <1>6, <2>1 DEF NextTask
  <2>3. MappedUpTo(n)'
    BY <1>1, <2>1, <2>2, MappedKeeps
  <2>4. n + 1 \in DOMAIN PathTokens /\ task' = n + 1 /\ (n + 1) - 1 = n
    BY <1>1, <2>1, <2>2, PathTokensAssumption DEF SearchOk, StartSearch
  <2>5. SearchOk' /\ FoundOk'
    BY <2>2, <2>4, StartKeeps
  <2>6. GraphOk'
    BY <1>1, <2>2 DEF GraphOk
  <2>. QED BY <2>2, <2>3, <2>4, <2>5, <2>6 DEF SearchInv
<1>. QED BY <1>3, <1>4, <1>5, <1>6 DEF SearchStep

\* The first search begins with nothing found and nothing mapped.
LEMMA BuildGraphKeeps ==
  ASSUME NEW pools, BuildGraph(pools), GraphOk'
  PROVE  SearchInv'
<1>1. StartSearch(1) /\ pool_to_paths' = <<>> /\ task' = 1
  BY DEF BuildGraph, StartSearch
<1>2. 1 \in DOMAIN PathTokens
  BY PathTokensAssumption
<1>3. SearchOk' /\ FoundOk'
  BY <1>1, <1>2, StartKeeps
<1>4. WalksUpTo(0)' = {} /\ \A p : PathsAt(p)' = <<>>
  BY <1>1 DEF WalksUpTo, PathsAt
<1>5. MappedUpTo(0)'
  <2>1. PICK S : S = WalksUpTo(0)'
    OBVIOUS
  <2>2. <<>> \in Seq(S) /\ IsInjective(<<>>) /\ ToSet(<<>>) = {}
    BY EmptySeqIs
  <2>. QED BY <1>4, <2>1, <2>2 DEF MappedUpTo
<1>. QED BY <1>1, <1>3, <1>5 DEF SearchInv

\* When the last token has been searched from, every path is at its pools.
PathsMapped == GraphOk /\ MappedUpTo(Len(PathTokens))

\* After the last task the walks of all tokens are mapped.
LEMMA LastTaskMaps ==
  ASSUME SearchInv, LastTask
  PROVE  PathsMapped' /\ UNCHANGED graph
<1>1. PICK n : n = task
  OBVIOUS
<1>2. SearchDone /\ n = Len(PathTokens) /\ pool_to_paths' = Mapped /\ graph' = graph
  BY <1>1 DEF LastTask
<1>3. MappedUpTo(n)'
  BY <1>1, <1>2, MappedKeeps DEF SearchInv
<1>4. GraphOk'
  BY <1>2 DEF SearchInv, GraphOk
<1>. QED BY <1>2, <1>3, <1>4 DEF PathsMapped

\* A mapping of the walks of all tokens is what PathsExact says, pool by pool.
LEMMA MappedIsAll ==
  ASSUME PathsMapped
  PROVE  \A p : /\ ToSet(PathsAt(p)) = {path \in AllPaths : p \in PoolsOf(path)}
                /\ Len(PathsAt(p)) = Cardinality(ToSet(PathsAt(p)))
<1>1. WalksUpTo(Len(PathTokens)) = AllPaths
  <2>1. DOMAIN PathTokens = 1..Len(PathTokens)
    BY PathTokensAssumption
  <2>. QED BY <2>1 DEF WalksUpTo, WalksOf, AllPaths
<1>2. ASSUME NEW p
      PROVE  /\ ToSet(PathsAt(p)) = {path \in AllPaths : p \in PoolsOf(path)}
             /\ Len(PathsAt(p)) = Cardinality(ToSet(PathsAt(p)))
  <2>1. PICK s, S : s = PathsAt(p) /\ S = AllPaths
    OBVIOUS
  <2>2. s \in Seq(S) /\ IsInjective(s) /\ ToSet(s) = {path \in AllPaths : p \in PoolsOf(path)}
    BY <1>1, <2>1 DEF PathsMapped, MappedUpTo
  <2>3. Len(s) \in Nat /\ s \in Bijection(1..Len(s), ToSet(s))
    BY <2>2 DEF IsInjective, ToSet, Bijection, Injection, Surjection
  <2>4. Cardinality(ToSet(s)) = Len(s)
    BY <2>3, FS_CountingElements DEF ExistsBijection
  <2>. QED BY <2>1, <2>2, <2>4
<1>. QED BY <1>2
==============================================================================
