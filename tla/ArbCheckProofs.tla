--------------------------- MODULE ArbCheckProofs ---------------------------
(* What holds of ArbCheck for any finite set of paths, any markets and any   *)
(* answers of the contract, for every batch size, target and number of       *)
(* faults.                                                                   *)
EXTENDS ArbCheck, SequenceLemmas

-----------------------------------------------------------------------------
(* The inductive invariant                                                   *)

Arbs == UNION {calculate_profitability(m, p) : m \in Markets, p \in Paths}
AnyVerdict == {Failed} \cup UNION {Verdicts[p] : p \in Paths}
Outcomes == {Result(arb, v) : arb \in Arbs, v \in AnyVerdict}

\* The batches bs are slices of arbs, one after the other, from where the results
\* end to the end of arbs; cuts says where each begins.
Tiles(cuts, bs, from, arbs) ==
  /\ cuts \in [1..(Len(bs) + 1) -> Nat]
  /\ cuts[1] = from /\ cuts[Len(bs) + 1] = Len(arbs)
  /\ \A k \in 1..(Len(bs) + 1) : cuts[k] <= Len(arbs)
  /\ \A k \in 1..Len(bs) :
       /\ Len(bs[k]) > 0 /\ cuts[k + 1] = cuts[k] + Len(bs[k])
       /\ \A j \in 1..Len(bs[k]) : bs[k][j] = arbs[cuts[k] + j]

Batched(bs, from, arbs) == \E cuts : Tiles(cuts, bs, from, arbs)

\* The sequences of an iteration: results so far, then the batches.
SeqInv ==
  /\ raw_arbs \in Seq(Arbs) /\ batches \in Seq(Seq(Arbs)) /\ results \in Seq(Outcomes)
  /\ \A i, j \in 1..Len(raw_arbs) : raw_arbs[i].path = raw_arbs[j].path => i = j
  /\ \A i \in 1..Len(results) : results[i].of = raw_arbs[i].path
  /\ Batched(batches, Len(results), raw_arbs)
  /\ \A i \in 1..Len(raw_arbs) : raw_arbs[i].path \in Paths
  /\ pc = "check" => \A i \in 1..Len(raw_arbs) : raw_arbs[i].path \notin blacklist
  /\ pc \in {"start", "search"} => raw_arbs = <<>> /\ results = <<>> /\ batches = <<>>

\* Memory and files.  The blacklist is that of the file and what the iteration
\* has added; the workers leave out what is on file, and get the rest last.
FileInv ==
  /\ DOMAIN saved_pre \cap saved_blacklist = {}
  /\ pc # "start" => /\ DOMAIN pre_blacklist \cap blacklist = {}
                     /\ saved_blacklist \subseteq blacklist
  /\ pc \in {"search", "check", "timer"} =>
       blacklist = saved_blacklist /\ removed = blacklist
  /\ pc \in {"execute", "save_pre", "save_blacklist"} =>
       removed = saved_blacklist /\ blacklist = removed \cup to_blacklist
  /\ pc = "save_blacklist" => saved_pre = pre_blacklist
  /\ pc = "remove" => saved_blacklist = blacklist /\ blacklist = removed \cup to_blacklist

\* Counts and failures.  A path has failed at least as often as it is counted, and
\* no more than that plus the target for each fault that lost its count.
Count(pre, p) == IF p \in DOMAIN pre THEN pre[p] ELSE 0
Lost == Target * faults

CountInv ==
  /\ \A p \in blacklist \cup saved_blacklist : reverts[p] >= Target
  /\ pc # "start" => \A p \in Paths :
       /\ p \in DOMAIN pre_blacklist => reverts[p] >= pre_blacklist[p]
       /\ p \notin blacklist => reverts[p] <= Count(pre_blacklist, p) + Lost
       /\ p \notin saved_blacklist => reverts[p] <= Target + Lost
  /\ pc = "start" => \A p \in Paths :
       p \notin saved_blacklist => reverts[p] <= Count(saved_pre, p) + Lost

IInv == TypeOK /\ SeqInv /\ FileInv /\ CountInv

-----------------------------------------------------------------------------
(* Lemmas on the data                                                        *)

\* Numbers.  The target is at least two, and the bound of the history above it.
LEMMA Numbers ==
  /\ Target \in Nat /\ Target >= 2 /\ Target >= BlacklistTarget
  /\ MaxReverts \in Nat /\ MaxReverts >= Target
<1>1. Target \in Nat /\ Target >= 2 /\ Target >= BlacklistTarget
  BY TargetAssumption DEF Target, Larger
<1>2. \A t \in Nat : t * (MaxFaults + 1) = t * MaxFaults + t /\ t * MaxFaults \in Nat
  BY FaultsAssumption
<1>. QED BY <1>1, <1>2 DEF MaxReverts

\* One more fault loses at most the target.
LEMMA LostGrows ==
  ASSUME NEW f \in Nat
  PROVE  /\ Target * f \in Nat /\ Target * (f + 1) = Target * f + Target
BY Numbers

\* A path gives at most one arbitrage, which is about it.
LEMMA ArbOfPath ==
  ASSUME NEW m, NEW p, NEW arb \in calculate_profitability(m, p)
  PROVE  arb.path = p /\ calculate_profitability(m, p) = {arb}
<1>1. \A amount, bruto, e : Arbitrage(p, amount, bruto, e).path = p
  BY DEF Arbitrage
<1>2. \E amount, bruto, e : arb = Arbitrage(p, amount, bruto, e)
  BY Zenon DEF calculate_profitability
<1>3. calculate_profitability(m, p) = {arb}
  <2>1. \E x : calculate_profitability(m, p) = {x}
    BY Zenon DEF calculate_profitability
  <2>. QED BY <2>1, Zenon
<1>. QED BY <1>1, <1>2, <1>3, Zenon

\* Numbers.  More than nothing and not one is more than one.
LEMMA AboveOne ==
  ASSUME NEW n \in Nat, n > 0, n # 1
  PROVE  n > 1
OBVIOUS

\* Numbers.  Both halves of more than one are not empty.
LEMMA HalfOf ==
  ASSUME NEW n \in Nat, n > 1
  PROVE  n \div 2 \in Nat /\ n \div 2 > 0 /\ n \div 2 < n
OBVIOUS

\* Sequences: its first elements and the others.
LEMMA CutInTwo ==
  ASSUME NEW S, NEW b \in Seq(S), NEW half \in Nat, half < Len(b)
  PROVE  LET left == SubSeq(b, 1, half)
             right == SubSeq(b, half + 1, Len(b))
         IN  /\ left \in Seq(S) /\ Len(left) = half
             /\ \A j \in 1..half : left[j] = b[j]
             /\ right \in Seq(S) /\ Len(right) = Len(b) - half
             /\ \A j \in 1..(Len(b) - half) : right[j] = b[half + j]
<1>1. Len(b) \in Nat
  OBVIOUS
<1>. QED BY <1>1

\* Sequences: all but the first.
LEMMA TailOf ==
  ASSUME NEW S, NEW s \in Seq(S), s # <<>>
  PROVE  /\ Tail(s) \in Seq(S) /\ Len(Tail(s)) = Len(s) - 1
         /\ \A k \in 1..(Len(s) - 1) : Tail(s)[k] = s[k + 1]
OBVIOUS

\* Sequences: a pair put before one.
LEMMA PairThenRest ==
  ASSUME NEW S, NEW x \in S, NEW y \in S, NEW rest \in Seq(S)
  PROVE  LET new == <<x, y>> \o rest
         IN  /\ new \in Seq(S) /\ Len(new) = 2 + Len(rest)
             /\ new[1] = x /\ new[2] = y
             /\ \A k \in 3..(2 + Len(rest)) : new[k] = rest[k - 2]
<1>1. <<x, y>> \in Seq(S) /\ Len(<<x, y>>) = 2 /\ Len(rest) \in Nat
  OBVIOUS
<1>. QED BY <1>1

\* The first batch has the arbitrages that follow the results.
LEMMA FirstBatch ==
  ASSUME NEW arbs \in Seq(Arbs), NEW bs \in Seq(Seq(Arbs)), bs # <<>>,
         NEW from \in Nat, NEW cuts, Tiles(cuts, bs, from, arbs)
  PROVE  /\ Len(bs) \in Nat /\ Len(bs) > 0 /\ bs[1] \in Seq(Arbs)
         /\ Len(bs[1]) \in Nat /\ Len(bs[1]) > 0
         /\ from + Len(bs[1]) <= Len(arbs)
         /\ \A j \in 1..Len(bs[1]) : bs[1][j] = arbs[from + j]
<1>1. Len(bs) \in Nat /\ Len(bs) > 0 /\ bs[1] \in Seq(Arbs)
  OBVIOUS
<1>2. cuts[2] = from + Len(bs[1]) /\ cuts[2] <= Len(arbs)
  BY <1>1 DEF Tiles
<1>. QED BY <1>1, <1>2 DEF Tiles

\* What remains when the first batch is called.
LEMMA TailTiles ==
  ASSUME NEW arbs \in Seq(Arbs), NEW bs \in Seq(Seq(Arbs)), bs # <<>>,
         NEW from \in Nat, Batched(bs, from, arbs)
  PROVE  Tail(bs) \in Seq(Seq(Arbs)) /\ Batched(Tail(bs), from + Len(bs[1]), arbs)
<1>1. PICK cuts : Tiles(cuts, bs, from, arbs)
  BY DEF Batched
<1>. DEFINE n == Len(bs)
            new == [k \in 1..n |-> cuts[k + 1]]
<1>2. n \in Nat /\ n > 0 /\ bs[1] \in Seq(Arbs)
  OBVIOUS
<1>3. /\ Tail(bs) \in Seq(Seq(Arbs)) /\ Len(Tail(bs)) = n - 1
      /\ \A k \in 1..(n - 1) : Tail(bs)[k] = bs[k + 1]
  BY <1>2
<1>4. Tiles(new, Tail(bs), from + Len(bs[1]), arbs)
  <2>1. new \in [1..n -> Nat] /\ new[1] = from + Len(bs[1]) /\ new[n] = Len(arbs)
    BY <1>1, <1>2 DEF Tiles
  <2>2. \A k \in 1..n : new[k] <= Len(arbs)
    BY <1>1, <1>2 DEF Tiles
  <2>3. ASSUME NEW k \in 1..(n - 1)
        PROVE  /\ Len(bs[k + 1]) > 0 /\ new[k + 1] = new[k] + Len(bs[k + 1])
               /\ \A j \in 1..Len(bs[k + 1]) : bs[k + 1][j] = arbs[new[k] + j]
    <3>1. k + 1 \in 1..n /\ new[k] = cuts[k + 1] /\ new[k + 1] = cuts[(k + 1) + 1]
      BY <1>2
    <3>. QED BY <1>1, <3>1 DEF Tiles
  <2>. HIDE DEF new, n
  <2>4. Len(Tail(bs)) + 1 = n
    BY <1>2, <1>3
  <2>. QED BY <1>2, <1>3, <2>1, <2>2, <2>3, <2>4 DEF Tiles
<1>. QED BY <1>3, <1>4 DEF Batched

\* Two parts of the first batch take its place.
Parted(new, bs, left, right) ==
  /\ Len(bs) \in Nat /\ Len(bs) > 0
  /\ left \in Seq(Arbs) /\ right \in Seq(Arbs) /\ Len(left) > 0 /\ Len(right) > 0
  /\ Len(bs[1]) = Len(left) + Len(right)
  /\ \A j \in 1..Len(left) : left[j] = bs[1][j]
  /\ \A j \in 1..Len(right) : right[j] = bs[1][Len(left) + j]
  /\ Len(new) = Len(bs) + 1 /\ new[1] = left /\ new[2] = right
  /\ \A k \in 3..(Len(bs) + 1) : new[k] = bs[k - 1]

\* The parts tile what the first batch did.
LEMMA PartsTile ==
  ASSUME NEW arbs \in Seq(Arbs), NEW from \in Nat, NEW bs, NEW cuts,
         Tiles(cuts, bs, from, arbs), NEW left, NEW right, NEW new,
         Parted(new, bs, left, right)
  PROVE  Batched(new, from, arbs)
<1>. DEFINE n == Len(bs)
<1>0. /\ n \in Nat /\ n > 0 /\ Len(bs) = n
      /\ left \in Seq(Arbs) /\ right \in Seq(Arbs) /\ Len(left) > 0 /\ Len(right) > 0
      /\ Len(bs[1]) = Len(left) + Len(right)
      /\ \A j \in 1..Len(left) : left[j] = bs[1][j]
      /\ \A j \in 1..Len(right) : right[j] = bs[1][Len(left) + j]
      /\ Len(new) = n + 1 /\ new[1] = left /\ new[2] = right
      /\ \A k \in 3..(n + 1) : new[k] = bs[k - 1]
  BY Zenon DEF Parted
<1>. HIDE DEF n
<1>. DEFINE at == [k \in 1..(n + 2) |-> IF k = 1 THEN from
                                       ELSE IF k = 2 THEN from + Len(left)
                                       ELSE cuts[k - 1]]
<1>1. /\ Len(left) \in Nat /\ Len(right) \in Nat
      /\ DOMAIN cuts = 1..(n + 1) /\ \A k \in 1..(n + 1) : cuts[k] \in Nat
      /\ cuts[1] = from /\ cuts[n + 1] = Len(arbs)
      /\ cuts[2] = from + Len(left) + Len(right)
      /\ \A k \in 1..(n + 1) : cuts[k] <= Len(arbs)
      /\ \A j \in 1..(Len(left) + Len(right)) : bs[1][j] = arbs[from + j]
  <2>1. /\ cuts \in [1..(n + 1) -> Nat] /\ cuts[1] = from /\ cuts[n + 1] = Len(arbs)
        /\ \A k \in 1..(n + 1) : cuts[k] <= Len(arbs)
        /\ \A k \in 1..n : /\ cuts[k + 1] = cuts[k] + Len(bs[k])
                            /\ \A j \in 1..Len(bs[k]) : bs[k][j] = arbs[cuts[k] + j]
    BY <1>0, Zenon DEF Tiles
  <2>2. 1 \in 1..n /\ 1 + 1 = 2 /\ Len(left) \in Nat /\ Len(right) \in Nat
    BY <1>0
  <2>3. /\ cuts[2] = from + (Len(left) + Len(right))
        /\ \A j \in 1..(Len(left) + Len(right)) : bs[1][j] = arbs[from + j]
    BY <1>0, <2>1, <2>2, Zenon
  <2>4. from + (Len(left) + Len(right)) = from + Len(left) + Len(right)
    BY <2>2
  <2>5. DOMAIN cuts = 1..(n + 1) /\ \A k \in 1..(n + 1) : cuts[k] \in Nat
    BY <2>1
  <2>. QED BY <2>1, <2>2, <2>3, <2>4, <2>5, Zenon
<1>2. \A k \in 3..(n + 2) : k - 1 \in 1..(n + 1) /\ at[k] = cuts[k - 1]
  BY <1>0
<1>3. at[1] = from /\ at[2] = from + Len(left)
  BY <1>0
<1>4. DOMAIN at = 1..(n + 2)
  BY <1>0
<1>. HIDE DEF at
<1>5. at[3] = from + Len(left) + Len(right) /\ at[n + 2] = Len(arbs)
  BY <1>0, <1>1, <1>2
<1>6. Len(arbs) \in Nat /\ at[2] <= Len(arbs)
  BY <1>0, <1>1, <1>2, <1>3, <1>5
<1>7. \A k \in 1..(n + 2) : at[k] \in Nat /\ at[k] <= Len(arbs)
  <2>. TAKE k \in 1..(n + 2)
  <2>1. k = 1 \/ k = 2 \/ k \in 3..(n + 2)
    BY <1>0
  <2>2. ASSUME k \in 3..(n + 2) PROVE at[k] \in Nat /\ at[k] <= Len(arbs)
    BY <1>0, <1>1, <1>2, <2>2
  <2>3. from <= Len(arbs) /\ from + Len(left) \in Nat
    BY <1>0, <1>1
  <2>. QED BY <1>0, <1>3, <1>6, <2>1, <2>2, <2>3
<1>8. ASSUME NEW k \in 1..(n + 1)
      PROVE  /\ Len(new[k]) > 0 /\ at[k + 1] = at[k] + Len(new[k])
             /\ \A j \in 1..Len(new[k]) : new[k][j] = arbs[at[k] + j]
  <2>1. CASE k = 1
    <3>1. ASSUME NEW j \in 1..Len(left) PROVE left[j] = arbs[from + j]
      BY <1>0, <1>1
    <3>2. at[k] = from /\ at[k + 1] = from + Len(left) /\ new[k] = left
      BY <1>0, <1>3, <2>1
    <3>. QED BY <1>0, <3>1, <3>2
  <2>2. CASE k = 2
    <3>1. ASSUME NEW j \in 1..Len(right) PROVE right[j] = arbs[(from + Len(left)) + j]
      <4>1. Len(left) + j \in 1..(Len(left) + Len(right)) /\ right[j] = bs[1][Len(left) + j]
        BY <1>0, <1>1
      <4>2. from + (Len(left) + j) = (from + Len(left)) + j
        BY <1>0, <1>1
      <4>. QED BY <1>0, <1>1, <4>1, <4>2
    <3>2. at[k] = from + Len(left) /\ new[k] = right
      BY <1>0, <1>3, <2>2
    <3>3. at[k + 1] = (from + Len(left)) + Len(right)
      BY <1>0, <1>1, <1>5, <2>2
    <3>. QED BY <1>0, <3>1, <3>2, <3>3
  <2>3. CASE k >= 3
    <3>1. /\ k - 1 \in 1..n /\ (k - 1) + 1 = k /\ (k + 1) - 1 = k
          /\ k \in 3..(n + 1) /\ k \in 3..(n + 2) /\ k + 1 \in 3..(n + 2)
      BY <1>0, <2>3
    <3>2. at[k] = cuts[k - 1] /\ at[k + 1] = cuts[k] /\ new[k] = bs[k - 1]
      BY <1>0, <1>2, <3>1
    <3>3. /\ Len(bs[k - 1]) > 0 /\ cuts[(k - 1) + 1] = cuts[k - 1] + Len(bs[k - 1])
          /\ \A j \in 1..Len(bs[k - 1]) : bs[k - 1][j] = arbs[cuts[k - 1] + j]
      BY <1>0, <3>1 DEF Tiles
    <3>4. cuts[k] = cuts[k - 1] + Len(bs[k - 1])
      BY <3>1, <3>3
    <3>. QED BY <3>2, <3>3, <3>4, Zenon
  <2>4. k = 1 \/ k = 2 \/ k >= 3
    BY <1>0
  <2>. QED BY <1>0, <2>1, <2>2, <2>3, <2>4
<1>9. at \in [1..(n + 2) -> Nat]
  <2>1. at = [k \in 1..(n + 2) |-> at[k]]
    BY DEF at
  <2>. QED BY <1>0, <1>7, <2>1
<1>10. Tiles(at, new, from, arbs)
  <2>1. Len(new) + 1 = n + 2
    BY <1>0
  <2>. QED BY <1>0, <1>3, <1>5, <1>7, <1>8, <1>9, <2>1 DEF Tiles
<1>. QED BY <1>0, <1>10 DEF Batched

\* What remains when the first batch fails and is halved.
LEMMA HalvesTile ==
  ASSUME NEW arbs \in Seq(Arbs), NEW bs \in Seq(Seq(Arbs)), bs # <<>>, Len(bs[1]) # 1,
         NEW from \in Nat, Batched(bs, from, arbs)
  PROVE  /\ Halves(bs[1]) \o Tail(bs) \in Seq(Seq(Arbs))
         /\ Batched(Halves(bs[1]) \o Tail(bs), from, arbs)
<1>1. PICK cuts : Tiles(cuts, bs, from, arbs)
  BY DEF Batched
<1>. DEFINE n == Len(bs)
            b == bs[1]
            half == Len(b) \div 2
            left == SubSeq(b, 1, half)
            right == SubSeq(b, half + 1, Len(b))
            new == <<left, right>> \o Tail(bs)
<1>2. n \in Nat /\ n > 0 /\ b \in Seq(Arbs) /\ Len(b) \in Nat /\ Len(b) > 1
  <2>1. bs[1] \in Seq(Arbs) /\ Len(bs) \in Nat /\ Len(bs) > 0
        /\ Len(bs[1]) \in Nat /\ Len(bs[1]) > 0
    BY <1>1, FirstBatch
  <2>. HIDE DEF n, b
  <2>2. Len(b) \in Nat /\ Len(b) > 0 /\ Len(b) # 1
    BY <2>1 DEF b
  <2>3. Len(b) > 1
    BY <2>2, AboveOne
  <2>. QED BY <2>1, <2>2, <2>3 DEF n, b
<1>3. half \in Nat /\ half > 0 /\ half < Len(b)
  <2>. HIDE DEF b
  <2>. QED BY <1>2, HalfOf
<1>4. Halves(b) = <<left, right>>
  BY DEF Halves
<1>. HIDE DEF half, b
<1>5. /\ left \in Seq(Arbs) /\ Len(left) = half /\ \A j \in 1..half : left[j] = b[j]
      /\ right \in Seq(Arbs) /\ Len(right) = Len(b) - half
      /\ \A j \in 1..(Len(b) - half) : right[j] = b[half + j]
  BY <1>2, <1>3, CutInTwo
<1>. HIDE DEF left, right
<1>6. /\ Tail(bs) \in Seq(Seq(Arbs)) /\ Len(Tail(bs)) = n - 1
      /\ \A k \in 1..(n - 1) : Tail(bs)[k] = bs[k + 1]
  BY TailOf
<1>7. /\ new \in Seq(Seq(Arbs)) /\ Len(new) = 2 + (n - 1)
      /\ new[1] = left /\ new[2] = right
      /\ \A k \in 3..(2 + (n - 1)) : new[k] = Tail(bs)[k - 2]
  BY <1>5, <1>6, PairThenRest
<1>. HIDE DEF new, n
<1>8. Len(new) = n + 1
  BY <1>2, <1>7
<1>9. ASSUME NEW k \in 3..(n + 1) PROVE new[k] = bs[k - 1]
  <2>1. /\ k - 2 \in 1..(n - 1) /\ (k - 2) + 1 = k - 1 /\ k \in 3..(2 + (n - 1))
    BY <1>2
  <2>2. new[k] = Tail(bs)[k - 2] /\ Tail(bs)[k - 2] = bs[(k - 2) + 1]
    BY <1>6, <1>7, <2>1
  <2>. QED BY <2>1, <2>2
<1>10. /\ Len(left) > 0 /\ Len(right) > 0 /\ Len(b) = Len(left) + Len(right)
       /\ \A j \in 1..Len(left) : left[j] = b[j]
       /\ \A j \in 1..Len(right) : right[j] = b[Len(left) + j]
  BY <1>2, <1>3, <1>5
<1>11. Batched(new, from, arbs)
  <2>1. Parted(new, bs, left, right)
    BY <1>2, <1>5, <1>7, <1>8, <1>9, <1>10 DEF n, b, Parted
  <2>. QED BY <1>1, <2>1, PartsTile, Zenon
<1>12. Halves(bs[1]) \o Tail(bs) = new
  BY <1>4 DEF new, b
<1>. QED BY <1>7, <1>11, <1>12

\* Numbers.  The batches of a size b: all but the last are full.
LEMMA Chunks ==
  ASSUME NEW len \in Nat, NEW b \in Nat \ {0}
  PROVE  LET q == (len + b - 1) \div b
         IN  /\ q \in Nat /\ len <= q * b /\ (q = 0 <=> len = 0)
             /\ \A k \in 1..q : (k - 1) * b \in Nat /\ (k - 1) * b < len
                                /\ k * b = (k - 1) * b + b
             /\ \A k \in 1..q : k < q => k * b < len
<1>. DEFINE q == (len + b - 1) \div b
<1>1. q \in Nat /\ q * b <= len + b - 1 /\ len + b - 1 < q * b + b
  <2>1. \A a \in Nat : /\ a \div b \in Nat /\ (a \div b) * b <= a
                       /\ a < (a \div b) * b + b
    OBVIOUS
  <2>2. len + b - 1 \in Nat
    OBVIOUS
  <2>. QED BY <2>1, <2>2
<1>. HIDE DEF q
<1>2. len <= q * b
  <2>1. q * b \in Nat
    BY <1>1
  <2>. QED BY <1>1, <2>1
<1>3. ASSUME NEW k \in 1..q
      PROVE (k - 1) * b \in Nat /\ (k - 1) * b < len /\ k * b = (k - 1) * b + b
  <2>1. k - 1 \in Nat /\ k - 1 <= q - 1 /\ q - 1 \in Nat
    BY <1>1
  <2>2. \A n, t \in Nat : n <= t => n * b <= t * b /\ n * b \in Nat /\ t * b \in Nat
    OBVIOUS
  <2>3. \A n \in Nat : (n + 1) * b = n * b + b
    OBVIOUS
  <2>4. (k - 1) * b <= (q - 1) * b /\ (k - 1) * b \in Nat /\ (q - 1) * b \in Nat
    BY <2>1, <2>2
  <2>5. (k - 1) + 1 = k /\ (q - 1) + 1 = q
    BY <1>1
  <2>6. k * b = (k - 1) * b + b /\ q * b = (q - 1) * b + b
    BY <2>1, <2>3, <2>5
  <2>. QED BY <1>1, <2>4, <2>6
<1>4. ASSUME NEW k \in 1..q, k < q PROVE k * b < len
  <2>1. k + 1 \in 1..q /\ (k + 1) - 1 = k
    BY <1>1, <1>4
  <2>. QED BY <1>3, <2>1
<1>5. q = 0 <=> len = 0
  <2>1. CASE q = 0
    <3>1. q * b = 0
      BY <2>1
    <3>. QED BY <1>2, <2>1, <3>1
  <2>2. CASE q # 0
    <3>1. 1 \in 1..q /\ (1 - 1) * b = 0
      BY <1>1, <2>2
    <3>2. (1 - 1) * b < len
      BY <1>3, <3>1
    <3>. QED BY <2>2, <3>1, <3>2
  <2>. QED BY <2>1, <2>2
<1>. QED BY <1>1, <1>2, <1>3, <1>4, <1>5 DEF q

\* Sequences: at most m elements from a place on.
LEMMA Piece ==
  ASSUME NEW S, NEW s \in Seq(S), NEW from \in Nat, from < Len(s), NEW m \in Nat \ {0},
         NEW rest, rest = SubSeq(s, from + 1, Len(s)),
         NEW piece, piece = SubSeq(rest, 1, IF Len(rest) < m THEN Len(rest) ELSE m)
  PROVE  /\ piece \in Seq(S)
         /\ Len(piece) = IF Len(s) - from < m THEN Len(s) - from ELSE m
         /\ \A j \in 1..Len(piece) : piece[j] = s[from + j]
<1>. DEFINE n == IF Len(rest) < m THEN Len(rest) ELSE m
<1>1. Len(s) \in Nat /\ piece = SubSeq(rest, 1, n)
  OBVIOUS
<1>2. /\ rest \in Seq(S) /\ Len(rest) = Len(s) - from
      /\ \A j \in 1..Len(rest) : rest[j] = s[from + j]
  BY <1>1
<1>3. n \in Nat /\ n <= Len(rest) /\ n = IF Len(s) - from < m THEN Len(s) - from ELSE m
  BY <1>1, <1>2
<1>. HIDE DEF n
<1>4. piece \in Seq(S) /\ Len(piece) = n /\ \A j \in 1..n : piece[j] = rest[j]
  BY <1>1, <1>2, <1>3
<1>5. \A j \in 1..n : piece[j] = s[from + j]
  BY <1>1, <1>2, <1>3, <1>4
<1>. QED BY <1>3, <1>4, <1>5

\* A function on 1..n is a sequence.
LEMMA IsSequence ==
  ASSUME NEW S, NEW n \in Nat, NEW f, f = [k \in 1..n |-> f[k]],
         \A k \in 1..n : f[k] \in S
  PROVE  f \in Seq(S) /\ Len(f) = n
<1>1. f \in [1..n -> S] /\ DOMAIN f = 1..n
  OBVIOUS
<1>. QED BY <1>1

\* The chunks of all arbitrages of a search tile them.
LEMMA ChunksTile ==
  ASSUME NEW arbs \in Seq(Arbs)
  PROVE  /\ create_all_batch_args(arbs) \in Seq(Seq(Arbs))
         /\ Batched(create_all_batch_args(arbs), 0, arbs)
<1>. DEFINE len == Len(arbs)
            b == BatchSize
            q == (len + b - 1) \div b
            bs == create_all_batch_args(arbs)
            cuts == [k \in 1..(q + 1) |-> IF k <= q THEN (k - 1) * b ELSE len]
<1>1. len \in Nat /\ b \in Nat \ {0}
  BY BatchSizeAssumption
<1>2. /\ q \in Nat /\ len <= q * b /\ (q = 0 <=> len = 0)
      /\ \A k \in 1..q : (k - 1) * b \in Nat /\ (k - 1) * b < len
                         /\ k * b = (k - 1) * b + b
      /\ \A k \in 1..q : k < q => k * b < len
  <2>. HIDE DEF len, b
  <2>. QED BY <1>1, Chunks
<1>3. ASSUME NEW k \in 1..q
      PROVE  /\ bs[k] \in Seq(Arbs)
             /\ Len(bs[k]) = IF len - (k - 1) * b < b THEN len - (k - 1) * b ELSE b
             /\ \A j \in 1..Len(bs[k]) : bs[k][j] = arbs[(k - 1) * b + j]
  <2>. DEFINE rest == SubSeq(arbs, (k - 1) * b + 1, Len(arbs))
  <2>1. bs[k] = SubSeq(rest, 1, IF Len(rest) < b THEN Len(rest) ELSE b)
    BY DEF create_all_batch_args
  <2>2. (k - 1) * b \in Nat /\ (k - 1) * b < Len(arbs)
    BY <1>2
  <2>. HIDE DEF bs, b
  <2>. DEFINE from == (k - 1) * b
  <2>. HIDE DEF from
  <2>3. from \in Nat /\ from < Len(arbs)
    BY <2>2 DEF from
  <2>4. rest = SubSeq(arbs, from + 1, Len(arbs))
    BY Zenon DEF from
  <2>. HIDE DEF rest
  <2>5. /\ bs[k] \in Seq(Arbs)
        /\ Len(bs[k]) = IF Len(arbs) - from < b THEN Len(arbs) - from ELSE b
        /\ \A j \in 1..Len(bs[k]) : bs[k][j] = arbs[from + j]
    <3>1. arbs \in Seq(Arbs) /\ b \in Nat \ {0}
      BY <1>1
    <3>. HIDE DEF len, q, cuts
    <3>. QED BY <2>1, <2>3, <2>4, <3>1, Piece, SMTT(60)
  <2>. QED BY <2>5, Zenon DEF from
<1>4. bs \in Seq(Seq(Arbs)) /\ Len(bs) = q
  <2>1. bs = [k \in 1..q |-> bs[k]]
    BY DEF create_all_batch_args
  <2>. HIDE DEF bs
  <2>2. \A k \in 1..q : bs[k] \in Seq(Arbs)
    BY <1>3
  <2>. HIDE DEF q
  <2>. QED BY <1>2, <2>1, <2>2, IsSequence, Zenon
<1>. HIDE DEF bs
<1>5. /\ cuts \in [1..(q + 1) -> Nat] /\ cuts[q + 1] = len
      /\ \A k \in 1..q : cuts[k] = (k - 1) * b
      /\ \A k \in 1..(q + 1) : cuts[k] <= len
  <2>1. ASSUME NEW k \in 1..(q + 1)
        PROVE  /\ cuts[k] = IF k <= q THEN (k - 1) * b ELSE len
               /\ cuts[k] \in Nat /\ cuts[k] <= len
    <3>. HIDE DEF q, len, b
    <3>1. cuts[k] = IF k <= q THEN (k - 1) * b ELSE len
      OBVIOUS
    <3>. HIDE DEF cuts
    <3>2. CASE k <= q
      <4>1. k \in 1..q
        BY <1>2, <3>2
      <4>2. (k - 1) * b \in Nat /\ (k - 1) * b < len
        BY <1>2, <4>1
      <4>. QED BY <1>1, <3>1, <3>2, <4>2
    <3>3. CASE ~(k <= q)
      BY <1>1, <3>1, <3>3
    <3>. QED BY <3>1, <3>2, <3>3
  <2>2. cuts = [k \in 1..(q + 1) |-> cuts[k]]
    BY Zenon
  <2>. HIDE DEF q, len, b, cuts
  <2>3. q + 1 \in 1..(q + 1) /\ ~(q + 1 <= q) /\ \A k \in 1..q : k \in 1..(q + 1) /\ k <= q
    BY <1>2
  <2>4. cuts \in [1..(q + 1) -> Nat]
    BY <2>1, <2>2
  <2>5. cuts[q + 1] = len /\ \A k \in 1..q : cuts[k] = (k - 1) * b
    BY <2>1, <2>3, Zenon
  <2>. QED BY <2>1, <2>4, <2>5
<1>6. cuts[1] = 0
  <2>. HIDE DEF q, len, b, cuts
  <2>1. CASE q = 0
    BY <1>2, <1>5, <2>1
  <2>2. CASE q # 0
    <3>1. 1 \in 1..q /\ (1 - 1) * b = 0
      BY <1>1, <1>2, <2>2
    <3>. QED BY <1>5, <3>1
  <2>. QED BY <2>1, <2>2
<1>7. ASSUME NEW k \in 1..q
      PROVE  /\ Len(bs[k]) > 0 /\ cuts[k + 1] = cuts[k] + Len(bs[k])
             /\ \A j \in 1..Len(bs[k]) : bs[k][j] = arbs[cuts[k] + j]
  <2>. HIDE DEF q, len, b, cuts
  <2>0. /\ (k - 1) * b \in Nat /\ (k - 1) * b < len /\ k * b = (k - 1) * b + b
        /\ cuts[k] = (k - 1) * b
    BY <1>2, <1>5
  <2>1. CASE k = q
    <3>1. cuts[k + 1] = len /\ len - (k - 1) * b <= b /\ len <= k * b
      BY <1>1, <1>2, <1>5, <2>0, <2>1
    <3>2. Len(bs[k]) = len - (k - 1) * b
      <4>1. \A f \in Nat : len - f <= b => len - f = IF len - f < b THEN len - f ELSE b
        BY <1>1
      <4>. QED BY <1>3, <2>0, <3>1, <4>1, Zenon
    <3>. QED BY <1>1, <1>3, <2>0, <3>1, <3>2
  <2>2. CASE k < q
    <3>1. k + 1 \in 1..q /\ (k + 1) - 1 = k /\ k * b < len
      BY <1>2, <2>2
    <3>2. cuts[k + 1] = k * b
      BY <1>5, <3>1
    <3>3. Len(bs[k]) = b
      BY <1>1, <1>3, <2>0, <3>1
    <3>. QED BY <1>1, <1>3, <2>0, <3>2, <3>3
  <2>. QED BY <1>2, <2>1, <2>2
<1>8. Tiles(cuts, bs, 0, arbs)
  <2>. HIDE DEF q, cuts
  <2>. QED BY <1>4, <1>5, <1>6, <1>7 DEF Tiles
<1>. QED BY <1>4, <1>8 DEF Batched, bs

\* Without arbitrages nothing is to be called.
LEMMA NothingToCall ==
  /\ <<>> \in Seq(Arbs) /\ <<>> \in Seq(Seq(Arbs)) /\ <<>> \in Seq(Outcomes)
  /\ Len(<<>>) = 0 /\ Batched(<<>>, 0, <<>>)
<1>1. Tiles([k \in 1..(0 + 1) |-> 0], <<>>, 0, <<>>)
  BY DEF Tiles
<1>. QED BY <1>1 DEF Batched

\* When all batches are called, all results are there.
LEMMA AllCalled ==
  ASSUME NEW arbs, NEW from, Batched(<<>>, from, arbs)
  PROVE  from = Len(arbs)
BY DEF Batched, Tiles

\* The results never outnumber the arbitrages.
LEMMA NoMoreResults ==
  ASSUME NEW arbs, NEW bs, Len(bs) \in Nat, NEW from, Batched(bs, from, arbs)
  PROVE  from <= Len(arbs)
<1>1. 1 \in 1..(Len(bs) + 1)
  OBVIOUS
<1>. QED BY <1>1 DEF Batched, Tiles

\* The counts of a pre-blacklist.
LEMMA CountsAre ==
  ASSUME NEW f
  PROVE  f \in Counts <=> /\ f = [p \in DOMAIN f |-> f[p]] /\ DOMAIN f \subseteq Paths
                          /\ \A p \in DOMAIN f : f[p] \in 1..(Target - 1)
<1>1. ASSUME f \in Counts
      PROVE  /\ f = [p \in DOMAIN f |-> f[p]] /\ DOMAIN f \subseteq Paths
             /\ \A p \in DOMAIN f : f[p] \in 1..(Target - 1)
  <2>1. PICK s \in SUBSET Paths : f \in [s -> 1..(Target - 1)]
    BY <1>1, Zenon DEF Counts
  <2>. QED BY <2>1
<1>2. ASSUME f = [p \in DOMAIN f |-> f[p]], DOMAIN f \subseteq Paths,
             \A p \in DOMAIN f : f[p] \in 1..(Target - 1)
      PROVE  f \in Counts
  <2>1. f \in [DOMAIN f -> 1..(Target - 1)] /\ DOMAIN f \in SUBSET Paths
    BY <1>2
  <2>. QED BY <2>1, Zenon DEF Counts
<1>. QED BY <1>1, <1>2, Zenon

-----------------------------------------------------------------------------
(* The invariant is inductive                                                *)

\* The invariant holds when the program is first started.
LEMMA Initially == Init => IInv
<1>. SUFFICES ASSUME Init PROVE IInv
  OBVIOUS
<1>. USE DEF Init
<1>1. TypeOK
  <2>1. <<>> \in Counts
    <3>1. <<>> \in [{} -> 1..(Target - 1)] /\ {} \in SUBSET Paths
      OBVIOUS
    <3>. QED BY <3>1, Zenon DEF Counts
  <2>2. faults \in 0..MaxFaults /\ reverts \in [Paths -> 0..MaxReverts]
    BY Numbers, FaultsAssumption
  <2>. QED BY <2>1, <2>2 DEF TypeOK
<1>2. SeqInv
  BY NothingToCall DEF SeqInv
<1>3. FileInv
  BY DEF FileInv
<1>4. CountInv
  <2>1. Lost \in Nat
    BY Numbers DEF Lost
  <2>. QED BY <2>1, Numbers DEF CountInv, Count
<1>. QED BY <1>1, <1>2, <1>3, <1>4 DEF IInv

\* The start reads the files; a count revives what a forgotten success hid.
LEMMA StartKeeps == IInv /\ Start => IInv'
<1>. SUFFICES ASSUME IInv, Start PROVE IInv'
  OBVIOUS
<1>. USE DEF Start
<1>0. /\ TypeOK /\ SeqInv /\ FileInv /\ CountInv
  BY DEF IInv
<1>1. /\ saved_pre = [p \in DOMAIN saved_pre |-> saved_pre[p]] /\ DOMAIN saved_pre \subseteq Paths
      /\ \A p \in DOMAIN saved_pre : saved_pre[p] \in 1..(Target - 1)
  BY <1>0, CountsAre DEF TypeOK
<1>2. ASSUME NEW p \in Paths
      PROVE  /\ reverts'[p] = IF p \in DOMAIN saved_pre THEN Larger(reverts[p], saved_pre[p])
                              ELSE reverts[p]
             /\ reverts[p] \in 0..MaxReverts
             /\ reverts'[p] \in 0..MaxReverts /\ reverts'[p] >= reverts[p]
             /\ p \in DOMAIN saved_pre => reverts'[p] >= saved_pre[p]
  <2>1. reverts[p] \in 0..MaxReverts
    BY <1>0 DEF TypeOK
  <2>2. reverts'[p] = IF p \in DOMAIN saved_pre THEN Larger(reverts[p], saved_pre[p])
                      ELSE reverts[p]
    OBVIOUS
  <2>. QED BY <1>1, <2>1, <2>2, Numbers DEF Larger
<1>3. TypeOK'
  <2>1. reverts' \in [Paths -> 0..MaxReverts]
    BY <1>2
  <2>. QED BY <1>0, <2>1 DEF TypeOK, fileVars, blockVars
<1>4. SeqInv'
  BY <1>0 DEF SeqInv, blockVars
<1>5. FileInv'
  BY <1>0 DEF FileInv, fileVars
<1>6. CountInv'
  <2>1. Lost \in Nat /\ Lost' = Lost
    BY <1>0, LostGrows DEF Lost, TypeOK
  <2>2. ASSUME NEW p \in Paths, p \notin saved_blacklist
        PROVE  reverts'[p] <= Count(saved_pre, p) + Lost /\ reverts'[p] <= Target + Lost
    <3>1. reverts[p] <= Count(saved_pre, p) + Lost
      BY <1>0, <2>2 DEF CountInv
    <3>. QED BY <1>1, <1>2, <2>1, <3>1, Numbers DEF Count, Larger
  <2>3. ASSUME NEW p \in saved_blacklist PROVE reverts'[p] >= Target
    <3>1. p \in Paths /\ reverts[p] >= Target
      BY <1>0 DEF CountInv, TypeOK
    <3>. QED BY <1>2, <3>1, Numbers
  <2>. QED BY <1>1, <1>2, <2>1, <2>2, <2>3 DEF CountInv, fileVars
<1>. QED BY <1>3, <1>4, <1>5, <1>6 DEF IInv

\* What a search finds: a finite set, one arbitrage for each path that pays.
LEMMA FoundOnce ==
  ASSUME NEW m \in Markets, NEW searched \in SUBSET Paths,
         NEW found \in SUBSET UNION {calculate_profitability(m, p) : p \in searched}
  PROVE  /\ found \subseteq Arbs /\ \A arb \in found : arb.path \in searched
         /\ \A x, y \in found : x.path = y.path => x = y
         /\ IsFiniteSet(found)
<1>1. ASSUME NEW x \in found
      PROVE  x \in Arbs /\ x.path \in searched /\ calculate_profitability(m, x.path) = {x}
  <2>1. PICK p \in searched : x \in calculate_profitability(m, p)
    OBVIOUS
  <2>2. x.path = p /\ calculate_profitability(m, p) = {x}
    BY <2>1, ArbOfPath, Zenon
  <2>. QED BY <2>1, <2>2 DEF Arbs
<1>2. ASSUME NEW x \in found, NEW y \in found, x.path = y.path PROVE x = y
  BY <1>1, <1>2
<1>3. IsFiniteSet(found)
  <2>. DEFINE f == [x \in found |-> x.path]
  <2>1. f \in Injection(found, searched)
    BY <1>1, <1>2 DEF Injection, IsInjective
  <2>2. IsFiniteSet(searched)
    BY PathsAssumption, FS_Subset
  <2>. HIDE DEF f
  <2>. QED BY <2>1, <2>2, FS_Injection
<1>. QED BY <1>1, <1>2, <1>3

\* A search starts with nothing checked and all of its arbitrages batched.
LEMMA SearchKeeps == IInv /\ Search => IInv'
<1>. SUFFICES ASSUME IInv, Search PROVE IInv'
  OBVIOUS
<1>0. /\ TypeOK /\ SeqInv /\ FileInv /\ CountInv
  BY DEF IInv
<1>1. PICK market \in Markets :
        \E found \in SUBSET UNION {calculate_profitability(market, p) :
                                   p \in Paths \ removed} :
          /\ raw_arbs' \in SetToSeqs(found)
          /\ pc' = IF found = {} THEN "timer" ELSE "check"
  BY Zenon DEF Search
<1>2. PICK found \in SUBSET UNION {calculate_profitability(market, p) :
                                   p \in Paths \ removed} :
        raw_arbs' \in SetToSeqs(found)
  BY <1>1, Zenon
<1>3. /\ pc = "search" /\ pc' \in {"timer", "check"}
      /\ batches' = create_all_batch_args(raw_arbs')
      /\ UNCHANGED <<results, potential_arbs, to_blacklist, memoryVars, fileVars,
                     faults, reverts>>
  BY <1>1 DEF Search
<1>4. /\ found \subseteq Arbs /\ \A arb \in found : arb.path \in Paths \ removed
      /\ \A x, y \in found : x.path = y.path => x = y
      /\ IsFiniteSet(found)
  BY FoundOnce, Zenon
<1>5. Cardinality(found) \in Nat
  BY <1>4, FS_CardinalityType
<1>6. /\ raw_arbs' \in [1..Cardinality(found) -> found]
      /\ \A i, j \in 1..Cardinality(found) : i # j => raw_arbs'[i] # raw_arbs'[j]
  BY <1>2, Zenon DEF SetToSeqs
<1>7. /\ raw_arbs' \in Seq(Arbs) /\ Len(raw_arbs') = Cardinality(found)
      /\ \A i \in 1..Len(raw_arbs') : raw_arbs'[i] \in found
  BY <1>4, <1>5, <1>6
<1>8. TypeOK'
  BY <1>0, <1>3 DEF TypeOK, memoryVars, fileVars
<1>9. SeqInv'
  <2>1. results = <<>> /\ results' = <<>> /\ blacklist = removed /\ blacklist' = blacklist
    BY <1>0, <1>3 DEF SeqInv, FileInv, memoryVars
  <2>2. batches' \in Seq(Seq(Arbs)) /\ Batched(batches', 0, raw_arbs')
    BY <1>3, <1>7, ChunksTile, Zenon
  <2>3. \A i, j \in 1..Len(raw_arbs') : raw_arbs'[i].path = raw_arbs'[j].path => i = j
    BY <1>4, <1>6, <1>7
  <2>4. \A i \in 1..Len(raw_arbs') : /\ raw_arbs'[i].path \in Paths
                                      /\ raw_arbs'[i].path \notin blacklist'
    BY <1>4, <1>7, <2>1
  <2>5. results' \in Seq(Outcomes) /\ Len(results') = 0
    BY <2>1, NothingToCall
  <2>6. \A i \in 1..Len(results') : results'[i].of = raw_arbs'[i].path
    BY <2>5
  <2>7. Batched(batches', Len(results'), raw_arbs')
    BY <2>2, <2>5
  <2>8. pc' \notin {"start", "search"}
    BY <1>3
  <2>. QED BY <1>7, <2>2, <2>3, <2>4, <2>5, <2>6, <2>7, <2>8, Zenon DEF SeqInv
<1>10. FileInv'
  BY <1>0, <1>3 DEF FileInv, memoryVars, fileVars
<1>11. CountInv'
  BY <1>0, <1>3 DEF CountInv, memoryVars, fileVars, Lost
<1>. QED BY <1>8, <1>9, <1>10, <1>11 DEF IInv

\* A result is about its arbitrage.
LEMMA OutcomeOf ==
  ASSUME NEW arb \in Arbs, NEW v \in AnyVerdict
  PROVE  Result(arb, v) \in Outcomes /\ Result(arb, v).of = arb.path
BY DEF Outcomes, Result

\* Results of the next arbitrages, put behind the others, are in their places.
LEMMA InPlace ==
  ASSUME NEW arbs, NEW old \in Seq(Outcomes), NEW new \in Seq(Outcomes),
         \A i \in 1..Len(old) : old[i].of = arbs[i].path,
         \A j \in 1..Len(new) : new[j].of = arbs[Len(old) + j].path
  PROVE  /\ old \o new \in Seq(Outcomes) /\ Len(old \o new) = Len(old) + Len(new)
         /\ \A i \in 1..Len(old \o new) : (old \o new)[i].of = arbs[i].path
<1>1. /\ Len(old) \in Nat /\ Len(new) \in Nat
      /\ old \o new \in Seq(Outcomes) /\ Len(old \o new) = Len(old) + Len(new)
  OBVIOUS
<1>2. ASSUME NEW i \in 1..(Len(old) + Len(new)) PROVE (old \o new)[i].of = arbs[i].path
  <2>1. CASE i <= Len(old)
    <3>1. (old \o new)[i] = old[i] /\ i \in 1..Len(old)
      BY <1>1, <2>1
    <3>. QED BY <3>1
  <2>2. CASE i > Len(old)
    <3>1. /\ (old \o new)[i] = new[i - Len(old)] /\ i - Len(old) \in 1..Len(new)
          /\ Len(old) + (i - Len(old)) = i
      BY <1>1, <2>2
    <3>2. new[i - Len(old)].of = arbs[Len(old) + (i - Len(old))].path
      BY <3>1
    <3>. QED BY <3>1, <3>2
  <2>. QED BY <1>1, <2>1, <2>2
<1>. QED BY <1>1, <1>2

\* The step that leaves results res and batches bs, all else being unchanged.
Checked(res, bs) ==
  /\ pc = "check" /\ results' = res /\ batches' = bs
  /\ UNCHANGED <<pc, pools, raw_arbs, potential_arbs, to_blacklist,
                 memoryVars, fileVars, faults, reverts>>

\* Such a step keeps the invariant when results and batches fit together.
LEMMA CheckedKeeps ==
  ASSUME IInv, NEW res \in Seq(Outcomes), NEW bs \in Seq(Seq(Arbs)), Checked(res, bs),
         \A i \in 1..Len(res) : res[i].of = raw_arbs[i].path,
         Batched(bs, Len(res), raw_arbs)
  PROVE  IInv'
<1>. USE DEF Checked
<1>1. TypeOK'
  BY DEF IInv, TypeOK, memoryVars, fileVars
<1>2. SeqInv'
  <2>1. /\ raw_arbs' = raw_arbs /\ results' = res /\ batches' = bs /\ pc' = "check"
        /\ blacklist' = blacklist
    BY DEF memoryVars
  <2>2. /\ raw_arbs \in Seq(Arbs)
        /\ \A i, j \in 1..Len(raw_arbs) : raw_arbs[i].path = raw_arbs[j].path => i = j
        /\ \A i \in 1..Len(raw_arbs) : /\ raw_arbs[i].path \in Paths
                                       /\ raw_arbs[i].path \notin blacklist
    BY DEF IInv, SeqInv
  <2>3. Batched(batches', Len(results'), raw_arbs')
    BY <2>1
  <2>. QED BY <2>1, <2>2, <2>3 DEF SeqInv
<1>3. FileInv'
  BY DEF IInv, FileInv, memoryVars, fileVars
<1>4. CountInv'
  BY DEF IInv, CountInv, memoryVars, fileVars, Lost
<1>. QED BY <1>1, <1>2, <1>3, <1>4 DEF IInv

\* An answered batch gives the next results.
LEMMA CallBatchKeeps == IInv /\ CallBatch => IInv'
<1>. SUFFICES ASSUME IInv, CallBatch PROVE IInv'
  OBVIOUS
<1>0. SeqInv /\ pc = "check" /\ batches # <<>>
  BY DEF IInv, CallBatch
<1>1. PICK answer \in [DOMAIN batches[1] -> UNION {Verdicts[p] : p \in Paths}] :
        results' = results \o [i \in DOMAIN answer |-> Result(batches[1][i], answer[i])]
  BY Zenon DEF CallBatch
<1>. DEFINE b == batches[1]
            new == [i \in 1..Len(b) |-> Result(b[i], answer[i])]
<1>2. PICK cuts : Tiles(cuts, batches, Len(results), raw_arbs)
  BY <1>0 DEF SeqInv, Batched
<1>3. /\ raw_arbs \in Seq(Arbs) /\ results \in Seq(Outcomes) /\ batches \in Seq(Seq(Arbs))
      /\ Len(results) \in Nat
  BY <1>0 DEF SeqInv
<1>4. /\ b \in Seq(Arbs) /\ Len(b) \in Nat
      /\ \A j \in 1..Len(b) : b[j] = raw_arbs[Len(results) + j]
  BY <1>0, <1>2, <1>3, FirstBatch
<1>5. DOMAIN b = 1..Len(b) /\ \A j \in 1..Len(b) : b[j] \in Arbs
  BY <1>4
<1>6. results' = results \o new
  BY <1>1, <1>5
<1>. HIDE DEF b
<1>7. ASSUME NEW j \in 1..Len(b)
      PROVE  new[j] \in Outcomes /\ new[j].of = raw_arbs[Len(results) + j].path
  <2>1. answer[j] \in UNION {Verdicts[p] : p \in Paths}
    BY <1>1, <1>5 DEF b
  <2>2. answer[j] \in AnyVerdict
    BY <2>1, Zenon DEF AnyVerdict
  <2>3. Result(b[j], answer[j]) \in Outcomes /\ Result(b[j], answer[j]).of = b[j].path
    BY <1>5, <2>2, OutcomeOf
  <2>. QED BY <1>4, <2>3
<1>8. new = [j \in 1..Len(b) |-> new[j]]
  OBVIOUS
<1>. HIDE DEF new
<1>9. new \in Seq(Outcomes) /\ Len(new) = Len(b)
  BY <1>4, <1>7, <1>8, IsSequence
<1>10. /\ results' \in Seq(Outcomes) /\ Len(results') = Len(results) + Len(b)
       /\ \A i \in 1..Len(results') : results'[i].of = raw_arbs[i].path
  <2>1. \A i \in 1..Len(results) : results[i].of = raw_arbs[i].path
    BY <1>0 DEF SeqInv
  <2>2. \A j \in 1..Len(new) : new[j].of = raw_arbs[Len(results) + j].path
    BY <1>7, <1>9
  <2>3. /\ results \o new \in Seq(Outcomes) /\ Len(results \o new) = Len(results) + Len(new)
        /\ \A i \in 1..Len(results \o new) : (results \o new)[i].of = raw_arbs[i].path
    BY <1>3, <1>9, <2>1, <2>2, InPlace
  <2>. QED BY <1>6, <1>9, <2>3
<1>11. Batched(batches, Len(results), raw_arbs)
  BY <1>0 DEF SeqInv
<1>12. /\ Tail(batches) \in Seq(Seq(Arbs))
       /\ Batched(Tail(batches), Len(results) + Len(b), raw_arbs)
  BY <1>0, <1>3, <1>11, TailTiles DEF b
<1>13. Checked(results', Tail(batches))
  BY DEF Checked, CallBatch
<1>. QED BY <1>10, <1>12, <1>13, CheckedKeeps, Zenon

\* A failed batch is halved, or its only arbitrage counts as failed.
LEMMA BatchFailsKeeps == IInv /\ BatchFails => IInv'
<1>. SUFFICES ASSUME IInv, BatchFails PROVE IInv'
  OBVIOUS
<1>0. SeqInv /\ pc = "check" /\ batches # <<>>
  BY DEF IInv, BatchFails
<1>1. /\ raw_arbs \in Seq(Arbs) /\ results \in Seq(Outcomes) /\ batches \in Seq(Seq(Arbs))
      /\ Len(results) \in Nat
      /\ \A i \in 1..Len(results) : results[i].of = raw_arbs[i].path
      /\ Batched(batches, Len(results), raw_arbs)
  BY <1>0 DEF SeqInv
<1>2. CASE Len(batches[1]) # 1
  <2>1. /\ Halves(batches[1]) \o Tail(batches) \in Seq(Seq(Arbs))
        /\ Batched(Halves(batches[1]) \o Tail(batches), Len(results), raw_arbs)
    BY <1>0, <1>1, <1>2, HalvesTile, Zenon
  <2>2. Checked(results, Halves(batches[1]) \o Tail(batches))
    BY <1>2, Zenon DEF Checked, BatchFails
  <2>. QED BY <1>1, <2>1, <2>2, CheckedKeeps, Zenon
<1>3. CASE Len(batches[1]) = 1
  <2>. DEFINE arb == batches[1][1]
              new == <<Result(arb, Failed)>>
  <2>1. PICK cuts : Tiles(cuts, batches, Len(results), raw_arbs)
    BY <1>1 DEF Batched
  <2>2. batches[1] \in Seq(Arbs) /\ batches[1][1] = raw_arbs[Len(results) + 1]
    <3>1. /\ batches[1] \in Seq(Arbs)
          /\ \A j \in 1..Len(batches[1]) : batches[1][j] = raw_arbs[Len(results) + j]
      BY <1>0, <1>1, <2>1, FirstBatch, Zenon
    <3>. QED BY <1>3, <3>1
  <2>3. arb \in Arbs
    BY <1>3, <2>2
  <2>4. Result(arb, Failed) \in Outcomes /\ Result(arb, Failed).of = arb.path
    BY <2>3, OutcomeOf DEF AnyVerdict
  <2>5. new \in Seq(Outcomes) /\ Len(new) = 1 /\ new[1] = Result(arb, Failed)
    BY <2>4
  <2>6. \A j \in 1..Len(new) : new[j].of = raw_arbs[Len(results) + j].path
    BY <2>2, <2>4, <2>5
  <2>7. results' = results \o new
    <3>1. results' = Append(results, Result(arb, Failed))
      BY <1>3, Zenon DEF BatchFails
    <3>. DEFINE x == Result(arb, Failed)
    <3>. HIDE DEF arb
    <3>2. x \in Outcomes
      BY <2>4
    <3>. HIDE DEF x
    <3>3. Append(results, x) = results \o <<x>>
      BY <1>1, <3>2
    <3>. QED BY <3>1, <3>3, Zenon DEF x
  <2>. HIDE DEF new
  <2>8. /\ results' \in Seq(Outcomes) /\ Len(results') = Len(results) + 1
        /\ \A i \in 1..Len(results') : results'[i].of = raw_arbs[i].path
    <3>1. /\ results \o new \in Seq(Outcomes) /\ Len(results \o new) = Len(results) + Len(new)
          /\ \A i \in 1..Len(results \o new) : (results \o new)[i].of = raw_arbs[i].path
      <4>1. \A i \in 1..Len(results) : results[i].of = raw_arbs[i].path
        BY <1>1
      <4>2. results \in Seq(Outcomes) /\ new \in Seq(Outcomes)
        BY <1>1, <2>5
      <4>. QED BY <2>6, <4>1, <4>2, InPlace
    <3>. QED BY <2>5, <2>7, <3>1, Zenon
  <2>9. /\ Tail(batches) \in Seq(Seq(Arbs))
        /\ Batched(Tail(batches), Len(results) + 1, raw_arbs)
    BY <1>0, <1>1, <1>3, TailTiles
  <2>10. Checked(results', Tail(batches))
    BY <1>3, Zenon DEF Checked, BatchFails
  <2>. QED BY <2>8, <2>9, <2>10, CheckedKeeps, Zenon
<1>. QED BY <1>2, <1>3

\* The paths that failed and those that passed are paths of the search, and no
\* path did both.
LEMMA PathsApart ==
  ASSUME TypeOK, SeqInv
  PROVE  /\ PathsWith(TRUE) \subseteq Paths /\ PathsWith(FALSE) \subseteq Paths
         /\ PathsWith(TRUE) \cap PathsWith(FALSE) = {}
         /\ pc = "check" =>
              \A p \in PathsWith(TRUE) \cup PathsWith(FALSE) : p \notin blacklist
<1>1. /\ raw_arbs \in Seq(Arbs) /\ batches \in Seq(Seq(Arbs)) /\ results \in Seq(Outcomes)
      /\ \A i, j \in 1..Len(raw_arbs) : raw_arbs[i].path = raw_arbs[j].path => i = j
      /\ \A i \in 1..Len(raw_arbs) : raw_arbs[i].path \in Paths
      /\ pc = "check" => \A i \in 1..Len(raw_arbs) : raw_arbs[i].path \notin blacklist
      /\ Batched(batches, Len(results), raw_arbs)
  BY Zenon DEF SeqInv
<1>2. Len(results) <= Len(raw_arbs)
  <2>1. Len(batches) \in Nat
    BY <1>1
  <2>. QED BY <1>1, <2>1, NoMoreResults
<1>3. Len(results) \in Nat /\ Len(raw_arbs) \in Nat /\ DOMAIN results = 1..Len(results)
  BY <1>1
<1>4. \A i \in DOMAIN results : i \in 1..Len(raw_arbs)
  BY <1>2, <1>3
<1>. QED BY <1>1, <1>4, Zenon DEF PathsWith

\* What the handling of the results makes of the counts.
LEMMA CountsMove ==
  ASSUME IInv, Handle
  PROVE  /\ pre_blacklist' \in Counts
         /\ to_blacklist' \subseteq Paths /\ blacklist' = blacklist \cup to_blacklist'
         /\ DOMAIN pre_blacklist' \cap blacklist' = {}
         /\ \A p \in to_blacklist' : /\ p \in PathsWith(FALSE) /\ p \in DOMAIN pre_blacklist
                                     /\ pre_blacklist[p] + 1 >= Target
         /\ \A p \in DOMAIN pre_blacklist' :
              /\ p \in Paths /\ p \notin PathsWith(TRUE) /\ p \notin to_blacklist'
              /\ pre_blacklist'[p] = IF p \in PathsWith(FALSE)
                                     THEN Count(pre_blacklist, p) + 1 ELSE pre_blacklist[p]
              /\ p \notin PathsWith(FALSE) => p \in DOMAIN pre_blacklist
         /\ \A p \in Paths : (p \notin PathsWith(TRUE) /\ p \notin to_blacklist')
              => (p \in DOMAIN pre_blacklist' <=>
                    p \in PathsWith(FALSE) \/ p \in DOMAIN pre_blacklist)
<1>. DEFINE pre == pre_blacklist
            T == PathsWith(TRUE)
            F == PathsWith(FALSE)
<1>1. TypeOK /\ SeqInv /\ FileInv /\ pc = "check"
  BY DEF IInv, Handle
<1>2. T \subseteq Paths /\ F \subseteq Paths /\ T \cap F = {}
      /\ \A p \in T \cup F : p \notin blacklist
  BY <1>1, PathsApart, Zenon
<1>3. /\ DOMAIN pre \subseteq Paths
      /\ \A p \in DOMAIN pre : pre[p] \in 1..(Target - 1)
      /\ DOMAIN pre \cap blacklist = {}
  BY <1>1, CountsAre DEF TypeOK, FileInv
<1>4. to_blacklist' = {p \in F \cap DOMAIN pre : pre[p] + 1 >= BlacklistTarget}
      /\ blacklist' = blacklist \cup to_blacklist'
  BY Zenon DEF Handle, ReachTarget
<1>5. pre' = [p \in ((DOMAIN pre \cup F) \ to_blacklist') \ T |->
                IF p \notin F THEN pre[p]
                ELSE IF p \in DOMAIN pre THEN pre[p] + 1 ELSE 1]
  <2>1. pre' = Forgiven(Without(Counted(pre), to_blacklist'))
    BY Zenon DEF Handle
  <2>. DEFINE c == [p \in DOMAIN pre \cup F |->
                      IF p \notin F THEN pre[p]
                      ELSE IF p \in DOMAIN pre THEN pre[p] + 1 ELSE 1]
              w == [p \in (DOMAIN pre \cup F) \ to_blacklist' |-> c[p]]
  <2>2. Counted(pre) = c /\ DOMAIN c = DOMAIN pre \cup F
    BY DEF Counted
  <2>3. Without(c, to_blacklist') = w /\ DOMAIN w = (DOMAIN pre \cup F) \ to_blacklist'
    BY <2>2 DEF Without
  <2>4. Forgiven(w) = [p \in ((DOMAIN pre \cup F) \ to_blacklist') \ T |-> w[p]]
    BY <2>3 DEF Without, Forgiven
  <2>. QED BY <2>1, <2>2, <2>3, <2>4
<1>. HIDE DEF T, F
<1>6. /\ DOMAIN pre' = ((DOMAIN pre \cup F) \ to_blacklist') \ T
      /\ pre' = [p \in DOMAIN pre' |-> pre'[p]]
      /\ \A p \in DOMAIN pre' : pre'[p] = IF p \notin F THEN pre[p]
                                ELSE IF p \in DOMAIN pre THEN pre[p] + 1 ELSE 1
  BY <1>5
<1>7. ASSUME NEW p \in to_blacklist'
      PROVE p \in F /\ p \in DOMAIN pre /\ pre[p] + 1 >= Target
  <2>1. p \in F /\ p \in DOMAIN pre /\ pre[p] + 1 >= BlacklistTarget
    BY <1>4
  <2>. QED BY <1>3, <2>1, Numbers, TargetAssumption DEF Target, Larger
<1>8. ASSUME NEW p \in DOMAIN pre'
      PROVE /\ pre'[p] \in 1..(Target - 1) /\ p \in Paths /\ p \notin T /\ p \notin to_blacklist'
            /\ pre'[p] = IF p \in F THEN Count(pre, p) + 1 ELSE pre[p]
            /\ p \notin F => p \in DOMAIN pre
            /\ p \notin blacklist'
  <2>1. /\ p \in DOMAIN pre \cup F /\ p \notin to_blacklist' /\ p \notin T
        /\ pre'[p] = IF p \notin F THEN pre[p] ELSE IF p \in DOMAIN pre THEN pre[p] + 1 ELSE 1
    BY <1>6
  <2>2. p \in Paths /\ p \notin blacklist'
    BY <1>2, <1>3, <1>4, <2>1 DEF F
  <2>3. p \in F /\ p \in DOMAIN pre => pre[p] + 1 < BlacklistTarget
    BY <1>3, <1>4, <2>1, TargetAssumption
  <2>. QED BY <1>3, <2>1, <2>2, <2>3, Numbers, TargetAssumption DEF Count
<1>9. pre' \in Counts
  BY <1>6, <1>8, CountsAre
<1>10. to_blacklist' \subseteq Paths
  BY <1>3, <1>7
<1>11. DOMAIN pre' \cap blacklist' = {}
  BY <1>8
<1>12. ASSUME NEW p \in Paths, p \notin T, p \notin to_blacklist'
       PROVE p \in DOMAIN pre' <=> p \in F \/ p \in DOMAIN pre
  BY <1>6, <1>12
<1>. QED BY <1>4, <1>7, <1>8, <1>9, <1>10, <1>11, <1>12 DEF F, T

\* What becomes of the history.
LEMMA RevertsMove ==
  ASSUME TypeOK, Handle, PathsWith(TRUE) \cap PathsWith(FALSE) = {}
  PROVE  /\ reverts' \in [Paths -> 0..MaxReverts]
         /\ \A p \in Paths :
              /\ p \in PathsWith(TRUE) => reverts'[p] = 0
              /\ p \in PathsWith(FALSE) => reverts'[p] = Smaller(reverts[p] + 1, MaxReverts)
              /\ p \notin PathsWith(TRUE) /\ p \notin PathsWith(FALSE)
                   => reverts'[p] = reverts[p]
<1>. DEFINE T == PathsWith(TRUE)
            F == PathsWith(FALSE)
<1>1. reverts' = [p \in Paths |->
                    CASE p \in T -> 0
                      [] p \in F -> Smaller(reverts[p] + 1, MaxReverts)
                      [] OTHER -> reverts[p]]
  BY Zenon DEF Handle
<1>2. T \cap F = {} /\ reverts \in [Paths -> 0..MaxReverts]
  BY DEF TypeOK
<1>. HIDE DEF T, F
<1>3. \A p \in Paths : /\ p \in T => reverts'[p] = 0
                       /\ p \in F => reverts'[p] = Smaller(reverts[p] + 1, MaxReverts)
                       /\ p \notin T /\ p \notin F => reverts'[p] = reverts[p]
  BY <1>1, <1>2
<1>4. \A p \in Paths : reverts'[p] \in 0..MaxReverts
  <2>1. \A n \in 0..MaxReverts : Smaller(n + 1, MaxReverts) \in 0..MaxReverts
    BY Numbers DEF Smaller
  <2>. QED BY <1>2, <1>3, <2>1, Numbers
<1>5. reverts' = [p \in Paths |-> reverts'[p]]
  BY <1>1
<1>. QED BY <1>3, <1>4, <1>5 DEF T, F

\* The results are handled: counts, blacklist and failures move together.
LEMMA HandleKeeps == IInv /\ Handle => IInv'
<1>. SUFFICES ASSUME IInv, Handle PROVE IInv'
  OBVIOUS
<1>. DEFINE T == PathsWith(TRUE)
            F == PathsWith(FALSE)
<1>0. /\ TypeOK /\ SeqInv /\ FileInv /\ CountInv
      /\ pc = "check" /\ pc' = "execute"
      /\ UNCHANGED <<pools, raw_arbs, batches, results, removed, fileVars, faults>>
  BY DEF IInv, Handle
<1>1. /\ T \subseteq Paths /\ F \subseteq Paths /\ T \cap F = {}
      /\ \A p \in T \cup F : p \notin blacklist
  BY <1>0, PathsApart, Zenon
<1>2. /\ pre_blacklist' \in Counts
      /\ to_blacklist' \subseteq Paths /\ blacklist' = blacklist \cup to_blacklist'
      /\ DOMAIN pre_blacklist' \cap blacklist' = {}
      /\ \A p \in to_blacklist' : /\ p \in F /\ p \in DOMAIN pre_blacklist
                                  /\ pre_blacklist[p] + 1 >= Target
      /\ \A p \in DOMAIN pre_blacklist' :
           /\ p \in Paths /\ p \notin T /\ p \notin to_blacklist'
           /\ pre_blacklist'[p] = IF p \in F THEN Count(pre_blacklist, p) + 1
                                  ELSE pre_blacklist[p]
           /\ p \notin F => p \in DOMAIN pre_blacklist
      /\ \A p \in Paths : (p \notin T /\ p \notin to_blacklist')
           => (p \in DOMAIN pre_blacklist' <=> p \in F \/ p \in DOMAIN pre_blacklist)
  BY CountsMove, Zenon
<1>3. /\ reverts' \in [Paths -> 0..MaxReverts]
      /\ \A p \in Paths : /\ p \in T => reverts'[p] = 0
                          /\ p \in F => reverts'[p] = Smaller(reverts[p] + 1, MaxReverts)
                          /\ p \notin T /\ p \notin F => reverts'[p] = reverts[p]
  BY <1>0, <1>1, RevertsMove, Zenon
<1>. HIDE DEF T, F
<1>4. TypeOK'
  BY <1>0, <1>2, <1>3 DEF TypeOK, fileVars
<1>5. SeqInv'
  BY <1>0 DEF SeqInv
<1>6. FileInv'
  <2>1. /\ blacklist = saved_blacklist /\ removed = blacklist
        /\ DOMAIN saved_pre \cap saved_blacklist = {}
    BY <1>0 DEF FileInv
  <2>2. /\ saved_blacklist' = saved_blacklist /\ saved_pre' = saved_pre /\ removed' = removed
    BY <1>0 DEF fileVars
  <2>. QED BY <1>0, <1>2, <2>1, <2>2 DEF FileInv
<1>7. CountInv'
  <2>0. Lost \in Nat /\ Lost' = Lost /\ saved_blacklist' = saved_blacklist
        /\ saved_blacklist = blacklist
    BY <1>0, LostGrows DEF Lost, TypeOK, fileVars, FileInv
  <2>1. \A p \in DOMAIN pre_blacklist : pre_blacklist[p] \in 1..(Target - 1)
    BY <1>0, CountsAre DEF TypeOK
  <2>2. /\ \A p \in blacklist : reverts[p] >= Target
        /\ \A p \in Paths :
             /\ reverts[p] \in 0..MaxReverts
             /\ p \in DOMAIN pre_blacklist => reverts[p] >= pre_blacklist[p]
             /\ p \notin blacklist => reverts[p] <= Count(pre_blacklist, p) + Lost
    BY <1>0 DEF CountInv, TypeOK
  <2>3. ASSUME NEW p \in Paths
        PROVE  /\ reverts'[p] \in 0..MaxReverts
               /\ Count(pre_blacklist, p) \in 0..(Target - 1)
               /\ p \in F => /\ reverts'[p] <= reverts[p] + 1
                             /\ reverts'[p] >= reverts[p] + 1 \/ reverts'[p] = MaxReverts
    BY <1>3, <2>1, <2>2, Numbers DEF Count, Smaller
  <2>4. ASSUME NEW p \in blacklist' PROVE reverts'[p] >= Target
    <3>1. CASE p \in to_blacklist'
      <4>1. p \in Paths /\ p \in F /\ reverts[p] >= pre_blacklist[p]
            /\ pre_blacklist[p] + 1 >= Target /\ pre_blacklist[p] \in 1..(Target - 1)
        BY <1>2, <2>1, <2>2, <3>1
      <4>. QED BY <2>2, <2>3, <4>1, Numbers
    <3>2. CASE p \in blacklist /\ p \notin to_blacklist'
      <4>1. p \in Paths /\ p \notin F /\ p \notin T /\ reverts[p] >= Target
        BY <1>0, <1>1, <2>2, <3>2 DEF TypeOK
      <4>. QED BY <1>3, <4>1
    <3>. QED BY <1>2, <3>1, <3>2
  <2>5. ASSUME NEW p \in DOMAIN pre_blacklist' PROVE reverts'[p] >= pre_blacklist'[p]
    <3>1. CASE p \in F
      <4>1. /\ p \in Paths /\ pre_blacklist'[p] = Count(pre_blacklist, p) + 1
            /\ Count(pre_blacklist, p) <= reverts[p]
        BY <1>2, <2>2, <3>1, Numbers DEF Count
      <4>2. pre_blacklist'[p] \in 1..(Target - 1)
        BY <1>2, CountsAre
      <4>. QED BY <2>2, <2>3, <3>1, <4>1, <4>2, Numbers
    <3>2. CASE p \notin F
      BY <1>2, <1>3, <2>2, <3>2
    <3>. QED BY <3>1, <3>2
  <2>6. ASSUME NEW p \in Paths, p \notin blacklist
        PROVE  /\ reverts'[p] <= Target + Lost
               /\ p \notin blacklist' => reverts'[p] <= Count(pre_blacklist', p) + Lost
    <3>1. reverts[p] <= Count(pre_blacklist, p) + Lost /\ reverts[p] \in 0..MaxReverts
          /\ Count(pre_blacklist, p) \in 0..(Target - 1)
      BY <2>2, <2>3, <2>6
    <3>2. p \notin blacklist' => Count(pre_blacklist', p) \in Nat
      <4>1. \A q \in DOMAIN pre_blacklist' : pre_blacklist'[q] \in 1..(Target - 1)
        BY <1>2, CountsAre
      <4>. QED BY <4>1, Numbers DEF Count
    <3>3. CASE p \in T
      BY <1>3, <2>0, <3>2, <3>3, Numbers
    <3>4. CASE p \in F
      <4>1. reverts'[p] <= reverts[p] + 1 /\ reverts'[p] \in 0..MaxReverts
        BY <2>3, <3>4
      <4>2. p \notin blacklist' => Count(pre_blacklist', p) = Count(pre_blacklist, p) + 1
        <5>1. SUFFICES ASSUME p \notin blacklist'
                       PROVE  Count(pre_blacklist', p) = Count(pre_blacklist, p) + 1
          OBVIOUS
        <5>2. p \notin T /\ p \notin to_blacklist'
          BY <1>1, <1>2, <3>4, <5>1
        <5>3. p \in DOMAIN pre_blacklist'
          BY <1>2, <3>4, <5>2
        <5>. QED BY <1>2, <3>4, <5>3, Zenon DEF Count
      <4>. QED BY <2>0, <3>1, <4>1, <4>2, Numbers
    <3>5. CASE p \notin T /\ p \notin F
      <4>1. p \notin to_blacklist'
        BY <1>2, <3>5
      <4>2. Count(pre_blacklist', p) = Count(pre_blacklist, p)
        <5>1. p \in DOMAIN pre_blacklist' <=> p \in DOMAIN pre_blacklist
          BY <1>2, <3>5, <4>1
        <5>2. p \in DOMAIN pre_blacklist' => pre_blacklist'[p] = pre_blacklist[p]
          BY <1>2, <3>5
        <5>. QED BY <5>1, <5>2, Zenon DEF Count
      <4>3. reverts'[p] = reverts[p]
        BY <1>3, <3>5
      <4>. QED BY <2>0, <3>1, <4>2, <4>3, Numbers
    <3>. QED BY <3>3, <3>4, <3>5
  <2>. QED BY <1>0, <1>2, <2>0, <2>4, <2>5, <2>6 DEF CountInv
<1>. QED BY <1>4, <1>5, <1>6, <1>7 DEF IInv

\* The steps that touch neither counts nor files.
LEMMA ExecuteKeeps == IInv /\ Execute => IInv'
<1>. SUFFICES ASSUME IInv, Execute PROVE IInv'
  OBVIOUS
<1>. USE DEF IInv, Execute, Cleared, memoryVars, fileVars
<1>1. TypeOK'
  BY DEF TypeOK
<1>2. SeqInv'
  BY NothingToCall DEF SeqInv
<1>3. FileInv'
  BY DEF FileInv
<1>4. CountInv'
  BY DEF CountInv, Lost
<1>. QED BY <1>1, <1>2, <1>3, <1>4

\* Saving the counts, then the blacklist, then telling the workers.
LEMMA SavingKeeps == IInv /\ (SavePre \/ SaveBlacklist \/ RemoveBlacklisted) => IInv'
<1>. SUFFICES ASSUME IInv, SavePre \/ SaveBlacklist \/ RemoveBlacklisted PROVE IInv'
  OBVIOUS
<1>. USE DEF IInv, SavePre, SaveBlacklist, RemoveBlacklisted, blockVars, memoryVars, fileVars
<1>1. TypeOK'
  BY DEF TypeOK
<1>2. SeqInv'
  BY DEF SeqInv
<1>3. FileInv'
  BY DEF FileInv
<1>4. CountInv'
  <2>1. saved_blacklist \subseteq saved_blacklist' /\ saved_blacklist' \subseteq blacklist
    BY DEF FileInv
  <2>2. pc # "start" /\ pc' # "start"
    OBVIOUS
  <2>3. UNCHANGED <<blacklist, pre_blacklist, reverts, faults>>
    OBVIOUS
  <2>. QED BY <2>1, <2>2, <2>3 DEF CountInv, Lost
<1>. QED BY <1>1, <1>2, <1>3, <1>4

\* The counts are saved once a minute.
LEMMA TimerKeeps == IInv /\ Timer => IInv'
<1>. SUFFICES ASSUME IInv, Timer PROVE IInv'
  OBVIOUS
<1>. USE DEF IInv, Timer, Cleared, memoryVars
<1>1. TypeOK'
  BY DEF TypeOK
<1>2. SeqInv'
  BY NothingToCall DEF SeqInv
<1>3. FileInv'
  BY DEF FileInv
<1>4. CountInv'
  BY DEF CountInv, Lost
<1>. QED BY <1>1, <1>2, <1>3, <1>4

\* A fault may lose the counts since the last save, never more than the target.
LEMMA CrashKeeps == IInv /\ Crash => IInv'
<1>. SUFFICES ASSUME IInv, Crash PROVE IInv'
  OBVIOUS
<1>. USE DEF IInv, Crash, Cleared, memoryVars, fileVars
<1>1. TypeOK'
  BY FaultsAssumption DEF TypeOK
<1>2. SeqInv'
  BY NothingToCall DEF SeqInv
<1>3. FileInv'
  BY DEF FileInv
<1>4. CountInv'
  <2>1. faults \in Nat /\ Lost \in Nat /\ Lost' = Lost + Target
    BY LostGrows DEF Lost, TypeOK
  <2>2. \A p \in DOMAIN saved_pre : saved_pre[p] \in 1..(Target - 1)
    BY CountsAre DEF TypeOK
  <2>3. ASSUME NEW p \in Paths, p \notin saved_blacklist
        PROVE  reverts[p] <= Count(saved_pre, p) + Lost'
    <3>1. reverts[p] <= Target + Lost /\ reverts[p] \in 0..MaxReverts
      BY <2>3 DEF CountInv, TypeOK
    <3>. QED BY <2>1, <2>2, <3>1, Numbers DEF Count
  <2>. QED BY <2>3 DEF CountInv
<1>. QED BY <1>1, <1>2, <1>3, <1>4

\* Every step keeps the invariant.
LEMMA StepKeeps == IInv /\ [Next]_vars => IInv'
<1>. SUFFICES ASSUME IInv, [Next]_vars PROVE IInv'
  OBVIOUS
<1>1. CASE UNCHANGED vars
  <2>. USE <1>1 DEF IInv, vars, blockVars, memoryVars, fileVars
  <2>1. TypeOK'
    BY DEF TypeOK
  <2>2. SeqInv'
    BY DEF SeqInv
  <2>3. FileInv'
    BY DEF FileInv
  <2>4. CountInv'
    BY DEF CountInv, Lost
  <2>. QED BY <2>1, <2>2, <2>3, <2>4
<1>2. CASE Next
  BY <1>2, StartKeeps, SearchKeeps, CallBatchKeeps, BatchFailsKeeps, HandleKeeps,
     ExecuteKeeps, SavingKeeps, TimerKeeps, CrashKeeps, Zenon DEF Next
<1>. QED BY <1>1, <1>2

\* The inductive invariant: the batches tile the arbitrages without a result,
\* memory and files agree as far as the iteration has come, and each path failed
\* as often as its count says, up to the target for each fault.
THEOREM InvariantHolds == Spec => []IInv
BY Initially, StepKeeps, PTL DEF Spec

-----------------------------------------------------------------------------
(* What it says of the program                                               *)

\* The type invariant.
THEOREM TypeCorrect == Spec => []TypeOK
<1>1. IInv => TypeOK
  BY DEF IInv
<1>. QED BY <1>1, InvariantHolds, PTL

\* However batches fail and are halved, each result of batch_check stands at the
\* place of its arbitrage, and none is missing when they are handled.
THEOREM ResultsStayInPlace == Spec => []ResultsInPlace
<1>1. IInv => ResultsInPlace
  <2>. SUFFICES ASSUME SeqInv PROVE ResultsInPlace
    BY DEF IInv
  <2>1. /\ results \in Seq(Outcomes)
        /\ \A i \in 1..Len(results) : results[i].of = raw_arbs[i].path
        /\ Batched(batches, Len(results), raw_arbs)
    BY DEF SeqInv
  <2>2. DOMAIN results = 1..Len(results)
    BY <2>1
  <2>3. batches = <<>> => Len(results) = Len(raw_arbs)
    BY <2>1, AllCalled
  <2>. QED BY <2>1, <2>2, <2>3 DEF ResultsInPlace
<1>. QED BY <1>1, InvariantHolds, PTL

\* The calls of batch_check at most: a tree of halves over the arbitrages without
\* a result, whose leaves are single arbitrages.
CallsLeft == 2 * (Len(raw_arbs) - Len(results)) - Len(batches)

\* As no batch is empty there are no more of them than arbitrages.
LEMMA NoMoreBatches ==
  ASSUME NEW arbs, NEW bs, Len(bs) \in Nat, NEW from \in Nat, Len(arbs) \in Nat,
         \A k \in 1..Len(bs) : Len(bs[k]) \in Nat, Batched(bs, from, arbs)
  PROVE  Len(bs) <= Len(arbs) - from
<1>. DEFINE n == Len(bs)
<1>1. PICK cuts : Tiles(cuts, bs, from, arbs)
  BY DEF Batched
<1>2. /\ cuts \in [1..(n + 1) -> Nat] /\ cuts[1] = from /\ cuts[n + 1] = Len(arbs)
      /\ \A k \in 1..n : Len(bs[k]) > 0 /\ cuts[k + 1] = cuts[k] + Len(bs[k])
  BY <1>1 DEF Tiles
<1>. HIDE DEF n
<1>. DEFINE G == {k \in 1..(n + 1) : cuts[k] >= from + k - 1}
<1>3. n \in Nat
  BY DEF n
<1>4. 1 \in G
  BY <1>2, <1>3
<1>5. ASSUME NEW k \in 1..((n + 1) - 1), k \in G
      PROVE  k + 1 \in G
  <2>1. k \in 1..n /\ k \in 1..(n + 1) /\ k + 1 \in 1..(n + 1)
    BY <1>3
  <2>2. /\ cuts[k] >= from + k - 1 /\ cuts[k] \in Nat
        /\ cuts[k + 1] = cuts[k] + Len(bs[k]) /\ Len(bs[k]) > 0 /\ Len(bs[k]) \in Nat
    BY <1>2, <1>5, <2>1 DEF n
  <2>3. cuts[k + 1] >= from + (k + 1) - 1
    BY <2>1, <2>2
  <2>. QED BY <2>1, <2>3
<1>. HIDE DEF G
<1>6. \A k \in 1..(n + 1) : k \in G
  <2>1. n + 1 \in Nat /\ 1 \in Nat
    BY <1>3
  <2>2. \A k \in 1..((n + 1) - 1) : k \in G => k + 1 \in G
    BY <1>5
  <2>. QED BY <1>4, <2>1, <2>2, Induction, Zenon
<1>7. cuts[n + 1] >= from + (n + 1) - 1
  BY <1>3, <1>6 DEF G
<1>. QED BY <1>2, <1>3, <1>7 DEF n

\* There are as many as the invariant says.
LEMMA CallsLeftAre ==
  IInv => /\ Len(raw_arbs) \in Nat /\ Len(results) \in Nat /\ Len(batches) \in Nat
          /\ CallsLeft \in Nat /\ CallsLeft <= 2 * Len(raw_arbs) - Len(batches)
<1>. SUFFICES ASSUME IInv
     PROVE  /\ Len(raw_arbs) \in Nat /\ Len(results) \in Nat /\ Len(batches) \in Nat
            /\ CallsLeft \in Nat /\ CallsLeft <= 2 * Len(raw_arbs) - Len(batches)
  OBVIOUS
<1>1. /\ raw_arbs \in Seq(Arbs) /\ batches \in Seq(Seq(Arbs)) /\ results \in Seq(Outcomes)
      /\ Batched(batches, Len(results), raw_arbs)
  BY DEF IInv, SeqInv
<1>2. Len(raw_arbs) \in Nat /\ Len(results) \in Nat /\ Len(batches) \in Nat
  BY <1>1
<1>3. \A k \in 1..Len(batches) : Len(batches[k]) \in Nat
  <2>1. ASSUME NEW k \in 1..Len(batches) PROVE Len(batches[k]) \in Nat
    <3>1. batches[k] \in Seq(Arbs)
      BY <1>1
    <3>. QED BY <3>1
  <2>. QED BY <2>1
<1>4. Len(batches) <= Len(raw_arbs) - Len(results)
  BY <1>1, <1>2, <1>3, NoMoreBatches, Zenon
<1>. DEFINE a == Len(raw_arbs)
            r == Len(results)
            b == Len(batches)
<1>5. a \in Nat /\ r \in Nat /\ b \in Nat /\ b <= a - r /\ CallsLeft = 2 * (a - r) - b
  BY <1>2, <1>4 DEF CallsLeft
<1>. HIDE DEF a, r, b
<1>6. CallsLeft \in Nat /\ CallsLeft <= 2 * a - b
  BY <1>5
<1>. QED BY <1>2, <1>6 DEF a, b

\* An answer takes its batch away, with an arbitrage at least.
LEMMA AnswerLeavesFewer ==
  ASSUME IInv, CallBatch
  PROVE  CallsLeft' < CallsLeft
<1>0. SeqInv /\ batches # <<>> /\ raw_arbs' = raw_arbs /\ batches' = Tail(batches)
  BY DEF IInv, CallBatch
<1>1. PICK answer \in [DOMAIN batches[1] -> UNION {Verdicts[p] : p \in Paths}] :
        results' = results \o [i \in DOMAIN answer |-> Result(batches[1][i], answer[i])]
  BY Zenon DEF CallBatch
<1>2. /\ raw_arbs \in Seq(Arbs) /\ batches \in Seq(Seq(Arbs)) /\ results \in Seq(Outcomes)
      /\ Batched(batches, Len(results), raw_arbs) /\ Len(results) \in Nat
  BY <1>0 DEF SeqInv
<1>3. PICK cuts : Tiles(cuts, batches, Len(results), raw_arbs)
  BY <1>2 DEF Batched
<1>. DEFINE b == batches[1]
            new == [i \in DOMAIN answer |-> Result(b[i], answer[i])]
            any == {Result(b[i], answer[i]) : i \in DOMAIN answer}
<1>4. b \in Seq(Arbs) /\ Len(b) \in Nat /\ Len(b) > 0
  BY <1>0, <1>2, <1>3, FirstBatch
<1>5. DOMAIN answer = 1..Len(b)
  BY <1>1, <1>4
<1>6. new \in Seq(any) /\ Len(new) = Len(b)
  <2>1. new = [i \in 1..Len(b) |-> new[i]] /\ \A i \in 1..Len(b) : new[i] \in any
    BY <1>5
  <2>. HIDE DEF new, any, b
  <2>. QED BY <1>4, <2>1, IsSequence
<1>7. Len(results') = Len(results) + Len(b)
  <2>. DEFINE S == Outcomes \cup any
  <2>1. results \in Seq(S) /\ new \in Seq(S)
    <3>. HIDE DEF any, new
    <3>. QED BY <1>2, <1>6
  <2>2. results' = results \o new
    BY <1>1
  <2>. HIDE DEF S, new, b, any
  <2>3. Len(results \o new) = Len(results) + Len(new)
    BY <2>1, ConcatProperties
  <2>. QED BY <1>6, <2>2, <2>3
<1>8. Len(batches') = Len(batches) - 1 /\ Len(batches) \in Nat
  BY <1>0, <1>2
<1>9. Len(raw_arbs) \in Nat
  BY <1>2
<1>. DEFINE x == Len(raw_arbs)
            y == Len(results)
            z == Len(batches)
            m == Len(b)
<1>10. /\ x \in Nat /\ y \in Nat /\ z \in Nat /\ m \in Nat /\ m > 0
       /\ CallsLeft = 2 * (x - y) - z
       /\ CallsLeft' = 2 * (x - (y + m)) - (z - 1)
  BY <1>0, <1>2, <1>4, <1>7, <1>8, <1>9 DEF CallsLeft
<1>. HIDE DEF x, y, z, m
<1>. QED BY <1>10

\* A failure leaves two batches for one, and never a whole one: a single arbitrage
\* has its result.
LEMMA FailureLeavesFewer ==
  ASSUME IInv, BatchFails
  PROVE  CallsLeft' < CallsLeft
<1>0. SeqInv /\ batches # <<>> /\ raw_arbs' = raw_arbs
  BY DEF IInv, BatchFails
<1>1. /\ raw_arbs \in Seq(Arbs) /\ batches \in Seq(Seq(Arbs)) /\ results \in Seq(Outcomes)
      /\ Len(raw_arbs) \in Nat /\ Len(batches) \in Nat /\ Len(results) \in Nat
      /\ batches[1] \in Seq(Arbs)
  BY <1>0 DEF SeqInv
<1>. DEFINE x == Len(raw_arbs)
            y == Len(results)
            z == Len(batches)
<1>2. CASE Len(batches[1]) = 1
  <2>1. results' = Append(results, Result(batches[1][1], Failed)) /\ batches' = Tail(batches)
    BY <1>2, Zenon DEF BatchFails
  <2>2. Len(results') = y + 1
    <3>. DEFINE res == Result(batches[1][1], Failed)
    <3>. HIDE DEF res
    <3>1. results' = Append(results, res)
      BY <2>1 DEF res
    <3>. QED BY <1>1, <3>1
  <2>3. Len(batches') = z - 1
    BY <1>0, <1>1, <2>1
  <2>4. /\ x \in Nat /\ y \in Nat /\ z \in Nat /\ CallsLeft = 2 * (x - y) - z
        /\ CallsLeft' = 2 * (x - (y + 1)) - (z - 1)
    BY <1>0, <1>1, <2>2, <2>3 DEF CallsLeft
  <2>. HIDE DEF x, y, z
  <2>. QED BY <2>4
<1>3. CASE Len(batches[1]) # 1
  <2>. DEFINE two == Halves(batches[1])
  <2>1. results' = results /\ batches' = two \o Tail(batches)
    BY <1>3, Zenon DEF BatchFails
  <2>2. two \in Seq(Seq(Arbs)) /\ Len(two) = 2
    <3>. DEFINE b == batches[1]
                half == Len(b) \div 2
    <3>1. half \in Nat /\ Len(b) \in Nat /\ half <= Len(b)
      <4>1. Len(b) \in Nat
        BY <1>1
      <4>2. \A c \in Nat : c \div 2 \in Nat /\ c \div 2 <= c
        OBVIOUS
      <4>. QED BY <4>1, <4>2
    <3>2. two = <<SubSeq(b, 1, half), SubSeq(b, half + 1, Len(b))>>
      BY DEF Halves
    <3>. HIDE DEF b, half, two
    <3>3. SubSeq(b, 1, half) \in Seq(Arbs) /\ SubSeq(b, half + 1, Len(b)) \in Seq(Arbs)
      BY <1>1, <3>1 DEF b
    <3>. QED BY <3>2, <3>3
  <2>. HIDE DEF two
  <2>3. Tail(batches) \in Seq(Seq(Arbs)) /\ Len(Tail(batches)) = z - 1
    BY <1>0, <1>1
  <2>4. Len(batches') = z + 1
    <3>. DEFINE S == Seq(Arbs)
                rest == Tail(batches)
    <3>1. two \in Seq(S) /\ rest \in Seq(S) /\ Len(rest) = z - 1 /\ z \in Nat
      BY <1>1, <2>2, <2>3
    <3>2. batches' = two \o rest
      BY <2>1
    <3>. HIDE DEF S, rest, z
    <3>3. Len(two \o rest) = Len(two) + Len(rest)
      BY <3>1, ConcatProperties
    <3>. QED BY <2>2, <3>1, <3>2, <3>3
  <2>5. /\ x \in Nat /\ y \in Nat /\ z \in Nat /\ CallsLeft = 2 * (x - y) - z
        /\ CallsLeft' = 2 * (x - y) - (z + 1)
    BY <1>0, <1>1, <2>1, <2>4 DEF CallsLeft
  <2>. HIDE DEF x, y, z
  <2>. QED BY <2>5
<1>. QED BY <1>2, <1>3

\* A check comes to its end: the n arbitrages of a search take at most 2 n - 1 calls
\* of the contract, whatever batches fail, since batch_check halves what has more
\* than one arbitrage, never makes an empty batch, and does not call again what
\* fails on its own.
THEOREM ChecksRunOut ==
  Spec => [][/\ CallsLeft \in Nat
             /\ pc = "search" /\ pc' = "check" => CallsLeft' < 2 * Len(raw_arbs')
             /\ pc = "check" /\ pc' = "check" => CallsLeft' < CallsLeft]_vars
<1>0. (IInv => /\ Len(raw_arbs) \in Nat /\ Len(results) \in Nat /\ Len(batches) \in Nat
                /\ CallsLeft \in Nat
                /\ CallsLeft <= 2 * Len(raw_arbs) - Len(batches))'
  BY CallsLeftAre, PTL
<1>1. ASSUME IInv, IInv', Search, pc' = "check"
      PROVE  CallsLeft' < 2 * Len(raw_arbs')
  <2>1. PICK market \in Markets :
          \E found \in SUBSET UNION {calculate_profitability(market, p) :
                                     p \in Paths \ removed} :
            /\ raw_arbs' \in SetToSeqs(found)
            /\ pc' = IF found = {} THEN "timer" ELSE "check"
    BY <1>1, Zenon DEF Search
  <2>2. PICK found \in SUBSET UNION {calculate_profitability(market, p) :
                                     p \in Paths \ removed} :
          /\ raw_arbs' \in SetToSeqs(found)
          /\ pc' = IF found = {} THEN "timer" ELSE "check"
    BY <2>1, Zenon
  <2>3. IsFiniteSet(found)
    BY FoundOnce, Zenon
  <2>4. found # {}
    BY <1>1, <2>2
  <2>5. Cardinality(found) \in Nat /\ Cardinality(found) # 0
    BY <2>3, <2>4, FS_CardinalityType, FS_EmptySet
  <2>6. DOMAIN raw_arbs' = 1..Cardinality(found)
    BY <2>2, Zenon DEF SetToSeqs
  <2>7. Len(raw_arbs') # 0
    <3>1. raw_arbs' \in Seq(Arbs)
      BY <1>1 DEF IInv, SeqInv
    <3>. QED BY <2>5, <2>6, <3>1
  <2>8. results' = <<>>
    BY <1>1 DEF IInv, SeqInv, Search
  <2>9. Batched(batches', 0, raw_arbs')
    <3>1. Batched(batches', Len(results'), raw_arbs')
      BY <1>1 DEF IInv, SeqInv
    <3>2. Len(results') = 0
      BY <2>8
    <3>. QED BY <3>1, <3>2
  <2>10. batches' # <<>>
    BY <2>7, <2>9, AllCalled
  <2>11. /\ Len(raw_arbs') \in Nat /\ Len(batches') \in Nat
         /\ CallsLeft' \in Nat /\ CallsLeft' <= 2 * Len(raw_arbs') - Len(batches')
    BY <1>0, <1>1
  <2>12. Len(batches') > 0
    <3>1. batches' \in Seq(Seq(Arbs))
      BY <1>1 DEF IInv, SeqInv
    <3>. QED BY <2>10, <3>1
  <2>. QED BY <2>11, <2>12
<1>2. ASSUME IInv, Next, pc = "check", pc' = "check"
      PROVE  CallsLeft' < CallsLeft
  <2>1. CallBatch \/ BatchFails
    BY <1>2 DEF Next, Start, Search, Handle, Execute, SavePre, SaveBlacklist,
       RemoveBlacklisted, Timer, Crash
  <2>. QED BY <1>2, <2>1, AnswerLeavesFewer, FailureLeavesFewer
<1>3. ASSUME Next, pc = "search", pc' = "check" PROVE Search
  BY <1>3 DEF Next, Start, CallBatch, BatchFails, Handle, Execute, SavePre, SaveBlacklist,
     RemoveBlacklisted, Timer, Crash
<1>4. IInv /\ IInv' /\ [Next]_vars =>
        [/\ CallsLeft \in Nat
         /\ pc = "search" /\ pc' = "check" => CallsLeft' < 2 * Len(raw_arbs')
         /\ pc = "check" /\ pc' = "check" => CallsLeft' < CallsLeft]_vars
  BY <1>1, <1>2, <1>3, CallsLeftAre
<1>. QED BY <1>4, InvariantHolds, PTL DEF Spec

\* Only a path that failed as many checks as configured is blacklisted
\* (handle_reverted), over any number of restarts.
THEOREM OnlyForReverts == Spec => []BlacklistedForReverts
<1>1. IInv => BlacklistedForReverts
  <2>. SUFFICES ASSUME TypeOK, CountInv PROVE BlacklistedForReverts
    BY DEF IInv
  <2>1. DOMAIN pre_blacklist \subseteq Paths
    BY CountsAre DEF TypeOK
  <2>. QED BY <2>1 DEF CountInv, BlacklistedForReverts
<1>. QED BY <1>1, InvariantHolds, PTL

\* However a run ends, no path is in both files, and what the workers left out
\* stays out.
THEOREM FilesStayTrue == Spec => []FilesAgree
<1>1. IInv => FilesAgree
  <2>. SUFFICES ASSUME TypeOK, FileInv PROVE FilesAgree
    BY DEF IInv
  <2>1. \A p \in DOMAIN saved_pre : saved_pre[p] < Target
    BY CountsAre, Numbers DEF TypeOK
  <2>2. pc # "start" => removed \subseteq saved_blacklist
    BY DEF FileInv, TypeOK
  <2>. QED BY <2>1, <2>2 DEF FileInv, FilesAgree
<1>. QED BY <1>1, InvariantHolds, PTL

\* A path that fails check after check is blacklisted, whatever interrupts the
\* program in between.
THEOREM RevertsEnd == Spec => []NoEndlessReverts
<1>1. IInv => NoEndlessReverts
  <2>. SUFFICES ASSUME TypeOK, FileInv, CountInv, pc = "search",
                       NEW p \in Paths \ removed
                PROVE  reverts[p] < Target * (faults + 1)
    BY DEF IInv, NoEndlessReverts
  <2>1. faults \in Nat /\ reverts[p] \in 0..MaxReverts
    BY DEF TypeOK
  <2>2. Lost \in Nat /\ Target * (faults + 1) = Lost + Target
    BY <2>1, LostGrows DEF Lost
  <2>3. reverts[p] <= Count(pre_blacklist, p) + Lost
    BY DEF FileInv, CountInv
  <2>4. Count(pre_blacklist, p) \in 0..(Target - 1)
    BY CountsAre, Numbers DEF Count, TypeOK
  <2>. QED BY <2>1, <2>2, <2>3, <2>4, Numbers
<1>. QED BY <1>1, InvariantHolds, PTL

-----------------------------------------------------------------------------
(* The offers: one arbitrage for each pair, the dearest that is left, and    *)
(* none that does not pay.  First the order in which sort() puts them.       *)

\* Any arbitrages with prices that can be compared.
Priced(arbs) == \A i \in 1..Len(arbs) : arbs[i].gas_price \in Int

\* order sorts arbs: it lists their positions, each once and the dearer first.
Sorts(order, arbs) ==
  /\ order \in [1..Len(arbs) -> 1..Len(arbs)]
  /\ \A i \in 1..Len(arbs) : \E k \in 1..Len(arbs) : order[k] = i
  /\ \A k, l \in 1..Len(arbs) : k < l => Before(arbs, order[k], order[l])

\* The places are the positions, each for one arbitrage.
LEMMA PlacesApart ==
  ASSUME NEW A, NEW arbs \in Seq(A), Priced(arbs)
  PROVE  /\ \A i \in 1..Len(arbs) : Place(arbs, i) \in 1..Len(arbs)
         /\ \A i, j \in 1..Len(arbs) : Before(arbs, i, j) => Place(arbs, i) < Place(arbs, j)
<1>. DEFINE n == Len(arbs)
            Ahead(i) == {j \in 1..n : Before(arbs, j, i)}
<1>1. n \in Nat /\ DOMAIN arbs = 1..n
  OBVIOUS
<1>2. IsFiniteSet(1..n) /\ Cardinality(1..n) = n
  BY <1>1, FS_Interval
<1>3. \A i \in 1..n : Place(arbs, i) = 1 + Cardinality(Ahead(i))
  BY <1>1, Zenon DEF Place
<1>4. ASSUME NEW i \in 1..n
      PROVE  /\ IsFiniteSet(Ahead(i)) /\ Cardinality(Ahead(i)) \in Nat
             /\ Cardinality(Ahead(i)) < n /\ i \notin Ahead(i)
  <2>. DEFINE p == arbs[i].gas_price
  <2>1. p \in Int /\ i \in Int
    BY <1>1 DEF Priced
  <2>2. ~ Before(arbs, i, i)
    <3>. HIDE DEF p
    <3>1. ~ (p > p) /\ ~ (i < i)
      BY <2>1
    <3>. QED BY <3>1, Zenon DEF Before, p
  <2>3. i \notin Ahead(i)
    BY <2>2, Zenon
  <2>. DEFINE R == Ahead(i)
  <2>4. R \subseteq 1..n /\ R # 1..n
    BY <2>3, Zenon
  <2>. HIDE DEF R
  <2>5. IsFiniteSet(R) /\ Cardinality(R) <= n /\ (Cardinality(R) = n => R = 1..n)
    BY <1>2, <2>4, FS_Subset
  <2>6. Cardinality(R) \in Nat
    BY <2>5, FS_CardinalityType
  <2>7. Cardinality(R) < n
    BY <1>1, <2>4, <2>5, <2>6
  <2>. QED BY <2>3, <2>5, <2>6, <2>7, Zenon DEF R
<1>5. ASSUME NEW i \in 1..n, NEW j \in 1..n, Before(arbs, i, j)
      PROVE  Cardinality(Ahead(i)) < Cardinality(Ahead(j))
  <2>1. \A k \in 1..n : Before(arbs, k, i) => Before(arbs, k, j)
    <3>. SUFFICES ASSUME NEW k \in 1..n, Before(arbs, k, i) PROVE Before(arbs, k, j)
      OBVIOUS
    <3>. DEFINE p == arbs[i].gas_price
                q == arbs[j].gas_price
                r == arbs[k].gas_price
    <3>1. p \in Int /\ q \in Int /\ r \in Int
      BY <1>1 DEF Priced
    <3>2. /\ p > q \/ (p = q /\ i < j)
          /\ r > p \/ (r = p /\ k < i)
      BY <1>5, Zenon DEF Before
    <3>. HIDE DEF p, q, r
    <3>3. r > q \/ (r = q /\ k < j)
      BY <3>1, <3>2
    <3>. QED BY <3>3, Zenon DEF Before, q, r
  <2>. DEFINE R == Ahead(i)
              Q == Ahead(j)
  <2>2. R \subseteq Q /\ i \in Q /\ i \notin R
    BY <1>4, <1>5, <2>1, Zenon
  <2>3. IsFiniteSet(Q) /\ Cardinality(Q) \in Nat /\ Cardinality(R) \in Nat
    BY <1>4, Zenon
  <2>. HIDE DEF R, Q
  <2>4. Cardinality(R) <= Cardinality(Q) /\ (Cardinality(R) = Cardinality(Q) => R = Q)
    BY <2>2, <2>3, FS_Subset
  <2>5. Cardinality(R) < Cardinality(Q)
    BY <2>2, <2>3, <2>4
  <2>. QED BY <2>5 DEF R, Q
<1>. HIDE DEF Ahead, n
<1>6. ASSUME NEW i \in 1..n PROVE Place(arbs, i) \in 1..n
  BY <1>1, <1>3, <1>4
<1>7. ASSUME NEW i \in 1..n, NEW j \in 1..n, Before(arbs, i, j)
      PROVE  Place(arbs, i) < Place(arbs, j)
  <2>1. Cardinality(Ahead(i)) < Cardinality(Ahead(j))
    BY <1>5, <1>7
  <2>. QED BY <1>3, <1>4, <2>1
<1>. QED BY <1>6, <1>7 DEF n

\* Sorted lists them by their places, and so the dearer first.
LEMMA SortedSorts ==
  ASSUME NEW A, NEW arbs \in Seq(A), Priced(arbs)
  PROVE  /\ Sorted(arbs) \in Seq(A) /\ Len(Sorted(arbs)) = Len(arbs)
         /\ \E order : /\ Sorts(order, arbs)
                       /\ \A k \in 1..Len(arbs) : Sorted(arbs)[k] = arbs[order[k]]
<1>. DEFINE n == Len(arbs)
            place == [i \in 1..n |-> Place(arbs, i)]
            Nth(k) == CHOOSE i \in DOMAIN arbs : Place(arbs, i) = k
            order == [k \in DOMAIN arbs |-> Nth(k)]
<1>0. n \in Nat /\ DOMAIN arbs = 1..n
  OBVIOUS
<1>1. n \in Nat /\ DOMAIN arbs = 1..n /\ IsFiniteSet(1..n) /\ Cardinality(1..n) = n
  <2>. HIDE DEF n
  <2>. QED BY <1>0, FS_Interval
<1>2. /\ \A i \in 1..n : Place(arbs, i) \in 1..n
      /\ \A i, j \in 1..n : Before(arbs, i, j) => Place(arbs, i) < Place(arbs, j)
  BY PlacesApart, Zenon
<1>3. ASSUME NEW i \in 1..n, NEW j \in 1..n, i # j
      PROVE  Before(arbs, i, j) \/ Before(arbs, j, i)
  <2>. DEFINE p == arbs[i].gas_price
              q == arbs[j].gas_price
  <2>1. p \in Int /\ q \in Int
    BY <1>1 DEF Priced
  <2>. HIDE DEF p, q
  <2>2. (p > q \/ (p = q /\ i < j)) \/ (q > p \/ (q = p /\ j < i))
    BY <1>3, <2>1
  <2>. QED BY <2>2, Zenon DEF Before, p, q
<1>4. ASSUME NEW i \in 1..n, NEW j \in 1..n, Place(arbs, i) = Place(arbs, j) PROVE i = j
  <2>. SUFFICES ASSUME i # j PROVE FALSE
    OBVIOUS
  <2>1. Place(arbs, i) < Place(arbs, j) \/ Place(arbs, j) < Place(arbs, i)
    BY <1>2, <1>3, Zenon
  <2>. QED BY <1>1, <1>2, <1>4, <2>1
<1>5. place \in Injection(1..n, 1..n)
  <2>1. place \in [1..n -> 1..n]
    BY <1>2
  <2>2. IsInjective(place)
    BY <1>4 DEF IsInjective
  <2>. HIDE DEF place, n
  <2>. QED BY <2>1, <2>2, Zenon DEF Injection
<1>6. place \in Surjection(1..n, 1..n)
  <2>. HIDE DEF place, n
  <2>. QED BY <1>1, <1>5, FS_Injection
<1>7. \A k \in 1..n : \E i \in 1..n : Place(arbs, i) = k
  <2>1. \A k \in 1..n : \E i \in 1..n : place[i] = k
    <3>. HIDE DEF place, n
    <3>. QED BY <1>6, Zenon DEF Surjection
  <2>. QED BY <2>1
<1>. HIDE DEF n
<1>8. \A k \in 1..n : order[k] \in 1..n /\ Place(arbs, order[k]) = k
  <2>. SUFFICES ASSUME NEW k \in 1..n PROVE order[k] \in 1..n /\ Place(arbs, order[k]) = k
    BY Zenon
  <2>1. order[k] = CHOOSE i \in 1..n : Place(arbs, i) = k
    <3>1. order[k] = Nth(k)
      <4>. HIDE DEF Nth
      <4>. QED BY <1>0
    <3>. QED BY <1>0, <3>1, Zenon
  <2>. QED BY <1>7, <2>1, Zenon
<1>9. Sorted(arbs) = [k \in 1..n |-> arbs[order[k]]]
  <2>1. Sorted(arbs) = [k \in DOMAIN arbs |-> arbs[Nth(k)]]
    BY DEF Sorted
  <2>. HIDE DEF Nth
  <2>. QED BY <1>0, <2>1
<1>. HIDE DEF Nth
<1>10. order \in [1..n -> 1..n]
  BY <1>0, <1>8
<1>11. \A i \in 1..n : \E k \in 1..n : order[k] = i
  <2>. HIDE DEF order
  <2>. SUFFICES ASSUME NEW i \in 1..n PROVE order[Place(arbs, i)] = i
    BY <1>2, Zenon
  <2>1. /\ order[Place(arbs, i)] \in 1..n
        /\ Place(arbs, order[Place(arbs, i)]) = Place(arbs, i)
    BY <1>2, <1>8, Zenon
  <2>. QED BY <1>4, <2>1, Zenon
<1>. HIDE DEF order
<1>12. ASSUME NEW k \in 1..n, NEW l \in 1..n, k < l PROVE Before(arbs, order[k], order[l])
  <2>1. order[k] # order[l]
    BY <1>8, <1>12
  <2>2. Before(arbs, order[l], order[k]) => l < k
    BY <1>2, <1>8, Zenon
  <2>3. ~ (l < k)
    BY <1>12, <1>1
  <2>. QED BY <1>3, <1>8, <2>1, <2>2, <2>3, Zenon
<1>13. Sorts(order, arbs)
  BY <1>10, <1>11, <1>12 DEF Sorts, n
<1>14. \A k \in 1..n : Sorted(arbs)[k] = arbs[order[k]] /\ arbs[order[k]] \in A
  BY <1>1, <1>9, <1>10
<1>15. Sorted(arbs) \in Seq(A) /\ Len(Sorted(arbs)) = n
  BY <1>1, <1>9, <1>14
<1>. QED BY <1>13, <1>14, <1>15 DEF n
-----------------------------------------------------------------------------
(* filter_profitables *)

\* What it has after each arbitrage: the pairs that are taken and what it keeps.
\* seen has a value for each number of arbitrages seen.
Filters(seen, sorted) ==
  /\ seen[0] = [pairs |-> {}, kept |-> <<>>]
  /\ \A k \in 0..(Len(sorted) - 1) :
       seen[k + 1] =
         IF PairsOf(sorted[k + 1].path) \cap seen[k].pairs # {} THEN seen[k]
         ELSE [pairs |-> seen[k].pairs \cup PairsOf(sorted[k + 1].path),
               kept |-> IF sorted[k + 1].gas_price > GasPrices.max THEN seen[k].kept
                        ELSE Append(seen[k].kept, sorted[k + 1])]

\* The fold goes through these states.
LEMMA FilterIs ==
  ASSUME NEW A, NEW arbs, Sorted(arbs) \in Seq(A)
  PROVE  \E seen : /\ Filters(seen, Sorted(arbs))
                   /\ filter_profitables(arbs) = seen[Len(Sorted(arbs))].kept
<1>. DEFINE s == Sorted(arbs)
            n == Len(s)
            first == [pairs |-> {}, kept |-> <<>>]
            Next1(v, arb) ==
              IF PairsOf(arb.path) \cap v.pairs # {} THEN v
              ELSE [pairs |-> v.pairs \cup PairsOf(arb.path),
                    kept |-> IF arb.gas_price > GasPrices.max THEN v.kept
                             ELSE Append(v.kept, arb)]
            AllPairs == UNION {PairsOf(a.path) : a \in A}
            States == [pairs : SUBSET AllPairs, kept : Seq(A)]
            step == [x \in States \X (1..n) |-> Next1(x[1], s[x[2]])]
            Rec(h) == h = [T \in SUBSET (1..n) |->
                             IF T = {} THEN first ELSE Next1(h[T \ {Max(T)}], s[Max(T)])]
            h == CHOOSE g : Rec(g)
<1>1. n \in Nat /\ DOMAIN s = 1..n /\ \A i \in 1..n : s[i] \in A
  OBVIOUS
<1>2. first \in States
  OBVIOUS
<1>3. ASSUME NEW v \in States, NEW a \in A PROVE Next1(v, a) \in States
  <2>1. PairsOf(a.path) \subseteq AllPairs
    OBVIOUS
  <2>. HIDE DEF AllPairs
  <2>. QED BY <2>1
<1>. HIDE DEF s, n, first, Next1, States
<1>4. step \in [States \X (1..n) -> States]
  BY <1>1, <1>3
<1>. HIDE DEF step
<1>5. PICK g \in [SUBSET (1..n) -> States] : Folds(g, first, step, n)
  BY <1>1, <1>2, <1>4, FoldsExists
<1>6. Rec(g)
  <2>1. ASSUME NEW T \in SUBSET (1..n), T # {}
        PROVE  step[g[T \ {Max(T)}], Max(T)] = Next1(g[T \ {Max(T)}], s[Max(T)])
    <3>1. Max(T) \in 1..n
      <4>1. Max(T) \in T
        BY <1>1, <2>1, MaxIsIn, Zenon
      <4>. QED BY <4>1
    <3>2. g[T \ {Max(T)}] \in States
      OBVIOUS
    <3>. QED BY <3>1, <3>2 DEF step
  <2>. QED BY <1>5, <2>1, Zenon DEF Folds
<1>7. Rec(h)
  BY <1>6, Zenon
<1>8. filter_profitables(arbs) = h[1..n].kept
  BY <1>1, Zenon DEF filter_profitables, FoldLeft, MapThenFoldSet, Next1, first, s
<1>. HIDE DEF h
<1>. DEFINE seen == [k \in 0..n |-> h[1..k]]
<1>9. h[1..0] = first
  <2>1. 1..0 = {} /\ {} \in SUBSET (1..n)
    OBVIOUS
  <2>. QED BY <1>7, <2>1, Zenon
<1>10. ASSUME NEW k \in 0..(n - 1) PROVE h[1..(k + 1)] = Next1(h[1..k], s[k + 1])
  <2>. DEFINE T == 1..(k + 1)
  <2>1. T \in SUBSET (1..n) /\ T # {} /\ Max(T) = k + 1 /\ T \ {k + 1} = 1..k
    BY <1>1, FirstPositions, Zenon
  <2>. HIDE DEF T
  <2>2. h[T] = Next1(h[T \ {Max(T)}], s[Max(T)])
    BY <1>7, <2>1, Zenon
  <2>3. h[T] = Next1(h[1..k], s[k + 1])
    BY <2>1, <2>2, Zenon
  <2>. QED BY <2>3 DEF T
<1>11. seen[0] = first /\ seen[n] = h[1..n]
  BY <1>1, <1>9
<1>12. ASSUME NEW k \in 0..(n - 1) PROVE seen[k + 1] = Next1(seen[k], s[k + 1])
  <2>1. k \in 0..n /\ k + 1 \in 0..n
    BY <1>1
  <2>2. seen[k] = h[1..k] /\ seen[k + 1] = h[1..(k + 1)]
    BY <2>1
  <2>. HIDE DEF seen
  <2>. QED BY <1>10, <2>2, Zenon
<1>. HIDE DEF seen
<1>13. Filters(seen, s)
  BY <1>11, <1>12, Zenon DEF Filters, Next1, first, n
<1>. QED BY <1>8, <1>11, <1>13, Zenon DEF s, n

-----------------------------------------------------------------------------
(* What the filter keeps *)

\* The positions of the arbitrages that are first in line for all their pairs.
InLine(seen, s) == {k \in 1..Len(s) : PairsOf(s[k].path) \cap seen[k - 1].pairs = {}}

\* Those of the first k, and those of them that are not too dear.
InLineTo(seen, s, k) == {i \in InLine(seen, s) : i <= k}
OfferedTo(seen, s, k) == {i \in InLineTo(seen, s, k) : s[i].gas_price <= GasPrices.max}

\* What is kept: one arbitrage for a pair, and the dearer first.
Clear(kept) ==
  \A a, b \in 1..Len(kept) : a < b =>
    /\ PairsOf(kept[a].path) \cap PairsOf(kept[b].path) = {}
    /\ kept[a].gas_price >= kept[b].gas_price

Filtered(v, seen, s, k) ==
  /\ v.pairs = UNION {PairsOf(s[i].path) : i \in InLineTo(seen, s, k)}
  /\ \E m \in Nat : v.kept \in [1..m -> {s[i] : i \in 1..k}]
  /\ \A x : (\E a \in 1..Len(v.kept) : v.kept[a] = x) <=>
            \E i \in OfferedTo(seen, s, k) : s[i] = x
  /\ Clear(v.kept)

\* One more arbitrage.
LEMMA FilterStep ==
  ASSUME NEW A, NEW s \in Seq(A), Priced(s), NEW seen, Filters(seen, s),
         GasPrices.max \in Int,
         \A i, j \in 1..Len(s) : i < j => s[i].gas_price >= s[j].gas_price,
         NEW k \in 0..(Len(s) - 1), Filtered(seen[k], seen, s, k)
  PROVE  Filtered(seen[k + 1], seen, s, k + 1)
<1>. DEFINE n == Len(s)
            v == seen[k]
            w == seen[k + 1]
            l == k + 1
            arb == s[l]
            Upto(j) == InLineTo(seen, s, j)
            Offered(j) == OfferedTo(seen, s, j)
<1>0. n \in Nat /\ l \in 1..n /\ k \in 0..n /\ l - 1 = k /\ l > k /\ k \in Nat
  OBVIOUS
<1>. HIDE DEF n, l
<1>1. w = IF PairsOf(arb.path) \cap v.pairs # {} THEN v
          ELSE [pairs |-> v.pairs \cup PairsOf(arb.path),
                kept |-> IF arb.gas_price > GasPrices.max THEN v.kept
                         ELSE Append(v.kept, arb)]
  BY Zenon DEF Filters, l
<1>2. \A i \in 1..n : i <= l <=> i <= k \/ i = l
  BY <1>0 DEF l
<1>3. l \in InLine(seen, s) <=> PairsOf(arb.path) \cap v.pairs = {}
  BY <1>0 DEF InLine, n
<1>4. PICK m \in Nat : v.kept \in [1..m -> {s[i] : i \in 1..k}]
  BY DEF Filtered
<1>5. Len(v.kept) = m /\ DOMAIN v.kept = 1..m
  BY <1>4
<1>6. Upto(l) = IF l \in InLine(seen, s) THEN Upto(k) \cup {l} ELSE Upto(k)
  BY <1>0, <1>2 DEF InLineTo, InLine, n
<1>7. Offered(l) = IF l \in InLine(seen, s) /\ arb.gas_price <= GasPrices.max
                   THEN Offered(k) \cup {l} ELSE Offered(k)
  BY <1>6, Zenon DEF OfferedTo
<1>8. /\ v.pairs = UNION {PairsOf(s[i].path) : i \in Upto(k)}
      /\ \A x : (\E a \in 1..m : v.kept[a] = x) <=> \E i \in Offered(k) : s[i] = x
      /\ Clear(v.kept)
  BY <1>5, Zenon DEF Filtered
<1>9. arb.gas_price \in Int
  BY <1>0 DEF Priced, n
<1>10. {s[i] : i \in 1..k} \subseteq {s[i] : i \in 1..l}
  BY <1>0, <1>2
<1>11. v.kept \in [1..m -> {s[i] : i \in 1..l}]
  BY <1>4, <1>10
<1>. HIDE DEF v, w, arb, Upto, Offered
<1>12. CASE l \notin InLine(seen, s)
  <2>1. w = v /\ Upto(l) = Upto(k) /\ Offered(l) = Offered(k)
    BY <1>1, <1>3, <1>6, <1>7, <1>12, Zenon
  <2>2. Filtered(v, seen, s, l)
    BY <1>5, <1>8, <1>11, <2>1, Zenon DEF Filtered, Upto, Offered
  <2>. QED BY <2>1, <2>2, Zenon DEF w, l
<1>13. CASE l \in InLine(seen, s)
  <2>. DEFINE P == PairsOf(arb.path)
  <2>1. /\ w.pairs = v.pairs \cup P
        /\ w.kept = IF arb.gas_price > GasPrices.max THEN v.kept ELSE Append(v.kept, arb)
    BY <1>1, <1>3, <1>13
  <2>2. w.pairs = UNION {PairsOf(s[i].path) : i \in Upto(l)}
    <3>1. Upto(l) = Upto(k) \cup {l}
      BY <1>6, <1>13, Zenon
    <3>. HIDE DEF P
    <3>2. UNION {PairsOf(s[i].path) : i \in Upto(k) \cup {l}}
            = (UNION {PairsOf(s[i].path) : i \in Upto(k)}) \cup PairsOf(s[l].path)
      OBVIOUS
    <3>. QED BY <1>8, <2>1, <3>1, <3>2, Zenon DEF P, arb
  <2>3. CASE arb.gas_price > GasPrices.max
    <3>1. w.kept = v.kept
      BY <2>1, <2>3, Zenon
    <3>2. Offered(l) = Offered(k)
      BY <1>7, <1>9, <2>3
    <3>3. /\ \E p \in Nat : w.kept \in [1..p -> {s[i] : i \in 1..l}]
          /\ Len(w.kept) = m
      BY <1>5, <1>11, <3>1, Zenon
    <3>4. /\ \A x : (\E a \in 1..Len(w.kept) : w.kept[a] = x) <=>
                   \E i \in Offered(l) : s[i] = x
          /\ Clear(w.kept)
      BY <1>8, <3>1, <3>2, <3>3, Zenon
    <3>5. Filtered(w, seen, s, l)
      BY <2>2, <3>3, <3>4, Zenon DEF Filtered, Upto, Offered
    <3>. QED BY <3>5, Zenon DEF w, l
  <2>4. CASE ~ (arb.gas_price > GasPrices.max)
    <3>. DEFINE kept == v.kept
                more == w.kept
                B == {s[i] : i \in 1..l}
    <3>1. more = Append(kept, arb)
      BY <2>1, <2>4, Zenon
    <3>2. arb \in B
      BY <1>0 DEF arb
    <3>3. kept \in Seq(B) /\ Len(kept) = m
      <4>. HIDE DEF B
      <4>1. kept \in [1..m -> B]
        BY <1>11 DEF B
      <4>. QED BY <4>1
    <3>4. /\ more \in Seq(B) /\ Len(more) = m + 1 /\ more[m + 1] = arb
          /\ \A a \in 1..m : more[a] = kept[a]
      <4>. HIDE DEF B, kept, more
      <4>. QED BY <3>1, <3>2, <3>3
    <3>5. Offered(l) = Offered(k) \cup {l}
      BY <1>7, <1>9, <1>13, <2>4
    <3>6. \A a : a \in 1..(m + 1) <=> a \in 1..m \/ a = m + 1
      OBVIOUS
    <3>7. ASSUME NEW x
          PROVE  (\E a \in 1..(m + 1) : more[a] = x) <=> \E i \in Offered(l) : s[i] = x
      <4>. HIDE DEF kept, more
      <4>1. (\E a \in 1..(m + 1) : more[a] = x) <=> (\E a \in 1..m : kept[a] = x) \/ arb = x
        BY <3>4, <3>6, Zenon
      <4>2. (\E i \in Offered(l) : s[i] = x) <=> (\E i \in Offered(k) : s[i] = x) \/ s[l] = x
        BY <3>5
      <4>. QED BY <1>8, <4>1, <4>2, Zenon DEF kept, arb
    <3>8. ASSUME NEW a \in 1..m
          PROVE  /\ PairsOf(kept[a].path) \cap P = {}
                 /\ kept[a].gas_price >= arb.gas_price
      <4>1. PICK i \in Offered(k) : s[i] = kept[a]
        BY <1>8, Zenon
      <4>2. i \in Upto(k) /\ i \in 1..n /\ i <= k
        BY <4>1 DEF Offered, Upto, OfferedTo, InLineTo, InLine, n
      <4>3. PairsOf(s[i].path) \subseteq v.pairs
        BY <1>8, <4>2
      <4>4. PairsOf(arb.path) \cap v.pairs = {}
        BY <1>3, <1>13, Zenon
      <4>5. s[i].gas_price >= s[l].gas_price
        <5>1. i < l
          BY <1>0, <4>2
        <5>. QED BY <1>0, <4>2, <5>1 DEF n
      <4>. HIDE DEF kept
      <4>. QED BY <4>1, <4>3, <4>4, <4>5 DEF arb
    <3>9. Clear(more)
      <4>. SUFFICES ASSUME NEW a \in 1..Len(more), NEW b \in 1..Len(more), a < b
                    PROVE  /\ PairsOf(more[a].path) \cap PairsOf(more[b].path) = {}
                           /\ more[a].gas_price >= more[b].gas_price
        BY Zenon DEF Clear
      <4>. HIDE DEF kept, more, B, P
      <4>1. a \in 1..m /\ (b \in 1..m \/ b = m + 1)
        BY <3>4
      <4>2. CASE b = m + 1
        BY <3>4, <3>8, <4>1, <4>2, Zenon DEF P
      <4>3. CASE b \in 1..m
        <5>1. more[a] = kept[a] /\ more[b] = kept[b] /\ b \in 1..Len(kept) /\ a \in 1..Len(kept)
          BY <3>3, <3>4, <4>1, <4>3, Zenon
        <5>2. Clear(kept)
          BY <1>8 DEF kept
        <5>. QED BY <5>1, <5>2, Zenon DEF Clear
      <4>. QED BY <4>1, <4>2, <4>3
    <3>10. m + 1 \in Nat /\ w.kept \in [1..(m + 1) -> B]
      <4>. HIDE DEF B
      <4>1. more \in [1..(m + 1) -> B]
        <5>. HIDE DEF more
        <5>. QED BY <3>4
      <4>. QED BY <4>1
    <3>11. Filtered(w, seen, s, l)
      <4>1. \E q \in Nat : w.kept \in [1..q -> B]
        BY <3>10
      <4>2. Len(w.kept) = m + 1
        BY <3>4, Zenon
      <4>. QED BY <2>2, <3>7, <3>9, <4>1, <4>2, Zenon DEF Filtered, Upto, Offered
    <3>. QED BY <3>11, Zenon DEF w, l
  <2>. QED BY <2>3, <2>4
<1>. QED BY <1>12, <1>13

\* All of them.
LEMMA FilterEnds ==
  ASSUME NEW A, NEW s \in Seq(A), Priced(s), NEW seen, Filters(seen, s),
         GasPrices.max \in Int,
         \A i, j \in 1..Len(s) : i < j => s[i].gas_price >= s[j].gas_price
  PROVE  \A k \in 0..Len(s) : Filtered(seen[k], seen, s, k)
<1>. DEFINE n == Len(s)
            G == {k \in 0..n : Filtered(seen[k], seen, s, k)}
<1>0. n \in Nat
  OBVIOUS
<1>1. 0 \in G
  <2>1. seen[0] = [pairs |-> {}, kept |-> <<>>]
    BY Zenon DEF Filters
  <2>2. InLineTo(seen, s, 0) = {} /\ OfferedTo(seen, s, 0) = {}
    BY DEF InLineTo, InLine, OfferedTo
  <2>. DEFINE v == seen[0]
  <2>3. v.pairs = {} /\ v.kept = <<>> /\ Len(v.kept) = 0 /\ 1..Len(v.kept) = {}
    BY <2>1
  <2>4. v.kept \in [1..0 -> {s[i] : i \in 1..0}] /\ 0 \in Nat
    BY <2>3
  <2>. HIDE DEF v
  <2>5. v.pairs = UNION {PairsOf(s[i].path) : i \in InLineTo(seen, s, 0)}
    BY <2>2, <2>3
  <2>6. Clear(v.kept)
    BY <2>3, Zenon DEF Clear
  <2>7. Filtered(v, seen, s, 0)
    BY <2>2, <2>3, <2>4, <2>5, <2>6, Zenon DEF Filtered
  <2>8. 0 \in 0..n
    BY <1>0
  <2>. QED BY <2>7, <2>8, Zenon DEF v
<1>2. ASSUME NEW k \in 0..(n - 1), k \in G PROVE k + 1 \in G
  <2>1. Filtered(seen[k + 1], seen, s, k + 1)
    BY <1>2, FilterStep
  <2>2. k + 1 \in 0..n
    BY <1>0
  <2>. QED BY <2>1, <2>2
<1>3. \A k \in 0..n : k \in G
  <2>. HIDE DEF G, n
  <2>. QED BY <1>0, <1>1, <1>2, Induction
<1>. QED BY <1>3

\* There is one way to say which arbitrages are first in line: those that clash
\* with no dearer one that is.
LEMMA InLineUnique ==
  ASSUME NEW A, NEW arbs \in Seq(A), Priced(arbs), NEW order, Sorts(order, arbs),
         NEW s \in Seq(A), Len(s) = Len(arbs), \A k \in 1..Len(arbs) : s[k] = arbs[order[k]],
         NEW seen, \A k \in 0..Len(s) : Filtered(seen[k], seen, s, k),
         NEW first \in SUBSET (1..Len(arbs)),
         \A j \in 1..Len(arbs) : j \in first <=>
           ~ \E i \in first : /\ Before(arbs, i, j)
                             /\ PairsOf(arbs[i].path) \cap PairsOf(arbs[j].path) # {}
  PROVE  \A k \in 1..Len(arbs) : order[k] \in first <=> k \in InLine(seen, s)
<1>. DEFINE n == Len(arbs)
            Clash(i, j) == PairsOf(arbs[i].path) \cap PairsOf(arbs[j].path) # {}
            Agree(k) == order[k] \in first <=> k \in InLine(seen, s)
            G == {m \in 0..n : \A k \in 1..m : Agree(k)}
<1>0. n \in Nat /\ \A k \in 1..n : order[k] \in 1..n
  BY DEF Sorts
<1>1. 0 \in G
  BY <1>0
<1>2. ASSUME NEW i \in 1..n, NEW j \in 1..n, Before(arbs, order[i], order[j])
      PROVE  i < j
  <2>. SUFFICES ASSUME ~ (i < j) PROVE FALSE
    OBVIOUS
  <2>1. CASE i = j
    <3>. DEFINE p == arbs[order[j]].gas_price
                o == order[j]
    <3>1. p \in Int /\ o \in Int
      BY <1>0 DEF Priced
    <3>. HIDE DEF p, o
    <3>2. ~ (p > p) /\ ~ (o < o)
      BY <3>1
    <3>. QED BY <1>2, <2>1, <3>2, Zenon DEF Before, p, o
  <2>2. CASE j < i
    <3>1. Before(arbs, order[j], order[i])
      BY <2>2, Zenon DEF Sorts
    <3>. DEFINE p == arbs[order[j]].gas_price
                q == arbs[order[i]].gas_price
                o == order[j]
                r == order[i]
    <3>2. p \in Int /\ q \in Int /\ o \in Int /\ r \in Int
      BY <1>0 DEF Priced
    <3>3. /\ p > q \/ (p = q /\ o < r)
          /\ q > p \/ (q = p /\ r < o)
      BY <1>2, <3>1, Zenon DEF Before
    <3>. HIDE DEF p, q, o, r
    <3>. QED BY <3>2, <3>3
  <2>. QED BY <2>1, <2>2
<1>3. ASSUME NEW m \in 0..(n - 1), m \in G PROVE m + 1 \in G
  <2>. DEFINE l == m + 1
  <2>0. l \in 1..n /\ l \in 0..n /\ l - 1 = m /\ m \in 0..n
        /\ \A k : k \in 1..l <=> k \in 1..m \/ k = l
    BY <1>0
  <2>00. \A k \in 1..n : k < l <=> k \in 1..m
    BY <1>0
  <2>000. \A k \in 1..n : k <= m <=> k \in 1..m
    BY <1>0
  <2>. HIDE DEF l
  <2>1. \A k \in 1..m : Agree(k)
    BY <1>3
  <2>2. l \in InLine(seen, s) <=> PairsOf(s[l].path) \cap seen[m].pairs = {}
    BY <2>0, Zenon DEF InLine
  <2>3. seen[m].pairs = UNION {PairsOf(s[i].path) : i \in InLineTo(seen, s, m)}
    BY <2>0, Zenon DEF Filtered
  <2>4. l \in InLine(seen, s) <=>
          \A i \in InLineTo(seen, s, m) : PairsOf(s[l].path) \cap PairsOf(s[i].path) = {}
    BY <2>2, <2>3
  <2>5. \A i : i \in InLineTo(seen, s, m) <=> i \in 1..m /\ i \in InLine(seen, s)
    BY <2>000, Zenon DEF InLineTo, InLine
  <2>6. \A i \in 1..m : i \in 1..n
    BY <2>0, <1>0
  <2>7. l \in InLine(seen, s) <=>
          \A i \in 1..m : order[i] \in first =>
            PairsOf(s[l].path) \cap PairsOf(s[i].path) = {}
    BY <2>1, <2>4, <2>5, Zenon
  <2>8. order[l] \in first <=>
          ~ \E i \in first : Before(arbs, i, order[l]) /\ Clash(i, order[l])
    BY <1>0, <2>0
  <2>9. ASSUME NEW i \in first
        PROVE  Before(arbs, i, order[l]) <=> \E k \in 1..m : order[k] = i
    <3>1. PICK k \in 1..n : order[k] = i
      BY Zenon DEF Sorts
    <3>2. ASSUME Before(arbs, i, order[l]) PROVE \E j \in 1..m : order[j] = i
      <4>1. k < l
        BY <1>2, <2>0, <3>1, <3>2
      <4>. QED BY <2>00, <3>1, <4>1, Zenon
    <3>3. ASSUME NEW j \in 1..m, order[j] = i PROVE Before(arbs, i, order[l])
      <4>1. j \in 1..n /\ j < l
        BY <2>00, <2>6, Zenon
      <4>. QED BY <2>0, <3>3, <4>1, Zenon DEF Sorts
    <3>. QED BY <3>2, <3>3
  <2>10. ASSUME NEW i \in 1..m
         PROVE  Clash(order[i], order[l]) <=> PairsOf(s[l].path) \cap PairsOf(s[i].path) # {}
    <3>1. s[i] = arbs[order[i]] /\ s[l] = arbs[order[l]]
      BY <2>0, <2>6, Zenon
    <3>. QED BY <3>1
  <2>. HIDE DEF Clash
  <2>11. order[l] \in first <=>
           \A i \in 1..m : order[i] \in first =>
             PairsOf(s[l].path) \cap PairsOf(s[i].path) = {}
    <3>1. ASSUME order[l] \in first, NEW i \in 1..m, order[i] \in first
          PROVE  PairsOf(s[l].path) \cap PairsOf(s[i].path) = {}
      BY <2>8, <2>9, <2>10, <3>1, Zenon
    <3>2. ASSUME \A i \in 1..m : order[i] \in first =>
                   PairsOf(s[l].path) \cap PairsOf(s[i].path) = {},
                 NEW i \in first, Before(arbs, i, order[l]), Clash(i, order[l])
          PROVE  FALSE
      <4>1. PICK k \in 1..m : order[k] = i
        BY <2>9, <3>2, Zenon
      <4>. QED BY <2>10, <3>2, <4>1, Zenon
    <3>. QED BY <2>8, <3>1, <3>2, Zenon
  <2>12. Agree(l)
    BY <2>7, <2>11, Zenon
  <2>. HIDE DEF Agree
  <2>13. \A k \in 1..l : Agree(k)
    BY <2>0, <2>1, <2>12, Zenon
  <2>. QED BY <2>0, <2>13 DEF l
<1>4. \A m \in 0..n : m \in G
  <2>. HIDE DEF G, n
  <2>. QED BY <1>0, <1>1, <1>3, Induction
<1>5. n \in G
  <2>. HIDE DEF G
  <2>. QED BY <1>0, <1>4
<1>. QED BY <1>5

-----------------------------------------------------------------------------
(* Rounding, and the gas that burners spare *)

\* Python's round() is next to the quotient.
LEMMA RoundedIs ==
  ASSUME NEW a \in Int, NEW b \in Nat \ {0}
  PROVE  /\ Rounded(a, b) \in Int /\ a \div b <= Rounded(a, b)
         /\ Rounded(a, b) <= a \div b + 1
<1>1. a \div b \in Int /\ a % b \in Int
  OBVIOUS
<1>. DEFINE q == a \div b
            r == a % b
<1>2. Rounded(a, b) = IF 2 * r > b \/ (2 * r = b /\ q % 2 = 1) THEN q + 1 ELSE q
  BY Zenon DEF Rounded
<1>. HIDE DEF q, r
<1>. QED BY <1>1, <1>2 DEF q

\* It keeps the order.
LEMMA RoundedGrows ==
  ASSUME NEW a \in Int, NEW c \in Int, NEW b \in Nat \ {0}, a <= c
  PROVE  Rounded(a, b) <= Rounded(c, b)
<1>. DEFINE q == a \div b
            r == a % b
            s == c \div b
            t == c % b
<1>1. /\ q \in Int /\ r \in Int /\ a = b * q + r /\ 0 <= r /\ r < b
      /\ s \in Int /\ t \in Int /\ c = b * s + t /\ 0 <= t /\ t < b
  OBVIOUS
<1>2. /\ Rounded(a, b) = IF 2 * r > b \/ (2 * r = b /\ q % 2 = 1) THEN q + 1 ELSE q
      /\ Rounded(c, b) = IF 2 * t > b \/ (2 * t = b /\ s % 2 = 1) THEN s + 1 ELSE s
  BY Zenon DEF Rounded
<1>. HIDE DEF q, r, s, t
<1>3. q <= s
  <2>. SUFFICES ASSUME s + 1 <= q PROVE FALSE
    BY <1>1
  <2>1. b * (s + 1) <= b * q
    BY <1>1
  <2>2. b * (s + 1) = b * s + b
    BY <1>1
  <2>. QED BY <1>1, <2>1, <2>2
<1>4. CASE q = s
  <2>1. r <= t
    BY <1>1, <1>4
  <2>. QED BY <1>1, <1>2, <1>4, <2>1
<1>5. CASE q < s
  BY <1>1, <1>2, <1>5
<1>. QED BY <1>1, <1>3, <1>4, <1>5

-----------------------------------------------------------------------------
(* get_burners_values *)

\* The gas that is left after burners is whole.
LEMMA AfterIs ==
  ASSUME NEW gas \in Nat, NEW k \in Nat
  PROVE  After(gas, k) \in Int
<1>. DEFINE least == gas - gas_reduction * k
            half == (gas + burn_cost * k) \div 2
<1>1. least \in Int /\ half \in Int
  BY DEF gas_reduction, burn_cost
<1>2. After(gas, k) = IF least > half THEN least ELSE half
  BY Zenon DEF After, Larger
<1>. HIDE DEF least, half
<1>. QED BY <1>1, <1>2

\* The gas that is left never falls again once one more burner spares nothing.
LEMMA AfterTurns ==
  ASSUME NEW gas \in Nat, NEW c \in Nat, After(gas, c) <= After(gas, c + 1),
         NEW k \in Nat, c <= k
  PROVE  After(gas, c) <= After(gas, k)
<1>. DEFINE least(j) == gas - gas_reduction * j
            half(j) == (gas + burn_cost * j) \div 2
<1>1. ASSUME NEW j \in Nat
      PROVE  /\ After(gas, j) = IF least(j) > half(j) THEN least(j) ELSE half(j)
             /\ least(j) \in Int /\ half(j) \in Int
             /\ half(j) <= half(j + 1) /\ least(j + 1) < least(j)
             /\ c + 1 <= j => half(c + 1) <= half(j)
  BY DEF After, Larger, gas_reduction, burn_cost
<1>2. c + 1 \in Nat
  OBVIOUS
<1>3. CASE k = c
  <2>1. After(gas, c) \in Int
    <3>. HIDE DEF least, half
    <3>. QED BY <1>1
  <2>. QED BY <1>3, <2>1
<1>4. CASE c + 1 <= k
  <2>. HIDE DEF least, half
  <2>1. /\ After(gas, c) = IF least(c) > half(c) THEN least(c) ELSE half(c)
        /\ least(c) \in Int /\ half(c) \in Int /\ least(c + 1) < least(c)
    BY <1>1
  <2>2. /\ After(gas, c + 1) = IF least(c + 1) > half(c + 1) THEN least(c + 1) ELSE half(c + 1)
        /\ least(c + 1) \in Int /\ half(c + 1) \in Int
    BY <1>1, <1>2
  <2>3. /\ After(gas, k) = IF least(k) > half(k) THEN least(k) ELSE half(k)
        /\ least(k) \in Int /\ half(k) \in Int /\ half(c + 1) <= half(k)
    BY <1>1, <1>4
  <2>. QED BY <2>1, <2>2, <2>3
<1>. QED BY <1>3, <1>4

\* With as many burners as get_burners_values tries, half of the gas is refunded.
LEMMA AfterMost ==
  ASSUME NEW gas \in Nat
  PROVE  /\ gas \div gas_reduction + 1 \in Nat
         /\ After(gas, gas \div gas_reduction + 1) <= After(gas, gas \div gas_reduction + 1 + 1)
<1>. DEFINE most == gas \div gas_reduction + 1
<1>1. most \in Nat /\ gas - gas_reduction * most < 0
  BY DEF gas_reduction
<1>. HIDE DEF most
<1>2. After(gas, most) = (gas + burn_cost * most) \div 2
  BY <1>1 DEF After, Larger, gas_reduction, burn_cost
<1>3. /\ After(gas, most + 1) \in Int
      /\ After(gas, most + 1) >= (gas + burn_cost * (most + 1)) \div 2
  BY <1>1 DEF After, Larger, gas_reduction, burn_cost
<1>4. After(gas, most) <= After(gas, most + 1)
  BY <1>1, <1>2, <1>3 DEF burn_cost
<1>. QED BY <1>1, <1>4 DEF most

\* What has been tried after k burners: each up to count spares more gas, and the
\* next, if there was one, does not.
Spared(gas, k, v) ==
  /\ v.count \in 0..k /\ v.gas = After(gas, v.count)
  /\ \A j \in Nat : j < v.count => After(gas, j) > After(gas, v.count)
  /\ v.count < k => After(gas, v.count) <= After(gas, v.count + 1)

\* One more burner.
OneMore(gas, v, k) ==
  LET less == Larger(v.gas - gas_reduction, (gas + burn_cost * k) \div 2)
  IN  IF v.count < k - 1 \/ less >= v.gas THEN v ELSE [count |-> k, gas |-> less]

\* Counting one burner more keeps that.
LEMMA SparedStep ==
  ASSUME NEW gas \in Nat, NEW k \in Nat, NEW v \in [count : Nat, gas : Int], Spared(gas, k, v)
  PROVE  /\ OneMore(gas, v, k + 1) \in [count : Nat, gas : Int]
         /\ Spared(gas, k + 1, OneMore(gas, v, k + 1))
<1>. DEFINE less == Larger(v.gas - gas_reduction, (gas + burn_cost * (k + 1)) \div 2)
            w == OneMore(gas, v, k + 1)
<1>1. w = IF v.count < k \/ less >= v.gas THEN v ELSE [count |-> k + 1, gas |-> less]
  <2>1. k + 1 - 1 = k
    OBVIOUS
  <2>. QED BY <2>1 DEF OneMore
<1>2. /\ v.count \in 0..k /\ v.gas = After(gas, v.count) /\ v.gas \in Int
      /\ \A j \in Nat : j < v.count => After(gas, j) > After(gas, v.count)
      /\ v.count < k => After(gas, v.count) <= After(gas, v.count + 1)
  BY DEF Spared
<1>3. \A j \in Nat : After(gas, j) \in Int
  BY DEF After, Larger, gas_reduction, burn_cost
<1>4. v.count = k => less = After(gas, k + 1)
  <2>. SUFFICES ASSUME v.count = k PROVE less = After(gas, k + 1)
    OBVIOUS
  <2>. DEFINE a == gas - gas_reduction * k
              b == (gas + burn_cost * k) \div 2
              c == (gas + burn_cost * (k + 1)) \div 2
  <2>1. a \in Int /\ b \in Int /\ c \in Int /\ b <= c
    BY DEF gas_reduction, burn_cost
  <2>2. v.gas = Larger(a, b)
    <3>1. v.gas = After(gas, k)
      BY <1>2
    <3>. QED BY <3>1 DEF After
  <2>3. gas - gas_reduction * (k + 1) = a - gas_reduction
    BY DEF gas_reduction
  <2>. HIDE DEF a, b
  <2>4. After(gas, k + 1) = Larger(a - gas_reduction, c)
    <3>1. After(gas, k + 1) = Larger(gas - gas_reduction * (k + 1), c)
      BY DEF After
    <3>. QED BY <2>3, <3>1
  <2>5. less = Larger(v.gas - gas_reduction, c)
    OBVIOUS
  <2>. HIDE DEF less, c
  <2>. QED BY <2>1, <2>2, <2>4, <2>5 DEF Larger, gas_reduction
<1>5. less \in Int
  BY <1>2 DEF Larger, gas_reduction, burn_cost
<1>. HIDE DEF less, w
<1>6. CASE v.count < k \/ less >= v.gas
  <2>1. w = v
    BY <1>1, <1>6, Zenon
  <2>2. v.count \in 0..(k + 1)
    BY <1>2
  <2>3. After(gas, v.count) <= After(gas, v.count + 1)
    <3>1. CASE v.count < k
      BY <1>2, <3>1
    <3>2. CASE ~ (v.count < k)
      <4>1. v.count = k
        BY <1>2, <3>2
      <4>2. less >= v.gas
        BY <1>6, <3>2
      <4>. QED BY <1>2, <1>3, <1>4, <4>1, <4>2
    <3>. QED BY <3>1, <3>2
  <2>. QED BY <1>2, <2>1, <2>2, <2>3, Zenon DEF Spared, w
<1>7. CASE ~ (v.count < k \/ less >= v.gas)
  <2>1. w = [count |-> k + 1, gas |-> less] /\ v.count = k /\ less = After(gas, k + 1)
        /\ less < v.gas
    BY <1>1, <1>2, <1>4, <1>5, <1>7
  <2>2. w.count = k + 1 /\ w.gas = After(gas, k + 1) /\ w \in [count : Nat, gas : Int]
    BY <1>5, <2>1
  <2>3. ASSUME NEW j \in Nat, j < k + 1 PROVE After(gas, j) > After(gas, k + 1)
    <3>1. j < k \/ j = k
      BY <2>3
    <3>2. After(gas, k) = v.gas /\ After(gas, j) \in Int
      BY <1>2, <1>3, <2>1
    <3>3. j < k => After(gas, j) > v.gas
      BY <1>2, <2>1
    <3>. QED BY <1>2, <1>5, <2>1, <3>1, <3>2, <3>3
  <2>4. k + 1 \in 0..(k + 1) /\ ~ (k + 1 < k + 1)
    OBVIOUS
  <2>5. Spared(gas, k + 1, w)
    BY <2>2, <2>3, <2>4, Zenon DEF Spared
  <2>. QED BY <2>2, <2>5 DEF w
<1>. QED BY <1>6, <1>7

\* get_burners_values finds the number of burners that leaves the least gas, and
\* the fewest of those that do.
LEMMA BurnersBest ==
  ASSUME NEW gas \in Nat
  PROVE  \E c \in Nat :
           /\ get_burners_values(gas) = [count |-> c, gas |-> Rounded(After(gas, c) * 12, 10)]
           /\ \A k \in Nat : /\ k < c => After(gas, k) > After(gas, c)
                             /\ c <= k => After(gas, k) >= After(gas, c)
<1>. DEFINE most == gas \div gas_reduction + 1
            s == [k \in 1..most |-> k]
            first == [count |-> 0, gas |-> gas]
            States == [count : Nat, gas : Int]
            Burn(v, k) ==
              LET less == Larger(v.gas - gas_reduction, (gas + burn_cost * k) \div 2)
              IN  IF v.count < k - 1 \/ less >= v.gas THEN v
                  ELSE [count |-> k, gas |-> less]
            Rec(h) == h = [T \in SUBSET (1..most) |->
                             IF T = {} THEN first ELSE Burn(h[T \ {Max(T)}], s[Max(T)])]
            h == CHOOSE g : Rec(g)
            step == [x \in States \X (1..most) |-> Burn(x[1], x[2])]
<1>1. most \in Nat /\ DOMAIN s = 1..most /\ \A k \in 1..most : s[k] = k
  BY DEF gas_reduction
<1>2. get_burners_values(gas) = [count |-> h[1..most].count,
                                 gas |-> Rounded(h[1..most].gas * 12, 10)]
  BY <1>1, Zenon DEF get_burners_values, FoldLeft, MapThenFoldSet
<1>3. first \in States /\ After(gas, 0) = gas
  BY DEF After, Larger, gas_reduction, burn_cost
<1>4. ASSUME NEW v \in States, NEW k \in 1..most PROVE Burn(v, k) \in States
  BY DEF Larger, gas_reduction, burn_cost
<1>5. \A v, k : Burn(v, k) = OneMore(gas, v, k)
  BY Zenon DEF OneMore
<1>. HIDE DEF s, first, Burn, most
<1>6. step \in [States \X (1..most) -> States]
  <2>. HIDE DEF States
  <2>. QED BY <1>4
<1>. HIDE DEF step, States
<1>7. PICK g \in [SUBSET (1..most) -> States] : Folds(g, first, step, most)
  BY <1>1, <1>3, <1>6, FoldsExists
<1>8. Rec(g)
  <2>1. ASSUME NEW T \in SUBSET (1..most), T # {}
        PROVE  step[g[T \ {Max(T)}], Max(T)] = Burn(g[T \ {Max(T)}], s[Max(T)])
    <3>1. Max(T) \in 1..most
      <4>1. Max(T) \in T
        BY <1>1, <2>1, MaxIsIn, Zenon
      <4>. QED BY <4>1
    <3>2. g[T \ {Max(T)}] \in States
      OBVIOUS
    <3>. QED BY <1>1, <3>1, <3>2 DEF step
  <2>. QED BY <1>7, <2>1, Zenon DEF Folds
<1>9. Rec(h)
  BY <1>8, Zenon
<1>. HIDE DEF h
<1>10. h[1..0] = first
  <2>1. 1..0 = {} /\ {} \in SUBSET (1..most)
    OBVIOUS
  <2>. QED BY <1>9, <2>1, Zenon
<1>11. ASSUME NEW k \in 0..(most - 1)
       PROVE  h[1..(k + 1)] = OneMore(gas, h[1..k], k + 1)
  <2>. DEFINE T == 1..(k + 1)
  <2>1. T \in SUBSET (1..most) /\ T # {} /\ Max(T) = k + 1 /\ T \ {k + 1} = 1..k
    BY <1>1, FirstPositions, Zenon
  <2>2. s[k + 1] = k + 1
    BY <1>1
  <2>. HIDE DEF T
  <2>3. h[T] = Burn(h[T \ {Max(T)}], s[Max(T)])
    BY <1>9, <2>1, Zenon
  <2>4. h[T] = Burn(h[1..k], k + 1)
    BY <2>1, <2>2, <2>3, Zenon
  <2>. QED BY <1>5, <2>4, Zenon DEF T
<1>. DEFINE G == {k \in 0..most : h[1..k] \in States /\ Spared(gas, k, h[1..k])}
<1>12. 0 \in G
  <2>1. first.count = 0 /\ first.gas = gas
    BY DEF first
  <2>2. Spared(gas, 0, first)
    BY <1>3, <2>1 DEF Spared
  <2>3. 0 \in 0..most
    BY <1>1
  <2>. QED BY <1>3, <1>10, <2>2, <2>3, Zenon
<1>13. ASSUME NEW k \in 0..(most - 1), k \in G PROVE k + 1 \in G
  <2>. DEFINE v == h[1..k]
              w == h[1..(k + 1)]
  <2>1. k \in Nat /\ k + 1 \in 0..most
    BY <1>1
  <2>2. v \in [count : Nat, gas : Int] /\ Spared(gas, k, v)
    BY <1>13 DEF States
  <2>3. w = OneMore(gas, v, k + 1)
    BY <1>11
  <2>. HIDE DEF v, w
  <2>4. w \in [count : Nat, gas : Int] /\ Spared(gas, k + 1, w)
    BY <2>1, <2>2, <2>3, SparedStep, Zenon
  <2>. QED BY <2>1, <2>4 DEF w, States
<1>14. most \in G
  <2>1. \A k \in 0..most : k \in G
    <3>. HIDE DEF G
    <3>. QED BY <1>1, <1>12, <1>13, Induction
  <2>. HIDE DEF G
  <2>. QED BY <1>1, <2>1
<1>. DEFINE v == h[1..most]
            c == v.count
<1>15. v \in [count : Nat, gas : Int] /\ Spared(gas, most, v)
  BY <1>14 DEF States
<1>. HIDE DEF v
<1>16. /\ c \in 0..most /\ c \in Nat /\ v.gas = After(gas, c)
       /\ \A j \in Nat : j < c => After(gas, j) > After(gas, c)
       /\ c < most => After(gas, c) <= After(gas, c + 1)
  BY <1>15 DEF Spared
<1>. HIDE DEF c
<1>17. After(gas, c) <= After(gas, c + 1)
  <2>1. After(gas, most) <= After(gas, most + 1)
    BY AfterMost, Zenon DEF most
  <2>2. CASE c < most
    BY <1>16, <2>2
  <2>3. CASE c = most
    BY <2>1, <2>3
  <2>. QED BY <1>1, <1>16, <2>2, <2>3
<1>18. ASSUME NEW k \in Nat, c <= k PROVE After(gas, k) >= After(gas, c)
  <2>1. After(gas, c) <= After(gas, k)
    BY <1>16, <1>17, <1>18, AfterTurns, Zenon
  <2>2. After(gas, c) \in Int /\ After(gas, k) \in Int
    BY <1>16 DEF After, Larger, gas_reduction, burn_cost
  <2>. QED BY <2>1, <2>2
<1>19. get_burners_values(gas) = [count |-> c, gas |-> Rounded(After(gas, c) * 12, 10)]
  BY <1>2, <1>16, Zenon DEF v, c
<1>20. ASSUME NEW k \in Nat
       PROVE  /\ k < c => After(gas, k) > After(gas, c)
              /\ c <= k => After(gas, k) >= After(gas, c)
  <2>1. k < c => After(gas, k) > After(gas, c)
    BY <1>16
  <2>2. c <= k => After(gas, k) >= After(gas, c)
    BY <1>18
  <2>. QED BY <2>1, <2>2
<1>. QED BY <1>16, <1>19, <1>20, Zenon

-----------------------------------------------------------------------------
(* What an arbitrage costs *)

-----------------------------------------------------------------------------
(* Economics *)

\* A gas price is a number, and a higher ratio gives a higher one.
LEMMA PriceIs ==
  ASSUME NEW profit \in Int, NEW gas \in Nat \ {0}, NEW token \in DOMAIN GweiPerUnit,
         NEW ratio \in Int
  PROVE  calc_optimal_gas_price(profit, gas, token, ratio) \in Int
<1>. DEFINE worth == GweiPerUnit[token]
            a == profit * ratio * worth
            b == 100 * gas
<1>1. worth \in Nat \ {0}
  BY WorthAssumption
<1>2. a \in Int /\ b \in Nat \ {0}
  BY <1>1
<1>. HIDE DEF a, b
<1>3. Rounded(a, b) \in Int
  BY <1>2, RoundedIs
<1>. QED BY <1>3 DEF calc_optimal_gas_price, a, b

\* A larger share of the profit pays a gas price that is not lower.
LEMMA PriceGrows ==
  ASSUME NEW profit \in Int, profit > 0, NEW gas \in Nat \ {0}, NEW token \in DOMAIN GweiPerUnit,
         NEW low \in Int, NEW high \in Int, low <= high
  PROVE  calc_optimal_gas_price(profit, gas, token, low)
           <= calc_optimal_gas_price(profit, gas, token, high)
<1>. DEFINE worth == GweiPerUnit[token]
            a == profit * low * worth
            c == profit * high * worth
            b == 100 * gas
<1>1. worth \in Nat \ {0}
  BY WorthAssumption
<1>2. a \in Int /\ b \in Nat \ {0} /\ c \in Int
  BY <1>1
<1>3. a <= c
  <2>. HIDE DEF worth
  <2>1. profit * low <= profit * high
    OBVIOUS
  <2>. DEFINE x == profit * low
              y == profit * high
  <2>2. x \in Int /\ y \in Int /\ x <= y
    BY <2>1
  <2>. HIDE DEF x, y
  <2>3. x * worth <= y * worth
    BY <1>1, <2>2
  <2>. QED BY <2>3 DEF x, y
<1>. HIDE DEF a, b, c
<1>4. Rounded(a, b) <= Rounded(c, b)
  BY <1>2, <1>3, RoundedGrows
<1>. QED BY <1>4 DEF calc_optimal_gas_price, a, b, c

\* The tiers never lower the price below the first one.
LEMMA TieredIs ==
  ASSUME NEW profit \in Int, NEW gas \in Nat \ {0}, NEW token \in DOMAIN GweiPerUnit
  PROVE  /\ tiered_gas_price(profit, gas, token) \in Int
         /\ profit > 0 => calc_optimal_gas_price(profit, gas, token, Ratio.low)
                            <= tiered_gas_price(profit, gas, token)
<1>. DEFINE Tier(ratio) == calc_optimal_gas_price(profit, gas, token, ratio)
            low == Tier(Ratio.low)
            middle == Tier(Ratio.mid)
            high == Tier(Ratio.high)
            mid == IF low > GasPrices.low THEN middle ELSE low
<1>0. /\ Ratio.low \in Int /\ Ratio.mid \in Int /\ Ratio.high \in Int
      /\ Ratio.low <= Ratio.mid /\ Ratio.mid <= Ratio.high
  BY RatioAssumption
<1>1. low \in Int /\ middle \in Int /\ high \in Int
  BY <1>0, PriceIs
<1>2. profit > 0 => low <= middle /\ middle <= high
  BY <1>0, PriceGrows
<1>3. tiered_gas_price(profit, gas, token) = IF mid > GasPrices.mid THEN high ELSE mid
  BY Zenon DEF tiered_gas_price
<1>. HIDE DEF low, middle, high
<1>. QED BY <1>1, <1>2, <1>3 DEF low

\* The gas that is paid for after burning is a number, and positive.
LEMMA GasLeft ==
  ASSUME NEW gas \in Nat, gas > 1
  PROVE  \E c \in Nat, left \in Nat \ {0} :
           /\ (IF BurnEnabled THEN get_burners_values(gas) ELSE [count |-> 0, gas |-> gas])
                = [count |-> c, gas |-> left]
           /\ BurnEnabled => \A k \in Nat : /\ k < c => After(gas, k) > After(gas, c)
                                            /\ c <= k => After(gas, k) >= After(gas, c)
<1>1. CASE BurnEnabled
  <2>1. PICK c \in Nat :
           /\ get_burners_values(gas) = [count |-> c, gas |-> Rounded(After(gas, c) * 12, 10)]
           /\ \A k \in Nat : /\ k < c => After(gas, k) > After(gas, c)
                             /\ c <= k => After(gas, k) >= After(gas, c)
    BY BurnersBest, Zenon
  <2>. DEFINE most == After(gas, c)
              left == Rounded(most * 12, 10)
  <2>2. most \in Int /\ most >= 1
    <3>1. (gas + burn_cost * c) \div 2 >= 1 /\ (gas + burn_cost * c) \div 2 \in Int
      BY DEF burn_cost
    <3>2. gas - gas_reduction * c \in Int
      BY DEF gas_reduction
    <3>. QED BY <3>1, <3>2 DEF After, Larger
  <2>. HIDE DEF most
  <2>3. left \in Nat \ {0}
    <3>1. most * 12 \in Int /\ (most * 12) \div 10 >= 1 /\ 10 \in Nat \ {0}
      BY <2>2
    <3>2. left \in Int /\ (most * 12) \div 10 <= left
      BY <3>1, RoundedIs
    <3>. HIDE DEF left
    <3>. QED BY <3>1, <3>2
  <2>. HIDE DEF left
  <2>. QED BY <1>1, <2>1, <2>3, Zenon DEF left, most
<1>2. CASE ~ BurnEnabled
  <2>1. 0 \in Nat /\ gas \in Nat \ {0}
    OBVIOUS
  <2>. QED BY <1>2, <2>1, Zenon
<1>. QED BY <1>1, <1>2

\* What a transaction of some gas costs and leaves.
LEMMA EconomicsIs ==
  ASSUME NEW bruto \in Int, NEW gas \in Nat, gas > 1, NEW token \in DOMAIN GweiPerUnit,
         NEW cap \in Int
  PROVE  LET eco == Economics(bruto, gas, token, cap)
         IN  /\ eco.burners_count \in Nat /\ eco.burners_cost \in Int /\ eco.gas_cost \in Int
             /\ eco.gas_price \in Int /\ eco.left = bruto - eco.burners_cost
             /\ eco.neto_profit = eco.left - eco.gas_cost
             /\ eco.left > 0 => eco.first_price <= eco.gas_price
             /\ eco.first_price \in Int
             /\ BurnEnabled => \A k \in Nat :
                  /\ k < eco.burners_count => After(gas, k) > After(gas, eco.burners_count)
                  /\ eco.burners_count <= k => After(gas, k) >= After(gas, eco.burners_count)
<1>. DEFINE eco == Economics(bruto, gas, token, cap)
            burn == IF BurnEnabled THEN get_burners_values(gas) ELSE [count |-> 0, gas |-> gas]
            cost == Rounded(burn.count * 36930 * BurnGasPrice, GweiPerUnit[token])
            left == bruto - cost
            optimal == tiered_gas_price(left, burn.gas, token)
            gas_cost == calc_gas_cost(Smaller(optimal, cap), burn.gas, token)
            first == calc_optimal_gas_price(left, burn.gas, token, Ratio.low)
<1>1. eco = [burners_count |-> burn.count, burners_cost |-> cost,
             left |-> left, gas_price |-> optimal, gas_cost |-> gas_cost,
             first_price |-> first, neto_profit |-> left - gas_cost]
  BY DEF Economics
<1>2. PICK c \in Nat, used \in Nat \ {0} :
        /\ burn = [count |-> c, gas |-> used]
        /\ BurnEnabled => \A k \in Nat : /\ k < c => After(gas, k) > After(gas, c)
                                         /\ c <= k => After(gas, k) >= After(gas, c)
  BY GasLeft, Zenon
<1>3. burn.count = c /\ burn.gas = used
  <2>. HIDE DEF burn
  <2>. QED BY <1>2
<1>. HIDE DEF burn
<1>4. cost \in Int
  <2>. DEFINE a == burn.count * 36930 * BurnGasPrice
              b == GweiPerUnit[token]
  <2>1. a \in Int /\ b \in Nat \ {0}
    BY <1>3, BurnAssumption, WorthAssumption
  <2>. HIDE DEF a, b
  <2>2. Rounded(a, b) \in Int
    BY <2>1, RoundedIs
  <2>. QED BY <2>2 DEF a, b
<1>. HIDE DEF cost
<1>5. left \in Int
  BY <1>4
<1>. HIDE DEF left
<1>6. optimal \in Int /\ (left > 0 => first <= optimal)
  BY <1>3, <1>5, TieredIs
<1>7. first \in Int
  <2>1. Ratio.low \in Int
    BY RatioAssumption
  <2>. QED BY <1>3, <1>5, <2>1, PriceIs
<1>. HIDE DEF optimal, first
<1>8. gas_cost \in Int
  <2>. DEFINE a == Smaller(optimal, cap) * burn.gas
              b == GweiPerUnit[token]
  <2>1. Smaller(optimal, cap) \in Int
    BY <1>6 DEF Smaller
  <2>2. a \in Int /\ b \in Nat \ {0}
    BY <1>3, <2>1, WorthAssumption
  <2>. HIDE DEF a, b
  <2>3. Rounded(a, b) \in Int
    BY <2>2, RoundedIs
  <2>. QED BY <2>3 DEF calc_gas_cost, a, b
<1>. HIDE DEF gas_cost, eco
<1>9. /\ eco.burners_count = c /\ eco.burners_cost = cost /\ eco.left = left
      /\ eco.gas_price = optimal /\ eco.gas_cost = gas_cost /\ eco.first_price = first
      /\ eco.neto_profit = left - gas_cost
  BY <1>1, <1>3
<1>10. left = bruto - cost
  BY DEF left
<1>11. /\ eco.burners_count \in Nat /\ eco.burners_cost \in Int /\ eco.gas_cost \in Int
       /\ eco.gas_price \in Int /\ eco.left = bruto - eco.burners_cost
       /\ eco.neto_profit = eco.left - eco.gas_cost
       /\ eco.left > 0 => eco.first_price <= eco.gas_price
       /\ eco.first_price \in Int
  BY <1>4, <1>6, <1>7, <1>8, <1>9, <1>10, Zenon
<1>12. BurnEnabled => \A k \in Nat :
         /\ k < eco.burners_count => After(gas, k) > After(gas, eco.burners_count)
         /\ eco.burners_count <= k => After(gas, k) >= After(gas, eco.burners_count)
  BY <1>2, <1>9, Zenon
<1>. QED BY <1>11, <1>12, Zenon DEF eco

-----------------------------------------------------------------------------
(* What is offered for execution *)

\* An arbitrage that the check leaves: its costs, and that it pays.
Pays(x, arb, res) ==
  LET gas == res.gas + 23640
  IN  /\ x.path = arb.path /\ x.amount_in = arb.amount_in /\ x.gas_price \in Int /\ x.burners_count \in Nat
      /\ GasPrices.min <= x.gas_price /\ x.neto_profit > 0
      /\ \E gas_cost, burners_cost \in Int :
           /\ x.tx_cost = arb.amount_in + gas_cost + burners_cost
           /\ x.neto_profit = res.profit - burners_cost - gas_cost
      /\ BurnEnabled => \A k \in Nat :
           /\ k < x.burners_count => After(gas, k) > After(gas, x.burners_count)
           /\ x.burners_count <= k => After(gas, k) >= After(gas, x.burners_count)

\* What the contract answers.
LEMMA OutcomeIs ==
  ASSUME NEW res \in Outcomes
  PROVE  res.profit \in Nat /\ res.gas \in Nat
<1>1. PICK arb \in Arbs, v \in AnyVerdict : res = Result(arb, v)
  BY DEF Outcomes
<1>2. v.profit \in Nat /\ v.gas \in Nat
  <2>1. CASE v = Failed
    BY <2>1 DEF Failed
  <2>2. CASE v # Failed
    <3>1. PICK p \in Paths : v \in Verdicts[p]
      BY <2>2 DEF AnyVerdict
    <3>. QED BY <3>1, VerdictsAssumption
  <2>. QED BY <2>1, <2>2
<1>. QED BY <1>1, <1>2 DEF Result

\* handle_successful keeps none but those that pay.
LEMMA RecalculatedIs ==
  ASSUME NEW arb \in Arbs, NEW res \in Outcomes
  PROVE  /\ Recalculated(arb, res) \in Seq(ToSet(Recalculated(arb, res)))
         /\ \A x \in ToSet(Recalculated(arb, res)) : Pays(x, arb, res)
<1>. DEFINE token == arb.path[1]
            gas == res.gas + 23640
            eco == Economics(res.profit, gas, token, Unlimited)
            x == Arbitrage(arb.path, arb.amount_in, res.profit, eco)
            kept == res.success /\ res.profit # 0 /\ IsWorth(eco, token)
            all == Recalculated(arb, res)
<1>1. all = IF kept THEN <<x>> ELSE <<>>
  BY DEF Recalculated
<1>2. res.profit \in Int /\ gas \in Nat /\ gas > 1
  BY OutcomeIs
<1>3. token \in DOMAIN GweiPerUnit
  <2>1. arb.path \in Paths
    <3>1. PICK m \in Markets, p \in Paths : arb \in calculate_profitability(m, p)
      BY DEF Arbs
    <3>. QED BY <3>1, ArbOfPath, Zenon
  <2>. QED BY <2>1, PathsAssumption
<1>4. Unlimited \in Int
  BY DEF Unlimited
<1>. HIDE DEF token, gas
<1>5. /\ eco.burners_count \in Nat /\ eco.burners_cost \in Int /\ eco.gas_cost \in Int
      /\ eco.gas_price \in Int /\ eco.left = res.profit - eco.burners_cost
      /\ eco.neto_profit = eco.left - eco.gas_cost
      /\ eco.left > 0 => eco.first_price <= eco.gas_price
      /\ eco.first_price \in Int
      /\ BurnEnabled => \A k \in Nat :
           /\ k < eco.burners_count => After(gas, k) > After(gas, eco.burners_count)
           /\ eco.burners_count <= k => After(gas, k) >= After(gas, eco.burners_count)
  BY <1>2, <1>3, <1>4, EconomicsIs, Zenon
<1>. HIDE DEF eco
<1>6. /\ x.path = arb.path /\ x.amount_in = arb.amount_in /\ x.gas_price = eco.gas_price
      /\ x.neto_profit = eco.neto_profit /\ x.burners_count = eco.burners_count
      /\ x.tx_cost = arb.amount_in + eco.gas_cost + eco.burners_cost
  BY DEF Arbitrage
<1>. HIDE DEF x
<1>7. ASSUME kept PROVE Pays(x, arb, res)
  <2>1. eco.left > 0 /\ eco.first_price >= GasPrices.min /\ eco.neto_profit > 0
    BY <1>7, Zenon DEF IsWorth
  <2>2. GasPrices.min <= eco.gas_price
    BY <1>5, <2>1, GasPricesAssumption
  <2>3. \E gas_cost, burners_cost \in Int :
          /\ x.tx_cost = arb.amount_in + gas_cost + burners_cost
          /\ x.neto_profit = res.profit - burners_cost - gas_cost
    BY <1>5, <1>6
  <2>4. BurnEnabled => \A k \in Nat :
          /\ k < x.burners_count => After(gas, k) > After(gas, x.burners_count)
          /\ x.burners_count <= k => After(gas, k) >= After(gas, x.burners_count)
    BY <1>5, <1>6, Zenon
  <2>5. /\ x.path = arb.path /\ x.amount_in = arb.amount_in
        /\ x.gas_price \in Int /\ x.burners_count \in Nat
        /\ GasPrices.min <= x.gas_price /\ x.neto_profit > 0
    BY <1>5, <1>6, <2>1, <2>2
  <2>. QED BY <2>3, <2>4, <2>5 DEF Pays, gas
<1>8. CASE kept
  <2>1. all = <<x>> /\ ToSet(<<x>>) = {x}
    BY <1>1, <1>8 DEF ToSet
  <2>. HIDE DEF all
  <2>2. all \in Seq({x}) /\ ToSet(all) = {x}
    BY <2>1
  <2>. QED BY <1>7, <1>8, <2>2 DEF all
<1>9. CASE ~ kept
  <2>1. all = <<>> /\ ToSet(<<>>) = {}
    BY <1>1, <1>9 DEF ToSet
  <2>. HIDE DEF all
  <2>2. all \in Seq(ToSet(all)) /\ ToSet(all) = {}
    BY <2>1
  <2>. QED BY <2>2 DEF all
<1>. QED BY <1>8, <1>9

\* The arbitrages that the checks leave, in the order of the checks.
Offers == UNION {ToSet(Recalculated(raw_arbs[i], results[i])) : i \in 1..Len(results)}

\* What is recalculated are offers with a price, each from its own arbitrage.
LEMMA RecalculationsAre ==
  ASSUME SeqInv
  PROVE  /\ Recalculations \in Seq(Offers) /\ Priced(Recalculations)
         /\ \A i \in 1..Len(results) : raw_arbs[i] \in Arbs /\ results[i] \in Outcomes
<1>. DEFINE seqs == [i \in DOMAIN results |-> Recalculated(raw_arbs[i], results[i])]
            n == Len(results)
<1>1. n \in Nat /\ DOMAIN results = 1..n /\ \A i \in 1..n : results[i] \in Outcomes
  BY DEF SeqInv
<1>2. \A i \in 1..n : raw_arbs[i] \in Arbs
  <2>1. PICK cuts : Tiles(cuts, batches, n, raw_arbs)
    BY DEF SeqInv, Batched
  <2>2. n <= Len(raw_arbs)
    <3>1. /\ cuts[1] = n /\ \A k \in 1..(Len(batches) + 1) : cuts[k] <= Len(raw_arbs)
      BY <2>1 DEF Tiles
    <3>2. 1 \in 1..(Len(batches) + 1)
      BY DEF SeqInv
    <3>. QED BY <3>1, <3>2
  <2>. QED BY <1>1, <2>2 DEF SeqInv
<1>. HIDE DEF n
<1>3. ASSUME NEW i \in 1..n
      PROVE  /\ seqs[i] = Recalculated(raw_arbs[i], results[i])
             /\ ToSet(seqs[i]) \subseteq Offers /\ seqs[i] \in Seq(Offers)
             /\ \A x \in ToSet(seqs[i]) : x.gas_price \in Int
  <2>1. raw_arbs[i] \in Arbs /\ results[i] \in Outcomes
    BY <1>1, <1>2
  <2>. DEFINE q == Recalculated(raw_arbs[i], results[i])
  <2>2. seqs[i] = q
    BY <1>1
  <2>3. q \in Seq(ToSet(q)) /\ \A x \in ToSet(q) : Pays(x, raw_arbs[i], results[i])
    BY <2>1, RecalculatedIs, Zenon
  <2>4. ToSet(q) \subseteq Offers
    BY DEF Offers, n
  <2>. HIDE DEF q, seqs
  <2>5. q \in Seq(Offers)
    BY <2>3, <2>4
  <2>6. \A x \in ToSet(q) : x.gas_price \in Int
    BY <2>3 DEF Pays
  <2>. QED BY <2>2, <2>4, <2>5, <2>6, Zenon DEF q
<1>4. seqs \in Seq(Seq(Offers)) /\ DOMAIN seqs = 1..n
  <2>1. \A i \in 1..n : seqs[i] \in Seq(Offers)
    BY <1>3
  <2>2. DOMAIN seqs = 1..n /\ seqs = [i \in 1..n |-> seqs[i]]
    BY <1>1
  <2>. HIDE DEF seqs
  <2>. QED BY <1>1, <2>1, <2>2
<1>. HIDE DEF seqs
<1>5. /\ FlattenSeq(seqs) \in Seq(Offers)
      /\ ToSet(FlattenSeq(seqs)) = UNION {ToSet(seqs[i]) : i \in 1..n}
  BY <1>4, FlattenSeqIs
<1>6. Recalculations = FlattenSeq(seqs)
  BY Zenon DEF Recalculations, seqs
<1>7. ASSUME NEW i \in 1..Len(Recalculations) PROVE Recalculations[i].gas_price \in Int
  <2>. DEFINE r == Recalculations
  <2>1. r \in Seq(Offers) /\ ToSet(r) = UNION {ToSet(seqs[j]) : j \in 1..n}
    BY <1>5, <1>6
  <2>. HIDE DEF r
  <2>2. i \in 1..Len(r)
    BY DEF r
  <2>3. r[i] \in ToSet(r)
    BY <2>1, <2>2 DEF ToSet
  <2>4. PICK j \in 1..n : r[i] \in ToSet(seqs[j])
    BY <2>1, <2>3
  <2>. QED BY <1>3, <2>4 DEF r
<1>. QED BY <1>1, <1>2, <1>5, <1>6, <1>7 DEF Priced, n

\* Until the transactions are sent, the offers are those of filter_profitables.
OfferInv == pc = "execute" => potential_arbs = filter_profitables(Recalculations)

\* Each step keeps the invariant of the offers.
LEMMA OffersKeep == OfferInv /\ [Next]_vars => OfferInv'
<1>. SUFFICES ASSUME OfferInv, [Next]_vars, pc' = "execute"
              PROVE  potential_arbs' = filter_profitables(Recalculations)'
  BY DEF OfferInv
<1>1. CASE UNCHANGED vars
  BY <1>1 DEF vars, blockVars, OfferInv, Recalculations
<1>2. CASE Next
  <2>1. Handle
    BY <1>2 DEF Next, Start, Search, CallBatch, BatchFails, Execute, SavePre, SaveBlacklist,
                RemoveBlacklisted, Timer, Crash
  <2>2. UNCHANGED <<raw_arbs, results>> /\ potential_arbs' = filter_profitables(Recalculations)
    BY <2>1 DEF Handle
  <2>3. Recalculations' = Recalculations
    BY <2>2 DEF Recalculations
  <2>. QED BY <2>2, <2>3
<1>. QED BY <1>1, <1>2

\* What filter_profitables keeps, and in which order it looks.
LEMMA KeptFirst ==
  ASSUME NEW all \in Seq(Offers), Priced(all)
  PROVE  \E order, seen :
           /\ Sorts(order, all) /\ \A k \in 1..Len(all) : order[k] \in 1..Len(all)
           /\ Sorted(all) \in Seq(Offers) /\ Len(Sorted(all)) = Len(all)
           /\ \A k \in 1..Len(all) : Sorted(all)[k] = all[order[k]]
           /\ filter_profitables(all) = seen[Len(all)].kept
           /\ \A k \in 0..Len(all) : Filtered(seen[k], seen, Sorted(all), k)
<1>. DEFINE n == Len(all)
            s == Sorted(all)
            kept == filter_profitables(all)
<1>1. n \in Nat /\ DOMAIN all = 1..n
  OBVIOUS
<1>. HIDE DEF n
<1>2. PICK order : /\ s \in Seq(Offers) /\ Len(s) = n /\ Sorts(order, all)
                   /\ \A k \in 1..n : s[k] = all[order[k]]
  <2>1. /\ s \in Seq(Offers) /\ Len(s) = Len(all)
        /\ \E order : Sorts(order, all) /\ \A k \in 1..Len(all) : s[k] = all[order[k]]
    <3>1. /\ Sorted(all) \in Seq(Offers) /\ Len(Sorted(all)) = Len(all)
          /\ \E order : /\ Sorts(order, all)
                        /\ \A k \in 1..Len(all) : Sorted(all)[k] = all[order[k]]
      BY SortedSorts
    <3>. QED BY <3>1, Zenon
  <2>. QED BY <2>1, Zenon DEF n
<1>3. PICK seen : Filters(seen, s) /\ kept = seen[n].kept
  BY <1>2, FilterIs, Zenon
<1>. HIDE DEF s, kept
<1>4. \A k \in 1..n : order[k] \in 1..n
  BY <1>2 DEF Sorts, n
<1>5. Priced(s)
  BY <1>2, <1>4, Zenon DEF Priced, n
<1>6. ASSUME NEW i \in 1..n, NEW j \in 1..n, i < j PROVE s[i].gas_price >= s[j].gas_price
  <2>1. Before(all, order[i], order[j])
    BY <1>2, <1>6, Zenon DEF Sorts, n
  <2>. DEFINE p == s[i].gas_price
              q == s[j].gas_price
  <2>2. p > q \/ p = q
    BY <1>2, <2>1, Zenon DEF Before
  <2>3. p \in Int /\ q \in Int
    BY <1>2, <1>5, Zenon DEF Priced
  <2>. HIDE DEF p, q
  <2>4. p >= q
    BY <2>2, <2>3
  <2>. QED BY <2>4 DEF p, q
<1>7. GasPrices.max \in Int
  BY GasPricesAssumption
<1>8. \A k \in 0..n : Filtered(seen[k], seen, s, k)
  <2>1. \A i, j \in 1..Len(s) : i < j => s[i].gas_price >= s[j].gas_price
    BY <1>2, <1>6, Zenon
  <2>. QED BY <1>2, <1>3, <1>5, <1>7, <2>1, FilterEnds, Zenon
<1>. QED BY <1>2, <1>3, <1>4, <1>8, Zenon DEF n, s, kept

\* Nothing too dear is kept.
LEMMA KeptAffordable ==
  ASSUME NEW all \in Seq(Offers), Priced(all)
  PROVE  \A i \in DOMAIN filter_profitables(all) :
           filter_profitables(all)[i].gas_price <= GasPrices.max
<1>. DEFINE n == Len(all)
            s == Sorted(all)
            kept == filter_profitables(all)
<1>1. PICK seen : kept = seen[n].kept /\ \A k \in 0..n : Filtered(seen[k], seen, s, k)
  BY KeptFirst, Zenon
<1>2. n \in 0..n
  OBVIOUS
<1>. HIDE DEF n, s, kept
<1>3. Filtered(seen[n], seen, s, n)
  BY <1>1, <1>2
<1>4. PICK m \in Nat : kept \in [1..m -> {s[i] : i \in 1..n}]
  BY <1>1, <1>3, Zenon DEF Filtered
<1>5. Len(kept) = m /\ DOMAIN kept = 1..m
  BY <1>4
<1>6. ASSUME NEW i \in DOMAIN kept PROVE kept[i].gas_price <= GasPrices.max
  BY <1>1, <1>3, <1>5, Zenon DEF Filtered, OfferedTo
<1>. QED BY <1>6 DEF kept

\* What OffersApart says.
LEMMA OffersAreApart ==
  ASSUME SeqInv, OfferInv
  PROVE  OffersApart
<1>. SUFFICES ASSUME pc = "execute" PROVE OffersApart
  BY Zenon DEF OffersApart
<1>. DEFINE all == Recalculations
            n == Len(all)
            s == Sorted(all)
            kept == filter_profitables(all)
            Dearer(i, j) == \/ all[i].gas_price > all[j].gas_price
                            \/ all[i].gas_price = all[j].gas_price /\ i < j
            Clash(i, j) == PairsOf(all[i].path) \cap PairsOf(all[j].path) # {}
            InFirst(first, j) == ~ \E i \in first : Dearer(i, j) /\ Clash(i, j)
<1>1. all \in Seq(Offers) /\ Priced(all)
  BY RecalculationsAre, Zenon
<1>. HIDE DEF all
<1>2. n \in Nat /\ DOMAIN all = 1..n
  BY <1>1
<1>3. PICK order, seen :
        /\ Sorts(order, all) /\ \A k \in 1..n : order[k] \in 1..n
        /\ s \in Seq(Offers) /\ Len(s) = n /\ \A k \in 1..n : s[k] = all[order[k]]
        /\ kept = seen[n].kept /\ \A k \in 0..n : Filtered(seen[k], seen, s, k)
  BY <1>1, KeptFirst, Zenon
<1>. HIDE DEF n, s, kept
<1>4. kept = seen[n].kept
  BY <1>3
<1>9. \A k \in 0..n : Filtered(seen[k], seen, s, k)
  BY <1>3
<1>10. Filtered(seen[n], seen, s, n)
  BY <1>2, <1>9
<1>11. PICK m \in Nat : kept \in [1..m -> {s[i] : i \in 1..n}]
  BY <1>4, <1>10, Zenon DEF Filtered
<1>12. Len(kept) = m /\ DOMAIN kept = 1..m
  BY <1>11
<1>13. ASSUME NEW i \in DOMAIN kept, NEW j \in DOMAIN kept, i < j
       PROVE  /\ PairsOf(kept[i].path) \cap PairsOf(kept[j].path) = {}
              /\ kept[i].gas_price >= kept[j].gas_price
  BY <1>4, <1>10, <1>12, <1>13, Zenon DEF Filtered, Clear
<1>14. ASSUME NEW first \in SUBSET DOMAIN all,
              \A j \in DOMAIN all : j \in first <=> InFirst(first, j)
       PROVE  ToSet(kept) = {all[i] : i \in {k \in first : all[k].gas_price <= GasPrices.max}}
  <2>1. first \in SUBSET (1..n)
    BY <1>2
  <2>2. \A j \in 1..n : j \in first <=>
          ~ \E i \in first : /\ Before(all, i, j)
                            /\ PairsOf(all[i].path) \cap PairsOf(all[j].path) # {}
    BY <1>2, <1>14, Zenon DEF Before
  <2>3. \A k \in 1..n : order[k] \in first <=> k \in InLine(seen, s)
    BY <1>1, <1>3, <1>9, <2>1, <2>2, InLineUnique, Zenon DEF n
  <2>4. \A k \in 1..n : k <= n
    BY <1>2
  <2>5. ASSUME NEW x
        PROVE  x \in ToSet(kept) <=>
                 \E i \in first : all[i].gas_price <= GasPrices.max /\ x = all[i]
    <3>1. x \in ToSet(kept) <=> \E a \in 1..m : kept[a] = x
      BY <1>12 DEF ToSet
    <3>2. (\E a \in 1..m : kept[a] = x) <=> \E i \in OfferedTo(seen, s, n) : s[i] = x
      BY <1>4, <1>10, <1>12, Zenon DEF Filtered
    <3>3. \A k : k \in OfferedTo(seen, s, n) <=>
            k \in 1..n /\ k \in InLine(seen, s) /\ s[k].gas_price <= GasPrices.max
      BY <1>3, <2>4, Zenon DEF OfferedTo, InLineTo, InLine
    <3>4. ASSUME NEW k \in OfferedTo(seen, s, n), s[k] = x
          PROVE  \E i \in first : all[i].gas_price <= GasPrices.max /\ x = all[i]
      BY <1>3, <2>3, <3>3, <3>4, Zenon
    <3>5. ASSUME NEW i \in first, all[i].gas_price <= GasPrices.max, x = all[i]
          PROVE  \E k \in OfferedTo(seen, s, n) : s[k] = x
      <4>1. PICK k \in 1..n : order[k] = i
        BY <1>3, <2>1, Zenon DEF Sorts, n
      <4>. QED BY <1>3, <2>3, <3>3, <3>5, <4>1, Zenon
    <3>. QED BY <3>1, <3>2, <3>4, <3>5, Zenon
  <2>. QED BY <2>5
<1>15. potential_arbs = kept
  BY Zenon DEF OfferInv, kept, all
<1>. QED BY <1>13, <1>14, <1>15, Zenon DEF OffersApart, all

\* Each pair is traded by the dearest arbitrage in it that still pays after the
\* check, whatever the other arbitrages, and no pair twice.
THEOREM OffersStayApart == Spec => []OffersApart
<1>1. Init => OfferInv
  BY DEF Init, OfferInv
<1>2. Spec => []OfferInv
  BY <1>1, OffersKeep, PTL DEF Spec
<1>3. IInv /\ OfferInv => OffersApart
  BY OffersAreApart DEF IInv
<1>. QED BY <1>2, <1>3, InvariantHolds, PTL

-----------------------------------------------------------------------------
(* The amounts *)

\* Products of positive numbers are positive.
LEMMA Product ==
  ASSUME NEW a \in Nat \ {0}, NEW b \in Nat \ {0}
  PROVE  a * b \in Nat \ {0}
<1>1. a * b \in Nat
  OBVIOUS
<1>2. a * b # 0
  OBVIOUS
<1>. QED BY <1>1, <1>2

\* There is a square root.
LEMMA SquareRootIs ==
  ASSUME NEW n \in Nat
  PROVE  SquareRoot(n) \in Nat
<1>. DEFINE Root(m) == \E s \in 0..m : s * s <= m /\ m < (s + 1) * (s + 1)
            G == {m \in 0..n : Root(m)}
<1>1. 0 \in G
  <2>1. 0 * 0 <= 0 /\ 0 < (0 + 1) * (0 + 1) /\ 0 \in 0..0
    OBVIOUS
  <2>. QED BY <2>1
<1>2. ASSUME NEW m \in 0..(n - 1), m \in G PROVE m + 1 \in G
  <2>1. PICK s \in 0..m : s * s <= m /\ m < (s + 1) * (s + 1)
    BY <1>2
  <2>. DEFINE a == s * s
  <2>2. /\ a \in Int /\ (s + 1) * (s + 1) = a + 2 * s + 1
        /\ (s + 1 + 1) * (s + 1 + 1) = a + 4 * s + 4
    OBVIOUS
  <2>. HIDE DEF a
  <2>3. a <= m /\ m < a + 2 * s + 1
    BY <2>1, <2>2 DEF a
  <2>4. CASE m + 1 < a + 2 * s + 1
    <3>1. s \in 0..(m + 1) /\ a <= m + 1
      BY <2>2, <2>3
    <3>2. Root(m + 1)
      BY <2>2, <2>4, <3>1 DEF a
    <3>. QED BY <3>2
  <2>5. CASE ~ (m + 1 < a + 2 * s + 1)
    <3>1. s + 1 \in 0..(m + 1) /\ a + 2 * s + 1 <= m + 1 /\ m + 1 < a + 4 * s + 4
      BY <2>2, <2>3, <2>5
    <3>2. Root(m + 1)
      <4>1. (s + 1) * (s + 1) <= m + 1 /\ m + 1 < (s + 1 + 1) * (s + 1 + 1)
        BY <2>2, <3>1
      <4>. QED BY <3>1, <4>1
    <3>. QED BY <3>2
  <2>. QED BY <2>4, <2>5
<1>3. \A m \in 0..n : m \in G
  <2>. HIDE DEF G
  <2>. QED BY <1>1, <1>2, Induction
<1>4. Root(n)
  <2>. HIDE DEF Root
  <2>. QED BY <1>3
<1>5. SquareRoot(n) \in 0..n
  BY <1>4, Zenon DEF SquareRoot
<1>. QED BY <1>5

\* A path whose pools have reserves and fees.
Trades(market, path) ==
  /\ Swaps(path) \in Nat \ {0}
  /\ \A k \in 1..Swaps(path) :
       /\ market[path[2 * k]].fee \in Nat \ {0}
       /\ market[path[2 * k]].reserves[path[2 * k - 1]] \in Nat \ {0}
       /\ market[path[2 * k]].reserves[path[2 * k + 1]] \in Nat \ {0}

\* The pool that trades as the whole path does has reserves.
LEMMA VirtualIs ==
  ASSUME NEW market, NEW path, Trades(market, path)
  PROVE  /\ get_virtual_reserves(market, path).in \in Nat
         /\ get_virtual_reserves(market, path).out \in Nat
<1>. DEFINE Pos == Nat \ {0}
            Reserve(i, j) == market[path[i]].reserves[path[j]]
            Through(v, i) ==
              LET fee == market[path[i]].fee
              IN  [in |-> FeeBase * v.in * Reserve(i, i - 1),
                   out |-> fee * v.out * Reserve(i, i + 1),
                   over |-> FeeBase * Reserve(i, i - 1) * v.over + fee * v.out]
            positions == PoolPositions(path)
            s == Tail(positions)
            n == Len(s)
            first == [in |-> Reserve(2, 1), out |-> Reserve(2, 3), over |-> 1]
            States == [in : Pos, out : Pos, over : Pos]
            Rec(h) == h = [T \in SUBSET (1..n) |->
                             IF T = {} THEN first ELSE Through(h[T \ {Max(T)}], s[Max(T)])]
            h == CHOOSE g : Rec(g)
            step == [x \in States \X (1..n) |-> Through(x[1], s[x[2]])]
<1>1. /\ n \in Nat /\ DOMAIN s = 1..n
      /\ \A k \in 1..n : k + 1 \in 1..Swaps(path) /\ s[k] = 2 * (k + 1)
  <2>. DEFINE m == Swaps(path)
  <2>1. m \in Nat \ {0}
    BY DEF Trades
  <2>2. positions = [k \in 1..m |-> 2 * k]
    BY DEF PoolPositions
  <2>. HIDE DEF m, positions
  <2>3. positions \in Seq(Nat) /\ Len(positions) = m /\ positions # <<>>
    BY <2>1, <2>2
  <2>4. /\ Len(s) = m - 1 /\ s \in Seq(Nat)
        /\ \A k \in 1..(m - 1) : s[k] = positions[k + 1]
    BY <2>1, <2>3
  <2>. HIDE DEF s
  <2>. QED BY <2>1, <2>2, <2>4 DEF m
<1>2. get_virtual_reserves(market, path)
        = [in |-> Rounded(h[1..n].in, h[1..n].over), out |-> Rounded(h[1..n].out, h[1..n].over)]
  BY <1>1, Zenon DEF get_virtual_reserves, FoldLeft, MapThenFoldSet
<1>3. first \in States
  <2>1. 1 \in 1..Swaps(path)
    BY DEF Trades
  <2>2. Reserve(2 * 1, 2 * 1 - 1) \in Pos /\ Reserve(2 * 1, 2 * 1 + 1) \in Pos
    BY <2>1, Zenon DEF Trades
  <2>3. Reserve(2, 1) \in Pos /\ Reserve(2, 3) \in Pos /\ 1 \in Pos
    BY <2>2
  <2>. HIDE DEF Reserve, Pos
  <2>. QED BY <2>3
<1>4. ASSUME NEW v \in States, NEW k \in 1..n PROVE Through(v, s[k]) \in States
  <2>. DEFINE i == s[k]
              fee == market[path[i]].fee
              left == Reserve(i, i - 1)
              right == Reserve(i, i + 1)
  <2>1. fee \in Pos /\ left \in Pos /\ right \in Pos
    <3>. DEFINE l == k + 1
    <3>1. l \in 1..Swaps(path) /\ i = 2 * l
      BY <1>1
    <3>. HIDE DEF l, i
    <3>. QED BY <3>1, Zenon DEF Trades
  <2>2. Through(v, i) = [in |-> FeeBase * v.in * left, out |-> fee * v.out * right,
                         over |-> FeeBase * left * v.over + fee * v.out]
    OBVIOUS
  <2>3. v.in \in Pos /\ v.out \in Pos /\ v.over \in Pos /\ FeeBase \in Pos
    BY FeeBaseAssumption
  <2>. HIDE DEF fee, left, right, Through
  <2>4. /\ FeeBase * v.in \in Pos /\ fee * v.out \in Pos /\ FeeBase * left \in Pos
    BY <2>1, <2>3, Product, Zenon
  <2>5. /\ FeeBase * v.in * left \in Pos /\ fee * v.out * right \in Pos
        /\ FeeBase * left * v.over \in Pos
    BY <2>1, <2>3, <2>4, Product, Zenon
  <2>6. FeeBase * left * v.over + fee * v.out \in Pos
    <3>. DEFINE x == FeeBase * left * v.over
                y == fee * v.out
    <3>1. x \in Pos /\ y \in Pos
      BY <2>4, <2>5
    <3>. HIDE DEF x, y
    <3>2. x + y \in Pos
      BY <3>1
    <3>. QED BY <3>2 DEF x, y
  <2>. HIDE DEF Pos
  <2>. QED BY <2>2, <2>5, <2>6
<1>. HIDE DEF s, first, Through, n
<1>5. step \in [States \X (1..n) -> States]
  <2>. HIDE DEF States
  <2>. QED BY <1>4
<1>. HIDE DEF step, States
<1>6. PICK g \in [SUBSET (1..n) -> States] : Folds(g, first, step, n)
  BY <1>1, <1>3, <1>5, FoldsExists
<1>7. Rec(g)
  <2>1. ASSUME NEW T \in SUBSET (1..n), T # {}
        PROVE  step[g[T \ {Max(T)}], Max(T)] = Through(g[T \ {Max(T)}], s[Max(T)])
    <3>1. Max(T) \in 1..n
      <4>1. Max(T) \in T
        BY <1>1, <2>1, MaxIsIn, Zenon
      <4>. QED BY <4>1
    <3>2. g[T \ {Max(T)}] \in States
      OBVIOUS
    <3>. QED BY <3>1, <3>2 DEF step
  <2>. QED BY <1>6, <2>1, Zenon DEF Folds
<1>8. Rec(h)
  BY <1>7, Zenon
<1>. HIDE DEF h
<1>. DEFINE G == {k \in 0..n : h[1..k] \in States}
<1>9. 0 \in G
  <2>1. 1..0 = {} /\ {} \in SUBSET (1..n) /\ 0 \in 0..n
    BY <1>1
  <2>2. h[1..0] = first
    BY <1>8, <2>1, Zenon
  <2>. QED BY <1>3, <2>1, <2>2, Zenon
<1>10. ASSUME NEW k \in 0..(n - 1), k \in G PROVE k + 1 \in G
  <2>. DEFINE T == 1..(k + 1)
  <2>1. T \in SUBSET (1..n) /\ T # {} /\ Max(T) = k + 1 /\ T \ {k + 1} = 1..k
    BY <1>1, FirstPositions, Zenon
  <2>2. k + 1 \in 1..n /\ k + 1 \in 0..n
    BY <1>1
  <2>. HIDE DEF T
  <2>3. h[T] = Through(h[T \ {Max(T)}], s[Max(T)])
    BY <1>8, <2>1, Zenon
  <2>4. h[T] = Through(h[1..k], s[k + 1])
    BY <2>1, <2>3, Zenon
  <2>5. h[T] \in States
    BY <1>4, <1>10, <2>2, <2>4
  <2>. QED BY <2>2, <2>5 DEF T
<1>11. n \in G
  <2>1. \A k \in 0..n : k \in G
    <3>. HIDE DEF G
    <3>. QED BY <1>1, <1>9, <1>10, Induction
  <2>. HIDE DEF G
  <2>. QED BY <1>1, <2>1
<1>. DEFINE v == h[1..n]
<1>12. v.in \in Pos /\ v.out \in Pos /\ v.over \in Pos
  BY <1>11 DEF States
<1>. HIDE DEF v
<1>13. Rounded(v.in, v.over) \in Nat /\ Rounded(v.out, v.over) \in Nat
  <2>1. ASSUME NEW a \in Pos, NEW b \in Pos PROVE Rounded(a, b) \in Nat
    <3>1. a \div b \in Nat
      OBVIOUS
    <3>2. Rounded(a, b) \in Int /\ a \div b <= Rounded(a, b)
      BY RoundedIs
    <3>. DEFINE q == a \div b
    <3>. HIDE DEF q
    <3>3. q \in Nat /\ q <= Rounded(a, b)
      BY <3>1, <3>2 DEF q
    <3>. QED BY <3>2, <3>3
  <2>. HIDE DEF Pos
  <2>. QED BY <1>12, <2>1
<1>. QED BY <1>2, <1>13 DEF v

\* The amount that the formula tells.
LEMMA OptimalIs ==
  ASSUME NEW in \in Nat, NEW out \in Nat, NEW fee \in Nat \ {0}
  PROVE  optimal_amount_in(in, out, fee) \in Int
<1>1. FeeBase \in Nat
  BY FeeBaseAssumption
<1>2. in * out * fee * FeeBase \in Nat
  <2>1. in * out \in Nat
    OBVIOUS
  <2>. DEFINE p == in * out
  <2>. HIDE DEF p
  <2>2. p \in Nat
    BY <2>1 DEF p
  <2>3. p * fee \in Nat
    BY <2>2
  <2>. DEFINE q == p * fee
  <2>. HIDE DEF q
  <2>4. q \in Nat
    BY <2>3 DEF q
  <2>5. q * FeeBase \in Nat
    BY <1>1, <2>4
  <2>. QED BY <2>5 DEF p, q
<1>. DEFINE root == SquareRoot(in * out * fee * FeeBase)
            cost == in * FeeBase
<1>3. root \in Int /\ cost \in Int
  BY <1>1, <1>2, SquareRootIs
<1>4. optimal_amount_in(in, out, fee) = (root - cost) \div fee
  BY Zenon DEF optimal_amount_in
<1>. HIDE DEF root, cost
<1>5. root - cost \in Int
  BY <1>3
<1>6. (root - cost) \div fee \in Int
  BY <1>5
<1>. QED BY <1>4, <1>6

\* A raised amount is a whole one, and not negative.
LEMMA RaisedIs ==
  ASSUME NEW amount \in Nat, NEW percent \in 1..29
  PROVE  Raised(amount, percent) \in Nat
<1>. DEFINE n == amount * (100 + percent)
            q == n \div 100
<1>1. n \in Nat
  OBVIOUS
<1>. HIDE DEF n
<1>2. q \in Nat /\ q + 1 \in Nat
  BY <1>1
<1>3. Rounded(n, 100) \in Nat
  <2>1. Rounded(n, 100) \in Int /\ q <= Rounded(n, 100)
    BY <1>1, RoundedIs
  <2>. HIDE DEF q
  <2>. QED BY <1>2, <2>1
<1>. HIDE DEF q
<1>. QED BY <1>2, <1>3, Zenon DEF Raised, n, q

\* What comes out of a path is a whole amount, or the amount was too big.
LEMMA PayoutIs ==
  ASSUME NEW market, NEW path, Trades(market, path), NEW amount \in Nat
  PROVE  get_path_amount_out(amount, market, path) \in Nat \cup {TooBig}
<1>. DEFINE Swap(a, i) ==
              LET pool == market[path[i]]
                  in == pool.reserves[path[i - 1]]
              IN  IF a = TooBig \/ a > in THEN TooBig
                  ELSE (a * pool.fee * pool.reserves[path[i + 1]])
                         \div (in * FeeBase + a * pool.fee)
            s == PoolPositions(path)
            n == Len(s)
            first == amount
            States == Nat \cup {TooBig}
            Rec(h) == h = [T \in SUBSET (1..n) |->
                             IF T = {} THEN first ELSE Swap(h[T \ {Max(T)}], s[Max(T)])]
            h == CHOOSE g : Rec(g)
            step == [x \in States \X (1..n) |-> Swap(x[1], s[x[2]])]
<1>1. /\ n \in Nat /\ DOMAIN s = 1..n
      /\ \A k \in 1..n : k \in 1..Swaps(path) /\ s[k] = 2 * k
  <2>. DEFINE m == Swaps(path)
  <2>1. m \in Nat \ {0}
    BY DEF Trades
  <2>2. s = [k \in 1..m |-> 2 * k]
    BY DEF PoolPositions
  <2>. HIDE DEF m, s
  <2>3. s \in Seq(Nat) /\ Len(s) = m
    BY <2>1, <2>2
  <2>. QED BY <2>1, <2>2, <2>3 DEF m
<1>2. get_path_amount_out(amount, market, path) = h[1..n]
  BY <1>1, Zenon DEF get_path_amount_out, FoldLeft, MapThenFoldSet
<1>3. first \in States
  OBVIOUS
<1>4. ASSUME NEW a \in States, NEW k \in 1..n PROVE Swap(a, s[k]) \in States
  <2>. DEFINE i == s[k]
              fee == market[path[i]].fee
              left == market[path[i]].reserves[path[i - 1]]
              right == market[path[i]].reserves[path[i + 1]]
  <2>1. fee \in Nat \ {0} /\ left \in Nat \ {0} /\ right \in Nat \ {0}
    <3>. DEFINE l == k
    <3>1. l \in 1..Swaps(path) /\ i = 2 * l
      BY <1>1
    <3>. HIDE DEF l, i
    <3>. QED BY <3>1, Zenon DEF Trades
  <2>2. Swap(a, i) = IF a = TooBig \/ a > left THEN TooBig
                     ELSE (a * fee * right) \div (left * FeeBase + a * fee)
    BY Zenon
  <2>. HIDE DEF i, fee, left, right, Swap
  <2>3. ASSUME a \in Nat
        PROVE  (a * fee * right) \div (left * FeeBase + a * fee) \in Nat
    <3>. DEFINE over == left * FeeBase
                top == a * fee
                all == top * right
    <3>1. over \in Nat \ {0}
      BY <2>1, FeeBaseAssumption, Product
    <3>2. top \in Nat
      BY <2>1, <2>3
    <3>. HIDE DEF over, top
    <3>3. all \in Nat
      BY <2>1, <3>2
    <3>. HIDE DEF all
    <3>4. over + top \in Nat \ {0}
      BY <3>1, <3>2
    <3>. DEFINE under == over + top
    <3>. HIDE DEF under
    <3>5. all \div under \in Nat
      BY <3>3, <3>4 DEF under
    <3>. QED BY <3>5 DEF over, top, all, under
  <2>4. CASE a \in Nat
    <3>. DEFINE out == (a * fee * right) \div (left * FeeBase + a * fee)
    <3>1. out \in Nat
      BY <2>3, <2>4
    <3>2. Swap(a, i) = TooBig \/ Swap(a, i) = out
      BY <2>2, Zenon
    <3>. HIDE DEF out
    <3>3. Swap(a, i) \in States
      BY <3>1, <3>2
    <3>. QED BY <3>3 DEF i
  <2>5. CASE a = TooBig
    <3>1. Swap(a, i) = TooBig
      BY <2>2, <2>5, Zenon
    <3>2. Swap(a, i) \in States
      BY <3>1
    <3>. QED BY <3>2 DEF i
  <2>. QED BY <2>4, <2>5
<1>. HIDE DEF s, first, Swap, n
<1>5. step \in [States \X (1..n) -> States]
  <2>. HIDE DEF States
  <2>. QED BY <1>4
<1>. HIDE DEF step
<1>6. PICK g \in [SUBSET (1..n) -> States] : Folds(g, first, step, n)
  <2>. HIDE DEF States
  <2>. QED BY <1>1, <1>3, <1>5, FoldsExists
<1>7. Rec(g)
  <2>. HIDE DEF States
  <2>1. ASSUME NEW T \in SUBSET (1..n), T # {}
        PROVE  step[g[T \ {Max(T)}], Max(T)] = Swap(g[T \ {Max(T)}], s[Max(T)])
    <3>1. Max(T) \in 1..n
      <4>1. Max(T) \in T
        BY <1>1, <2>1, MaxIsIn, Zenon
      <4>. QED BY <4>1
    <3>2. g[T \ {Max(T)}] \in States
      OBVIOUS
    <3>. QED BY <3>1, <3>2 DEF step
  <2>. QED BY <1>6, <2>1, Zenon DEF Folds
<1>8. Rec(h)
  BY <1>7, Zenon
<1>. HIDE DEF h
<1>. DEFINE G == {k \in 0..n : h[1..k] \in States}
<1>9. 0 \in G
  <2>1. 1..0 = {} /\ {} \in SUBSET (1..n) /\ 0 \in 0..n
    BY <1>1
  <2>2. h[1..0] = first
    BY <1>8, <2>1, Zenon
  <2>. HIDE DEF States
  <2>. QED BY <1>3, <2>1, <2>2, Zenon
<1>10. ASSUME NEW k \in 0..(n - 1), k \in G PROVE k + 1 \in G
  <2>. DEFINE T == 1..(k + 1)
  <2>1. T \in SUBSET (1..n) /\ T # {} /\ Max(T) = k + 1 /\ T \ {k + 1} = 1..k
    BY <1>1, FirstPositions, Zenon
  <2>2. k + 1 \in 1..n /\ k + 1 \in 0..n
    BY <1>1
  <2>. HIDE DEF T, States
  <2>3. h[T] = Swap(h[T \ {Max(T)}], s[Max(T)])
    BY <1>8, <2>1, Zenon
  <2>4. h[T] = Swap(h[1..k], s[k + 1])
    BY <2>1, <2>3, Zenon
  <2>5. h[1..k] \in States
    BY <1>10
  <2>6. h[T] \in States
    BY <1>4, <2>2, <2>4, <2>5, Zenon
  <2>. QED BY <2>2, <2>6 DEF T
<1>11. n \in G
  <2>1. \A k \in 0..n : k \in G
    <3>. HIDE DEF G
    <3>. QED BY <1>1, <1>9, <1>10, Induction
  <2>. HIDE DEF G
  <2>. QED BY <1>1, <2>1
<1>12. h[1..n] \in States
  <2>. HIDE DEF States
  <2>. QED BY <1>11
<1>. QED BY <1>2, <1>12

\* Trying more keeps a whole amount, what it pays, and no less profit.
LEMMA TweakedIs ==
  ASSUME NEW market, NEW path, Trades(market, path), NEW amount \in Nat, NEW out \in Nat,
         out = get_path_amount_out(amount, market, path),
         NEW best, best = tweak_amount_in(amount, out - amount, market, path)
  PROVE  /\ best.amount \in Nat \cup {TooBig} /\ best.profit \in Int
         /\ best.profit >= out - amount
         /\ best.amount # TooBig
              => best.profit = get_path_amount_out(best.amount, market, path) - best.amount
<1>. DEFINE Gain(a) == get_path_amount_out(a, market, path) - a
            profit == out - amount
            Try(v, percent) ==
              LET more == Raised(amount, percent)
                  got == get_path_amount_out(more, market, path)
              IN  IF v.over \/ (got # TooBig /\ got - more = v.profit) THEN v
                  ELSE IF got = TooBig THEN [v EXCEPT !.over = TRUE, !.amount = TooBig]
                  ELSE IF got - more > v.profit
                       THEN [v EXCEPT !.amount = more, !.profit = got - more]
                  ELSE [v EXCEPT !.over = TRUE]
            s == [percent \in 1..29 |-> percent]
            n == Len(s)
            first == [amount |-> amount, profit |-> profit, over |-> FALSE]
            States == {v \in [amount : Nat \cup {TooBig}, profit : Int, over : BOOLEAN] :
                         /\ v.profit >= profit
                         /\ v.amount # TooBig => v.profit = Gain(v.amount)}
            Rec(h) == h = [T \in SUBSET (1..n) |->
                             IF T = {} THEN first ELSE Try(h[T \ {Max(T)}], s[Max(T)])]
            h == CHOOSE g : Rec(g)
            step == [x \in States \X (1..n) |-> Try(x[1], s[x[2]])]
<1>1. /\ n \in Nat /\ DOMAIN s = 1..n
      /\ \A k \in 1..n : s[k] \in 1..29
  <2>1. s \in Seq(1..29) /\ n = 29
    OBVIOUS
  <2>. QED BY <2>1
<1>2. best = h[1..n]
  BY <1>1, Zenon DEF tweak_amount_in, FoldLeft, MapThenFoldSet
<1>3. first \in States
  <2>1. profit \in Int /\ profit = Gain(amount)
    OBVIOUS
  <2>. HIDE DEF profit, Gain
  <2>. QED BY <2>1
<1>4. ASSUME NEW v \in States, NEW k \in 1..n PROVE Try(v, s[k]) \in States
  <2>. DEFINE more == Raised(amount, s[k])
              got == get_path_amount_out(more, market, path)
  <2>1. more \in Nat
    BY <1>1, RaisedIs
  <2>. HIDE DEF more
  <2>2. got \in Nat \cup {TooBig} /\ got - more = Gain(more)
    BY <2>1, PayoutIs
  <2>3. Try(v, s[k]) = IF v.over \/ (got # TooBig /\ got - more = v.profit) THEN v
                       ELSE IF got = TooBig THEN [v EXCEPT !.over = TRUE, !.amount = TooBig]
                       ELSE IF got - more > v.profit
                            THEN [v EXCEPT !.amount = more, !.profit = got - more]
                       ELSE [v EXCEPT !.over = TRUE]
    BY Zenon DEF more
  <2>4. profit \in Int
    OBVIOUS
  <2>. HIDE DEF got, Try, Gain, profit, s, n
  <2>5. [v EXCEPT !.over = TRUE, !.amount = TooBig] \in States
    OBVIOUS
  <2>6. [v EXCEPT !.over = TRUE] \in States
    OBVIOUS
  <2>7. ASSUME got # TooBig, got - more > v.profit
        PROVE  [v EXCEPT !.amount = more, !.profit = got - more] \in States
    <3>1. got \in Nat /\ v.profit \in Int /\ v.profit >= profit
      BY <2>2, <2>7
    <3>. DEFINE gain == got - more
    <3>2. gain \in Int /\ gain >= profit /\ gain = Gain(more)
      BY <2>1, <2>2, <2>4, <2>7, <3>1
    <3>. HIDE DEF gain
    <3>3. [v EXCEPT !.amount = more, !.profit = gain] \in States
      BY <2>1, <3>2
    <3>. QED BY <3>3 DEF gain
  <2>. HIDE DEF States
  <2>. QED BY <2>3, <2>5, <2>6, <2>7, Zenon
<1>. HIDE DEF s, first, Try, n, Gain, profit
<1>5. step \in [States \X (1..n) -> States]
  <2>. HIDE DEF States
  <2>. QED BY <1>4
<1>. HIDE DEF step
<1>6. PICK g \in [SUBSET (1..n) -> States] : Folds(g, first, step, n)
  <2>. HIDE DEF States
  <2>. QED BY <1>1, <1>3, <1>5, FoldsExists
<1>7. Rec(g)
  <2>. HIDE DEF States
  <2>1. ASSUME NEW T \in SUBSET (1..n), T # {}
        PROVE  step[g[T \ {Max(T)}], Max(T)] = Try(g[T \ {Max(T)}], s[Max(T)])
    <3>1. Max(T) \in 1..n
      <4>1. Max(T) \in T
        BY <1>1, <2>1, MaxIsIn, Zenon
      <4>. QED BY <4>1
    <3>2. g[T \ {Max(T)}] \in States
      OBVIOUS
    <3>. QED BY <3>1, <3>2 DEF step
  <2>. QED BY <1>6, <2>1, Zenon DEF Folds
<1>8. Rec(h)
  BY <1>7, Zenon
<1>. HIDE DEF h
<1>. DEFINE G == {k \in 0..n : h[1..k] \in States}
<1>9. 0 \in G
  <2>1. 1..0 = {} /\ {} \in SUBSET (1..n) /\ 0 \in 0..n
    BY <1>1
  <2>2. h[1..0] = first
    BY <1>8, <2>1, Zenon
  <2>. HIDE DEF States
  <2>. QED BY <1>3, <2>1, <2>2, Zenon
<1>10. ASSUME NEW k \in 0..(n - 1), k \in G PROVE k + 1 \in G
  <2>. DEFINE T == 1..(k + 1)
  <2>1. T \in SUBSET (1..n) /\ T # {} /\ Max(T) = k + 1 /\ T \ {k + 1} = 1..k
    BY <1>1, FirstPositions, Zenon
  <2>2. k + 1 \in 1..n /\ k + 1 \in 0..n
    BY <1>1
  <2>. HIDE DEF T, States
  <2>3. h[T] = Try(h[T \ {Max(T)}], s[Max(T)])
    BY <1>8, <2>1, Zenon
  <2>4. h[T] = Try(h[1..k], s[k + 1])
    BY <2>1, <2>3, Zenon
  <2>5. h[1..k] \in States
    BY <1>10
  <2>6. h[T] \in States
    BY <1>4, <2>2, <2>4, <2>5, Zenon
  <2>. QED BY <2>2, <2>6 DEF T
<1>11. n \in G
  <2>1. \A k \in 0..n : k \in G
    <3>. HIDE DEF G
    <3>. QED BY <1>1, <1>9, <1>10, Induction
  <2>. HIDE DEF G
  <2>. QED BY <1>1, <2>1
<1>12. h[1..n] \in States
  <2>. HIDE DEF States
  <2>. QED BY <1>11
<1>. DEFINE v == h[1..n]
<1>13. /\ v.amount \in Nat \cup {TooBig} /\ v.profit \in Int
       /\ v.profit >= profit
       /\ v.amount # TooBig => v.profit = Gain(v.amount)
  <2>. HIDE DEF v
  <2>1. v \in States
    BY <1>12 DEF v
  <2>. QED BY <2>1
<1>. QED BY <1>2, <1>13, Zenon DEF v, Gain, profit

\* An arbitrage that a search finds trades a whole amount, and brings what its
\* path pays for that, which is more than nothing.
LEMMA FoundIs ==
  ASSUME NEW market \in Markets, NEW path \in Paths,
         NEW arb \in calculate_profitability(market, path)
  PROVE  /\ arb.path = path /\ arb.amount_in \in Nat
         /\ arb.bruto_profit = get_path_amount_out(arb.amount_in, market, path) - arb.amount_in
         /\ arb.bruto_profit > 0
<1>1. Trades(market, path)
  <2>1. /\ Swaps(path) \in Nat \ {0}
        /\ \A k \in 1..Swaps(path) :
             {market[path[2 * k]].fee, market[path[2 * k]].reserves[path[2 * k - 1]],
              market[path[2 * k]].reserves[path[2 * k + 1]]} \subseteq Nat \ {0}
    BY MarketsAssumption, Zenon
  <2>. QED BY <2>1, Zenon DEF Trades
<1>. DEFINE virtual == get_virtual_reserves(market, path)
            fee == market[path[2]].fee
            optimal == optimal_amount_in(virtual.in, virtual.out, fee)
            fits == get_path_amount_out(optimal, market, path) # TooBig
            amount == IF fits THEN optimal ELSE (optimal * 5) \div 6
            out == get_path_amount_out(amount, market, path)
            best == tweak_amount_in(amount, out - amount, market, path)
            eco == Economics(best.profit, MinGasLimits[Swaps(path)], path[1], GasPrices.max)
<1>2. /\ arb = Arbitrage(path, best.amount, best.profit, eco)
      /\ optimal > 0 /\ out # TooBig /\ out > amount /\ best.amount # TooBig
  BY Zenon DEF calculate_profitability
<1>3. /\ arb.path = path /\ arb.amount_in = best.amount /\ arb.bruto_profit = best.profit
  <2>. HIDE DEF best, eco
  <2>. QED BY <1>2 DEF Arbitrage
<1>4. virtual.in \in Nat /\ virtual.out \in Nat
  BY <1>1, VirtualIs, Zenon
<1>5. fee \in Nat \ {0}
  <2>1. 1 \in 1..Swaps(path) /\ 2 * 1 = 2
    BY <1>1 DEF Trades
  <2>. QED BY <1>1, <2>1 DEF Trades
<1>. HIDE DEF virtual, fee
<1>6. optimal \in Int
  BY <1>4, <1>5, OptimalIs
<1>. HIDE DEF optimal, fits, eco
<1>7. amount \in Nat
  <2>1. (optimal * 5) \div 6 \in Nat
    BY <1>2, <1>6
  <2>. QED BY <1>2, <1>6, <2>1
<1>. HIDE DEF amount
<1>8. out \in Nat
  BY <1>1, <1>2, <1>7, PayoutIs
<1>9. out = get_path_amount_out(amount, market, path)
  OBVIOUS
<1>10. best = tweak_amount_in(amount, out - amount, market, path)
  OBVIOUS
<1>. HIDE DEF out, best
<1>11. /\ best.amount \in Nat \cup {TooBig} /\ best.profit \in Int
       /\ best.profit >= out - amount
       /\ best.amount # TooBig
            => best.profit = get_path_amount_out(best.amount, market, path) - best.amount
  BY <1>1, <1>7, <1>8, <1>9, <1>10, TweakedIs
<1>12. best.profit > 0
  BY <1>2, <1>7, <1>8, <1>11
<1>. QED BY <1>2, <1>3, <1>11, <1>12

\* Whatever markets a search sees.
LEMMA AmountIs ==
  ASSUME NEW arb \in Arbs
  PROVE  arb.amount_in \in Int
<1>1. PICK market \in Markets, path \in Paths : arb \in calculate_profitability(market, path)
  BY DEF Arbs
<1>. QED BY <1>1, FoundIs

\* The arbitrages that are checked are those of the pools as they were searched.
FoundInv ==
  pc = "check" =>
    /\ pools \in Markets
    /\ \A i \in DOMAIN raw_arbs :
         \E p \in Paths : raw_arbs[i] \in calculate_profitability(pools, p)

\* Each step keeps that.
LEMMA FoundKeeps == FoundInv /\ [Next]_vars => FoundInv'
<1>. SUFFICES ASSUME FoundInv, [Next]_vars, pc' = "check"
              PROVE  /\ pools' \in Markets
                     /\ \A i \in DOMAIN raw_arbs' :
                          \E p \in Paths : raw_arbs'[i] \in calculate_profitability(pools', p)
  BY DEF FoundInv
<1>1. CASE UNCHANGED vars
  BY <1>1 DEF vars, blockVars, FoundInv
<1>2. CASE CallBatch \/ BatchFails
  <2>1. pc = "check" /\ UNCHANGED <<pools, raw_arbs>>
    BY <1>2 DEF CallBatch, BatchFails
  <2>. QED BY <2>1 DEF FoundInv
<1>3. CASE Search
  <2>1. PICK market \in Markets :
          \E found \in SUBSET UNION {calculate_profitability(market, p) : p \in Paths \ removed} :
            pools' = market /\ raw_arbs' \in SetToSeqs(found)
    BY <1>3, Zenon DEF Search
  <2>2. PICK found \in SUBSET UNION {calculate_profitability(market, p) : p \in Paths \ removed} :
          pools' = market /\ raw_arbs' \in SetToSeqs(found)
    BY <2>1, Zenon
  <2>3. \A arb \in found : \E p \in Paths : arb \in calculate_profitability(market, p)
    OBVIOUS
  <2>4. raw_arbs' \in [1..Cardinality(found) -> found]
    BY <2>2, Zenon DEF SetToSeqs
  <2>. QED BY <2>2, <2>3, <2>4
<1>. QED BY <1>1, <1>2, <1>3
     DEF Next, Start, Handle, Execute, SavePre, SaveBlacklist, RemoveBlacklisted, Timer, Crash

\* Whatever the market, and wherever the search for a better amount stops, what
\* is sent to the check is stated with the profit that its amount brings.
THEOREM FoundPays == Spec => []AmountsPay
<1>1. Init => FoundInv
  BY DEF Init, FoundInv
<1>2. Spec => []FoundInv
  BY <1>1, FoundKeeps, PTL DEF Spec
<1>3. FoundInv => AmountsPay
  <2>. SUFFICES ASSUME FoundInv, pc = "check", NEW i \in DOMAIN raw_arbs
                PROVE  /\ Payout(raw_arbs[i].path, raw_arbs[i].amount_in)
                            = raw_arbs[i].bruto_profit
                       /\ raw_arbs[i].bruto_profit > 0
    BY DEF AmountsPay
  <2>1. pools \in Markets
    BY DEF FoundInv
  <2>2. PICK p \in Paths : raw_arbs[i] \in calculate_profitability(pools, p)
    BY DEF FoundInv
  <2>. DEFINE arb == raw_arbs[i]
  <2>. HIDE DEF arb
  <2>3. /\ arb.path = p
        /\ arb.bruto_profit = get_path_amount_out(arb.amount_in, pools, p) - arb.amount_in
        /\ arb.bruto_profit > 0
    BY <2>1, <2>2, FoundIs DEF arb
  <2>. QED BY <2>3, Zenon DEF Payout, arb
<1>. QED BY <1>2, <1>3, PTL

\* What OffersPay says of the result of a check that takes so much gas.
Worth(x, profit, gas) ==
  /\ GasPrices.min <= x.gas_price /\ x.neto_profit > 0
  /\ x.tx_cost - x.amount_in + x.neto_profit = profit
  /\ BurnEnabled => \A k \in 0..30 :
       \/ After(gas, k) > After(gas, x.burners_count)
       \/ After(gas, k) = After(gas, x.burners_count) /\ k >= x.burners_count

\* What pays is worth it.
LEMMA RecalculatedPays ==
  ASSUME NEW arb \in Arbs, NEW res \in Outcomes, NEW x, Pays(x, arb, res)
  PROVE  Worth(x, res.profit, res.gas + 23640)
<1>. DEFINE gas == res.gas + 23640
            fewest == x.burners_count
<1>1. GasPrices.min <= x.gas_price /\ x.neto_profit > 0
  BY DEF Pays
<1>2. x.tx_cost - x.amount_in + x.neto_profit = res.profit
  <2>1. PICK gas_cost, burners_cost \in Int :
          /\ x.tx_cost = arb.amount_in + gas_cost + burners_cost
          /\ x.neto_profit = res.profit - burners_cost - gas_cost
    BY DEF Pays
  <2>. DEFINE paid == arb.amount_in
              won == res.profit
  <2>2. x.amount_in = paid
    BY DEF Pays
  <2>3. paid \in Int /\ won \in Int
    BY AmountIs, OutcomeIs
  <2>. HIDE DEF paid, won
  <2>4. (paid + gas_cost + burners_cost) - paid + (won - burners_cost - gas_cost) = won
    BY <2>3
  <2>. QED BY <2>1, <2>2, <2>4, Zenon DEF paid, won
<1>3. /\ fewest \in Nat /\ gas \in Nat
      /\ BurnEnabled => \A k \in Nat :
           /\ k < fewest => After(gas, k) > After(gas, fewest)
           /\ fewest <= k => After(gas, k) >= After(gas, fewest)
  BY OutcomeIs DEF Pays
<1>. HIDE DEF gas, fewest
<1>4. ASSUME BurnEnabled, NEW k \in 0..30
      PROVE  \/ After(gas, k) > After(gas, fewest)
             \/ After(gas, k) = After(gas, fewest) /\ k >= fewest
  <2>1. k \in Nat
    OBVIOUS
  <2>2. /\ k < fewest => After(gas, k) > After(gas, fewest)
        /\ fewest <= k => After(gas, k) >= After(gas, fewest)
    BY <1>3, <1>4, <2>1, Zenon
  <2>3. After(gas, k) \in Int /\ After(gas, fewest) \in Int
    BY <1>3, <2>1, AfterIs, Zenon
  <2>. QED BY <1>3, <2>1, <2>2, <2>3
<1>5. Worth(x, res.profit, gas)
  BY <1>1, <1>2, <1>4, Zenon DEF Worth, fewest
<1>. QED BY <1>5 DEF gas

\* What OffersPay says.
LEMMA OffersWorth ==
  ASSUME SeqInv, OfferInv
  PROVE  OffersPay
<1>. SUFFICES ASSUME pc = "execute" PROVE OffersPay
  BY DEF OffersPay
<1>1. /\ Recalculations \in Seq(Offers) /\ Priced(Recalculations)
      /\ \A i \in 1..Len(results) : raw_arbs[i] \in Arbs /\ results[i] \in Outcomes
  BY RecalculationsAre, Zenon
<1>2. DOMAIN results = 1..Len(results)
  BY DEF SeqInv
<1>3. ASSUME NEW i \in DOMAIN results,
             NEW x \in ToSet(Recalculated(raw_arbs[i], results[i]))
      PROVE  Worth(x, results[i].profit, results[i].gas + 23640)
  <2>1. raw_arbs[i] \in Arbs /\ results[i] \in Outcomes
    BY <1>1, <1>2, Zenon
  <2>2. Pays(x, raw_arbs[i], results[i])
    BY <2>1, RecalculatedIs, Zenon
  <2>. QED BY <2>1, <2>2, RecalculatedPays
<1>4. \A i \in DOMAIN potential_arbs : potential_arbs[i].gas_price <= GasPrices.max
  BY <1>1, KeptAffordable, Zenon DEF OfferInv
<1>. QED BY <1>3, <1>4 DEF OffersPay, Worth

\* What passed the check and is executed leaves a profit after all costs, at the
\* number of burners that needs least gas and at a price within the limits.
THEOREM OffersStayWorth == Spec => []OffersPay
<1>1. Init => OfferInv
  BY DEF Init, OfferInv
<1>2. Spec => []OfferInv
  BY <1>1, OffersKeep, PTL DEF Spec
<1>3. IInv /\ OfferInv => OffersPay
  BY OffersWorth DEF IInv
<1>. QED BY <1>2, <1>3, InvariantHolds, PTL

-----------------------------------------------------------------------------
(* Calldata: where the fields begin                                          *)

\* The widths of its fields are positive.
IsCalldata(c) == \E F : c \in Seq(F) /\ \A i \in DOMAIN c : c[i][2] \in Nat \ {0}

\* Ends lists where each field begins, and where the last one ends.
EndsAre(ends, c) ==
  /\ ends \in Seq(Nat) /\ Len(ends) = Len(c) + 1 /\ ends[1] = 0
  /\ \A i \in 1..Len(c) : ends[i + 1] = ends[i] + c[i][2]

LEMMA EndsIs ==
  ASSUME NEW c, IsCalldata(c)
  PROVE  EndsAre(Ends(c), c)
<1>. DEFINE n == Len(c)
            Next1(v, x) == Append(v, v[Len(v)] + x[2])
            States == {v \in Seq(Nat) : Len(v) > 0}
            first == <<0>>
            Rec(h) == h = [T \in SUBSET (1..n) |->
                             IF T = {} THEN first ELSE Next1(h[T \ {Max(T)}], c[Max(T)])]
            h == CHOOSE g : Rec(g)
            step == [x \in States \X (1..n) |-> Next1(x[1], c[x[2]])]
<1>1. n \in Nat /\ DOMAIN c = 1..n /\ \A k \in 1..n : c[k][2] \in Nat
  BY DEF IsCalldata
<1>2. Ends(c) = h[1..n]
  BY <1>1, Zenon DEF Ends, FoldLeft, MapThenFoldSet
<1>3. first \in States /\ Len(first) = 1 /\ first[1] = 0
  OBVIOUS
<1>4. ASSUME NEW v \in States, NEW x, x[2] \in Nat
      PROVE  /\ Next1(v, x) \in States /\ Len(Next1(v, x)) = Len(v) + 1
             /\ \A i \in 1..Len(v) : Next1(v, x)[i] = v[i]
             /\ Next1(v, x)[Len(v) + 1] = v[Len(v)] + x[2]
  <2>1. v \in Seq(Nat) /\ Len(v) \in Nat \ {0} /\ Len(v) \in 1..Len(v)
    OBVIOUS
  <2>2. v[Len(v)] \in Nat
    BY <2>1
  <2>3. PICK y : y = v[Len(v)] + x[2]
    OBVIOUS
  <2>4. y \in Nat /\ Next1(v, x) = Append(v, y)
    BY <1>4, <2>2, <2>3
  <2>. HIDE DEF Next1
  <2>. QED BY <2>1, <2>3, <2>4
<1>. HIDE DEF n, first, Next1
<1>5. step \in [States \X (1..n) -> States]
  <2>1. \A x \in States \X (1..n) : x[1] \in States /\ c[x[2]][2] \in Nat
    <3>. HIDE DEF States
    <3>. QED BY <1>1
  <2>. HIDE DEF States
  <2>. QED BY <1>4, <2>1
<1>. HIDE DEF step
<1>6. PICK g \in [SUBSET (1..n) -> States] : Folds(g, first, step, n)
  <2>. HIDE DEF States
  <2>. QED BY <1>1, <1>3, <1>5, FoldsExists
<1>7. Rec(g)
  <2>. HIDE DEF States
  <2>1. ASSUME NEW T \in SUBSET (1..n), T # {}
        PROVE  step[g[T \ {Max(T)}], Max(T)] = Next1(g[T \ {Max(T)}], c[Max(T)])
    <3>1. Max(T) \in 1..n
      <4>1. Max(T) \in T
        BY <1>1, <2>1, MaxIsIn, Zenon
      <4>. QED BY <4>1
    <3>2. g[T \ {Max(T)}] \in States
      OBVIOUS
    <3>. QED BY <3>1, <3>2 DEF step
  <2>. QED BY <1>6, <2>1, Zenon DEF Folds
<1>8. Rec(h)
  BY <1>7, Zenon
<1>. HIDE DEF h
<1>. DEFINE Good(v, k) == /\ v \in States /\ Len(v) = k + 1 /\ v[1] = 0
                          /\ \A i \in 1..k : v[i + 1] = v[i] + c[i][2]
            G == {k \in 0..n : Good(h[1..k], k)}
<1>9. 0 \in G
  <2>1. 1..0 = {} /\ {} \in SUBSET (1..n) /\ 0 \in 0..n
    BY <1>1
  <2>2. h[1..0] = first
    BY <1>8, <2>1, Zenon
  <2>3. Good(first, 0)
    BY <1>3
  <2>. QED BY <2>1, <2>2, <2>3, Zenon
<1>10. ASSUME NEW k \in 0..(n - 1), k \in G PROVE k + 1 \in G
  <2>. DEFINE T == 1..(k + 1)
              x == c[k + 1]
              v == h[1..k]
              w == Next1(v, x)
  <2>1. T \in SUBSET (1..n) /\ T # {} /\ Max(T) = k + 1 /\ T \ {k + 1} = 1..k
    BY <1>1, FirstPositions, Zenon
  <2>2. k \in Nat /\ k + 1 \in 1..n /\ k + 1 \in 0..n
    BY <1>1
  <2>. HIDE DEF T, States
  <2>3. h[T] = Next1(h[T \ {Max(T)}], c[Max(T)])
    BY <1>8, <2>1, Zenon
  <2>4. h[T] = w
    BY <2>1, <2>3, Zenon
  <2>5. /\ v \in States /\ Len(v) = k + 1 /\ v[1] = 0 /\ x[2] \in Nat
        /\ \A i \in 1..k : v[i + 1] = v[i] + c[i][2]
    BY <1>1, <1>10, <2>2
  <2>. HIDE DEF v, Good
  <2>6. /\ w \in States /\ Len(w) = k + 2
        /\ \A i \in 1..(k + 1) : w[i] = v[i]
        /\ w[k + 2] = v[k + 1] + x[2]
    <3>. HIDE DEF x, w
    <3>1. /\ w \in States /\ Len(w) = Len(v) + 1
          /\ \A i \in 1..Len(v) : w[i] = v[i]
          /\ w[Len(v) + 1] = v[Len(v)] + x[2]
      BY <1>4, <2>5 DEF w
    <3>. QED BY <2>2, <2>5, <3>1
  <2>. HIDE DEF w
  <2>7. Good(w, k + 1)
    <3>1. \A i \in 1..(k + 1) : w[i + 1] = w[i] + c[i][2]
      <4>1. ASSUME NEW i \in 1..k PROVE w[i + 1] = w[i] + c[i][2]
        <5>1. i \in 1..(k + 1) /\ i + 1 \in 1..(k + 1)
          BY <2>2
        <5>. QED BY <2>5, <2>6, <5>1
      <4>2. w[(k + 1) + 1] = w[k + 1] + c[k + 1][2]
        BY <2>2, <2>6
      <4>3. \A i \in 1..(k + 1) : i \in 1..k \/ i = k + 1
        BY <2>2
      <4>. QED BY <4>1, <4>2, <4>3
    <3>2. w[1] = 0 /\ Len(w) = (k + 1) + 1
      BY <2>2, <2>5, <2>6
    <3>. QED BY <2>6, <3>1, <3>2 DEF Good
  <2>. QED BY <2>2, <2>4, <2>7 DEF T
<1>11. n \in G
  <2>1. \A k \in 0..n : k \in G
    <3>. HIDE DEF G
    <3>. QED BY <1>1, <1>9, <1>10, Induction
  <2>. HIDE DEF G
  <2>. QED BY <1>1, <2>1
<1>12. Good(h[1..n], n)
  <2>. HIDE DEF States, Good
  <2>. QED BY <1>11
<1>. QED BY <1>2, <1>12 DEF EndsAre, n

\* Fields begin one after the other.
LEMMA EndsGrow ==
  ASSUME NEW c, IsCalldata(c), NEW ends, EndsAre(ends, c),
         NEW i \in 1..(Len(c) + 1), NEW j \in 1..(Len(c) + 1), i < j
  PROVE  ends[i] < ends[j]
<1>. DEFINE n == Len(c)
            G == {m \in (i + 1)..(n + 1) : ends[i] < ends[m]}
<1>1. n \in Nat /\ \A k \in 1..n : c[k][2] \in Nat \ {0}
  BY DEF IsCalldata
<1>2. \A k \in 1..(n + 1) : ends[k] \in Nat
  BY <1>1 DEF EndsAre
<1>3. \A k \in 1..n : ends[k + 1] = ends[k] + c[k][2]
  BY DEF EndsAre
<1>. HIDE DEF n
<1>4. i + 1 \in G
  <2>1. i \in 1..n /\ i \in 1..(n + 1) /\ i + 1 \in (i + 1)..(n + 1)
    BY <1>1 DEF n
  <2>2. ends[i + 1] = ends[i] + c[i][2] /\ ends[i] \in Nat /\ c[i][2] \in Nat \ {0}
    BY <1>1, <1>2, <1>3, <2>1
  <2>3. ends[i] < ends[i + 1]
    BY <2>2
  <2>. QED BY <2>1, <2>3
<1>5. \A m \in (i + 1)..((n + 1) - 1) : m \in G => m + 1 \in G
  <2>1. ASSUME NEW m \in (i + 1)..((n + 1) - 1), m \in G PROVE m + 1 \in G
    <3>1. m \in 1..n /\ m \in 1..(n + 1) /\ m + 1 \in (i + 1)..(n + 1)
      BY <1>1 DEF n
    <3>2. ends[m + 1] = ends[m] + c[m][2] /\ ends[m] \in Nat /\ c[m][2] \in Nat \ {0}
      BY <1>1, <1>2, <1>3, <3>1
    <3>3. ends[i] < ends[m] /\ ends[i] \in Nat
      BY <1>2, <2>1 DEF n
    <3>4. ends[i] < ends[m + 1]
      BY <3>2, <3>3
    <3>. QED BY <3>1, <3>4
  <2>. QED BY <2>1, Zenon
<1>6. \A m \in (i + 1)..(n + 1) : m \in G
  <2>. HIDE DEF G
  <2>1. i + 1 \in Nat /\ n + 1 \in Nat
    BY <1>1 DEF n
  <2>. QED BY <1>4, <1>5, <2>1, Induction
<1>7. j \in (i + 1)..(n + 1)
  BY <1>1 DEF n
<1>. QED BY <1>6, <1>7

\* A slice that lies where a field lies is the field.
LEMMA SliceIs ==
  ASSUME NEW c, IsCalldata(c), NEW ends, EndsAre(ends, c), ends = Ends(c),
         NEW i \in 1..Len(c), NEW from, NEW to, from = ends[i], to = ends[i + 1]
  PROVE  Slice(c, from, to) = c[i][1]
<1>. DEFINE at == {k \in DOMAIN c : ends[k] = from /\ ends[k + 1] = to}
<1>1. Len(c) \in Nat /\ DOMAIN c = 1..Len(c) /\ Len(ends) = Len(c) + 1
  BY DEF IsCalldata, EndsAre
<1>2. \A k, m \in 1..(Len(c) + 1) : k < m => ends[k] < ends[m]
  BY EndsGrow
<1>3. \A k \in 1..(Len(c) + 1) : ends[k] \in Nat
  BY <1>1 DEF EndsAre
<1>4. ~(ends[Len(ends)] <= from)
  <2>1. i \in 1..(Len(c) + 1) /\ Len(c) + 1 \in 1..(Len(c) + 1) /\ i < Len(c) + 1
    BY <1>1
  <2>. QED BY <1>1, <1>2, <1>3, <2>1
<1>5. at = {i}
  <2>1. i \in at
    BY <1>1
  <2>2. ASSUME NEW k \in at PROVE k = i
    <3>1. k \in 1..(Len(c) + 1) /\ i \in 1..(Len(c) + 1) /\ ends[k] = ends[i]
      BY <1>1
    <3>2. ~(k < i) /\ ~(i < k)
      BY <1>2, <1>3, <3>1
    <3>. QED BY <3>1, <3>2
  <2>. HIDE DEF at
  <2>. QED BY <2>1, <2>2
<1>6. (CHOOSE k \in at : TRUE) = i
  BY <1>5
<1>. QED BY <1>4, <1>5, <1>6 DEF Slice

\* Behind the last field there is nothing.
LEMMA SlicePast ==
  ASSUME NEW c, NEW ends, ends = Ends(c), NEW from, NEW to, ends[Len(ends)] <= from
  PROVE  Slice(c, from, to) = Nothing
BY DEF Slice

\* There is one such list for a calldata.
LEMMA EndsUnique ==
  ASSUME NEW c, IsCalldata(c), NEW d, NEW e, EndsAre(d, c), EndsAre(e, c)
  PROVE  d = e
<1>. DEFINE n == Len(c)
            G == {k \in 1..(n + 1) : d[k] = e[k]}
<1>1. n \in Nat /\ 1 \in 1..(n + 1)
  BY DEF IsCalldata
<1>2. /\ d \in Seq(Nat) /\ e \in Seq(Nat) /\ Len(d) = n + 1 /\ Len(e) = n + 1
      /\ d[1] = 0 /\ e[1] = 0
      /\ \A k \in 1..n : d[k + 1] = d[k] + c[k][2] /\ e[k + 1] = e[k] + c[k][2]
  BY DEF EndsAre
<1>. HIDE DEF n
<1>3. 1 \in G
  BY <1>1, <1>2
<1>4. \A k \in 1..((n + 1) - 1) : k \in G => k + 1 \in G
  <2>1. ASSUME NEW k \in 1..((n + 1) - 1), k \in G PROVE k + 1 \in G
    <3>1. k \in 1..n /\ k + 1 \in 1..(n + 1) /\ d[k] = e[k]
      BY <1>1, <2>1
    <3>. QED BY <1>2, <3>1
  <2>. QED BY <2>1, Zenon
<1>5. \A k \in 1..(n + 1) : k \in G
  <2>. HIDE DEF G
  <2>1. n + 1 \in Nat
    BY <1>1
  <2>. QED BY <1>3, <1>4, <2>1, Induction
<1>6. \A k \in 1..(n + 1) : d[k] = e[k]
  BY <1>5
<1>. QED BY <1>1, <1>2, <1>6

\* The digits of a calldata, and that a field begins after so many of them.
Width(c) == Ends(c)[Len(c) + 1]
At(c, from, field) ==
  \E i \in 1..Len(c) : c[i] = field /\ Ends(c)[i] = from /\ Ends(c)[i + 1] = from + field[2]

\* What a slice at the place of a field is.
LEMMA SliceAt ==
  ASSUME NEW c, IsCalldata(c), NEW from, NEW to, NEW v, NEW w, to = from + w,
         At(c, from, <<v, w>>)
  PROVE  Slice(c, from, to) = v
<1>1. EndsAre(Ends(c), c)
  BY EndsIs
<1>2. PICK i \in 1..Len(c) : /\ c[i] = <<v, w>> /\ Ends(c)[i] = from
                             /\ Ends(c)[i + 1] = from + <<v, w>>[2]
  BY Zenon DEF At
<1>3. to = Ends(c)[i + 1] /\ c[i][1] = v
  BY <1>2
<1>. QED BY <1>1, <1>2, <1>3, SliceIs

\* What SwapAt reads.
LEMMA SwapIs ==
  ASSUME NEW c, IsCalldata(c), NEW pair \in Nat, NEW fee \in Nat, NEW p, NEW f, NEW z,
         At(c, pair, <<p, 42>>), At(c, fee, <<f, 4>>), At(c, fee + 4, <<z, 2>>)
  PROVE  SwapAt(c, pair, fee) = [pair |-> p, fee |-> f, is0_in |-> z]
<1>1. Slice(c, pair, pair + 42) = p
  BY SliceAt
<1>2. Slice(c, fee, fee + 4) = f
  BY SliceAt
<1>3. Slice(c, fee + 4, fee + 6) = z
  <2>. DEFINE from == fee + 4
              to == fee + 6
  <2>1. to = from + 2
    OBVIOUS
  <2>. HIDE DEF from, to
  <2>2. At(c, from, <<z, 2>>)
    BY DEF from
  <2>3. Slice(c, from, to) = z
    BY <2>1, <2>2, SliceAt
  <2>. QED BY <2>3 DEF from, to
<1>. QED BY <1>1, <1>2, <1>3, Zenon DEF SwapAt

\* What one behind all fields is.
LEMMA SliceBehind ==
  ASSUME NEW c, IsCalldata(c), NEW from, NEW to, Width(c) <= from
  PROVE  Slice(c, from, to) = Nothing
<1>1. EndsAre(Ends(c), c)
  BY EndsIs
<1>2. Ends(c)[Len(Ends(c))] <= from
  BY <1>1 DEF Width, EndsAre
<1>. QED BY <1>2, SlicePast

\* Calldata without fields.
LEMMA NoFields == IsCalldata(<<>>) /\ Width(<<>>) = 0
<1>1. <<>> \in Seq({}) /\ Len(<<>>) = 0
  OBVIOUS
<1>2. IsCalldata(<<>>)
  BY <1>1 DEF IsCalldata
<1>3. EndsAre(Ends(<<>>), <<>>)
  BY <1>2, EndsIs
<1>. QED BY <1>1, <1>2, <1>3 DEF EndsAre, Width

\* With one field it begins at zero.
LEMMA OneField ==
  ASSUME NEW v, NEW w \in Nat \ {0}
  PROVE  LET c == <<<<v, w>>>>
         IN  IsCalldata(c) /\ Width(c) = w /\ At(c, 0, <<v, w>>)
<1>. DEFINE c == <<<<v, w>>>>
<1>1. c \in Seq({<<v, w>>}) /\ Len(c) = 1 /\ c[1] = <<v, w>> /\ c[1][2] = w
  OBVIOUS
<1>. HIDE DEF c
<1>2. IsCalldata(c)
  BY <1>1 DEF IsCalldata
<1>3. EndsAre(Ends(c), c)
  BY <1>2, EndsIs
<1>4. Ends(c)[1] = 0 /\ Ends(c)[1 + 1] = Ends(c)[1] + c[1][2]
  BY <1>1, <1>3 DEF EndsAre
<1>5. Width(c) = w
  BY <1>1, <1>4 DEF Width
<1>6. At(c, 0, <<v, w>>)
  BY <1>1, <1>4 DEF At
<1>. QED BY <1>2, <1>5, <1>6 DEF c

\* Fields keep their places when others follow, and move behind others.
LEMMA JoinFields ==
  ASSUME NEW s, IsCalldata(s), NEW t, IsCalldata(t)
  PROVE  /\ IsCalldata(s \o t) /\ Width(s) \in Nat /\ Width(t) \in Nat
         /\ Width(s \o t) = Width(s) + Width(t)
         /\ \A from, x : At(s, from, x) => At(s \o t, from, x)
         /\ \A from \in Nat : \A x : x[2] \in Nat /\ At(t, from, x)
               => At(s \o t, Width(s) + from, x)
<1>. DEFINE c == s \o t
            n == Len(s)
            m == Len(t)
            d == Ends(s)
            e == Ends(t)
            W == Width(s)
            f == [i \in 1..(n + m + 1) |-> IF i <= n + 1 THEN d[i] ELSE W + e[i - n]]
<1>1. n \in Nat /\ m \in Nat
  BY DEF IsCalldata
<1>2. /\ \A i \in 1..n : s[i][2] \in Nat \ {0}
      /\ \A i \in 1..m : t[i][2] \in Nat \ {0}
  BY DEF IsCalldata
<1>3. EndsAre(d, s) /\ EndsAre(e, t)
  BY EndsIs
<1>4. /\ Len(c) = n + m
      /\ \A i \in 1..n : c[i] = s[i]
      /\ \A i \in 1..m : c[n + i] = t[i]
      /\ IsCalldata(c)
  <2>1. PICK F : s \in Seq(F)
    BY DEF IsCalldata
  <2>2. PICK H : t \in Seq(H)
    BY DEF IsCalldata
  <2>3. s \in Seq(F \cup H) /\ t \in Seq(F \cup H)
    BY <2>1, <2>2
  <2>4. c \in Seq(F \cup H) /\ Len(c) = n + m
    BY <2>3
  <2>5. \A i \in 1..n : c[i] = s[i]
    BY <2>3
  <2>6. \A i \in 1..m : c[n + i] = t[i]
    BY <2>3
  <2>. HIDE DEF c, n, m
  <2>7. \A i \in 1..(n + m) : c[i][2] \in Nat \ {0}
    <3>1. ASSUME NEW i \in 1..(n + m), ~(i \in 1..n) PROVE c[i][2] \in Nat \ {0}
      <4>1. i - n \in 1..m /\ i = n + (i - n)
        BY <1>1, <3>1
      <4>. QED BY <1>2, <2>6, <4>1
    <3>. QED BY <1>2, <2>5, <3>1
  <2>8. DOMAIN c = 1..(n + m)
    BY <2>4
  <2>. QED BY <2>4, <2>5, <2>6, <2>7, <2>8 DEF IsCalldata
<1>5. /\ d \in Seq(Nat) /\ Len(d) = n + 1 /\ d[1] = 0 /\ W = d[n + 1]
      /\ \A i \in 1..n : d[i + 1] = d[i] + s[i][2]
      /\ e \in Seq(Nat) /\ Len(e) = m + 1 /\ e[1] = 0 /\ Width(t) = e[m + 1]
      /\ \A i \in 1..m : e[i + 1] = e[i] + t[i][2]
  BY <1>3, Zenon DEF EndsAre, Width
<1>. HIDE DEF c, n, m, d, e, W
<1>6. /\ \A i \in 1..(n + 1) : d[i] \in Nat
      /\ \A i \in 1..(m + 1) : e[i] \in Nat
      /\ W \in Nat
  <2>1. \A i \in 1..(n + 1) : d[i] \in Nat
    BY <1>1, <1>5
  <2>2. \A i \in 1..(m + 1) : e[i] \in Nat
    BY <1>1, <1>5
  <2>3. n + 1 \in 1..(n + 1)
    BY <1>1
  <2>. QED BY <1>5, <2>1, <2>2, <2>3
<1>7. /\ \A i \in 1..(n + 1) : f[i] = d[i]
      /\ \A i \in 1..(m + 1) : f[n + i] = W + e[i]
  <2>1. \A i \in 1..(n + 1) : f[i] = d[i]
    BY <1>1
  <2>2. ASSUME NEW i \in 1..(m + 1) PROVE f[n + i] = W + e[i]
    <3>1. n + i \in 1..(n + m + 1) /\ (n + i) - n = i
      BY <1>1
    <3>2. CASE i = 1
      BY <1>1, <1>5, <1>6, <3>1, <3>2
    <3>3. CASE i # 1
      <4>1. ~(n + i <= n + 1)
        BY <1>1, <3>3
      <4>. QED BY <3>1, <4>1
    <3>. QED BY <3>2, <3>3
  <2>. QED BY <2>1, <2>2
<1>8. f \in Seq(Nat) /\ Len(f) = n + m + 1
  <2>1. \A i \in 1..(n + m + 1) :
          (IF i <= n + 1 THEN d[i] ELSE W + e[i - n]) \in Nat
    <3>1. ASSUME NEW i \in 1..(n + m + 1), ~(i <= n + 1) PROVE W + e[i - n] \in Nat
      <4>1. i - n \in 1..(m + 1)
        BY <1>1, <3>1
      <4>. QED BY <1>6, <4>1
    <3>2. ASSUME NEW i \in 1..(n + m + 1), i <= n + 1 PROVE d[i] \in Nat
      BY <1>1, <1>6, <3>2
    <3>. QED BY <3>1, <3>2
  <2>2. f \in [1..(n + m + 1) -> Nat] /\ n + m + 1 \in Nat
    BY <1>1, <2>1
  <2>. HIDE DEF f
  <2>. QED BY <2>2
<1>. HIDE DEF f
<1>9. EndsAre(f, c)
  <2>1. f[1] = 0
    BY <1>1, <1>5, <1>7
  <2>2. ASSUME NEW i \in 1..n PROVE f[i + 1] = f[i] + c[i][2]
    <3>1. i \in 1..(n + 1) /\ i + 1 \in 1..(n + 1)
      BY <1>1
    <3>. QED BY <1>4, <1>5, <1>7, <3>1
  <2>3. ASSUME NEW i \in 1..m PROVE f[(n + i) + 1] = f[n + i] + c[n + i][2]
    <3>1. i \in 1..(m + 1) /\ i + 1 \in 1..(m + 1) /\ (n + i) + 1 = n + (i + 1)
      BY <1>1
    <3>2. f[n + (i + 1)] = W + e[i + 1] /\ f[n + i] = W + e[i]
      BY <1>7, <3>1
    <3>3. e[i + 1] = e[i] + t[i][2] /\ e[i] \in Nat /\ t[i][2] \in Nat \ {0}
      BY <1>2, <1>5, <1>6, <3>1
    <3>4. c[n + i] = t[i]
      BY <1>4
    <3>. QED BY <1>6, <3>1, <3>2, <3>3, <3>4
  <2>4. ASSUME NEW i \in 1..(n + m) PROVE f[i + 1] = f[i] + c[i][2]
    <3>1. CASE i \in 1..n
      BY <2>2, <3>1
    <3>2. CASE ~(i \in 1..n)
      <4>1. i - n \in 1..m /\ n + (i - n) = i
        BY <1>1, <3>2
      <4>. QED BY <2>3, <4>1
    <3>. QED BY <3>1, <3>2
  <2>. QED BY <1>4, <1>8, <2>1, <2>4 DEF EndsAre
<1>10. Ends(c) = f
  <2>1. EndsAre(Ends(c), c)
    BY <1>4, EndsIs
  <2>. QED BY <1>4, <1>9, <2>1, EndsUnique
<1>11. Width(c) = W + Width(t)
  <2>1. m + 1 \in 1..(m + 1) /\ n + (m + 1) = n + m + 1
    BY <1>1
  <2>. QED BY <1>4, <1>5, <1>7, <1>10, <2>1 DEF Width
<1>12. ASSUME NEW from, NEW x, At(s, from, x) PROVE At(c, from, x)
  <2>1. PICK i \in 1..n : s[i] = x /\ d[i] = from /\ d[i + 1] = from + x[2]
    BY <1>12, Zenon DEF At, n, d
  <2>2. i \in 1..(n + m) /\ i \in 1..(n + 1) /\ i + 1 \in 1..(n + 1)
    BY <1>1
  <2>3. c[i] = x /\ f[i] = from /\ f[i + 1] = from + x[2]
    BY <1>4, <1>7, <2>1, <2>2
  <2>. QED BY <1>4, <1>10, <2>2, <2>3 DEF At
<1>13. ASSUME NEW from \in Nat, NEW x, x[2] \in Nat, At(t, from, x)
       PROVE  At(c, W + from, x)
  <2>1. PICK i \in 1..m : t[i] = x /\ e[i] = from /\ e[i + 1] = from + x[2]
    BY <1>13, Zenon DEF At, m, e
  <2>2. /\ n + i \in 1..(n + m) /\ i \in 1..(m + 1) /\ i + 1 \in 1..(m + 1)
        /\ (n + i) + 1 = n + (i + 1)
    BY <1>1
  <2>3. c[n + i] = x /\ f[n + i] = W + from /\ f[n + (i + 1)] = W + (from + x[2])
    BY <1>4, <1>7, <2>1, <2>2
  <2>4. f[(n + i) + 1] = (W + from) + x[2]
    BY <1>6, <1>13, <2>2, <2>3
  <2>. QED BY <1>4, <1>10, <2>2, <2>3, <2>4 DEF At
<1>14. Width(t) \in Nat
  BY <1>1, <1>5, <1>6
<1>. QED BY <1>4, <1>6, <1>11, <1>12, <1>13, <1>14 DEF c, W

\* With two, the second begins where the first ends.
LEMMA TwoFields ==
  ASSUME NEW v1, NEW w1 \in Nat \ {0}, NEW v2, NEW w2 \in Nat \ {0}
  PROVE  LET c == <<<<v1, w1>>, <<v2, w2>>>>
         IN  /\ IsCalldata(c) /\ Width(c) = w1 + w2
             /\ At(c, 0, <<v1, w1>>) /\ At(c, w1, <<v2, w2>>)
<1>. DEFINE c == <<<<v1, w1>>, <<v2, w2>>>>
<1>1. /\ c \in Seq({<<v1, w1>>, <<v2, w2>>}) /\ Len(c) = 2
      /\ c[1] = <<v1, w1>> /\ c[1][2] = w1 /\ c[2] = <<v2, w2>> /\ c[2][2] = w2
  OBVIOUS
<1>. HIDE DEF c
<1>2. IsCalldata(c)
  BY <1>1 DEF IsCalldata
<1>3. EndsAre(Ends(c), c)
  BY <1>2, EndsIs
<1>4. /\ Ends(c)[1] = 0 /\ Ends(c)[1 + 1] = Ends(c)[1] + c[1][2]
      /\ Ends(c)[2 + 1] = Ends(c)[2] + c[2][2]
  BY <1>1, <1>3 DEF EndsAre
<1>5. Width(c) = w1 + w2
  BY <1>1, <1>4 DEF Width
<1>6. At(c, 0, <<v1, w1>>) /\ At(c, w1, <<v2, w2>>)
  <2>1. 1 \in 1..Len(c) /\ 2 \in 1..Len(c)
    BY <1>1
  <2>2. Ends(c)[1] = 0 /\ Ends(c)[1 + 1] = 0 + w1
    BY <1>1, <1>4
  <2>3. Ends(c)[2] = w1 /\ Ends(c)[2 + 1] = w1 + w2
    BY <1>1, <1>4
  <2>. QED BY <1>1, <2>1, <2>2, <2>3 DEF At
<1>. QED BY <1>2, <1>5, <1>6 DEF c

\* With three, likewise.
LEMMA ThreeFields ==
  ASSUME NEW v1, NEW w1 \in Nat \ {0}, NEW v2, NEW w2 \in Nat \ {0},
         NEW v3, NEW w3 \in Nat \ {0}
  PROVE  LET c == <<<<v1, w1>>, <<v2, w2>>, <<v3, w3>>>>
         IN  /\ IsCalldata(c) /\ Width(c) = w1 + w2 + w3
             /\ At(c, 0, <<v1, w1>>) /\ At(c, w1, <<v2, w2>>)
             /\ At(c, w1 + w2, <<v3, w3>>)
<1>. DEFINE c == <<<<v1, w1>>, <<v2, w2>>, <<v3, w3>>>>
<1>1. /\ c \in Seq({<<v1, w1>>, <<v2, w2>>, <<v3, w3>>}) /\ Len(c) = 3
      /\ c[1] = <<v1, w1>> /\ c[1][2] = w1 /\ c[2] = <<v2, w2>> /\ c[2][2] = w2
      /\ c[3] = <<v3, w3>> /\ c[3][2] = w3
  OBVIOUS
<1>. HIDE DEF c
<1>2. IsCalldata(c)
  <2>1. \A k \in 1..3 : c[k][2] \in Nat \ {0}
    BY <1>1
  <2>. QED BY <1>1, <2>1 DEF IsCalldata
<1>3. EndsAre(Ends(c), c)
  BY <1>2, EndsIs
<1>4. /\ Ends(c)[1] = 0 /\ Ends(c)[1 + 1] = Ends(c)[1] + c[1][2]
      /\ Ends(c)[2 + 1] = Ends(c)[2] + c[2][2]
      /\ Ends(c)[3 + 1] = Ends(c)[3] + c[3][2]
  BY <1>1, <1>3 DEF EndsAre
<1>5. Width(c) = w1 + w2 + w3
  BY <1>1, <1>4 DEF Width
<1>6. At(c, 0, <<v1, w1>>) /\ At(c, w1, <<v2, w2>>) /\ At(c, w1 + w2, <<v3, w3>>)
  <2>1. 1 \in 1..Len(c) /\ 2 \in 1..Len(c) /\ 3 \in 1..Len(c)
    BY <1>1
  <2>2. Ends(c)[1] = 0 /\ Ends(c)[1 + 1] = 0 + w1
    BY <1>1, <1>4
  <2>3. Ends(c)[2] = w1 /\ Ends(c)[2 + 1] = w1 + w2
    BY <1>1, <1>4
  <2>4. Ends(c)[3] = w1 + w2 /\ Ends(c)[3 + 1] = (w1 + w2) + w3
    BY <1>1, <1>4
  <2>5. At(c, 0, <<v1, w1>>)
    BY <1>1, <2>1, <2>2 DEF At
  <2>6. At(c, w1, <<v2, w2>>)
    BY <1>1, <2>1, <2>3 DEF At
  <2>7. At(c, w1 + w2, <<v3, w3>>)
    BY <1>1, <2>1, <2>4 DEF At
  <2>. QED BY <2>5, <2>6, <2>7
<1>. QED BY <1>2, <1>5, <1>6 DEF c

\* The burners stand one behind the other, after their number.
LEMMA BurnersAt ==
  ASSUME NEW A, NEW burners \in Seq(A), burners # <<>>
  PROVE  LET c == HexBurners(burners)
         IN  /\ IsCalldata(c) /\ At(c, 0, <<Len(burners), 2>>)
             /\ \A k \in 1..Len(burners) : At(c, 2 + 40 * (k - 1), <<burners[k], 40>>)
<1>. DEFINE n == Len(burners)
            head == <<<<n, 2>>>>
            rest == [k \in DOMAIN burners |-> <<burners[k], 40>>]
            ends == [k \in 1..(n + 1) |-> 40 * (k - 1)]
<1>1. n \in Nat /\ DOMAIN burners = 1..n /\ \A k \in 1..n : burners[k] \in A
  OBVIOUS
<1>2. HexBurners(burners) = head \o rest
  BY Zenon DEF HexBurners, Uint8, Burner
<1>3. IsCalldata(head) /\ Width(head) = 2 /\ At(head, 0, <<n, 2>>)
  BY <1>1, OneField
<1>. HIDE DEF n, head
<1>4. /\ rest \in Seq(A \X {40}) /\ Len(rest) = n
      /\ \A k \in 1..n : rest[k] = <<burners[k], 40>>
  BY <1>1
<1>5. /\ ends \in Seq(Nat) /\ Len(ends) = n + 1
      /\ \A k \in 1..(n + 1) : ends[k] = 40 * (k - 1)
  <2>1. ends \in [1..(n + 1) -> Nat] /\ n + 1 \in Nat
    BY <1>1
  <2>2. \A k \in 1..(n + 1) : ends[k] = 40 * (k - 1)
    BY <1>1
  <2>. HIDE DEF ends
  <2>. QED BY <2>1, <2>2
<1>. HIDE DEF rest, ends
<1>6. \A k \in 1..n : rest[k][2] = 40
  BY <1>4
<1>7. IsCalldata(rest)
  <2>1. DOMAIN rest = 1..n
    BY <1>1, <1>4
  <2>2. \A k \in 1..n : rest[k][2] \in Nat \ {0}
    BY <1>6
  <2>. QED BY <1>4, <2>1, <2>2 DEF IsCalldata
<1>8. EndsAre(ends, rest)
  <2>1. ends[1] = 0
    BY <1>1, <1>5
  <2>2. \A k \in 1..n : ends[k + 1] = ends[k] + rest[k][2]
    <3>1. ASSUME NEW k \in 1..n PROVE ends[k + 1] = ends[k] + rest[k][2]
      <4>1. k \in 1..(n + 1) /\ k + 1 \in 1..(n + 1)
        BY <1>1
      <4>. QED BY <1>5, <1>6, <4>1
    <3>. QED BY <3>1, Zenon
  <2>. QED BY <1>4, <1>5, <2>1, <2>2 DEF EndsAre
<1>9. ends = Ends(rest)
  <2>1. EndsAre(Ends(rest), rest)
    BY <1>7, EndsIs
  <2>. QED BY <1>7, <1>8, <2>1, EndsUnique
<1>10. ASSUME NEW k \in 1..n
       PROVE  At(rest, 40 * (k - 1), <<burners[k], 40>>)
  <2>1. k \in 1..Len(rest) /\ k \in 1..(n + 1) /\ k + 1 \in 1..(n + 1)
    BY <1>1, <1>4
  <2>2. ends[k] = 40 * (k - 1) /\ ends[k + 1] = 40 * (k - 1) + 40
    BY <1>5, <2>1
  <2>. QED BY <1>4, <1>9, <2>1, <2>2 DEF At
<1>11. /\ IsCalldata(head \o rest) /\ At(head \o rest, 0, <<n, 2>>)
       /\ \A from \in Nat : \A x : x[2] \in Nat /\ At(rest, from, x)
            => At(head \o rest, 2 + from, x)
  BY <1>3, <1>7, JoinFields
<1>12. ASSUME NEW k \in 1..n
       PROVE  At(head \o rest, 2 + 40 * (k - 1), <<burners[k], 40>>)
  <2>1. 40 * (k - 1) \in Nat /\ <<burners[k], 40>>[2] \in Nat
    BY <1>1
  <2>. QED BY <1>10, <1>11, <2>1
<1>. QED BY <1>2, <1>11, <1>12 DEF n

-----------------------------------------------------------------------------
(* Calldata: what create_arb_args writes, and where                          *)

\* The digits of a third swap, and of a last token that is not the first.
ThirdSwap(path) == IF Len(path) = 7 THEN 48 ELSE 0
LastToken(path) == IF path[1] # path[Len(path)] THEN 42 ELSE 0

Third(market, path) ==
  IF Len(path) = 7
  THEN <<Address(path[6])>> \o SwapFields(market, path, 6) ELSE <<>>
LastField(path) ==
  IF path[1] # path[Len(path)] THEN <<Address(path[Len(path)])>> ELSE <<>>

\* The parts that not all arguments have.
LEMMA ThirdAt ==
  ASSUME NEW market, NEW path
  PROVE  LET c == Third(market, path)
         IN  /\ IsCalldata(c) /\ Width(c) = ThirdSwap(path)
             /\ Len(path) = 7 =>
                  /\ At(c, 0, <<path[6], 42>>)
                  /\ At(c, 42, <<market[path[6]].fee, 4>>)
                  /\ At(c, 46, <<IsZeroIn(market, path, 6), 2>>)
<1>. DEFINE fee == market[path[6]].fee
            zero == IsZeroIn(market, path, 6)
            s == <<<<path[6], 42>>>>
            t == <<<<fee, 4>>, <<zero, 2>>>>
<1>1. CASE Len(path) = 7
  <2>1. Third(market, path) = s \o t
    BY <1>1, Zenon DEF Third, Address, SwapFields, Uint16, Uint8
  <2>2. IsCalldata(s) /\ Width(s) = 42 /\ At(s, 0, <<path[6], 42>>)
    <3>1. 42 \in Nat \ {0}
      OBVIOUS
    <3>. QED BY <3>1, OneField
  <2>3. IsCalldata(t) /\ Width(t) = 6 /\ At(t, 0, <<fee, 4>>) /\ At(t, 4, <<zero, 2>>)
    <3>. HIDE DEF fee, zero
    <3>1. 4 \in Nat \ {0} /\ 2 \in Nat \ {0} /\ 4 + 2 = 6
      OBVIOUS
    <3>. QED BY <3>1, TwoFields
  <2>4. /\ <<fee, 4>>[2] \in Nat /\ <<zero, 2>>[2] \in Nat
    OBVIOUS
  <2>. HIDE DEF s, t
  <2>5. /\ IsCalldata(s \o t) /\ Width(s \o t) = 42 + 6
        /\ \A from, x : At(s, from, x) => At(s \o t, from, x)
        /\ \A from \in Nat : \A x : x[2] \in Nat /\ At(t, from, x) => At(s \o t, 42 + from, x)
    BY <2>2, <2>3, JoinFields
  <2>. HIDE DEF fee, zero
  <2>6. At(s \o t, 42 + 0, <<fee, 4>>) /\ At(s \o t, 42 + 4, <<zero, 2>>)
    BY <2>3, <2>4, <2>5
  <2>7. At(s \o t, 42, <<fee, 4>>) /\ At(s \o t, 46, <<zero, 2>>)
    BY <2>6
  <2>8. At(s \o t, 0, <<path[6], 42>>)
    BY <2>2, <2>5
  <2>9. ThirdSwap(path) = 42 + 6
    BY <1>1 DEF ThirdSwap
  <2>. QED BY <2>1, <2>5, <2>7, <2>8, <2>9 DEF fee, zero
<1>2. CASE Len(path) # 7
  <2>1. Third(market, path) = <<>> /\ ThirdSwap(path) = 0
    BY <1>2, Zenon DEF Third, ThirdSwap
  <2>. QED BY <1>2, <2>1, NoFields
<1>. QED BY <1>1, <1>2

\* Likewise for the last token.
LEMMA LastAt ==
  ASSUME NEW path
  PROVE  LET c == LastField(path)
         IN  /\ IsCalldata(c) /\ Width(c) = LastToken(path)
             /\ path[1] # path[Len(path)] => At(c, 0, <<path[Len(path)], 42>>)
<1>1. CASE path[1] # path[Len(path)]
  <2>1. LastField(path) = <<<<path[Len(path)], 42>>>> /\ LastToken(path) = 42
    BY <1>1, Zenon DEF LastField, LastToken, Address
  <2>2. 42 \in Nat \ {0}
    OBVIOUS
  <2>. QED BY <2>1, <2>2, OneField
<1>2. CASE path[1] = path[Len(path)]
  <2>1. LastField(path) = <<>> /\ LastToken(path) = 0
    BY <1>2, Zenon DEF LastField, LastToken
  <2>. QED BY <1>2, <2>1, NoFields
<1>. QED BY <1>1, <1>2

\* All fields before the burners, and where those begin.
Laid(c, market, path, amount, cost, burners, X, Z) ==
  /\ IsCalldata(c)
  /\ At(c, 0, <<Selector(path), 2>>)
  /\ At(c, 2, <<path[2], 42>>) /\ At(c, 44, <<amount, 28>>)
  /\ At(c, 72, <<market[path[2]].fee, 4>>)
  /\ At(c, 76, <<IsZeroIn(market, path, 2), 2>>)
  /\ At(c, 78, <<path[4], 42>>)
  /\ At(c, 120, <<market[path[4]].fee, 4>>)
  /\ At(c, 124, <<IsZeroIn(market, path, 4), 2>>)
  /\ Len(path) = 7 =>
       /\ At(c, 126, <<path[6], 42>>)
       /\ At(c, 168, <<market[path[6]].fee, 4>>)
       /\ At(c, 172, <<IsZeroIn(market, path, 6), 2>>)
  /\ At(c, 126 + X, <<cost, 28>>) /\ At(c, 154 + X, <<path[1], 42>>)
  /\ At(c, 196 + X, <<path[3], 42>>)
  /\ path[1] # path[Len(path)] => At(c, 238 + X, <<path[Len(path)], 42>>)
  /\ Width(c) = 238 + X + Z + Width(HexBurners(burners))
  /\ \A from \in Nat : \A x : x[2] \in Nat /\ At(HexBurners(burners), from, x)
       => At(c, 238 + X + Z + from, x)

\* create_arb_args lays them out so.
LEMMA FieldsAt ==
  ASSUME NEW market, NEW arb, NEW burners, IsCalldata(HexBurners(burners)),
         NEW path, path = arb.path, NEW amount, amount = arb.amount_in,
         NEW cost, cost = arb.tx_cost,
         NEW c, c = create_arb_args(arb, market, burners),
         NEW X, X = ThirdSwap(path), NEW Z, Z = LastToken(path)
  PROVE  Laid(c, market, path, amount, cost, burners, X, Z)
<1>. DEFINE fee2 == market[path[2]].fee
            fee4 == market[path[4]].fee
            zero2 == IsZeroIn(market, path, 2)
            zero4 == IsZeroIn(market, path, 4)
            p1 == <<<<Selector(path), 2>>, <<path[2], 42>>, <<amount, 28>>>>
            p2 == <<<<fee2, 4>>, <<zero2, 2>>>>
            p3 == <<<<path[4], 42>>>>
            p4 == <<<<fee4, 4>>, <<zero4, 2>>>>
            p5 == Third(market, path)
            p6 == <<<<cost, 28>>, <<path[1], 42>>, <<path[3], 42>>>>
            p7 == LastField(path)
            p8 == HexBurners(burners)
            s2 == p1 \o p2
            s3 == s2 \o p3
            s4 == s3 \o p4
            s5 == s4 \o p5
            s6 == s5 \o p6
            s7 == s6 \o p7
<1>1. c = s7 \o p8
  BY ZenonT(60) DEF create_arb_args, Third, LastField, Address, SwapFields, Uint8, Uint16, Uint112
<1>2. /\ 2 \in Nat \ {0} /\ 4 \in Nat \ {0} /\ 28 \in Nat \ {0} /\ 42 \in Nat \ {0}
  OBVIOUS
<1>3. /\ IsCalldata(p1) /\ Width(p1) = 2 + 42 + 28
      /\ At(p1, 0, <<Selector(path), 2>>) /\ At(p1, 2, <<path[2], 42>>)
      /\ At(p1, 2 + 42, <<amount, 28>>)
  BY <1>2, ThreeFields
<1>4. /\ IsCalldata(p2) /\ Width(p2) = 4 + 2
      /\ At(p2, 0, <<fee2, 4>>) /\ At(p2, 4, <<zero2, 2>>)
  BY <1>2, TwoFields
<1>5. IsCalldata(p3) /\ Width(p3) = 42 /\ At(p3, 0, <<path[4], 42>>)
  BY <1>2, OneField
<1>6. /\ IsCalldata(p4) /\ Width(p4) = 4 + 2
      /\ At(p4, 0, <<fee4, 4>>) /\ At(p4, 4, <<zero4, 2>>)
  BY <1>2, TwoFields
<1>7. /\ IsCalldata(p5) /\ Width(p5) = X
      /\ Len(path) = 7 => /\ At(p5, 0, <<path[6], 42>>)
                          /\ At(p5, 42, <<market[path[6]].fee, 4>>)
                          /\ At(p5, 46, <<IsZeroIn(market, path, 6), 2>>)
  BY ThirdAt, Zenon
<1>8. /\ IsCalldata(p6) /\ Width(p6) = 28 + 42 + 42
      /\ At(p6, 0, <<cost, 28>>) /\ At(p6, 28, <<path[1], 42>>)
      /\ At(p6, 28 + 42, <<path[3], 42>>)
  BY <1>2, ThreeFields
<1>9. /\ IsCalldata(p7) /\ Width(p7) = Z
      /\ path[1] # path[Len(path)] => At(p7, 0, <<path[Len(path)], 42>>)
  BY LastAt, Zenon
<1>10. X \in Nat /\ Z \in Nat
  BY DEF ThirdSwap, LastToken
<1>11. \A v, w : <<v, w>>[2] = w
  OBVIOUS
<1>. HIDE DEF fee2, fee4, zero2, zero4, p1, p2, p3, p4, p5, p6, p7, p8
<1>12. IsCalldata(p8)
  BY DEF p8
<1>13. /\ IsCalldata(s2) /\ Width(s2) = 78
       /\ \A from, x : At(p1, from, x) => At(s2, from, x)
       /\ At(s2, 72, <<fee2, 4>>) /\ At(s2, 76, <<zero2, 2>>)
  <2>1. /\ IsCalldata(s2) /\ Width(s2) = Width(p1) + Width(p2)
        /\ \A from, x : At(p1, from, x) => At(s2, from, x)
        /\ \A from \in Nat : \A x : x[2] \in Nat /\ At(p2, from, x) => At(s2, Width(p1) + from, x)
    BY <1>3, <1>4, JoinFields, Zenon
  <2>2. Width(p1) = 72 /\ Width(p2) = 6
    BY <1>3, <1>4
  <2>3. At(s2, 72 + 0, <<fee2, 4>>) /\ At(s2, 72 + 4, <<zero2, 2>>)
    <3>. HIDE DEF s2
    <3>. QED BY <1>4, <1>11, <2>1, <2>2
  <2>. HIDE DEF s2
  <2>. QED BY <2>1, <2>2, <2>3
<1>. HIDE DEF s2
<1>14. /\ IsCalldata(s3) /\ Width(s3) = 120
       /\ \A from, x : At(s2, from, x) => At(s3, from, x)
       /\ At(s3, 78, <<path[4], 42>>)
  <2>0. IsCalldata(s2) /\ IsCalldata(p3)
    BY <1>5, <1>13
  <2>1. /\ IsCalldata(s3) /\ Width(s3) = Width(s2) + Width(p3)
        /\ \A from, x : At(s2, from, x) => At(s3, from, x)
        /\ \A from \in Nat : \A x : x[2] \in Nat /\ At(p3, from, x) => At(s3, Width(s2) + from, x)
    BY <2>0, JoinFields, Zenon
  <2>. HIDE DEF s3
  <2>2. At(s3, 78 + 0, <<path[4], 42>>)
    BY <1>5, <1>11, <1>13, <2>1
  <2>. QED BY <1>5, <1>13, <2>1, <2>2
<1>. HIDE DEF s3
<1>15. /\ IsCalldata(s4) /\ Width(s4) = 126
       /\ \A from, x : At(s3, from, x) => At(s4, from, x)
       /\ At(s4, 120, <<fee4, 4>>) /\ At(s4, 124, <<zero4, 2>>)
  <2>0. IsCalldata(s3) /\ IsCalldata(p4)
    BY <1>6, <1>14
  <2>1. /\ IsCalldata(s4) /\ Width(s4) = Width(s3) + Width(p4)
        /\ \A from, x : At(s3, from, x) => At(s4, from, x)
        /\ \A from \in Nat : \A x : x[2] \in Nat /\ At(p4, from, x) => At(s4, Width(s3) + from, x)
    BY <2>0, JoinFields, Zenon
  <2>. HIDE DEF s4
  <2>2. At(s4, 120 + 0, <<fee4, 4>>) /\ At(s4, 120 + 4, <<zero4, 2>>)
    BY <1>6, <1>11, <1>14, <2>1
  <2>. QED BY <1>6, <1>14, <2>1, <2>2
<1>. HIDE DEF s4
<1>16. /\ IsCalldata(s5) /\ Width(s5) = 126 + X
       /\ \A from, x : At(s4, from, x) => At(s5, from, x)
       /\ Len(path) = 7 => /\ At(s5, 126, <<path[6], 42>>)
                           /\ At(s5, 168, <<market[path[6]].fee, 4>>)
                           /\ At(s5, 172, <<IsZeroIn(market, path, 6), 2>>)
  <2>0. IsCalldata(s4) /\ IsCalldata(p5)
    BY <1>7, <1>15
  <2>1. /\ IsCalldata(s5) /\ Width(s5) = Width(s4) + Width(p5)
        /\ \A from, x : At(s4, from, x) => At(s5, from, x)
        /\ \A from \in Nat : \A x : x[2] \in Nat /\ At(p5, from, x) => At(s5, Width(s4) + from, x)
    BY <2>0, JoinFields, Zenon
  <2>. HIDE DEF s5
  <2>2. ASSUME Len(path) = 7
        PROVE  /\ At(s5, 126 + 0, <<path[6], 42>>)
               /\ At(s5, 126 + 42, <<market[path[6]].fee, 4>>)
               /\ At(s5, 126 + 46, <<IsZeroIn(market, path, 6), 2>>)
    <3>. DEFINE fee6 == market[path[6]].fee
                zero6 == IsZeroIn(market, path, 6)
    <3>1. At(p5, 0, <<path[6], 42>>) /\ At(p5, 42, <<fee6, 4>>) /\ At(p5, 46, <<zero6, 2>>)
      BY <1>7, <2>2
    <3>. HIDE DEF fee6, zero6
    <3>2. /\ At(s5, 126 + 0, <<path[6], 42>>) /\ At(s5, 126 + 42, <<fee6, 4>>)
          /\ At(s5, 126 + 46, <<zero6, 2>>)
      BY <1>11, <1>15, <2>1, <3>1
    <3>. QED BY <3>2 DEF fee6, zero6
  <2>. QED BY <1>7, <1>15, <2>1, <2>2
<1>. HIDE DEF s5
<1>17. /\ IsCalldata(s6) /\ Width(s6) = 238 + X
       /\ \A from, x : At(s5, from, x) => At(s6, from, x)
       /\ At(s6, 126 + X, <<cost, 28>>) /\ At(s6, 154 + X, <<path[1], 42>>)
       /\ At(s6, 196 + X, <<path[3], 42>>)
  <2>0. IsCalldata(s5) /\ IsCalldata(p6)
    BY <1>8, <1>16
  <2>1. /\ IsCalldata(s6) /\ Width(s6) = Width(s5) + Width(p6)
        /\ \A from, x : At(s5, from, x) => At(s6, from, x)
        /\ \A from \in Nat : \A x : x[2] \in Nat /\ At(p6, from, x) => At(s6, Width(s5) + from, x)
    BY <2>0, JoinFields, Zenon
  <2>. HIDE DEF s6
  <2>2. /\ At(s6, (126 + X) + 0, <<cost, 28>>) /\ At(s6, (126 + X) + 28, <<path[1], 42>>)
        /\ At(s6, (126 + X) + 70, <<path[3], 42>>)
    BY <1>8, <1>11, <1>16, <2>1
  <2>3. (126 + X) + 0 = 126 + X /\ (126 + X) + 28 = 154 + X /\ (126 + X) + 70 = 196 + X
    BY <1>10
  <2>4. Width(s6) = 238 + X
    BY <1>8, <1>10, <1>16, <2>1
  <2>. QED BY <2>1, <2>2, <2>3, <2>4
<1>. HIDE DEF s6
<1>18. /\ IsCalldata(s7) /\ Width(s7) = 238 + X + Z
       /\ \A from, x : At(s6, from, x) => At(s7, from, x)
       /\ path[1] # path[Len(path)] => At(s7, 238 + X, <<path[Len(path)], 42>>)
  <2>0. IsCalldata(s6) /\ IsCalldata(p7)
    BY <1>9, <1>17
  <2>1. /\ IsCalldata(s7) /\ Width(s7) = Width(s6) + Width(p7)
        /\ \A from, x : At(s6, from, x) => At(s7, from, x)
        /\ \A from \in Nat : \A x : x[2] \in Nat /\ At(p7, from, x) => At(s7, Width(s6) + from, x)
    BY <2>0, JoinFields, Zenon
  <2>. HIDE DEF s7
  <2>2. ASSUME path[1] # path[Len(path)]
        PROVE  At(s7, (238 + X) + 0, <<path[Len(path)], 42>>)
    BY <1>9, <1>11, <1>17, <2>1, <2>2
  <2>3. (238 + X) + 0 = 238 + X
    BY <1>10
  <2>. QED BY <1>9, <1>17, <2>1, <2>2, <2>3
<1>. HIDE DEF s7
<1>19. /\ IsCalldata(c) /\ Width(c) = 238 + X + Z + Width(p8)
       /\ \A from, x : At(s7, from, x) => At(c, from, x)
       /\ \A from \in Nat : \A x : x[2] \in Nat /\ At(p8, from, x)
            => At(c, 238 + X + Z + from, x)
  <2>0. IsCalldata(s7) /\ IsCalldata(p8)
    BY <1>12, <1>18
  <2>1. /\ IsCalldata(s7 \o p8) /\ Width(s7 \o p8) = Width(s7) + Width(p8)
        /\ \A from, x : At(s7, from, x) => At(s7 \o p8, from, x)
        /\ \A from \in Nat : \A x : x[2] \in Nat /\ At(p8, from, x)
             => At(s7 \o p8, Width(s7) + from, x)
    BY <2>0, JoinFields, Zenon
  <2>. QED BY <1>1, <1>18, <2>1
<1>20. At(c, 0, <<Selector(path), 2>>) /\ At(c, 2, <<path[2], 42>>) /\ At(c, 44, <<amount, 28>>)
  <2>1. 2 + 42 = 44
    OBVIOUS
  <2>2. /\ At(s2, 0, <<Selector(path), 2>>) /\ At(s2, 2, <<path[2], 42>>)
        /\ At(s2, 44, <<amount, 28>>)
    BY <1>3, <1>13, <2>1
  <2>. QED BY <1>14, <1>15, <1>16, <1>17, <1>18, <1>19, <2>2
<1>21. At(c, 72, <<fee2, 4>>) /\ At(c, 76, <<zero2, 2>>)
  BY <1>13, <1>14, <1>15, <1>16, <1>17, <1>18, <1>19
<1>22. At(c, 78, <<path[4], 42>>) /\ At(c, 120, <<fee4, 4>>) /\ At(c, 124, <<zero4, 2>>)
  BY <1>14, <1>15, <1>16, <1>17, <1>18, <1>19
<1>23. ASSUME Len(path) = 7
       PROVE  /\ At(c, 126, <<path[6], 42>>)
              /\ At(c, 168, <<market[path[6]].fee, 4>>)
              /\ At(c, 172, <<IsZeroIn(market, path, 6), 2>>)
  BY <1>16, <1>17, <1>18, <1>19, <1>23
<1>24. /\ At(c, 126 + X, <<cost, 28>>) /\ At(c, 154 + X, <<path[1], 42>>)
       /\ At(c, 196 + X, <<path[3], 42>>)
  BY <1>17, <1>18, <1>19
<1>25. path[1] # path[Len(path)] => At(c, 238 + X, <<path[Len(path)], 42>>)
  BY <1>18, <1>19
<1>. QED BY <1>19, <1>20, <1>21, <1>22, <1>23, <1>24, <1>25 DEF Laid, fee2, fee4, zero2, zero4, p8

\* What is decoded is what the calldata was made from, for any arbitrage of two
\* swaps or three and any burners whose number has two digits.
THEOREM ArgumentsDecode ==
  ASSUME NEW market, NEW arb, Len(arb.path) \in {5, 7},
         NEW A, NEW burners \in Seq(A), Len(burners) < 256, Nothing \notin A
  PROVE  decode_arb_args(create_arb_args(arb, market, burners))
           = Described(arb, market, burners)
<1>. DEFINE path == arb.path
            amount == arb.amount_in
            cost == arb.tx_cost
            c == create_arb_args(arb, market, burners)
            X == ThirdSwap(path)
            Z == LastToken(path)
            fee(k) == market[path[2 * k]].fee
            zero(k) == IsZeroIn(market, path, 2 * k)
            selector == Slice(c, 0, 2)
            at == Offsets(selector)
            swaps == <<SwapAt(c, 2, 72), SwapAt(c, 78, 120), SwapAt(c, 126, 168)>>
            stated == Slice(c, at.burners, at.burners + 2)
            count == IF stated = Nothing THEN 0 ELSE stated
            all == [k \in 1..count |-> Slice(c, at.burners + 2 + 40 * (k - 1),
                                             at.burners + 2 + 40 * k)]
            n == Len(burners)
<1>1. n \in Nat /\ DOMAIN burners = 1..n /\ ToSet(burners) \subseteq A
  BY DEF ToSet
<1>2. IsCalldata(HexBurners(burners))
  <2>1. CASE burners # <<>>
    BY <2>1, BurnersAt, Zenon
  <2>2. CASE burners = <<>> /\ BurnersEnabled
    <3>1. HexBurners(burners) = <<<<1, 2>>>>
      BY <2>2, Zenon DEF HexBurners, Uint8
    <3>2. 2 \in Nat \ {0}
      OBVIOUS
    <3>. QED BY <3>1, <3>2, OneField
  <2>3. CASE burners = <<>> /\ ~BurnersEnabled
    <3>1. HexBurners(burners) = <<>>
      BY <2>3, Zenon DEF HexBurners
    <3>. QED BY <3>1, NoFields
  <2>. QED BY <2>1, <2>2, <2>3
<1>3. /\ X \in Nat /\ Z \in Nat
      /\ Len(path) = 7 => X = 48
      /\ Len(path) = 5 => X = 0
      /\ Z = IF path[1] # path[Len(path)] THEN 42 ELSE 0
  <2>. HIDE DEF path
  <2>1. X = (IF Len(path) = 7 THEN 48 ELSE 0) /\ Z = (IF path[1] # path[Len(path)] THEN 42 ELSE 0)
    BY Zenon DEF ThirdSwap, LastToken
  <2>. HIDE DEF X, Z
  <2>2. Z \in Nat /\ X \in Nat
    BY <2>1
  <2>3. ASSUME Len(path) = 7 PROVE X = 48
    BY <2>1, <2>3, Zenon
  <2>4. ASSUME Len(path) = 5 PROVE X = 0
    <3>1. Len(path) # 7
      BY <2>4
    <3>. QED BY <2>1, <3>1, Zenon
  <2>. QED BY <2>1, <2>2, <2>3, <2>4, Zenon
<1>. HIDE DEF c, X, Z, n
<1>4. /\ IsCalldata(c)
      /\ At(c, 0, <<Selector(path), 2>>)
      /\ At(c, 2, <<path[2], 42>>) /\ At(c, 44, <<amount, 28>>)
      /\ At(c, 72, <<market[path[2]].fee, 4>>)
      /\ At(c, 76, <<IsZeroIn(market, path, 2), 2>>)
      /\ At(c, 78, <<path[4], 42>>)
      /\ At(c, 120, <<market[path[4]].fee, 4>>)
      /\ At(c, 124, <<IsZeroIn(market, path, 4), 2>>)
      /\ Len(path) = 7 =>
           /\ At(c, 126, <<path[6], 42>>)
           /\ At(c, 168, <<market[path[6]].fee, 4>>)
           /\ At(c, 172, <<IsZeroIn(market, path, 6), 2>>)
      /\ At(c, 126 + X, <<cost, 28>>) /\ At(c, 154 + X, <<path[1], 42>>)
      /\ At(c, 196 + X, <<path[3], 42>>)
      /\ path[1] # path[Len(path)] => At(c, 238 + X, <<path[Len(path)], 42>>)
      /\ Width(c) = 238 + X + Z + Width(HexBurners(burners))
      /\ \A from \in Nat : \A x : x[2] \in Nat /\ At(HexBurners(burners), from, x)
           => At(c, 238 + X + Z + from, x)
  <2>1. Laid(c, market, path, amount, cost, burners, X, Z)
    BY <1>2, FieldsAt, Zenon DEF c, X, Z, path, amount, cost
  <2>. QED BY <2>1, Zenon DEF Laid
<1>. HIDE DEF path, amount, cost
<1>0. IsCalldata(c) /\ 2 \in Nat /\ 28 \in Nat /\ 40 \in Nat /\ 42 \in Nat
  BY <1>4
<1>5. /\ Slice(c, 0, 2) = Selector(path) /\ Slice(c, 44, 72) = amount
      /\ SwapAt(c, 2, 72) = [pair |-> path[2], fee |-> market[path[2]].fee,
                             is0_in |-> IsZeroIn(market, path, 2)]
      /\ SwapAt(c, 78, 120) = [pair |-> path[4], fee |-> market[path[4]].fee,
                               is0_in |-> IsZeroIn(market, path, 4)]
  <2>1. Slice(c, 0, 2) = Selector(path) /\ Slice(c, 44, 72) = amount
    BY <1>4, SliceAt
  <2>2. SwapAt(c, 2, 72) = [pair |-> path[2], fee |-> market[path[2]].fee,
                               is0_in |-> IsZeroIn(market, path, 2)]
    <3>. DEFINE f == market[path[2]].fee
                z == IsZeroIn(market, path, 2)
    <3>1. At(c, 2, <<path[2], 42>>) /\ At(c, 72, <<f, 4>>) /\ At(c, 76, <<z, 2>>)
      BY <1>4, Zenon
    <3>2. 72 + 4 = 76 /\ 2 \in Nat /\ 72 \in Nat
      OBVIOUS
    <3>. HIDE DEF f, z
    <3>3. SwapAt(c, 2, 72) = [pair |-> path[2], fee |-> f, is0_in |-> z]
      BY <1>0, <3>1, <3>2, SwapIs
    <3>. QED BY <3>3 DEF f, z
  <2>3. SwapAt(c, 78, 120) = [pair |-> path[4], fee |-> market[path[4]].fee,
                               is0_in |-> IsZeroIn(market, path, 4)]
    <3>. DEFINE f == market[path[4]].fee
                z == IsZeroIn(market, path, 4)
    <3>1. At(c, 78, <<path[4], 42>>) /\ At(c, 120, <<f, 4>>) /\ At(c, 124, <<z, 2>>)
      BY <1>4, Zenon
    <3>2. 120 + 4 = 124 /\ 78 \in Nat /\ 120 \in Nat
      OBVIOUS
    <3>. HIDE DEF f, z
    <3>3. SwapAt(c, 78, 120) = [pair |-> path[4], fee |-> f, is0_in |-> z]
      BY <1>0, <3>1, <3>2, SwapIs
    <3>. QED BY <3>3 DEF f, z
  <2>. QED BY <2>1, <2>2, <2>3
<1>6. Len(path) = 7 =>
        SwapAt(c, 126, 168) = [pair |-> path[6], fee |-> market[path[6]].fee,
                               is0_in |-> IsZeroIn(market, path, 6)]
  <2>. SUFFICES ASSUME Len(path) = 7
                PROVE  SwapAt(c, 126, 168) = [pair |-> path[6], fee |-> market[path[6]].fee,
                                              is0_in |-> IsZeroIn(market, path, 6)]
    OBVIOUS
  <2>. DEFINE f == market[path[6]].fee
              z == IsZeroIn(market, path, 6)
  <2>1. At(c, 126, <<path[6], 42>>) /\ At(c, 168, <<f, 4>>) /\ At(c, 172, <<z, 2>>)
    BY <1>4, Zenon
  <2>2. 168 + 4 = 172 /\ 126 \in Nat /\ 168 \in Nat
    OBVIOUS
  <2>. HIDE DEF f, z
  <2>3. SwapAt(c, 126, 168) = [pair |-> path[6], fee |-> f, is0_in |-> z]
    BY <1>0, <2>1, <2>2, SwapIs
  <2>. QED BY <2>3 DEF f, z
<1>7. /\ selector = Selector(path) /\ selector \in 1..4
      /\ selector \in {2, 4} <=> path[1] # path[Len(path)]
      /\ at.swaps = (IF Len(path) = 7 THEN 3 ELSE 2)
      /\ at.cost = 126 + X /\ at.burners = 238 + X + Z
  <2>1. selector = Selector(path)
    BY <1>5
  <2>2. Len(path) \in {5, 7}
    BY DEF path
  <2>3. /\ Len(path) = 5 /\ path[1] = path[Len(path)] => Selector(path) = 1
        /\ Len(path) = 5 /\ path[1] # path[Len(path)] => Selector(path) = 2
        /\ Len(path) = 7 /\ path[1] = path[Len(path)] => Selector(path) = 3
        /\ Len(path) = 7 /\ path[1] # path[Len(path)] => Selector(path) = 4
    BY DEF Selector
  <2>4. /\ Offsets(1) = [swaps |-> 2, cost |-> 126, burners |-> 238]
        /\ Offsets(2) = [swaps |-> 2, cost |-> 126, burners |-> 280]
        /\ Offsets(3) = [swaps |-> 3, cost |-> 174, burners |-> 286]
        /\ Offsets(4) = [swaps |-> 3, cost |-> 174, burners |-> 328]
    BY DEF Offsets
  <2>. HIDE DEF selector
  <2>. QED BY <1>3, <2>1, <2>2, <2>3, <2>4
<1>. HIDE DEF selector, at
<1>8. /\ Slice(c, at.cost, at.cost + 28) = cost
      /\ Slice(c, at.cost + 28, at.cost + 70) = path[1]
      /\ Slice(c, at.cost + 70, at.cost + 112) = path[3]
      /\ path[1] # path[Len(path)]
           => Slice(c, at.cost + 112, at.cost + 154) = path[Len(path)]
  <2>0. at.cost = 126 + X /\ X \in Nat
    BY <1>3, <1>7
  <2>1. /\ at.cost \in Nat /\ at.cost + 28 = 154 + X
        /\ at.cost + 70 = 196 + X /\ at.cost + 112 = 238 + X
        /\ at.cost + 70 = (at.cost + 28) + 42 /\ at.cost + 112 = (at.cost + 70) + 42
        /\ at.cost + 154 = (at.cost + 112) + 42
        /\ at.cost + 28 \in Nat /\ at.cost + 70 \in Nat /\ at.cost + 112 \in Nat
        /\ at.cost + 154 \in Nat
    BY <2>0
  <2>2. Slice(c, at.cost, at.cost + 28) = cost
    <3>1. At(c, at.cost, <<cost, 28>>)
      BY <1>4, <2>0
    <3>. QED BY <1>0, <2>1, <3>1, SliceAt
  <2>3. Slice(c, at.cost + 28, at.cost + 70) = path[1]
    <3>. DEFINE p == at.cost + 28
                q == at.cost + 70
    <3>1. At(c, p, <<path[1], 42>>)
      BY <1>4, <2>1
    <3>2. q = p + 42
      BY <2>1
    <3>. HIDE DEF p, q
    <3>3. Slice(c, p, q) = path[1]
      BY <1>0, <3>1, <3>2, SliceAt, Zenon
    <3>. QED BY <3>3 DEF p, q
  <2>4. Slice(c, at.cost + 70, at.cost + 112) = path[3]
    <3>. DEFINE p == at.cost + 70
                q == at.cost + 112
    <3>1. At(c, p, <<path[3], 42>>)
      BY <1>4, <2>1
    <3>2. q = p + 42
      BY <2>1
    <3>. HIDE DEF p, q
    <3>3. Slice(c, p, q) = path[3]
      BY <1>0, <3>1, <3>2, SliceAt, Zenon
    <3>. QED BY <3>3 DEF p, q
  <2>5. path[1] # path[Len(path)] => Slice(c, at.cost + 112, at.cost + 154) = path[Len(path)]
    <3>. DEFINE p == at.cost + 112
                q == at.cost + 154
    <3>1. path[1] # path[Len(path)] => At(c, p, <<path[Len(path)], 42>>)
      BY <1>4, <2>1
    <3>2. q = p + 42
      BY <2>1
    <3>. HIDE DEF p, q
    <3>3. path[1] # path[Len(path)] => Slice(c, p, q) = path[Len(path)]
      BY <1>0, <3>1, <3>2, SliceAt, Zenon
    <3>. QED BY <3>3 DEF p, q
  <2>. QED BY <2>2, <2>3, <2>4, <2>5
<1>9. at.burners = 238 + X + Z /\ at.burners \in Nat /\ at.burners + 2 \in Nat
  BY <1>3, <1>7
<1>10. /\ count = IF burners = <<>> /\ BurnersEnabled THEN 1 ELSE n
       /\ Kept(all, ToSet(all) \ {Nothing}) = burners
  <2>1. CASE burners # <<>>
    <3>1. /\ At(HexBurners(burners), 0, <<n, 2>>)
          /\ \A k \in 1..n : At(HexBurners(burners), 2 + 40 * (k - 1), <<burners[k], 40>>)
      BY <2>1, BurnersAt, Zenon DEF n
    <3>2. \A v, w : <<v, w>>[2] = w
      OBVIOUS
    <3>3. At(c, at.burners + 0, <<n, 2>>)
      BY <1>4, <1>9, <3>1, <3>2
    <3>4. stated = n
      <4>1. at.burners + 0 = at.burners
        BY <1>9
      <4>. QED BY <1>4, <1>9, <3>3, <4>1, SliceAt
    <3>. HIDE DEF stated
    <3>5. count = n
      BY <1>1, <3>4, NothingAssumption
    <3>6. ASSUME NEW k \in 1..n
          PROVE  Slice(c, at.burners + 2 + 40 * (k - 1), at.burners + 2 + 40 * k) = burners[k]
      <4>1. /\ 2 + 40 * (k - 1) \in Nat
            /\ at.burners + (2 + 40 * (k - 1)) = at.burners + 2 + 40 * (k - 1)
            /\ at.burners + 2 + 40 * k = (at.burners + 2 + 40 * (k - 1)) + 40
            /\ at.burners + 2 + 40 * (k - 1) \in Nat /\ at.burners + 2 + 40 * k \in Nat
        <5>. DEFINE m == 40 * (k - 1)
                    b == at.burners
        <5>1. m \in Nat /\ b \in Nat /\ 40 * k = m + 40
          BY <1>1, <1>9
        <5>. HIDE DEF m, b
        <5>2. /\ 2 + m \in Nat /\ b + (2 + m) = b + 2 + m
              /\ b + 2 + (m + 40) = (b + 2 + m) + 40
              /\ b + 2 + m \in Nat /\ b + 2 + (m + 40) \in Nat
          BY <5>1
        <5>. QED BY <5>1, <5>2 DEF m, b
      <4>2. At(c, at.burners + (2 + 40 * (k - 1)), <<burners[k], 40>>)
        <5>1. <<burners[k], 40>>[2] \in Nat
          OBVIOUS
        <5>. QED BY <1>4, <1>9, <3>1, <4>1, <5>1
      <4>3. At(c, at.burners + 2 + 40 * (k - 1), <<burners[k], 40>>)
        BY <4>1, <4>2
      <4>. QED BY <1>0, <4>1, <4>3, SliceAt
    <3>. HIDE DEF count
    <3>7. all = burners
      <4>1. all = [k \in 1..n |-> burners[k]]
        BY <3>5, <3>6
      <4>2. burners = [k \in 1..n |-> burners[k]]
        BY <1>1 DEF n
      <4>. QED BY <4>1, <4>2, Zenon
    <3>. HIDE DEF all
    <3>8. Nothing \notin ToSet(burners)
      BY <1>1
    <3>9. ToSet(burners) \subseteq ToSet(burners) \ {Nothing}
      BY <3>8
    <3>10. Kept(burners, ToSet(burners) \ {Nothing}) = burners
      BY <3>9, KeptAll
    <3>. QED BY <2>1, <3>5, <3>7, <3>10
  <2>2. CASE burners = <<>> /\ BurnersEnabled
    <3>1. HexBurners(burners) = <<<<1, 2>>>>
      BY <2>2, Zenon DEF HexBurners, Uint8
    <3>2. /\ At(HexBurners(burners), 0, <<1, 2>>) /\ Width(HexBurners(burners)) = 2
      <4>1. 2 \in Nat \ {0}
        OBVIOUS
      <4>. QED BY <3>1, <4>1, OneField
    <3>3. At(c, at.burners + 0, <<1, 2>>)
      <4>1. <<1, 2>>[2] \in Nat
        OBVIOUS
      <4>. QED BY <1>4, <1>9, <3>2, <4>1
    <3>4. stated = 1
      <4>1. at.burners + 0 = at.burners
        BY <1>9
      <4>. QED BY <1>4, <1>9, <3>3, <4>1, SliceAt
    <3>. HIDE DEF stated
    <3>5. count = 1
      BY <3>4, NothingAssumption
    <3>6. Slice(c, at.burners + 2 + 40 * (1 - 1), at.burners + 2 + 40 * 1) = Nothing
      <4>1. /\ at.burners + 2 + 40 * (1 - 1) = at.burners + 2
            /\ at.burners + 2 + 40 * 1 = (at.burners + 2) + 40
            /\ at.burners + 2 + 40 * 1 \in Nat
        BY <1>9
      <4>2. Width(c) <= at.burners + 2
        BY <1>4, <1>9, <3>2
      <4>3. Slice(c, at.burners + 2, at.burners + 2 + 40 * 1) = Nothing
        BY <1>0, <4>2, SliceBehind, Zenon
      <4>. QED BY <4>1, <4>3
    <3>. HIDE DEF count
    <3>7. all = <<Nothing>>
      <4>1. \A k \in 1..1 : Slice(c, at.burners + 2 + 40 * (k - 1), at.burners + 2 + 40 * k)
                              = Nothing
        BY <3>6
      <4>2. all = [k \in 1..1 |-> Nothing]
        BY <3>5, <4>1
      <4>3. <<Nothing>> = [k \in 1..1 |-> Nothing]
        OBVIOUS
      <4>. QED BY <4>2, <4>3, Zenon
    <3>. HIDE DEF all
    <3>8. /\ <<Nothing>> \in Seq({Nothing}) /\ ToSet(<<Nothing>>) \ {Nothing} = {}
      BY DEF ToSet
    <3>9. Kept(<<Nothing>>, {}) \in Seq({Nothing}) /\ ToSet(Kept(<<Nothing>>, {})) = {}
      <4>. DEFINE k == Kept(<<Nothing>>, {})
      <4>1. k \in Seq({Nothing}) /\ ToSet(k) = ToSet(<<Nothing>>) \cap {}
        BY <3>8, KeptIs, Zenon
      <4>. HIDE DEF k
      <4>2. k \in Seq({Nothing}) /\ ToSet(k) = {}
        BY <4>1
      <4>. QED BY <4>2 DEF k
    <3>10. Kept(<<Nothing>>, {}) = <<>>
      <4>. DEFINE k == Kept(<<Nothing>>, {})
      <4>. HIDE DEF k
      <4>1. k \in Seq({Nothing}) /\ ToSet(k) = {}
        BY <3>9 DEF k
      <4>2. k = <<>>
        <5>1. Len(k) \in Nat /\ DOMAIN k = 1..Len(k)
          BY <4>1
        <5>2. ~(1 \in 1..Len(k))
          BY <4>1, <5>1 DEF ToSet
        <5>3. Len(k) = 0
          BY <5>1, <5>2
        <5>. QED BY <4>1, <5>3
      <4>. QED BY <4>2 DEF k
    <3>. QED BY <2>2, <3>5, <3>7, <3>8, <3>10
  <2>3. CASE burners = <<>> /\ ~BurnersEnabled
    <3>1. Width(HexBurners(burners)) = 0
      <4>1. HexBurners(burners) = <<>>
        BY <2>3, Zenon DEF HexBurners
      <4>. QED BY <4>1, NoFields
    <3>2. stated = Nothing
      <4>1. Width(c) <= at.burners
        BY <1>4, <1>9, <3>1
      <4>. QED BY <1>0, <4>1, SliceBehind, Zenon
    <3>. HIDE DEF stated
    <3>3. count = 0 /\ n = 0
      BY <2>3, <3>2 DEF n
    <3>. HIDE DEF count
    <3>4. all = <<>>
      BY <3>3
    <3>. HIDE DEF all
    <3>5. <<>> \in Seq({}) /\ ToSet(<<>>) \subseteq {}
      BY DEF ToSet
    <3>6. Kept(<<>>, ToSet(<<>>) \ {Nothing}) = <<>>
      <4>1. ToSet(<<>>) \subseteq ToSet(<<>>) \ {Nothing}
        BY <3>5
      <4>. QED BY <3>5, <4>1, KeptAll
    <3>. QED BY <2>3, <3>3, <3>4, <3>6
  <2>. QED BY <2>1, <2>2, <2>3
<1>11. SubSeq(swaps, 1, at.swaps) =
         [k \in 1..(Len(path) \div 2) |->
            [pair |-> path[2 * k], fee |-> market[path[2 * k]].fee,
             is0_in |-> IsZeroIn(market, path, 2 * k)]]
  <2>. DEFINE S(k) == [pair |-> path[2 * k], fee |-> market[path[2 * k]].fee,
                       is0_in |-> IsZeroIn(market, path, 2 * k)]
  <2>1. 2 * 1 = 2 /\ 2 * 2 = 4 /\ 2 * 3 = 6
    OBVIOUS
  <2>2. swaps[1] = S(1) /\ swaps[2] = S(2) /\ (Len(path) = 7 => swaps[3] = S(3))
    BY <1>5, <1>6, <2>1
  <2>3. \A a \in {2, 3} : SubSeq(swaps, 1, a) = [k \in 1..a |-> swaps[k]]
    OBVIOUS
  <2>. HIDE DEF swaps, S
  <2>4. Len(path) = 5 => Len(path) \div 2 = 2
    OBVIOUS
  <2>5. Len(path) = 7 => Len(path) \div 2 = 3
    OBVIOUS
  <2>6. Len(path) \in {5, 7}
    BY DEF path
  <2>7. [k \in 1..2 |-> swaps[k]] = [k \in 1..2 |-> S(k)]
    BY <2>2
  <2>8. Len(path) = 7 => [k \in 1..3 |-> swaps[k]] = [k \in 1..3 |-> S(k)]
    BY <2>2
  <2>9. SubSeq(swaps, 1, at.swaps) = [k \in 1..(Len(path) \div 2) |-> S(k)]
    <3>1. CASE Len(path) = 5
      <4>1. at.swaps = 2
        BY <1>7, <3>1
      <4>. QED BY <2>3, <2>4, <2>7, <3>1, <4>1
    <3>2. CASE Len(path) = 7
      <4>1. at.swaps = 3
        BY <1>7, <3>2
      <4>. QED BY <2>3, <2>5, <2>8, <3>2, <4>1
    <3>. QED BY <2>6, <3>1, <3>2
  <2>. QED BY <2>9, Zenon DEF S
<1>. DEFINE swapsRead == SubSeq(swaps, 1, at.swaps)
            keptRead == Kept(all, ToSet(all) \ {Nothing})
            last == IF selector \in {2, 4}
                    THEN Slice(c, at.cost + 112, at.cost + 154) ELSE Nothing
<1>12. decode_arb_args(c) =
         [selector |-> selector, swaps_data |-> swapsRead,
          amount_in |-> Slice(c, 44, 72), tx_cost |-> Slice(c, at.cost, at.cost + 28),
          token_in |-> Slice(c, at.cost + 28, at.cost + 70),
          first_token_out |-> Slice(c, at.cost + 70, at.cost + 112),
          token_out |-> last, burners_len |-> count, burners |-> keptRead]
  BY Zenon DEF decode_arb_args, selector, at
<1>13. last = IF path[Len(path)] # path[1] THEN path[Len(path)] ELSE Nothing
  BY <1>7, <1>8
<1>. HIDE DEF last, keptRead, swapsRead, count
<1>14. Described(arb, market, burners) =
         [selector |-> Selector(path),
          swaps_data |-> [k \in 1..(Len(path) \div 2) |->
             [pair |-> path[2 * k], fee |-> market[path[2 * k]].fee,
              is0_in |-> IsZeroIn(market, path, 2 * k)]],
          amount_in |-> amount, tx_cost |-> cost,
          token_in |-> path[1], first_token_out |-> path[3],
          token_out |-> IF path[Len(path)] # path[1] THEN path[Len(path)] ELSE Nothing,
          burners_len |-> IF burners = <<>> /\ BurnersEnabled THEN 1 ELSE n,
          burners |-> burners]
  BY Zenon DEF Described, path, amount, cost, n
<1>15. /\ swapsRead = [k \in 1..(Len(path) \div 2) |->
             [pair |-> path[2 * k], fee |-> market[path[2 * k]].fee,
              is0_in |-> IsZeroIn(market, path, 2 * k)]]
       /\ keptRead = burners
  BY <1>10, <1>11, Zenon DEF swapsRead, keptRead
<1>16. /\ selector = Selector(path) /\ Slice(c, 44, 72) = amount
       /\ count = IF burners = <<>> /\ BurnersEnabled THEN 1 ELSE n
  BY <1>5, <1>7, <1>10, Zenon
<1>17. decode_arb_args(c) = Described(arb, market, burners)
  BY <1>8, <1>12, <1>13, <1>14, <1>15, <1>16, ZenonT(60)
<1>. QED BY <1>17 DEF c

\* However many burners there are, what is read is what was written: a path has
\* two pools or three, as create_arb_args raises ArbitrageError for any other.
THEOREM ArgumentsSurvive == Spec => []ArgumentsRoundTrip
<1>1. ASSUME NEW path \in Paths, NEW count \in 0..3
      PROVE  LET arb == [path |-> path, amount_in |-> 6, tx_cost |-> 14]
                 burners == SubSeq(SomeBurners, 1, count)
             IN  decode_arb_args(create_arb_args(arb, pools, burners))
                   = Described(arb, pools, burners)
  <2>. DEFINE arb == [path |-> path, amount_in |-> 6, tx_cost |-> 14]
              burners == SubSeq(SomeBurners, 1, count)
  <2>1. Len(arb.path) \in {5, 7}
    BY LengthAssumption
  <2>2. SomeBurners \in Seq(ToSet(SomeBurners)) /\ Len(SomeBurners) = 3
    BY DEF SomeBurners, ToSet
  <2>3. burners \in Seq(ToSet(SomeBurners)) /\ Len(burners) < 256
    BY <2>2, SubSeqIs
  <2>4. Nothing \notin ToSet(SomeBurners)
    BY SomeBurnersAssumption
  <2>. HIDE DEF arb, burners
  <2>5. decode_arb_args(create_arb_args(arb, pools, burners)) = Described(arb, pools, burners)
    BY <2>1, <2>3, <2>4, ArgumentsDecode
  <2>. QED BY <2>5 DEF arb, burners
<1>2. ArgumentsRoundTrip
  BY <1>1, Zenon DEF ArgumentsRoundTrip
<1>. QED BY <1>2, PTL
=============================================================================
